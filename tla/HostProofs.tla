----------------------------- MODULE HostProofs -----------------------------
(***************************************************************************)
(* Proofs about the hosts of the session manager: the forms about a host,  *)
(* the rows of the browser, and the inventory with the dialogs that edit   *)
(* it. Each part has an inductive invariant of its own, and its theorems   *)
(* at its end.                                                             *)
(*                                                                         *)
(* What they compute on lists they compute with functions that are         *)
(* recursive on the naturals. Such a function exists, and has a property   *)
(* for every argument, because there is no least argument without:         *)
(* LeastNat takes the place of induction. The tree is the result of a walk *)
(* through the files; what holds of a load when the root is opened, and    *)
(* stays with each part of the work, holds of the tree.                    *)
(***************************************************************************)
EXTENDS HostForm, HostRows, HostDialogs, SequenceTheorems, FiniteSetTheorems,
        WellFoundedInduction, TLAPS

-----------------------------------------------------------------------------
\* The least-number principle, for a set: what every induction below rests on.
LEMMA LeastNat ==
    ASSUME NEW S \in SUBSET Nat, S # {}
    PROVE  \E m \in S : \A n \in S : m <= n
<1>1. PICK m \in S : \A n \in S : <<n, m>> \notin OpToRel(<, Nat)
    BY NatLessThanWellFounded, WFMin, Zenon
<1>2. ASSUME NEW n \in Nat, NEW k \in Nat, <<n, k>> \notin OpToRel(<, Nat)
      PROVE  k <= n
    BY <1>2 DEF OpToRel
<1> QED
    BY <1>1, <1>2

-----------------------------------------------------------------------------
(* Lists: filtering a list *)

Taking(f, s, keep, n) ==
    f = [k \in 0..n |->
            IF k = 0 THEN <<>>
            ELSE IF s[k] \in keep THEN Append(f[k - 1], s[k]) ELSE f[k - 1]]

LEMMA TakingExists ==
    ASSUME NEW s, NEW keep, NEW n \in Nat
    PROVE  \E f : Taking(f, s, keep, n)
<1> DEFINE S == {m \in Nat : ~ \E f : Taking(f, s, keep, m)}
<1> SUFFICES ASSUME S # {} PROVE FALSE
    OBVIOUS
<1>1. PICK m \in S : \A k \in S : m <= k
    BY LeastNat
<1>2. m # 0
    <2> DEFINE g == [k \in 0..0 |-> <<>>]
    <2>1. Taking(g, s, keep, 0)
        BY DEF Taking
    <2> QED
        BY <2>1
<1>3. m - 1 \in Nat /\ m - 1 \notin S
    BY <1>1, <1>2
<1>4. PICK f : Taking(f, s, keep, m - 1)
    BY <1>3
<1> DEFINE last == IF s[m] \in keep THEN Append(f[m - 1], s[m]) ELSE f[m - 1]
           g == [k \in 0..m |-> IF k = m THEN last ELSE f[k]]
<1>5. Taking(g, s, keep, m)
    <2>1. m \in Nat
        BY <1>1
    <2> HIDE DEF last
    <2>2. \A k \in 0..(m - 1) : g[k] = f[k]
        BY <1>3, <2>1
    <2>3. g[m] = last
        BY <2>1
    <2>4. \A k \in 1..m : k - 1 \in 0..(m - 1) /\ k - 1 \in 0..m
        BY <2>1
    <2>5. last = IF s[m] \in keep THEN Append(g[m - 1], s[m]) ELSE g[m - 1]
        BY <1>3, <2>1, <2>2 DEF last
    <2>6. ASSUME NEW k \in 0..m
          PROVE  g[k] = IF k = 0 THEN <<>>
                        ELSE IF s[k] \in keep THEN Append(g[k - 1], s[k]) ELSE g[k - 1]
        <3>1. CASE k = m
            BY <1>2, <2>3, <2>5, <3>1
        <3>2. CASE k # m
            <4>1. k \in 0..(m - 1)
                BY <2>1, <3>2
            <4>2. f[k] = IF k = 0 THEN <<>>
                         ELSE IF s[k] \in keep THEN Append(f[k - 1], s[k]) ELSE f[k - 1]
                BY <1>4, <4>1 DEF Taking
            <4>3. k # 0 => g[k - 1] = f[k - 1]
                BY <2>1, <2>2, <4>1
            <4>4. g[k] = f[k]
                BY <2>2, <4>1
            <4> HIDE DEF g
            <4> QED
                BY <4>2, <4>3, <4>4
        <3> QED
            BY <3>1, <3>2
    <2>7. g = [k \in 0..m |-> g[k]]
        OBVIOUS
    <2> HIDE DEF g
    <2> QED
        BY <2>6, <2>7 DEF Taking
<1> QED
    BY <1>1, <1>5

LEMMA AppendRange ==
    ASSUME NEW S, NEW t \in Seq(S), NEW e \in S
    PROVE  Append(t, e) \in Seq(S) /\ Range(Append(t, e)) = Range(t) \cup {e}
<1> DEFINE u == Append(t, e)
<1>1. /\ u \in Seq(S) /\ Len(u) = Len(t) + 1 /\ Len(t) \in Nat
      /\ \A i \in 1..Len(t) : u[i] = t[i]
      /\ u[Len(t) + 1] = e
    BY AppendProperties, LenProperties
<1> HIDE DEF u
<1>2. DOMAIN u = 1..(Len(t) + 1) /\ DOMAIN t = 1..Len(t)
    BY <1>1, LenProperties
<1>3. Range(u) = Range(t) \cup {e}
    BY <1>1, <1>2 DEF Range
<1> QED
    BY <1>1, <1>3 DEF u

\* What is kept is a list, of exactly the items that were to be kept.
LEMMA FilteredIs ==
    ASSUME NEW S, NEW s \in Seq(S), NEW keep
    PROVE  Filtered(s, keep) \in Seq(S) /\ Range(Filtered(s, keep)) = Range(s) \cap keep
<1> DEFINE n == Len(s)
<1>1. n \in Nat /\ \A i \in 1..n : s[i] \in S
    BY LenProperties, ElementOfSeq
<1> DEFINE f == CHOOSE g : Taking(g, s, keep, n)
           OK(k) == f[k] \in Seq(S) /\ Range(f[k]) = {s[i] : i \in {j \in 1..k : s[j] \in keep}}
<1>2. Taking(f, s, keep, n)
    <2>1. \E g : Taking(g, s, keep, n)
        BY <1>1, TakingExists
    <2> QED
        BY <2>1, Zenon
<1>3. Filtered(s, keep) = f[n]
    BY Zenon DEF Filtered, Taking
<1> HIDE DEF f
<1>4. /\ f[0] = <<>>
      /\ \A k \in 1..n : f[k] = IF s[k] \in keep THEN Append(f[k - 1], s[k]) ELSE f[k - 1]
    <2>1. ASSUME NEW k \in 0..n
          PROVE  f[k] = IF k = 0 THEN <<>>
                        ELSE IF s[k] \in keep THEN Append(f[k - 1], s[k]) ELSE f[k - 1]
        BY <1>2 DEF Taking
    <2>2. 0 \in 0..n /\ \A k \in 1..n : k \in 0..n /\ k # 0
        BY <1>1
    <2> HIDE DEF n
    <2> QED
        BY <2>1, <2>2
<1>5. OK(0)
    <2>1. <<>> \in Seq(S) /\ Range(<<>>) = {}
        BY EmptySeq DEF Range
    <2>2. {j \in 1..0 : s[j] \in keep} = {}
        OBVIOUS
    <2> QED
        BY <1>4, <2>1, <2>2
<1>6. ASSUME NEW k \in 1..n, OK(k - 1) PROVE OK(k)
    <2>1. k \in Nat /\ s[k] \in S /\ f[k - 1] \in Seq(S)
        BY <1>1, <1>6
    <2> DEFINE kept(m) == {j \in 1..m : s[j] \in keep}
    <2>2. CASE s[k] \in keep
        <3>1. f[k] = Append(f[k - 1], s[k])
            BY <1>4, <2>2
        <3>2. f[k] \in Seq(S) /\ Range(f[k]) = Range(f[k - 1]) \cup {s[k]}
            BY <2>1, <3>1, AppendRange
        <3>3. kept(k) = kept(k - 1) \cup {k}
            BY <2>1, <2>2
        <3> HIDE DEF kept
        <3>4. {s[i] : i \in kept(k)} = {s[i] : i \in kept(k - 1)} \cup {s[k]}
            BY <3>3
        <3> QED
            BY <1>6, <3>2, <3>4 DEF kept
    <2>3. CASE s[k] \notin keep
        <3>1. f[k] = f[k - 1]
            BY <1>4, <2>3
        <3>2. kept(k) = kept(k - 1)
            BY <2>1, <2>3
        <3> QED
            BY <1>6, <3>1, <3>2, Zenon
    <2> QED
        BY <2>2, <2>3
<1>7. \A k \in 0..n : OK(k)
    <2> DEFINE Bad == {k \in 0..n : ~OK(k)}
    <2> SUFFICES ASSUME Bad # {} PROVE FALSE
        BY Zenon
    <2>1. PICK k \in Bad : \A j \in Bad : k <= j
        <3>1. \A k \in Bad : k \in Nat
            BY <1>1
        <3> HIDE DEF Bad
        <3> QED
            BY <3>1, LeastNat
    <2>2. k \in 1..n /\ k - 1 \in 0..n /\ k - 1 \notin Bad
        <3>1. k \in 0..n /\ k # 0
            BY <1>5, <2>1, Zenon
        <3>2. k \in 1..n /\ k - 1 \in 0..n /\ ~(k <= k - 1)
            BY <1>1, <3>1
        <3> QED
            BY <2>1, <3>2, Zenon
    <2>3. OK(k - 1)
        BY <2>2, Zenon
    <2>4. OK(k)
        BY <1>6, <2>2, <2>3, Zenon
    <2> QED
        BY <2>1, <2>4, Zenon
<1>8. OK(n)
    <2>1. n \in 0..n
        BY <1>1
    <2> QED
        BY <1>7, <2>1, Zenon
<1>9. {s[i] : i \in {j \in 1..n : s[j] \in keep}} = Range(s) \cap keep
    <2>1. DOMAIN s = 1..n
        BY LenProperties
    <2> QED
        BY <2>1 DEF Range
<1> QED
    BY <1>3, <1>8, <1>9, Zenon

-----------------------------------------------------------------------------
(* Lists: lists, joined *)

Flattening(f, ss, n) == f = [i \in 1..n |-> IF i = 1 THEN ss[i] ELSE f[i - 1] \o ss[i]]

LEMMA FlatteningExists ==
    ASSUME NEW ss, NEW n \in Nat
    PROVE  \E f : Flattening(f, ss, n)
<1> DEFINE S == {m \in Nat : ~ \E f : Flattening(f, ss, m)}
<1> SUFFICES ASSUME S # {} PROVE FALSE
    OBVIOUS
<1>1. PICK m \in S : \A k \in S : m <= k
    BY LeastNat
<1>2. m # 0
    <2> DEFINE g == [i \in 1..0 |-> ss]
    <2>1. Flattening(g, ss, 0)
        BY DEF Flattening
    <2> QED
        BY <2>1
<1>3. m \in Nat /\ m - 1 \in Nat /\ m - 1 \notin S
    BY <1>1, <1>2
<1>4. PICK f : Flattening(f, ss, m - 1)
    BY <1>3
<1> DEFINE last == IF m = 1 THEN ss[m] ELSE f[m - 1] \o ss[m]
           g == [i \in 1..m |-> IF i = m THEN last ELSE f[i]]
<1>5. Flattening(g, ss, m)
    <2> HIDE DEF last
    <2>1. \A i \in 1..(m - 1) : g[i] = f[i]
        BY <1>3
    <2>2. g[m] = last
        BY <1>2, <1>3
    <2>3. last = IF m = 1 THEN ss[m] ELSE g[m - 1] \o ss[m]
        <3>1. CASE m = 1
            BY <3>1 DEF last
        <3>2. CASE m # 1
            <4>1. m - 1 \in 1..(m - 1)
                BY <1>2, <1>3, <3>2
            <4> QED
                BY <2>1, <3>2, <4>1 DEF last
        <3> QED
            BY <3>1, <3>2
    <2>4. ASSUME NEW i \in 1..m PROVE g[i] = IF i = 1 THEN ss[i] ELSE g[i - 1] \o ss[i]
        <3>1. CASE i = m
            BY <2>2, <2>3, <3>1
        <3>2. CASE i # m
            <4>1. i \in 1..(m - 1)
                BY <1>3, <3>2
            <4>2. f[i] = IF i = 1 THEN ss[i] ELSE f[i - 1] \o ss[i]
                BY <1>4, <4>1 DEF Flattening
            <4>3. i # 1 => i - 1 \in 1..(m - 1)
                BY <1>3, <4>1
            <4>4. g[i] = f[i] /\ (i # 1 => g[i - 1] = f[i - 1])
                BY <2>1, <4>1, <4>3
            <4> HIDE DEF g
            <4> QED
                BY <4>2, <4>4
        <3> QED
            BY <3>1, <3>2
    <2>5. g = [i \in 1..m |-> g[i]]
        OBVIOUS
    <2> HIDE DEF g
    <2> QED
        BY <2>4, <2>5 DEF Flattening
<1> QED
    BY <1>1, <1>5

LEMMA ConcatRange ==
    ASSUME NEW S, NEW s \in Seq(S), NEW t \in Seq(S)
    PROVE  s \o t \in Seq(S) /\ Range(s \o t) = Range(s) \cup Range(t)
<1> DEFINE u == s \o t
<1>1. /\ u \in Seq(S) /\ Len(u) = Len(s) + Len(t) /\ Len(s) \in Nat /\ Len(t) \in Nat
      /\ \A i \in 1..(Len(s) + Len(t)) : u[i] = IF i <= Len(s) THEN s[i] ELSE t[i - Len(s)]
    BY ConcatProperties, LenProperties
<1> HIDE DEF u
<1>2. /\ DOMAIN u = 1..(Len(s) + Len(t)) /\ DOMAIN s = 1..Len(s) /\ DOMAIN t = 1..Len(t)
    BY <1>1, LenProperties
<1>3. \A i \in 1..Len(s) : i \in DOMAIN u /\ u[i] = s[i]
    BY <1>1, <1>2
<1>4. \A i \in 1..Len(t) : i + Len(s) \in DOMAIN u /\ u[i + Len(s)] = t[i]
    <2> TAKE i \in 1..Len(t)
    <2> DEFINE j == i + Len(s)
    <2>1. j \in 1..(Len(s) + Len(t)) /\ ~(j <= Len(s)) /\ j - Len(s) = i
        BY <1>1
    <2> HIDE DEF j
    <2>2. u[j] = t[j - Len(s)]
        BY <1>1, <2>1
    <2>3. u[j] = t[i] /\ j \in DOMAIN u
        BY <1>2, <2>1, <2>2
    <2> QED
        BY <2>3 DEF j
<1>5. \A i \in DOMAIN u : u[i] \in Range(s) \cup Range(t)
    <2> TAKE i \in DOMAIN u
    <2>1. CASE i <= Len(s)
        <3>1. i \in DOMAIN s /\ u[i] = s[i]
            BY <1>1, <1>2, <2>1
        <3> QED
            BY <3>1 DEF Range
    <2>2. CASE ~(i <= Len(s))
        <3>1. i - Len(s) \in DOMAIN t /\ u[i] = t[i - Len(s)]
            BY <1>1, <1>2, <2>2
        <3> QED
            BY <3>1 DEF Range
    <2> QED
        BY <2>1, <2>2
<1>6. Range(u) \subseteq Range(s) \cup Range(t)
    BY <1>5 DEF Range
<1>7. Range(s) \subseteq Range(u)
    BY <1>2, <1>3 DEF Range
<1>8. Range(t) \subseteq Range(u)
    BY <1>2, <1>4 DEF Range
<1>9. Range(u) = Range(s) \cup Range(t)
    BY <1>6, <1>7, <1>8
<1> QED
    BY <1>1, <1>9 DEF u

\* Lists that are joined hold what each of them holds.
LEMMA FlattenIs ==
    ASSUME NEW S, NEW n \in Nat \ {0}, NEW ss \in [1..n -> Seq(S)], Len(ss) = n
    PROVE  /\ FlattenSeq(ss) \in Seq(S)
           /\ Range(FlattenSeq(ss)) = UNION {Range(ss[i]) : i \in 1..n}
<1> DEFINE f == CHOOSE g : Flattening(g, ss, n)
           OK(k) == f[k] \in Seq(S) /\ Range(f[k]) = UNION {Range(ss[i]) : i \in 1..k}
<1>1. Flattening(f, ss, n)
    <2>1. \E g : Flattening(g, ss, n)
        BY FlatteningExists
    <2> QED
        BY <2>1, Zenon
<1>2. FlattenSeq(ss) = f[n]
    BY DEF FlattenSeq, Flattening
<1> HIDE DEF f
<1>3. \A i \in 1..n : f[i] = IF i = 1 THEN ss[i] ELSE f[i - 1] \o ss[i]
    BY <1>1 DEF Flattening
<1>4. \A i \in 1..n : ss[i] \in Seq(S)
    OBVIOUS
<1>5. OK(1)
    <2>1. f[1] = ss[1] /\ 1 \in 1..n
        BY <1>3
    <2>2. UNION {Range(ss[i]) : i \in 1..1} = Range(ss[1])
        OBVIOUS
    <2> QED
        BY <1>4, <2>1, <2>2
<1>6. ASSUME NEW k \in 2..n, OK(k - 1) PROVE OK(k)
    <2>0. k \in 1..n /\ k # 1
        OBVIOUS
    <2>1. f[k] = f[k - 1] \o ss[k] /\ k \in 1..n
        BY <1>3, <2>0, Zenon
    <2>2. f[k] \in Seq(S) /\ Range(f[k]) = Range(f[k - 1]) \cup Range(ss[k])
        BY <1>4, <1>6, <2>1, ConcatRange
    <2>3. 1..k = (1..(k - 1)) \cup {k}
        OBVIOUS
    <2>4. UNION {Range(ss[i]) : i \in 1..k} = (UNION {Range(ss[i]) : i \in 1..(k - 1)}) \cup Range(ss[k])
        <3> DEFINE A == 1..(k - 1)
        <3> HIDE DEF A
        <3>1. UNION {Range(ss[i]) : i \in A \cup {k}} = (UNION {Range(ss[i]) : i \in A}) \cup Range(ss[k])
            BY Zenon
        <3> QED
            BY <2>3, <3>1, Zenon DEF A
    <2> QED
        BY <1>6, <2>2, <2>4
<1>7. \A k \in 1..n : OK(k)
    <2> DEFINE Bad == {k \in 1..n : ~OK(k)}
    <2> SUFFICES ASSUME Bad # {} PROVE FALSE
        BY Zenon
    <2>1. PICK k \in Bad : \A j \in Bad : k <= j
        <3>1. \A k \in Bad : k \in Nat
            OBVIOUS
        <3> HIDE DEF Bad
        <3> QED
            BY <3>1, LeastNat
    <2>2. k \in 2..n /\ k - 1 \in 1..n /\ k - 1 \notin Bad
        <3>1. k \in 1..n /\ k # 1
            BY <1>5, <2>1, Zenon
        <3>2. k \in 2..n /\ k - 1 \in 1..n /\ ~(k <= k - 1)
            BY <3>1
        <3> QED
            BY <2>1, <3>2, Zenon
    <2>3. OK(k - 1)
        BY <2>2, Zenon
    <2>4. OK(k)
        BY <1>6, <2>2, <2>3, Zenon
    <2> QED
        BY <2>1, <2>4, Zenon
<1>8. OK(n)
    <2>1. n \in 1..n
        OBVIOUS
    <2> QED
        BY <1>7, <2>1, Zenon
<1> QED
    BY <1>2, <1>8, Zenon

-----------------------------------------------------------------------------
(* HostForm: what a form shows *)

LEMMA ToSetIsRange == ASSUME NEW s PROVE ToSet(s) = Range(s)
    BY DEF ToSet, Range

LEMMA EmptyRange ==
    ASSUME NEW S, NEW s \in Seq(S)
    PROVE  s = <<>> <=> ToSet(s) = {}
<1>1. DOMAIN s = 1..Len(s) /\ Len(s) \in Nat /\ (s = <<>> <=> Len(s) = 0)
    BY EmptySeq, LenProperties
<1>2. s # <<>> => s[1] \in ToSet(s)
    <2>1. s # <<>> => 1 \in DOMAIN s
        BY <1>1
    <2> QED
        BY <2>1 DEF ToSet
<1>3. s = <<>> => ToSet(s) = {}
    BY <1>1 DEF ToSet
<1> QED
    BY <1>2, <1>3

\* The lists written out, as sets.
LEMMA Spelled ==
    /\ \A a : ToSet(<<a>>) = {a}
    /\ \A a, b : ToSet(<<a, b>>) = {a, b}
    /\ \A a, b, c, d : ToSet(<<a, b, c, d>>) = {a, b, c, d}
    /\ \A a, b, c, d, e : ToSet(<<a, b, c, d, e>>) = {a, b, c, d, e}
    /\ \A a, b, c, d, e, g : ToSet(<<a, b, c, d, e, g>>) = {a, b, c, d, e, g}
<1>1. 1..1 = {1} /\ 1..2 = {1, 2} /\ 1..4 = {1, 2, 3, 4}
    OBVIOUS
<1>2. 1..5 = {1, 2, 3, 4, 5} /\ 1..6 = {1, 2, 3, 4, 5, 6}
    OBVIOUS
<1>3. \A a : ToSet(<<a>>) = {a}
    BY <1>1 DEF ToSet
<1>4. \A a, b : ToSet(<<a, b>>) = {a, b}
    BY <1>1 DEF ToSet
<1>5. \A a, b, c, d : ToSet(<<a, b, c, d>>) = {a, b, c, d}
    BY <1>1 DEF ToSet
<1>6. \A a, b, c, d, e : ToSet(<<a, b, c, d, e>>) = {a, b, c, d, e}
    BY <1>2 DEF ToSet
<1>7. \A a, b, c, d, e, g : ToSet(<<a, b, c, d, e, g>>) = {a, b, c, d, e, g}
    BY <1>2 DEF ToSet
<1> QED
    BY <1>3, <1>4, <1>5, <1>6, <1>7

LEMMA SectionSet ==
    ToSet(Sections) =
        {"Basic", "Authentication", "ProxyForwarding", "AdvancedSsh", "Rdp", "Placement"}
    BY Spelled DEF Sections

LEMMA FieldSets ==
    /\ ToSet(SectionFields["Basic"]) = {"Name", "Description", "Protocol", "Host", "User", "Port"}
    /\ ToSet(SectionFields["Authentication"]) =
        {"Profile", "VaultPass", "IdentityFile", "IdentitiesOnly"}
    /\ ToSet(SectionFields["ProxyForwarding"]) =
        {"ProxyJump", "ProxyCommand", "ForwardAgent", "LocalForward", "RemoteForward"}
    /\ ToSet(SectionFields["AdvancedSsh"]) = {"SshOptions"}
    /\ ToSet(SectionFields["Rdp"]) = {"RdpDomain", "RdpArgs"}
    /\ ToSet(SectionFields["Placement"]) = {"FolderPath"}
<1>1. SectionFields["Basic"] = <<"Name", "Description", "Protocol", "Host", "User", "Port">>
    BY DEF SectionFields
<1>2. SectionFields["Authentication"] =
          <<"Profile", "VaultPass", "IdentityFile", "IdentitiesOnly">>
    BY DEF SectionFields
<1>3. SectionFields["ProxyForwarding"] =
          <<"ProxyJump", "ProxyCommand", "ForwardAgent", "LocalForward", "RemoteForward">>
    BY DEF SectionFields
<1>4. SectionFields["AdvancedSsh"] = <<"SshOptions">>
    BY DEF SectionFields
<1>5. SectionFields["Rdp"] = <<"RdpDomain", "RdpArgs">>
    BY DEF SectionFields, RdpFields
<1>6. SectionFields["Placement"] = <<"FolderPath">>
    BY DEF SectionFields
<1> QED
    BY <1>1, <1>2, <1>3, <1>4, <1>5, <1>6, Spelled

LEMMA SshAndRdpSets ==
    /\ ToSet(SshFields) =
        {"Profile", "IdentityFile", "IdentitiesOnly", "ProxyJump", "ProxyCommand",
         "ForwardAgent", "LocalForward", "RemoteForward", "SshOptions"}
    /\ ToSet(RdpFields) = {"RdpDomain", "RdpArgs"}
<1>1. 1..9 = {1, 2, 3, 4, 5, 6, 7, 8, 9}
    OBVIOUS
<1> QED
    BY <1>1, Spelled DEF SshFields, RdpFields, ToSet

LEMMA EditorFieldSet ==
    EditorFields =
        {"Name", "Description", "Host", "User", "Port", "Profile", "VaultPass", "IdentityFile",
         "IdentitiesOnly", "ProxyJump", "ProxyCommand", "ForwardAgent", "LocalForward",
         "RemoteForward", "SshOptions", "RdpDomain", "RdpArgs", "FolderPath"}
    BY SectionSet, FieldSets DEF EditorFields

LEMMA QuickSet ==
    /\ ToSet(QuickOrder) =
        {"Protocol", "User", "Host", "Port", "Domain", "Password", "Profile", "Logging",
         "Connect", "Cancel"}
    /\ ToSet(PromptOrder) = {"User", "Domain", "Port", "Password"}
<1>1. 1..10 = {1, 2, 3, 4, 5, 6, 7, 8, 9, 10}
    OBVIOUS
<1> QED
    BY <1>1, Spelled DEF ToSet, QuickOrder, PromptOrder

\* Whatever is on the screen.
Names == EditorItems \cup ToSet(QuickOrder) \cup ToSet(PromptOrder)

LEMMA ListsOfNames ==
    /\ Sections \in Seq(Names) /\ QuickOrder \in Seq(Names) /\ PromptOrder \in Seq(Names)
    /\ YamlFields \in Seq(Names)
    /\ \A s \in ToSet(Sections) : SectionFields[s] \in Seq(Names)
<1> DEFINE N == Names
<1>1. {"Basic", "Authentication", "ProxyForwarding", "AdvancedSsh", "Rdp", "Placement",
       "Name", "Description", "Host", "User", "Port", "Profile", "VaultPass", "IdentityFile",
         "IdentitiesOnly", "ProxyJump", "ProxyCommand", "ForwardAgent", "LocalForward",
         "RemoteForward", "SshOptions", "RdpDomain", "RdpArgs", "FolderPath",
         "Protocol", "Domain", "Password", "Logging", "Connect", "Cancel"} \subseteq N
    BY SectionSet, EditorFieldSet, QuickSet DEF Names, EditorItems
<1> HIDE DEF N
<1>2. Sections \in Seq(N)
    BY <1>1 DEF Sections
<1>3. YamlFields \in Seq(N)
    BY <1>1 DEF YamlFields
<1>4. PromptOrder \in Seq(N)
    BY <1>1 DEF PromptOrder
<1>5. QuickOrder \in Seq(N)
    BY <1>1 DEF QuickOrder
<1>6. SectionFields["Basic"] \in Seq(N)
    BY <1>1 DEF SectionFields
<1>7. SectionFields["Authentication"] \in Seq(N)
    BY <1>1 DEF SectionFields
<1>8. SectionFields["ProxyForwarding"] \in Seq(N)
    BY <1>1 DEF SectionFields
<1>9. SectionFields["AdvancedSsh"] \in Seq(N)
    BY <1>1 DEF SectionFields
<1>10. SectionFields["Rdp"] \in Seq(N)
    BY <1>1 DEF SectionFields, RdpFields
<1>11. SectionFields["Placement"] \in Seq(N)
    BY <1>1 DEF SectionFields
<1>12. \A s \in ToSet(Sections) : SectionFields[s] \in Seq(N)
    BY <1>6, <1>7, <1>8, <1>9, <1>10, <1>11, SectionSet
<1> QED
    BY <1>2, <1>3, <1>4, <1>5, <1>12 DEF N

LEMMA EmptyList == ToSet(<<>>) = {} /\ <<>> \in Seq(Names)
<1>1. <<>> \in Seq(Names)
    OBVIOUS
<1> QED
    BY <1>1, EmptyRange, Zenon

LEMMA JoinedLists ==
    ASSUME NEW s \in Seq(Names), NEW t \in Seq(Names)
    PROVE  s \o t \in Seq(Names) /\ ToSet(s \o t) = ToSet(s) \cup ToSet(t)
<1>1. s \o t \in Seq(Names) /\ Range(s \o t) = Range(s) \cup Range(t)
    BY ConcatRange, Zenon
<1> QED
    BY <1>1, ToSetIsRange, ZenonT(60)

LEMMA VisibleIs ==
    ASSUME NEW fm, NEW fields \in Seq(Names)
    PROVE  /\ Visible(fm, fields) \in Seq(Names)
           /\ ToSet(Visible(fm, fields)) = {f \in ToSet(fields) : InContext(fm, f)}
<1> DEFINE keep == {f \in ToSet(fields) : InContext(fm, f)}
<1>1. keep \subseteq ToSet(fields)
    OBVIOUS
<1> HIDE DEF keep
<1>2. /\ Filtered(fields, keep) \in Seq(Names)
      /\ Range(Filtered(fields, keep)) = Range(fields) \cap keep
    BY FilteredIs
<1>3. ToSet(Filtered(fields, keep)) = keep
    BY <1>1, <1>2, ToSetIsRange
<1> QED
    BY <1>2, <1>3 DEF Visible, keep

\* The fields of a section that the protocol and the mode leave, and what is shown of it.
InSection(fm, s) == {f \in ToSet(SectionFields[s]) : InContext(fm, f)}
ShownOf(fm, s) ==
    IF InSection(fm, s) = {} THEN {}
    ELSE {s} \cup IF s \in fm.collapsed THEN {} ELSE InSection(fm, s)

LEMMA PartIs ==
    ASSUME NEW fm, NEW s \in ToSet(Sections)
    PROVE  Part(fm, s) \in Seq(Names) /\ ToSet(Part(fm, s)) = ShownOf(fm, s)
<1> DEFINE fields == Visible(fm, SectionFields[s])
           rest == IF s \in fm.collapsed THEN <<>> ELSE fields
<1>1. fields \in Seq(Names) /\ ToSet(fields) = InSection(fm, s)
    BY ListsOfNames, VisibleIs DEF InSection
<1>2. Part(fm, s) = IF fields = <<>> THEN <<>> ELSE <<s>> \o rest
    BY DEF Part
<1>3. <<>> \in Seq(Names) /\ ToSet(<<>>) = {}
    BY EmptyList
<1>4. rest \in Seq(Names) /\ ToSet(rest) = IF s \in fm.collapsed THEN {} ELSE InSection(fm, s)
    BY <1>1, <1>3
<1>5. <<s>> \in Seq(Names) /\ ToSet(<<s>>) = {s}
    BY Spelled DEF Names, EditorItems
<1> HIDE DEF rest, fields
<1>6. <<s>> \o rest \in Seq(Names) /\ ToSet(<<s>> \o rest) = {s} \cup ToSet(rest)
    BY <1>4, <1>5, JoinedLists
<1>7. fields = <<>> <=> InSection(fm, s) = {}
    BY <1>1, EmptyRange
<1>8. CASE fields = <<>>
    BY <1>2, <1>3, <1>7, <1>8 DEF ShownOf
<1>9. CASE fields # <<>>
    BY <1>2, <1>4, <1>6, <1>7, <1>9 DEF ShownOf
<1> QED
    BY <1>8, <1>9

LEMMA EditorItemsShown ==
    ASSUME NEW fm, fm.kind = "editor", fm.mode \in {"Edit", "Create"}
    PROVE  /\ Items(fm) \in Seq(Names)
           /\ ToSet(Items(fm)) =
                (UNION {ShownOf(fm, s) : s \in ToSet(Sections)})
                \cup {"Save", "Cancel"} \cup IF fm.mode = "Edit" THEN {"Delete"} ELSE {}
<1> DEFINE parts == [k \in 1..6 |-> Part(fm, Sections[k])]
           all == FlattenSeq(parts)
           del == IF fm.mode = "Edit" THEN <<"Delete">> ELSE <<>>
<1>1. Items(fm) = all \o <<"Save">> \o del \o <<"Cancel">>
    BY DEF Items
<1>2. DOMAIN Sections = 1..6 /\ \A k \in 1..6 : Sections[k] \in ToSet(Sections)
    BY DEF Sections, ToSet
<1>3. parts \in [1..6 -> Seq(Names)] /\ Len(parts) = 6
    BY <1>2, PartIs
<1>4. all \in Seq(Names) /\ Range(all) = UNION {Range(parts[k]) : k \in 1..6}
    <2> HIDE DEF parts
    <2>1. 6 \in Nat \ {0}
        OBVIOUS
    <2> QED
        BY <1>3, <2>1, FlattenIs, ZenonT(60)
<1>5. \A k \in 1..6 : Range(parts[k]) = ShownOf(fm, Sections[k])
    BY <1>2, PartIs, ToSetIsRange
<1>6. {Range(parts[k]) : k \in 1..6} = {ShownOf(fm, s) : s \in ToSet(Sections)}
    <2> HIDE DEF parts
    <2>1. ToSet(Sections) = {Sections[k] : k \in 1..6}
        BY <1>2 DEF ToSet
    <2> QED
        BY <1>5, <2>1
<1>7. ToSet(all) = UNION {ShownOf(fm, s) : s \in ToSet(Sections)}
    BY <1>4, <1>6, ToSetIsRange
<1>8. /\ <<"Save">> \in Seq(Names) /\ ToSet(<<"Save">>) = {"Save"}
      /\ <<"Cancel">> \in Seq(Names) /\ ToSet(<<"Cancel">>) = {"Cancel"}
      /\ <<"Delete">> \in Seq(Names) /\ ToSet(<<"Delete">>) = {"Delete"}
    BY Spelled DEF Names, EditorItems
<1>9. del \in Seq(Names) /\ ToSet(del) = IF fm.mode = "Edit" THEN {"Delete"} ELSE {}
    BY <1>8, EmptyList
<1> HIDE DEF all, del
<1>10. /\ all \o <<"Save">> \in Seq(Names)
       /\ ToSet(all \o <<"Save">>) = ToSet(all) \cup {"Save"}
    BY <1>4, <1>8, JoinedLists
<1>11. /\ all \o <<"Save">> \o del \in Seq(Names)
       /\ ToSet(all \o <<"Save">> \o del) = ToSet(all) \cup {"Save"} \cup ToSet(del)
    BY <1>9, <1>10, JoinedLists
<1>12. /\ all \o <<"Save">> \o del \o <<"Cancel">> \in Seq(Names)
       /\ ToSet(all \o <<"Save">> \o del \o <<"Cancel">>) =
            ToSet(all) \cup {"Save"} \cup ToSet(del) \cup {"Cancel"}
    BY <1>8, <1>11, JoinedLists
<1> QED
    BY <1>1, <1>7, <1>9, <1>12

Forms == EditorForms \cup QuickForms \cup Prompts

LEMMA QuickItemsShown ==
    ASSUME NEW fm, fm.kind = "quick"
    PROVE  /\ Items(fm) \in Seq(Names)
           /\ ToSet(Items(fm)) = {i \in ToSet(QuickOrder) : InContext(fm, i)}
<1>1. Items(fm) = Visible(fm, QuickOrder)
    BY DEF Items
<1> QED
    BY <1>1, ListsOfNames, VisibleIs

LEMMA PromptItemsShown ==
    ASSUME NEW fm, fm.kind = "prompt"
    PROVE  Items(fm) = PromptOrder
    BY DEF Items

LEMMA KindOfForm ==
    ASSUME NEW fm \in Forms
    PROVE  /\ fm.kind \in {"editor", "quick", "prompt"} /\ fm # Closed
           /\ fm \in EditorForms <=> fm.kind = "editor"
           /\ fm \in QuickForms <=> fm.kind = "quick"
           /\ fm \in Prompts <=> fm.kind = "prompt"
<1>1. fm \in EditorForms => fm.kind = "editor"
    BY DEF EditorForms
<1>2. fm \in QuickForms => fm.kind = "quick"
    BY DEF QuickForms
<1>3. fm \in Prompts => fm.kind = "prompt"
    BY DEF Prompts
<1>4. Closed.kind = "none"
    BY DEF Closed
<1> QED
    BY <1>1, <1>2, <1>3, <1>4 DEF Forms

\* The first section is never folded.
LEMMA BasicShown ==
    ASSUME NEW fm \in EditorForms, NEW i \in {"Name", "Protocol"}
    PROVE  IsItem(fm, i)
<1>1. fm.kind = "editor" /\ fm.mode \in {"Edit", "Create"} /\ "Basic" \notin fm.collapsed
    BY DEF EditorForms
<1>2. i \in InSection(fm, "Basic")
    BY <1>1, SshAndRdpSets, FieldSets DEF InSection, InContext
<1>3. i \in ShownOf(fm, "Basic")
    BY <1>1, <1>2 DEF ShownOf
<1>4. i \in UNION {ShownOf(fm, s) : s \in ToSet(Sections)}
    BY <1>3, SectionSet
<1> QED
    BY <1>1, <1>4, EditorItemsShown DEF IsItem

\* "Protocol" is always shown, unless the form has none.
LEMMA ProtocolShown ==
    ASSUME NEW fm \in EditorForms \cup QuickForms
    PROVE  IsItem(fm, "Protocol")
<1>1. ASSUME fm \in EditorForms PROVE IsItem(fm, "Protocol")
    BY <1>1, BasicShown
<1>2. ASSUME fm \in QuickForms PROVE IsItem(fm, "Protocol")
    <2>1. fm.kind = "quick"
        BY <1>2 DEF QuickForms
    <2>2. InContext(fm, "Protocol")
        BY <2>1 DEF InContext
    <2> QED
        BY <2>1, <2>2, QuickItemsShown, QuickSet DEF IsItem
<1> QED
    BY <1>1, <1>2

\* What a form shows are items of its kind.
LEMMA ItemsAreOfKind ==
    ASSUME NEW fm \in Forms
    PROVE  /\ Items(fm) \in Seq(Names) /\ Items(fm) # <<>>
           /\ fm.kind = "editor" => ToSet(Items(fm)) \subseteq EditorItems
           /\ fm.kind = "quick" => ToSet(Items(fm)) \subseteq ToSet(QuickOrder)
           /\ fm.kind = "prompt" => ToSet(Items(fm)) = ToSet(PromptOrder)
<1>1. CASE fm.kind = "editor"
    <2>1. fm \in EditorForms /\ fm.mode \in {"Edit", "Create"}
        BY <1>1, KindOfForm DEF EditorForms
    <2>2. Items(fm) \in Seq(Names) /\ "Protocol" \in ToSet(Items(fm))
        BY <1>1, <2>1, EditorItemsShown, ProtocolShown DEF IsItem
    <2>3. Items(fm) # <<>>
        BY <2>2, EmptyList
    <2>4. \A s \in ToSet(Sections) : ShownOf(fm, s) \subseteq EditorItems
        BY DEF ShownOf, InSection, EditorItems, EditorFields
    <2>5. ToSet(Items(fm)) \subseteq EditorItems
        <3>1. (UNION {ShownOf(fm, s) : s \in ToSet(Sections)}) \subseteq EditorItems
            BY <2>4
        <3>2. {"Save", "Cancel", "Delete"} \subseteq EditorItems
            BY DEF EditorItems
        <3> QED
            BY <1>1, <2>1, <3>1, <3>2, EditorItemsShown
    <2> QED
        BY <1>1, <2>2, <2>3, <2>5
<1>2. CASE fm.kind = "quick"
    <2>1. fm \in QuickForms
        BY <1>2, KindOfForm
    <2>2. Items(fm) \in Seq(Names) /\ "Protocol" \in ToSet(Items(fm))
        BY <1>2, <2>1, QuickItemsShown, ProtocolShown DEF IsItem
    <2>3. Items(fm) # <<>>
        BY <2>2, EmptyList
    <2> QED
        BY <1>2, <2>2, <2>3, QuickItemsShown
<1>3. CASE fm.kind = "prompt"
    <2>1. Items(fm) = PromptOrder
        BY <1>3, PromptItemsShown
    <2>2. PromptOrder # <<>>
        BY EmptyList, QuickSet
    <2> QED
        BY <1>3, <2>1, <2>2, ListsOfNames
<1> QED
    BY <1>1, <1>2, <1>3, KindOfForm

LEMMA CycledOn ==
    ASSUME NEW S, NEW s \in Seq(S), s # <<>>, NEW v
    PROVE  CycleOn(s, v) \in ToSet(s) /\ CycleBack(s, v) \in ToSet(s)
<1>1. DOMAIN s = 1..Len(s) /\ Len(s) \in Nat /\ Len(s) # 0
    BY EmptySeq, LenProperties
<1>2. Position(s, v) \in 0..Len(s)
    <2>1. CASE v \in ToSet(s)
        <3>1. \E k \in DOMAIN s : s[k] = v
            BY <2>1 DEF ToSet
        <3>2. (CHOOSE k \in DOMAIN s : s[k] = v) \in DOMAIN s
            BY <3>1
        <3> QED
            BY <1>1, <2>1, <3>2 DEF Position
    <2>2. CASE v \notin ToSet(s)
        BY <1>1, <2>2 DEF Position
    <2> QED
        BY <2>1, <2>2
<1> DEFINE p == Position(s, v)
           n == Len(s)
<1>3. p % n \in 0..(n - 1)
    BY <1>1, <1>2
<1>4. (p % n) + 1 \in 1..n
    <2> DEFINE m == p % n
    <2>1. m \in 0..(n - 1)
        BY <1>3
    <2> HIDE DEF m
    <2>2. m + 1 \in 1..n
        BY <1>1, <2>1
    <2> QED
        BY <2>2 DEF m
<1>5. (IF p <= 1 THEN n ELSE p - 1) \in 1..n
    BY <1>1, <1>2
<1>6. \A k \in 1..n : s[k] \in ToSet(s)
    BY <1>1 DEF ToSet
<1>7. CycleOn(s, v) \in ToSet(s)
    BY <1>4, <1>6 DEF CycleOn
<1>8. CycleBack(s, v) \in ToSet(s)
    BY <1>5, <1>6 DEF CycleBack
<1> QED
    BY <1>7, <1>8

-----------------------------------------------------------------------------
(* HostForm: what a change of a form leaves as it is *)

LEMMA SameItems ==
    ASSUME NEW fm \in Forms, NEW gm \in Forms, gm.kind = fm.kind, gm.rdp = fm.rdp,
           fm.kind = "editor" => gm.mode = fm.mode /\ gm.collapsed = fm.collapsed
    PROVE  Items(gm) = Items(fm) /\ \A f : InContext(gm, f) <=> InContext(fm, f)
<1>1. \A f : InContext(gm, f) <=> InContext(fm, f)
    BY KindOfForm DEF InContext
<1>2. \A fields : Visible(gm, fields) = Visible(fm, fields)
    <2> TAKE fields
    <2>1. {f \in ToSet(fields) : InContext(gm, f)} = {f \in ToSet(fields) : InContext(fm, f)}
        BY <1>1
    <2> QED
        BY <2>1, Zenon DEF Visible
<1>3. CASE fm.kind = "editor"
    <2>1. \A s : Part(gm, s) = Part(fm, s)
        <3> TAKE s
        <3>1. Visible(gm, SectionFields[s]) = Visible(fm, SectionFields[s])
            BY <1>2
        <3>2. gm.collapsed = fm.collapsed
            BY <1>3
        <3> QED
            BY <3>1, <3>2, Zenon DEF Part
    <2>2. [k \in 1..6 |-> Part(gm, Sections[k])] = [k \in 1..6 |-> Part(fm, Sections[k])]
        BY <2>1
    <2> QED
        BY <1>1, <1>3, <2>2 DEF Items
<1>4. CASE fm.kind = "quick"
    <2>1. Items(gm) = Visible(gm, QuickOrder) /\ Items(fm) = Visible(fm, QuickOrder)
        BY <1>4 DEF Items
    <2> QED
        BY <1>1, <1>2, <2>1, Zenon
<1>5. CASE fm.kind = "prompt"
    BY <1>1, <1>5, PromptItemsShown
<1> QED
    BY <1>3, <1>4, <1>5, KindOfForm

\* One form is another in which at most the selection and the texts differ.
Alike(gm, fm) ==
    /\ gm \in Forms /\ gm.kind = fm.kind /\ gm.rdp = fm.rdp
    /\ fm.kind = "editor" => gm.mode = fm.mode /\ gm.collapsed = fm.collapsed

LEMMA ItemChanged ==
    ASSUME NEW fm \in Forms, NEW i \in ToSet(Items(fm))
    PROVE  LET gm == [fm EXCEPT !.item = i]
           IN  Alike(gm, fm) /\ gm.item = i /\ gm.val = fm.val /\ IsItem(gm, gm.item)
<1> DEFINE gm == [fm EXCEPT !.item = i]
<1>1. ASSUME fm.kind = "editor" PROVE Alike(gm, fm) /\ gm.item = i /\ gm.val = fm.val
    <2>1. fm \in EditorForms /\ i \in EditorItems
        BY <1>1, ItemsAreOfKind, KindOfForm
    <2>2. /\ gm \in EditorForms /\ gm.item = i /\ gm.kind = fm.kind /\ gm.rdp = fm.rdp
          /\ gm.val = fm.val /\ gm.mode = fm.mode /\ gm.collapsed = fm.collapsed
        BY <2>1 DEF EditorForms
    <2> HIDE DEF gm
    <2>3. Alike(gm, fm) /\ gm.item = i /\ gm.val = fm.val
        BY <2>2 DEF Alike, Forms
    <2> QED
        BY <2>3 DEF gm
<1>2. ASSUME fm.kind = "quick" PROVE Alike(gm, fm) /\ gm.item = i /\ gm.val = fm.val
    <2>1. fm \in QuickForms /\ i \in ToSet(QuickOrder)
        BY <1>2, ItemsAreOfKind, KindOfForm
    <2>2. /\ gm \in QuickForms /\ gm.item = i /\ gm.kind = fm.kind /\ gm.rdp = fm.rdp
          /\ gm.val = fm.val
        BY <2>1 DEF QuickForms
    <2> HIDE DEF gm
    <2>3. Alike(gm, fm) /\ gm.item = i /\ gm.val = fm.val
        BY <1>2, <2>2 DEF Alike, Forms
    <2> QED
        BY <2>3 DEF gm
<1>3. ASSUME fm.kind = "prompt" PROVE Alike(gm, fm) /\ gm.item = i /\ gm.val = fm.val
    <2>1. fm \in Prompts /\ i \in ToSet(PromptOrder)
        BY <1>3, ItemsAreOfKind, KindOfForm
    <2>2. /\ gm \in Prompts /\ gm.item = i /\ gm.kind = fm.kind /\ gm.rdp = fm.rdp
          /\ gm.val = fm.val
        BY <2>1 DEF Prompts
    <2> HIDE DEF gm
    <2>3. Alike(gm, fm) /\ gm.item = i /\ gm.val = fm.val
        BY <1>3, <2>2 DEF Alike, Forms
    <2> QED
        BY <2>3 DEF gm
<1>4. Alike(gm, fm) /\ gm.item = i /\ gm.val = fm.val
    BY <1>1, <1>2, <1>3, KindOfForm
<1> HIDE DEF gm
<1>5. Items(gm) = Items(fm)
    BY <1>4, SameItems DEF Alike
<1>6. IsItem(gm, gm.item)
    BY <1>4, <1>5 DEF IsItem
<1> QED
    BY <1>4, <1>6 DEF gm

LEMMA TextChanged ==
    ASSUME NEW fm \in Forms, NEW f, NEW text \in Texts
    PROVE  LET gm == [fm EXCEPT !.val[f] = text]
           IN  /\ Alike(gm, fm) /\ gm.item = fm.item /\ gm.val = [fm.val EXCEPT ![f] = text]
               /\ Items(gm) = Items(fm)
<1> DEFINE val == [fm.val EXCEPT ![f] = text]
           gm == [fm EXCEPT !.val[f] = text]
           hm == [fm EXCEPT !.val = val]
<1>0. gm = hm
    OBVIOUS
<1>1. ASSUME fm.kind = "editor" PROVE Alike(gm, fm) /\ gm.item = fm.item /\ gm.val = val
    <2>1. fm \in EditorForms /\ fm.val \in [EditorFields -> Texts]
        BY <1>1, KindOfForm DEF EditorForms
    <2>2. val \in [EditorFields -> Texts]
        BY <2>1
    <2> HIDE DEF val
    <2>3. /\ hm \in EditorForms /\ hm.item = fm.item /\ hm.kind = fm.kind /\ hm.rdp = fm.rdp
          /\ hm.val = val /\ hm.mode = fm.mode /\ hm.collapsed = fm.collapsed
        BY <2>1, <2>2 DEF EditorForms
    <2> HIDE DEF gm, hm
    <2> QED
        BY <1>0, <2>3 DEF Alike, Forms
<1>2. ASSUME fm.kind = "quick" PROVE Alike(gm, fm) /\ gm.item = fm.item /\ gm.val = val
    <2>1. fm \in QuickForms /\ fm.val \in [QuickFields -> Texts]
        BY <1>2, KindOfForm DEF QuickForms
    <2>2. val \in [QuickFields -> Texts]
        BY <2>1
    <2> HIDE DEF val
    <2>3. /\ hm \in QuickForms /\ hm.item = fm.item /\ hm.kind = fm.kind /\ hm.rdp = fm.rdp
          /\ hm.val = val
        BY <2>1, <2>2 DEF QuickForms
    <2> HIDE DEF gm, hm
    <2> QED
        BY <1>0, <1>2, <2>3 DEF Alike, Forms
<1>3. ASSUME fm.kind = "prompt" PROVE Alike(gm, fm) /\ gm.item = fm.item /\ gm.val = val
    <2>1. fm \in Prompts /\ fm.val \in [ToSet(PromptOrder) -> Texts]
        BY <1>3, KindOfForm DEF Prompts
    <2>2. val \in [ToSet(PromptOrder) -> Texts]
        BY <2>1
    <2> HIDE DEF val
    <2>3. /\ hm \in Prompts /\ hm.item = fm.item /\ hm.kind = fm.kind /\ hm.rdp = fm.rdp
          /\ hm.val = val
        BY <2>1, <2>2 DEF Prompts
    <2> HIDE DEF gm, hm
    <2> QED
        BY <1>0, <1>3, <2>3 DEF Alike, Forms
<1> HIDE DEF hm, gm, val
<1>4. Alike(gm, fm) /\ gm.item = fm.item /\ gm.val = val
    BY <1>1, <1>2, <1>3, KindOfForm
<1>5. Items(gm) = Items(fm)
    BY <1>4, SameItems DEF Alike
<1> QED
    BY <1>4, <1>5 DEF gm, val

LEMMA ProtocolSwitched ==
    ASSUME NEW fm \in EditorForms \cup QuickForms
    PROVE  LET gm == [fm EXCEPT !.rdp = ~@]
           IN  /\ gm \in Forms /\ gm.kind = fm.kind /\ gm.rdp = ~fm.rdp /\ gm.item = fm.item
               /\ gm.val = fm.val
               /\ fm.kind = "editor" => gm.mode = fm.mode /\ gm.collapsed = fm.collapsed
<1> DEFINE rdp == ~fm.rdp
           gm == [fm EXCEPT !.rdp = rdp]
<1>1. rdp \in BOOLEAN
    OBVIOUS
<1> HIDE DEF rdp
<1>2. CASE fm \in EditorForms
    <2>1. /\ gm \in EditorForms /\ gm.item = fm.item /\ gm.kind = fm.kind /\ gm.rdp = rdp
          /\ gm.val = fm.val /\ gm.mode = fm.mode /\ gm.collapsed = fm.collapsed
        BY <1>1, <1>2 DEF EditorForms
    <2> HIDE DEF gm
    <2> QED
        BY <2>1 DEF gm, Forms, rdp
<1>3. CASE fm \in QuickForms
    <2>1. /\ gm \in QuickForms /\ gm.item = fm.item /\ gm.kind = fm.kind /\ gm.rdp = rdp
          /\ gm.val = fm.val /\ gm.kind = "quick"
        BY <1>1, <1>3 DEF QuickForms
    <2> HIDE DEF gm
    <2> QED
        BY <2>1 DEF gm, Forms, rdp
<1> QED
    BY <1>2, <1>3

LEMMA SectionsFolded ==
    ASSUME NEW fm \in EditorForms, NEW hidden \in SUBSET (ToSet(Sections) \ {"Basic"})
    PROVE  LET gm == [fm EXCEPT !.collapsed = hidden]
           IN  /\ gm \in Forms /\ gm.kind = fm.kind /\ gm.rdp = fm.rdp /\ gm.item = fm.item
               /\ gm.val = fm.val /\ gm.mode = fm.mode /\ gm.collapsed = hidden
    BY DEF EditorForms, Forms

\* The selection moves to the section of its item, or to the protocol.
LEMMA SelectionEnsured ==
    ASSUME NEW fm \in EditorForms \cup QuickForms
    PROVE  /\ Alike(Ensured(fm), fm) /\ Ensured(fm).val = fm.val
           /\ IsItem(Ensured(fm), Ensured(fm).item)
<1>1. fm \in Forms
    BY DEF Forms
<1>2. CASE IsItem(fm, fm.item)
    <2>1. Ensured(fm) = fm
        BY <1>2 DEF Ensured
    <2> QED
        BY <1>1, <1>2, <2>1 DEF Alike
<1>3. CASE ~IsItem(fm, fm.item)
    <2> DEFINE home == IF fm.kind = "quick" THEN {}
                       ELSE {s \in ToSet(Sections) : fm.item \in ToSet(SectionFields[s])
                                                          /\ IsItem(fm, s)}
               i == IF home = {} THEN "Protocol" ELSE CHOOSE s \in home : TRUE
    <2>1. \A s \in home : IsItem(fm, s)
        OBVIOUS
    <2>2. Ensured(fm) = [fm EXCEPT !.item = i]
        BY <1>3 DEF Ensured
    <2> HIDE DEF home
    <2>3. i \in ToSet(Items(fm))
        BY <2>1, ProtocolShown DEF IsItem
    <2> HIDE DEF i
    <2> QED
        BY <1>1, <2>2, <2>3, ItemChanged
<1> QED
    BY <1>2, <1>3

-----------------------------------------------------------------------------
(* HostForm: the forms that are opened *)

LEMMA FirstOption ==
    ASSUME NEW value \in Texts, NEW options \in Seq(Texts)
    PROVE  OrFirst(value, options) \in Texts
<1>1. options # <<>> => options[1] \in Texts
    OBVIOUS
<1> QED
    BY <1>1 DEF OrFirst

\* The text of a field of an entry that is opened.
LoadedText(e, f) ==
    IF f = "FolderPath" THEN "/"
    ELSE IF f = "VaultPass" THEN OrFirst(e.val[f], VaultOptions)
    ELSE IF f = "Profile" THEN OrFirst(e.val[f], ProfileOptions)
    ELSE e.val[f]

LEMMA ThreeTexts ==
    ASSUME NEW v \in [EditorFields -> Texts]
    PROVE  [v EXCEPT !["Profile"] = OrFirst(@, ProfileOptions),
                     !["VaultPass"] = OrFirst(@, VaultOptions), !["FolderPath"] = "/"] =
              [f \in EditorFields |->
                  IF f = "FolderPath" THEN "/"
                  ELSE IF f = "VaultPass" THEN OrFirst(v[f], VaultOptions)
                  ELSE IF f = "Profile" THEN OrFirst(v[f], ProfileOptions)
                  ELSE v[f]]
<1> DEFINE a == OrFirst(v["Profile"], ProfileOptions)
           b == OrFirst(v["VaultPass"], VaultOptions)
           g == [v EXCEPT !["Profile"] = a]
           h == [g EXCEPT !["VaultPass"] = b]
<1>1. {"Profile", "VaultPass", "FolderPath"} \subseteq EditorFields
    BY EditorFieldSet
<1>2. \A f \in EditorFields : g[f] = IF f = "Profile" THEN a ELSE v[f]
    OBVIOUS
<1>3. DOMAIN g = EditorFields
    OBVIOUS
<1> HIDE DEF g
<1>4. \A f \in EditorFields : h[f] = IF f = "VaultPass" THEN b ELSE g[f]
    BY <1>3
<1>5. DOMAIN h = EditorFields /\ h = [f \in EditorFields |-> h[f]]
    BY <1>3
<1>6. g["VaultPass"] = v["VaultPass"]
    BY <1>1, <1>2
<1> HIDE DEF h
<1>7. [h EXCEPT !["FolderPath"] = "/"] =
          [f \in EditorFields |->
              IF f = "FolderPath" THEN "/" ELSE IF f = "VaultPass" THEN b
              ELSE IF f = "Profile" THEN a ELSE v[f]]
    BY <1>2, <1>4, <1>5
<1>8. [h EXCEPT !["FolderPath"] = "/"] =
          [f \in EditorFields |->
              IF f = "FolderPath" THEN "/"
              ELSE IF f = "VaultPass" THEN OrFirst(v[f], VaultOptions)
              ELSE IF f = "Profile" THEN OrFirst(v[f], ProfileOptions)
              ELSE v[f]]
    BY <1>7
<1> QED
    BY <1>6, <1>8, Zenon DEF g, h

LEMMA LoadedIs ==
    ASSUME NEW e \in Entry
    PROVE  /\ Loaded(e) \in EditorForms
           /\ Loaded(e).kind = "editor" /\ Loaded(e).mode = "Edit" /\ Loaded(e).item = "Name"
           /\ Loaded(e).rdp = (e.protocol = "rdp")
           /\ \A f \in EditorFields : Loaded(e).val[f] = LoadedText(e, f)
<1> DEFINE v == [f \in EditorFields |-> LoadedText(e, f)]
           hidden == ToSet(Sections) \ {"Basic", "Authentication"}
           rdp == e.protocol = "rdp"
<1>1. e.val \in [EditorFields -> Texts]
    BY DEF Entry
<1>2. Loaded(e) = [kind |-> "editor", mode |-> "Edit", item |-> "Name", rdp |-> rdp,
                   collapsed |-> hidden, val |-> v]
    BY <1>1, ThreeTexts DEF Loaded, LoadedText
<1>3. v \in [EditorFields -> Texts]
    <2>1. \A f \in EditorFields : e.val[f] \in Texts
        BY <1>1
    <2>2. \A f \in EditorFields : LoadedText(e, f) \in Texts
        BY <2>1, FirstOption, OptionsAssumption, TextsAssumption DEF LoadedText
    <2> QED
        BY <2>2
<1>4. hidden \in SUBSET (ToSet(Sections) \ {"Basic"})
    OBVIOUS
<1>5. "Name" \in EditorItems
    BY EditorFieldSet DEF EditorItems
<1>6. rdp \in BOOLEAN
    OBVIOUS
<1>7. \A f \in EditorFields : v[f] = LoadedText(e, f)
    OBVIOUS
<1> HIDE DEF v, hidden, rdp
<1> DEFINE fm == [kind |-> "editor", mode |-> "Edit", item |-> "Name", rdp |-> rdp,
                   collapsed |-> hidden, val |-> v]
<1>8. fm \in EditorForms /\ fm.rdp = rdp
    BY <1>3, <1>4, <1>5, <1>6 DEF EditorForms
<1>9. fm.kind = "editor" /\ fm.mode = "Edit" /\ fm.item = "Name" /\ fm.val = v
    OBVIOUS
<1> HIDE DEF fm
<1>10. Loaded(e) = fm
    BY <1>2 DEF fm
<1>11. Loaded(e).rdp = (e.protocol = "rdp")
    BY <1>8, <1>10, Zenon DEF rdp
<1> QED
    BY <1>7, <1>8, <1>9, <1>10, <1>11

LEMMA NoEntryIsEntry == NoEntry \in Entry
    BY TextsAssumption DEF NoEntry, Blank, Entry

LEMMA MadeNew ==
    ASSUME NEW fm \in EditorForms, NEW f, NEW text \in Texts
    PROVE  LET gm == [fm EXCEPT !.mode = "Create", !.val[f] = text]
           IN  gm \in EditorForms /\ gm.item = fm.item /\ gm.mode = "Create"
<1> DEFINE hm == [fm EXCEPT !.mode = "Create"]
<1>1. hm \in EditorForms /\ hm.item = fm.item /\ hm.mode = "Create" /\ hm.val = fm.val
    BY DEF EditorForms
<1>2. hm.kind = "editor"
    BY DEF EditorForms
<1> HIDE DEF hm
<1> DEFINE gm == [hm EXCEPT !.val[f] = text]
<1>3. Alike(gm, hm) /\ gm.item = hm.item
    <2>1. hm \in Forms
        BY <1>1 DEF Forms
    <2> QED
        BY <2>1, TextChanged
<1> HIDE DEF gm
<1>4. gm \in EditorForms /\ gm.item = fm.item /\ gm.mode = "Create"
    BY <1>1, <1>2, <1>3, KindOfForm DEF Alike
<1> QED
    BY <1>4, Zenon DEF gm, hm

LEMMA CreatedIs ==
    /\ Created \in EditorForms /\ Created.mode = "Create" /\ IsItem(Created, Created.item)
<1>1. Loaded(NoEntry) \in EditorForms /\ Loaded(NoEntry).item = "Name"
    BY NoEntryIsEntry, LoadedIs
<1>2. "22" \in Texts
    BY TextsAssumption
<1>3. Created \in EditorForms /\ Created.item = "Name" /\ Created.mode = "Create"
    <2> DEFINE fm == Loaded(NoEntry)
    <2> HIDE DEF fm
    <2>1. fm \in EditorForms /\ fm.item = "Name"
        BY <1>1 DEF fm
    <2>2. LET gm == [fm EXCEPT !.mode = "Create", !.val["Port"] = "22"]
          IN  gm \in EditorForms /\ gm.item = fm.item /\ gm.mode = "Create"
        BY <1>2, <2>1, MadeNew, Zenon
    <2> QED
        BY <2>1, <2>2, Zenon DEF Created, fm
<1> QED
    BY <1>3, BasicShown

LEMMA TextPutIn ==
    ASSUME NEW fm \in Forms, NEW f, NEW text \in Texts, NEW gm, gm = [fm EXCEPT !.val[f] = text]
    PROVE  Alike(gm, fm) /\ gm.item = fm.item
BY TextChanged

LEMMA DuplicatedIs ==
    ASSUME NEW e \in Entry
    PROVE  /\ Duplicated(e) \in EditorForms /\ Duplicated(e).mode = "Create"
           /\ IsItem(Duplicated(e), Duplicated(e).item)
<1> DEFINE fm == Loaded(e)
           gm == [fm EXCEPT !.mode = "Create", !.val["Name"] = "copy"]
           hm == [gm EXCEPT !.val["FolderPath"] = "kept"]
<1>1. fm \in EditorForms /\ fm.item = "Name"
    BY LoadedIs
<1>2. "copy" \in Texts /\ "kept" \in Texts
    BY TextsAssumption
<1> HIDE DEF fm
<1>3. gm \in EditorForms /\ gm.item = fm.item /\ gm.mode = "Create"
    BY <1>1, <1>2, MadeNew, Zenon
<1> HIDE DEF gm
<1>4. gm \in Forms /\ gm.kind = "editor"
    BY <1>3 DEF Forms, EditorForms
<1>5. Alike(hm, gm) /\ hm.item = gm.item
    <2>1. hm = [gm EXCEPT !.val["FolderPath"] = "kept"]
        OBVIOUS
    <2> HIDE DEF hm
    <2> QED
        BY <1>2, <1>4, <2>1, TextPutIn
<1> HIDE DEF hm
<1>6. hm \in EditorForms /\ hm.item = "Name" /\ hm.mode = "Create"
    BY <1>1, <1>3, <1>4, <1>5, KindOfForm DEF Alike
<1>7. Duplicated(e) = hm
    BY Zenon DEF Duplicated, fm, gm, hm
<1> QED
    BY <1>6, <1>7, BasicShown

LEMMA QuickFormIs == QuickForm \in QuickForms /\ IsItem(QuickForm, QuickForm.item)
<1> DEFINE v == [f \in QuickFields |-> CASE f = "Profile" -> "default" [] f = "Logging" -> "off"
                                         [] OTHER -> ""]
<1>1. v \in [QuickFields -> Texts]
    BY TextsAssumption
<1>2. "Protocol" \in ToSet(QuickOrder)
    BY QuickSet
<1> HIDE DEF v
<1>3. QuickForm = [kind |-> "quick", item |-> "Protocol", rdp |-> FALSE, val |-> v]
    BY DEF QuickForm, v
<1>4. QuickForm \in QuickForms /\ QuickForm.item = "Protocol"
    BY <1>1, <1>2, <1>3 DEF QuickForms
<1> QED
    BY <1>4, ProtocolShown

LEMMA PromptIs ==
    ASSUME NEW e \in Entry
    PROVE  Prompt(e) \in Prompts /\ IsItem(Prompt(e), Prompt(e).item)
<1> DEFINE i == IF e.val["User"] = "" THEN "User" ELSE "Password"
           v == [f \in ToSet(PromptOrder) |->
                    CASE f = "Password" -> "" [] f = "Domain" -> e.val["RdpDomain"]
                      [] OTHER -> e.val[f]]
<1>1. i \in ToSet(PromptOrder)
    BY QuickSet
<1>2. /\ e.val["User"] \in Texts /\ e.val["RdpDomain"] \in Texts /\ e.val["Port"] \in Texts
      /\ "" \in Texts
    BY EditorFieldSet, TextsAssumption DEF Entry
<1>3. v \in [ToSet(PromptOrder) -> Texts]
    BY <1>2, QuickSet
<1>4. Prompt(e) = [kind |-> "prompt", item |-> i, rdp |-> TRUE, val |-> v]
    BY DEF Prompt
<1> HIDE DEF i, v
<1>5. Prompt(e) \in Prompts /\ Prompt(e).item = i /\ Prompt(e).kind = "prompt"
    BY <1>1, <1>3, <1>4 DEF Prompts
<1> QED
    BY <1>1, <1>5, PromptItemsShown DEF IsItem

-----------------------------------------------------------------------------
(* HostForm: what is named as wrong *)

LEMMA KnownNames ==
    {"Name", "Host", "User", "Port", "VaultPass"} \subseteq Names
    BY EditorFieldSet DEF Names, EditorItems

LEMMA RequiredInContext ==
    ASSUME NEW fm \in Forms
    PROVE  /\ Required(fm) \in Seq(Names)
           /\ \A f \in ToSet(Required(fm)) :
                /\ InContext(fm, f)
                /\ fm.kind = "quick" => f \in ToSet(QuickOrder)
                /\ fm.kind = "prompt" => f \in ToSet(PromptOrder)
<1>1. CASE fm.kind = "editor"
    <2>1. Required(fm) = <<"Name", "Host">>
        BY <1>1 DEF Required
    <2> QED
        BY <1>1, <2>1, KnownNames, Spelled, SshAndRdpSets DEF InContext
<1>2. CASE fm.kind = "quick"
    <2>1. fm.rdp \in BOOLEAN
        BY <1>2, KindOfForm DEF QuickForms
    <2>2. CASE fm.rdp
        <3>1. Required(fm) = <<"Host", "User">>
            BY <1>2, <2>2 DEF Required
        <3> QED
            BY <1>2, <2>2, <3>1, KnownNames, Spelled, QuickSet DEF InContext
    <2>3. CASE ~fm.rdp
        <3>1. Required(fm) = <<"Host">>
            BY <1>2, <2>3 DEF Required
        <3> QED
            BY <1>2, <2>3, <3>1, KnownNames, Spelled, QuickSet DEF InContext
    <2> QED
        BY <2>1, <2>2, <2>3
<1>3. CASE fm.kind = "prompt"
    <2>1. Required(fm) = <<"User">> /\ fm.rdp
        BY <1>3, KindOfForm DEF Required, Prompts
    <2> QED
        BY <1>3, <2>1, KnownNames, Spelled, QuickSet DEF InContext
<1> QED
    BY <1>1, <1>2, <1>3, KindOfForm

LEMMA CheckedInContext ==
    ASSUME NEW fm \in Forms
    PROVE  /\ Checked(fm) \in Seq(Names)
           /\ \A f \in ToSet(Checked(fm)) :
                /\ InContext(fm, f)
                /\ fm.kind = "quick" => f \in ToSet(QuickOrder)
                /\ fm.kind = "prompt" => f \in ToSet(PromptOrder)
<1>1. CASE fm.kind = "editor"
    <2> DEFINE shown == Visible(fm, YamlFields)
    <2>1. Checked(fm) = <<"Port", "VaultPass">> \o shown
        BY <1>1 DEF Checked
    <2>2. shown \in Seq(Names) /\ \A f \in ToSet(shown) : InContext(fm, f)
        BY ListsOfNames, VisibleIs
    <2> HIDE DEF shown
    <2>3. /\ <<"Port", "VaultPass">> \in Seq(Names)
          /\ ToSet(<<"Port", "VaultPass">>) = {"Port", "VaultPass"}
        BY KnownNames, Spelled
    <2>4. InContext(fm, "Port") /\ InContext(fm, "VaultPass")
        BY <1>1, SshAndRdpSets DEF InContext
    <2>5. Checked(fm) \in Seq(Names) /\ ToSet(Checked(fm)) = {"Port", "VaultPass"} \cup ToSet(shown)
        BY <2>1, <2>2, <2>3, JoinedLists
    <2> QED
        BY <1>1, <2>2, <2>4, <2>5
<1>2. CASE fm.kind = "quick"
    <2>1. fm.rdp \in BOOLEAN
        BY <1>2, KindOfForm DEF QuickForms
    <2>2. CASE fm.rdp
        <3>1. Checked(fm) = <<"Port">>
            BY <1>2, <2>2 DEF Checked
        <3> QED
            BY <1>2, <2>2, <3>1, KnownNames, Spelled, QuickSet DEF InContext
    <2>3. CASE ~fm.rdp
        <3>1. Checked(fm) = <<>>
            BY <1>2, <2>3 DEF Checked
        <3> QED
            BY <3>1, EmptyList
    <2> QED
        BY <2>1, <2>2, <2>3
<1>3. CASE fm.kind = "prompt"
    <2>1. Checked(fm) = <<"Port">> /\ fm.rdp
        BY <1>3, KindOfForm DEF Checked, Prompts
    <2> QED
        BY <1>3, <2>1, KnownNames, Spelled, QuickSet DEF InContext
<1> QED
    BY <1>1, <1>2, <1>3, KindOfForm

\* What is named as wrong is a field that the protocol has and, where it gets the selection, one
\* that is shown.
LEMMA WrongIsShown ==
    ASSUME NEW fm \in Forms, Wrong(fm) # <<>>
    PROVE  /\ InContext(fm, Wrong(fm)[1])
           /\ fm.kind # "editor" => Wrong(fm)[1] \in ToSet(Items(fm))
<1> DEFINE a == Filtered(Required(fm), {f \in ToSet(Required(fm)) : fm.val[f] = ""})
           b == Filtered(Checked(fm), {f \in ToSet(Checked(fm)) : fm.val[f] = "bad"})
<1>1. a \in Seq(Names) /\ ToSet(a) \subseteq ToSet(Required(fm))
    <2> DEFINE keep == {f \in ToSet(Required(fm)) : fm.val[f] = ""}
    <2> HIDE DEF keep
    <2>1. /\ Filtered(Required(fm), keep) \in Seq(Names)
          /\ Range(Filtered(Required(fm), keep)) = Range(Required(fm)) \cap keep
        BY RequiredInContext, FilteredIs
    <2> QED
        BY <2>1, ToSetIsRange DEF keep
<1>2. b \in Seq(Names) /\ ToSet(b) \subseteq ToSet(Checked(fm))
    <2> DEFINE keep == {f \in ToSet(Checked(fm)) : fm.val[f] = "bad"}
    <2> HIDE DEF keep
    <2>1. /\ Filtered(Checked(fm), keep) \in Seq(Names)
          /\ Range(Filtered(Checked(fm), keep)) = Range(Checked(fm)) \cap keep
        BY CheckedInContext, FilteredIs
    <2> QED
        BY <2>1, ToSetIsRange DEF keep
<1>3. Wrong(fm) = a \o b
    BY DEF Wrong
<1> HIDE DEF a, b
<1>4. Wrong(fm) \in Seq(Names) /\ ToSet(Wrong(fm)) = ToSet(a) \cup ToSet(b)
    BY <1>1, <1>2, <1>3, JoinedLists
<1> DEFINE f == Wrong(fm)[1]
<1>5. f \in ToSet(Wrong(fm))
    <2>1. DOMAIN Wrong(fm) = 1..Len(Wrong(fm)) /\ Len(Wrong(fm)) \in Nat /\ Len(Wrong(fm)) # 0
        BY <1>4, EmptySeq, LenProperties
    <2>2. 1 \in DOMAIN Wrong(fm)
        BY <2>1
    <2> QED
        BY <2>2 DEF ToSet
<1> HIDE DEF f
<1>6. f \in ToSet(Required(fm)) \cup ToSet(Checked(fm))
    BY <1>1, <1>2, <1>4, <1>5
<1>7. /\ InContext(fm, f)
      /\ fm.kind = "quick" => f \in ToSet(QuickOrder)
      /\ fm.kind = "prompt" => f \in ToSet(PromptOrder)
    BY <1>6, RequiredInContext, CheckedInContext
<1>8. fm.kind # "editor" => f \in ToSet(Items(fm))
    BY <1>7, KindOfForm, QuickItemsShown, PromptItemsShown
<1> QED
    BY <1>7, <1>8 DEF f

-----------------------------------------------------------------------------
(* HostForm: the port of an entry, when the protocol is switched to and fro *)

DefaultPort(rdp) == IF rdp THEN "3389" ELSE "22"
OtherPort(default) == IF default = "22" THEN "3389" ELSE "22"

\* The port in a form whose protocol has one default, of an entry whose protocol had one, after
\* n turns.
PortKept(port, default, first, was, n) ==
    IF default = was
    THEN port = first \/ (port = was /\ first \in {"", OtherPort(was)} /\ n > 1)
    ELSE /\ n > 0
         /\ \/ port = default /\ first \in {"", "22", "3389"}
            \/ port = first /\ first \notin {"", "22", "3389"}

LEMMA PortKeptLonger ==
    ASSUME NEW port, NEW default, NEW first, NEW was, NEW n \in Nat,
           PortKept(port, default, first, was, n)
    PROVE  PortKept(port, default, first, was, n + 1)
<1>1. n + 1 > 0 /\ (n > 1 => n + 1 > 1)
    OBVIOUS
<1> QED
    BY <1>1, Zenon DEF PortKept

LEMMA PortSwitched ==
    ASSUME NEW port, NEW default \in {"22", "3389"}, NEW first, NEW was \in {"22", "3389"},
           NEW n \in Nat, PortKept(port, default, first, was, n)
    PROVE  PortKept(IF port \in {"", default} THEN OtherPort(default) ELSE port,
                    OtherPort(default), first, was, n + 1)
<1>1. n + 1 > 0 /\ (n > 0 => n + 1 > 1) /\ (n > 1 => n > 0)
    OBVIOUS
<1>2. OtherPort("22") = "3389" /\ OtherPort("3389") = "22"
    BY DEF OtherPort
<1>3. CASE default = was
    <2>1. OtherPort(default) # was
        BY <1>2, <1>3
    <2>2. CASE port \in {"", default}
        <3>1. first \in {"", "22", "3389"}
            BY <1>2, <1>3, <2>2 DEF PortKept
        <3> QED
            BY <1>1, <2>1, <2>2, <3>1 DEF PortKept
    <2>3. CASE port \notin {"", default}
        <3>1. port = first
            BY <1>3, <2>3 DEF PortKept
        <3> QED
            BY <1>1, <1>2, <2>1, <2>3, <3>1 DEF PortKept
    <2> QED
        BY <2>2, <2>3
<1>4. CASE default # was
    <2>1. OtherPort(default) = was /\ OtherPort(was) = default
        BY <1>2, <1>4
    <2>2. n > 0
        BY <1>4 DEF PortKept
    <2>3. CASE port = default /\ first \in {"", "22", "3389"}
        <3>1. first = was \/ first \in {"", default}
            BY <1>4, <2>3
        <3> QED
            BY <1>1, <2>1, <2>2, <2>3, <3>1 DEF PortKept
    <2>4. CASE port = first /\ first \notin {"", "22", "3389"}
        BY <2>1, <2>4 DEF PortKept
    <2> QED
        BY <1>4, <2>3, <2>4 DEF PortKept
<1> QED
    BY <1>3, <1>4

-----------------------------------------------------------------------------
(* HostForm: the invariant of the forms *)

Untouched == form.kind = "editor" /\ form.mode = "Edit" /\ edits = 0

\* An editor's form holds what was loaded; its port is where the turns left it.
AsLoaded(fm, e, n) ==
    /\ \A f \in EditorFields \ {"Port"} : fm.val[f] = LoadedText(e, f)
    /\ PortKept(fm.val["Port"], DefaultPort(fm.rdp), e.val["Port"],
                DefaultPort(e.protocol = "rdp"), n)

\* What is selected is shown, and an entry that was not edited is as it was loaded.
FormInv ==
    /\ form \in {Closed} \cup Forms /\ opened \in Entries \cup {NoEntry}
    /\ edits \in 0..MaxEdits /\ turns \in 0..MaxTurns
    /\ IsOpen => IsItem(form, form.item)
    /\ Untouched => AsLoaded(form, opened, turns)

LEMMA InvIsTyped == FormInv => FormTypeOK
    BY DEF FormInv, FormTypeOK, Forms

LEMMA OpenFormIn ==
    ASSUME FormInv
    PROVE  IsOpen => form \in Forms
    BY DEF FormInv, IsOpen

LEMMA DefaultOfBoolean ==
    ASSUME NEW rdp \in BOOLEAN
    PROVE  DefaultPort(rdp) \in {"22", "3389"} /\ DefaultPort(~rdp) = OtherPort(DefaultPort(rdp))
<1>1. CASE rdp = TRUE
    BY <1>1 DEF DefaultPort, OtherPort
<1>2. CASE rdp = FALSE
    BY <1>2 DEF DefaultPort, OtherPort
<1> QED
    BY <1>1, <1>2

LEMMA FormInvInit == FormInit => FormInv
    BY FormBoundsAssumption DEF FormInit, FormInv, IsOpen, Untouched, Closed

LEMMA OpenFormKeeps ==
    ASSUME FormInv, OpenForm
    PROVE  FormInv'
<1>1. edits' = 0 /\ turns' = 0 /\ edits' \in 0..MaxEdits /\ turns' \in 0..MaxTurns
    BY FormBoundsAssumption DEF OpenForm
<1>2. ASSUME NEW e \in Entries, opened' = e, form' = Loaded(e)
      PROVE  FormInv'
    <2>1. e \in Entry
        BY EntriesAssumption
    <2>2. /\ form' \in EditorForms /\ form'.item = "Name" /\ form'.rdp = (e.protocol = "rdp")
          /\ \A f \in EditorFields : form'.val[f] = LoadedText(e, f)
        BY <1>2, <2>1, LoadedIs
    <2>3. form'.val["Port"] = e.val["Port"]
        BY <2>2, EditorFieldSet DEF LoadedText
    <2>4. DefaultPort(form'.rdp) = DefaultPort(e.protocol = "rdp")
        BY <2>2, Zenon
    <2>5. PortKept(form'.val["Port"], DefaultPort(form'.rdp), e.val["Port"],
                   DefaultPort(e.protocol = "rdp"), turns')
        BY <2>3, <2>4, Zenon DEF PortKept
    <2>6. AsLoaded(form', e, turns')
        BY <2>2, <2>5 DEF AsLoaded
    <2>7. form' \in Forms /\ IsItem(form', form'.item)
        BY <2>2, BasicShown DEF Forms
    <2> QED
        BY <1>1, <1>2, <2>6, <2>7 DEF FormInv
<1>3. ASSUME opened' \in Entries \cup {NoEntry}, form' \in Forms,
             IsItem(form', form'.item),
             form'.kind = "editor" => form'.mode = "Create"
      PROVE  FormInv'
    BY <1>1, <1>3 DEF FormInv, Untouched
<1>4. ASSUME NEW e \in Entries, opened' = e, form' = Duplicated(e)
      PROVE  FormInv'
    <2>1. form' \in EditorForms /\ form'.mode = "Create" /\ IsItem(form', form'.item)
        BY <1>4, DuplicatedIs, EntriesAssumption
    <2> QED
        BY <1>3, <1>4, <2>1 DEF Forms
<1>5. ASSUME NEW e \in Entries, opened' = e, form' = Prompt(e)
      PROVE  FormInv'
    <2>1. form' \in Prompts /\ IsItem(form', form'.item)
        BY <1>5, PromptIs, EntriesAssumption
    <2>2. form'.kind # "editor"
        BY <2>1 DEF Prompts
    <2> QED
        BY <1>3, <1>5, <2>1, <2>2 DEF Forms
<1>6. ASSUME opened' = NoEntry, form' = Created
      PROVE  FormInv'
    <2>1. form' \in EditorForms /\ form'.mode = "Create" /\ IsItem(form', form'.item)
        BY <1>6, CreatedIs
    <2> QED
        BY <1>3, <1>6, <2>1 DEF Forms
<1>7. ASSUME opened' = NoEntry, form' = QuickForm
      PROVE  FormInv'
    <2>1. form' \in QuickForms /\ IsItem(form', form'.item)
        BY <1>7, QuickFormIs
    <2>2. form'.kind # "editor"
        BY <2>1 DEF QuickForms
    <2> QED
        BY <1>3, <1>7, <2>1, <2>2 DEF Forms
<1> QED
    BY <1>2, <1>4, <1>5, <1>6, <1>7 DEF OpenForm

\* Another item of the form is selected, nothing else changes.
LEMMA SelectionKeeps ==
    ASSUME FormInv, IsOpen, NEW i \in ToSet(Items(form)), form' = [form EXCEPT !.item = i],
           UNCHANGED <<opened, edits, turns>>
    PROVE  FormInv'
<1>1. form \in Forms
    BY OpenFormIn
<1>2. /\ Alike(form', form) /\ form'.val = form.val /\ IsItem(form', form'.item)
    BY <1>1, ItemChanged
<1>3. Untouched' => AsLoaded(form', opened', turns')
    <2>1. Untouched' => Untouched
        BY <1>2 DEF Untouched, Alike
    <2>2. Untouched => AsLoaded(form, opened, turns)
        BY DEF FormInv
    <2>3. AsLoaded(form, opened, turns) => AsLoaded(form', opened', turns')
        BY <1>2, Zenon DEF AsLoaded, Alike
    <2> QED
        BY <2>1, <2>2, <2>3
<1> QED
    BY <1>2, <1>3 DEF FormInv, Alike

\* A text is changed, which is counted.
LEMMA EditKeeps ==
    ASSUME FormInv, IsOpen, Edited, NEW f, NEW text \in Texts,
           form' = [form EXCEPT !.val[f] = text]
    PROVE  FormInv'
<1>1. form \in Forms
    BY OpenFormIn
<1>2. Alike(form', form) /\ form'.item = form.item /\ Items(form') = Items(form)
    BY <1>1, TextChanged, ZenonT(60)
<1>3. IsItem(form', form'.item)
    BY <1>2 DEF FormInv, IsItem
<1>4. edits' \in 0..MaxEdits /\ edits' # 0 /\ turns' = turns /\ opened' = opened
    BY FormBoundsAssumption DEF FormInv, Edited
<1> QED
    BY <1>2, <1>3, <1>4 DEF FormInv, Alike, Untouched

LEMMA ToggleSectionKeeps ==
    ASSUME FormInv, ToggleSection
    PROVE  FormInv'
<1> DEFINE s == form.item
           hidden == (form.collapsed \ {s}) \cup ({s} \ form.collapsed)
           fm == [form EXCEPT !.collapsed = hidden]
<1>1. form \in EditorForms /\ form.kind = "editor" /\ s \in ToSet(Sections) \ {"Basic"}
    BY OpenFormIn, KindOfForm DEF ToggleSection
<1>2. form.collapsed \in SUBSET (ToSet(Sections) \ {"Basic"})
    BY <1>1 DEF EditorForms
<1>3. hidden \in SUBSET (ToSet(Sections) \ {"Basic"})
    BY <1>1, <1>2
<1>4. form' = Ensured(fm)
    BY DEF ToggleSection
<1> HIDE DEF hidden
<1>5. /\ fm \in Forms /\ fm.kind = form.kind /\ fm.rdp = form.rdp /\ fm.val = form.val
      /\ fm.mode = form.mode
    BY <1>1, <1>3, SectionsFolded
<1> HIDE DEF fm
<1>6. fm \in EditorForms
    BY <1>1, <1>5, KindOfForm
<1>7. Alike(form', fm) /\ form'.val = fm.val /\ IsItem(form', form'.item)
    BY <1>4, <1>6, SelectionEnsured
<1>8. turns \in Nat /\ turns' = turns + 1 /\ turns' \in 0..MaxTurns /\ edits' = edits /\ opened' = opened
    BY FormBoundsAssumption DEF FormInv, ToggleSection, Turned
<1>9. Untouched' => AsLoaded(form', opened', turns')
    <2>1. Untouched' => Untouched
        BY <1>1, <1>5, <1>7, <1>8 DEF Untouched, Alike
    <2>2. Untouched => AsLoaded(form, opened, turns)
        BY DEF FormInv
    <2>3. form'.rdp = form.rdp /\ form'.val = form.val
        BY <1>5, <1>7 DEF Alike
    <2>4. AsLoaded(form, opened, turns) => AsLoaded(form', opened', turns + 1)
        BY <1>8, <2>3, PortKeptLonger, Zenon DEF AsLoaded
    <2> QED
        BY <1>8, <2>1, <2>2, <2>4
<1> QED
    BY <1>7, <1>8, <1>9 DEF FormInv, Alike

LEMMA ToggleProtocolKeeps ==
    ASSUME FormInv, ToggleProtocol
    PROVE  FormInv'
<1> DEFINE gm == [form EXCEPT !.rdp = ~@]
           fm == Ensured(gm)
<1>1. form \in EditorForms \cup QuickForms
    <2>1. form \in Forms /\ form.item = "Protocol"
        BY OpenFormIn DEF ToggleProtocol
    <2>2. "Protocol" \notin ToSet(PromptOrder)
        BY QuickSet
    <2>3. form \notin Prompts
        BY <2>1, <2>2 DEF Prompts
    <2> QED
        BY <2>1, <2>3 DEF Forms
<1>2. /\ gm \in Forms /\ gm.kind = form.kind /\ gm.rdp = ~form.rdp /\ gm.val = form.val
      /\ form.kind = "editor" => gm.mode = form.mode
    BY <1>1, ProtocolSwitched
<1>3. form' = IF form.kind = "quick" THEN fm ELSE [fm EXCEPT !.val["Port"] = SwitchedPort(fm)]
    BY DEF ToggleProtocol
<1> HIDE DEF gm
<1>4. gm \in EditorForms \cup QuickForms
    BY <1>1, <1>2, KindOfForm DEF Forms
<1>5. Alike(fm, gm) /\ fm.val = gm.val /\ IsItem(fm, fm.item)
    BY <1>4, SelectionEnsured
<1> HIDE DEF fm
<1>6. turns \in Nat /\ turns' = turns + 1 /\ turns' \in 0..MaxTurns /\ edits' = edits /\ opened' = opened
    BY FormBoundsAssumption DEF FormInv, ToggleProtocol, Turned
<1>7. CASE form.kind = "quick"
    <2>1. form' = fm /\ fm.kind = "quick"
        BY <1>2, <1>3, <1>5, <1>7 DEF Alike
    <2> QED
        BY <1>5, <1>6, <2>1 DEF FormInv, Alike, Untouched
<1>8. CASE form.kind # "quick"
    <2> DEFINE port == SwitchedPort(fm)
    <2>1. form \in EditorForms /\ fm \in EditorForms /\ fm \in Forms /\ form.kind = "editor"
        BY <1>1, <1>2, <1>5, <1>8, KindOfForm DEF Alike, Forms
    <2>2. form.rdp \in BOOLEAN /\ fm.rdp \in BOOLEAN
        BY <2>1 DEF EditorForms
    <2>3. form.val \in [EditorFields -> Texts] /\ fm.val = form.val /\ "Port" \in EditorFields
        BY <1>2, <1>5, <2>1, EditorFieldSet DEF EditorForms
    <2>4. fm.rdp = ~form.rdp
        BY <1>2, <1>5, Zenon DEF Alike
    <2>5. DefaultPort(fm.rdp) = OtherPort(DefaultPort(form.rdp))
        BY <2>2, <2>4, DefaultOfBoolean, Zenon
    <2>6. port = IF form.val["Port"] \in {"", DefaultPort(form.rdp)} THEN DefaultPort(fm.rdp)
                 ELSE form.val["Port"]
        BY <2>2, <2>3, <2>4 DEF SwitchedPort, DefaultPort
    <2>7. port \in Texts
        BY <2>3, <2>6, TextsAssumption DEF DefaultPort
    <2> HIDE DEF port
    <2>8. form' = [fm EXCEPT !.val["Port"] = port]
        BY <1>3, <1>8 DEF port
    <2>9. /\ Alike(form', fm) /\ form'.item = fm.item /\ form'.val = [fm.val EXCEPT !["Port"] = port]
          /\ Items(form') = Items(fm)
        BY <2>1, <2>7, <2>8, TextChanged
    <2>10. IsItem(form', form'.item)
        BY <1>5, <2>9 DEF IsItem
    <2>11. Untouched' => AsLoaded(form', opened', turns')
        <3>1. Untouched' => Untouched
            BY <1>2, <1>5, <1>6, <2>1, <2>9, KindOfForm DEF Untouched, Alike
        <3>2. Untouched => AsLoaded(form, opened, turns)
            BY DEF FormInv
        <3>3. ASSUME AsLoaded(form, opened, turns)
              PROVE  AsLoaded(form', opened, turns + 1)
            <4> DEFINE was == DefaultPort(opened.protocol = "rdp")
                       default == DefaultPort(form.rdp)
            <4>1. /\ form'.val["Port"] = port
                  /\ \A f \in EditorFields \ {"Port"} : form'.val[f] = form.val[f]
                BY <2>3, <2>9
            <4>2. was \in {"22", "3389"} /\ default \in {"22", "3389"}
                BY <2>2, DefaultOfBoolean
            <4>3. PortKept(form.val["Port"], default, opened.val["Port"], was, turns)
                BY <3>3 DEF AsLoaded
            <4>4. DefaultPort(form'.rdp) = OtherPort(default)
                BY <2>5, <2>9, Zenon DEF Alike
            <4>5. port = IF form.val["Port"] \in {"", default} THEN OtherPort(default)
                         ELSE form.val["Port"]
                BY <2>5, <2>6
            <4> HIDE DEF was, default
            <4>6. PortKept(port, OtherPort(default), opened.val["Port"], was, turns + 1)
                BY <1>6, <4>2, <4>3, <4>5, PortSwitched
            <4>7. PortKept(form'.val["Port"], DefaultPort(form'.rdp), opened.val["Port"], was, turns + 1)
                BY <4>1, <4>4, <4>6
            <4>8. \A f \in EditorFields \ {"Port"} : form'.val[f] = LoadedText(opened, f)
                BY <3>3, <4>1 DEF AsLoaded
            <4> QED
                BY <4>7, <4>8 DEF AsLoaded, was
        <3> QED
            BY <1>6, <3>1, <3>2, <3>3
    <2> QED
        BY <1>6, <2>9, <2>10, <2>11 DEF FormInv, Alike
<1> QED
    BY <1>7, <1>8

\* What a list offers for the selected item are texts.
LEMMA OptionsAreTexts ==
    ASSUME NEW fm
    PROVE  OptionsOf(fm) \in Seq(Texts)
<1>1. "off" \in Texts /\ "on" \in Texts /\ "" \in Texts /\ "yes" \in Texts /\ "no" \in Texts
    BY TextsAssumption
<1>2. <<"off", "on">> \in Seq(Texts) /\ <<"", "yes", "no">> \in Seq(Texts)
    <2>1. \A a, b, c \in Texts : <<a, b>> \in Seq(Texts) /\ <<a, b, c>> \in Seq(Texts)
        OBVIOUS
    <2> QED
        BY <1>1, <2>1
<1>3. <<>> \in Seq(Texts)
    OBVIOUS
<1>4. ProfileOptions \in Seq(Texts) /\ VaultOptions \in Seq(Texts)
    BY OptionsAssumption
<1> QED
    BY <1>2, <1>3, <1>4 DEF OptionsOf

LEMMA ChoiceKeeps ==
    ASSUME FormInv, NEW value \in ToSet(OptionsOf(form)), Choose(value)
    PROVE  FormInv'
<1>1. value \in Texts
    <2>1. OptionsOf(form) \in Seq(Texts)
        BY OptionsAreTexts
    <2>2. \A i \in DOMAIN OptionsOf(form) : OptionsOf(form)[i] \in Texts
        BY <2>1, ElementOfSeq, LenProperties
    <2> QED
        BY <2>2 DEF ToSet
<1>2. IsOpen /\ Edited /\ form' = [form EXCEPT !.val[form.item] = value]
    BY DEF Choose
<1> QED
    BY <1>1, <1>2, EditKeeps

LEMMA CycleKeeps ==
    ASSUME FormInv, CycleNext \/ CyclePrev
    PROVE  FormInv'
<1> DEFINE options == OptionsOf(form)
<1>1. options \in Seq(Texts) /\ options # <<>>
    BY OptionsAreTexts DEF CycleNext, CyclePrev, Choose
<1>2. CycleOn(options, Chosen) \in ToSet(options) /\ CycleBack(options, Chosen) \in ToSet(options)
    BY <1>1, CycledOn
<1> QED
    BY <1>2, ChoiceKeeps DEF CycleNext, CyclePrev

LEMMA SubmitKeeps ==
    ASSUME FormInv, Submit
    PROVE  FormInv'
<1>1. form \in Forms /\ IsOpen /\ UNCHANGED <<opened, edits, turns>>
    BY OpenFormIn DEF Submit
<1>2. form' = IF Wrong(form) = <<>> THEN Closed
              ELSE IF form.kind = "editor" THEN form
              ELSE [form EXCEPT !.item = Wrong(form)[1]]
    BY DEF Submit
<1>3. CASE form' = Closed
    BY <1>1, <1>3 DEF FormInv, IsOpen, Untouched, Closed
<1>4. CASE form' = form
    BY <1>1, <1>4 DEF FormInv, IsOpen, Untouched
<1>5. CASE Wrong(form) # <<>> /\ form.kind # "editor"
    <2>1. Wrong(form)[1] \in ToSet(Items(form))
        BY <1>1, <1>5, WrongIsShown
    <2>2. form' = [form EXCEPT !.item = Wrong(form)[1]]
        BY <1>2, <1>5
    <2> QED
        BY <1>1, <2>1, <2>2, SelectionKeeps
<1> QED
    BY <1>2, <1>3, <1>4, <1>5

LEMMA FormInvStep ==
    ASSUME FormInv, [FormNext]_formVars
    PROVE  FormInv'
<1>1. CASE OpenForm
    BY <1>1, OpenFormKeeps
<1>2. CASE SelectNext \/ SelectPrev
    <2>1. form \in Forms /\ IsOpen
        BY <1>2, OpenFormIn DEF SelectNext, SelectPrev
    <2>2. /\ CycleOn(Items(form), form.item) \in ToSet(Items(form))
          /\ CycleBack(Items(form), form.item) \in ToSet(Items(form))
        BY <2>1, ItemsAreOfKind, CycledOn
    <2> QED
        BY <1>2, <2>1, <2>2, SelectionKeeps DEF SelectNext, SelectPrev
<1>3. ASSUME IsOpen, NEW i \in ToSet(Items(form)), ClickItem(i)
      PROVE  FormInv'
    BY <1>3, SelectionKeeps DEF ClickItem
<1>4. CASE ToggleSection
    BY <1>4, ToggleSectionKeeps
<1>5. CASE ToggleProtocol
    BY <1>5, ToggleProtocolKeeps
<1>6. CASE CycleNext \/ CyclePrev
    BY <1>6, CycleKeeps
<1>7. CASE PickFolder
    <2>1. "new" \in Texts
        BY TextsAssumption
    <2>2. IsOpen /\ Edited /\ form' = [form EXCEPT !.val["FolderPath"] = "new"]
        BY <1>7 DEF PickFolder
    <2> QED
        BY <2>1, <2>2, EditKeeps
<1>8. ASSUME NEW text \in Typed(form), Type(text)
      PROVE  FormInv'
    <2>1. text \in Texts
        BY TextsAssumption DEF Typed
    <2>2. IsOpen /\ Edited /\ form' = [form EXCEPT !.val[form.item] = text]
        BY <1>8 DEF Type
    <2> QED
        BY <2>1, <2>2, EditKeeps
<1>9. CASE Submit
    BY <1>9, SubmitKeeps
<1>10. CASE CloseForm
    BY <1>10 DEF CloseForm, FormInv, IsOpen, Untouched, Closed
<1>11. CASE UNCHANGED formVars
    BY <1>11 DEF formVars, FormInv, IsOpen, Untouched
<1> QED
    BY <1>1, <1>2, <1>3, <1>4, <1>5, <1>6, <1>7, <1>8, <1>9, <1>10, <1>11 DEF FormNext

LEMMA FormInvariant == FormSpec => []FormInv
<1>1. FormInit => FormInv
    BY FormInvInit
<1>2. FormInv /\ [FormNext]_formVars => FormInv'
    BY FormInvStep
<1> QED
    BY <1>1, <1>2, PTL DEF FormSpec

\* Types of the forms: which fields each kind has, and what it may have selected.
THEOREM FormTypeCorrect == FormSpec => []FormTypeOK
    BY FormInvariant, InvIsTyped, PTL

LEMMA InvShowsSelection == FormInv => SelectionIsShown
<1> SUFFICES ASSUME FormInv, IsOpen
             PROVE  /\ IsItem(form, form.item)
                    /\ Wrong(form) # <<>> => InContext(form, Wrong(form)[1])
    BY DEF SelectionIsShown
<1>1. form \in Forms
    BY OpenFormIn
<1> QED
    BY <1>1, WrongIsShown DEF FormInv

\* The selected item of a form is one that it shows, and a field that a refused submission names
\* is one that the protocol has (ensure_selected_item_visible, build_submission), for all entries,
\* options and texts, and any number of turns and edits.
THEOREM SelectionIsAlwaysShown == FormSpec => []SelectionIsShown
    BY FormInvariant, InvShowsSelection, PTL

\* The profile that is shown for an entry without one is not saved.
LEMMA ProfileIsSaved ==
    ASSUME NEW value
    PROVE  LET shown == OrFirst(value, ProfileOptions)
           IN  value = "default" \/ (IF shown = "default" THEN "" ELSE shown) = value
    BY OptionsAssumption DEF OrFirst

\* What the next load finds: the entry's protocol if the program knows it, and each of its
\* options once if none has a key of its own.
LEMMA ReadAgain ==
    ASSUME NEW fm, NEW e \in Entry, fm.rdp = (e.protocol = "rdp"), e.protocol # "other", e.own = 0
    PROVE  LET again == Read(Written(fm, e))
           IN  /\ again.protocol = e.protocol /\ again.val = Saved(fm)
               /\ fm.rdp \/ again.values = Read(e).values
<1>1. e.protocol \in {"ssh", "rdp"} /\ e.under \in Nat /\ e.own \in Nat
    BY DEF Entry
<1>2. fm.rdp \/ e.own + Written(fm, e).under = e.own + e.under
    BY <1>1 DEF Written
<1> QED
    BY <1>1, <1>2 DEF Read, Written

LEMMA InvKeepsEntry == FormInv => UnchangedEntrySurvives
<1> SUFFICES ASSUME FormInv, Untouched, form.rdp = (opened.protocol = "rdp"),
                    opened.protocol # "other", opened.own = 0
             PROVE  LET again == Read(Written(form, opened))
                    IN  /\ again.protocol = opened.protocol
                        /\ form.rdp \/ again.values = Read(opened).values
                        /\ \A f \in EditorFields \ {"FolderPath"} :
                              \/ again.val[f] = opened.val[f]
                              \/ ~InContext(form, f)
                              \/ f = "VaultPass" /\ opened.val[f] = ""
                              \/ f = "Port" /\ turns > 1
                                 /\ opened.val[f] \in {"", IF form.rdp THEN "22" ELSE "3389"}
                              \/ f = "Profile" /\ opened.val[f] = "default"
    BY Zenon DEF UnchangedEntrySurvives, Untouched
<1>0. opened \in Entry
    BY NoEntryIsEntry, EntriesAssumption DEF FormInv
<1>a. LET again == Read(Written(form, opened))
      IN  /\ again.protocol = opened.protocol /\ again.val = Saved(form)
          /\ form.rdp \/ again.values = Read(opened).values
    BY <1>0, ReadAgain
<1> SUFFICES ASSUME NEW f \in EditorFields \ {"FolderPath"}, InContext(form, f)
             PROVE  \/ Saved(form)[f] = opened.val[f]
                    \/ f = "VaultPass" /\ opened.val[f] = ""
                    \/ f = "Port" /\ turns > 1 /\ opened.val[f] \in {"", IF form.rdp THEN "22" ELSE "3389"}
                    \/ f = "Profile" /\ opened.val[f] = "default"
    BY <1>a
<1>1. AsLoaded(form, opened, turns)
    BY DEF FormInv
<1>2. Saved(form)[f] = IF f = "Profile" /\ form.val[f] = "default" THEN "" ELSE form.val[f]
    BY DEF Saved
<1>3. CASE f = "Port"
    <2>1. Saved(form)[f] = form.val["Port"]
        BY <1>2, <1>3
    <2>2. form \in EditorForms
        BY KindOfForm DEF FormInv, Untouched, Closed
    <2>3. form.rdp \in BOOLEAN
        BY <2>2 DEF EditorForms
    <2>4. DefaultPort(opened.protocol = "rdp") = DefaultPort(form.rdp)
        BY Zenon
    <2>5. PortKept(form.val["Port"], DefaultPort(form.rdp), opened.val["Port"], DefaultPort(form.rdp), turns)
        BY <1>1, <2>4, Zenon DEF AsLoaded
    <2>6. \/ form.val["Port"] = opened.val["Port"]
          \/ opened.val["Port"] \in {"", OtherPort(DefaultPort(form.rdp))} /\ turns > 1
        BY <2>5 DEF PortKept
    <2>7. OtherPort(DefaultPort(form.rdp)) = IF form.rdp THEN "22" ELSE "3389"
        BY <2>3 DEF OtherPort, DefaultPort
    <2> QED
        BY <1>3, <2>1, <2>6, <2>7
<1>4. CASE f = "Profile"
    <2>1. form.val[f] = OrFirst(opened.val[f], ProfileOptions)
        BY <1>1, <1>4 DEF AsLoaded, LoadedText
    <2> QED
        BY <1>2, <1>4, <2>1, ProfileIsSaved
<1>5. CASE f = "VaultPass"
    <2>1. form.val[f] = OrFirst(opened.val[f], VaultOptions)
        BY <1>1, <1>5 DEF AsLoaded, LoadedText
    <2> QED
        BY <1>2, <1>5, <2>1 DEF OrFirst
<1>6. CASE f \notin {"Port", "Profile", "VaultPass"}
    BY <1>1, <1>2, <1>6 DEF AsLoaded, LoadedText
<1> QED
    BY <1>3, <1>4, <1>5, <1>6

\* An entry of a known protocol, and without an option under a key of its own, that is opened and
\* saved without an edit is what it was when it is loaded again, but for what
\* UnchangedEntrySurvives names (new_edit, build_submission, apply_editable_host_to_mapping,
\* parse_host, apply_default_port_for_protocol_switch), however often the protocol is switched
\* to and fro.
THEOREM EntrySurvives == FormSpec => []UnchangedEntrySurvives
    BY FormInvariant, InvKeepsEntry, PTL

-----------------------------------------------------------------------------
(* HostRows: rows are lines of the tree *)

LEMMA ShownIs ==
    ASSUME NEW t, t \in Seq(Range(t)), NEW closed, NEW q
    PROVE  Shown(t, closed, q) \in Seq(Range(t))
    BY FilteredIs DEF Shown, Unfolded, Matching

\* The row that is selected anew exists, and is the preferred one if there is one.
LEMMA RepairedIs ==
    ASSUME NEW S, NEW rs \in Seq(S), NEW preferred
    PROVE  /\ rs # <<>> => Repaired(rs, preferred) \in 1..Len(rs)
           /\ Repaired(rs, preferred) \in Nat \ {0}
           /\ rs = <<>> => Repaired(rs, preferred) = 1
           /\ (\E k \in DOMAIN rs : KeyOf(rs[k]) \in preferred)
                 => KeyOf(rs[Repaired(rs, preferred)]) \in preferred
<1> DEFINE same == {k \in DOMAIN rs : KeyOf(rs[k]) \in preferred}
           first == CHOOSE k \in same : \A j \in same : k <= j
<1>1. Len(rs) \in Nat /\ DOMAIN rs = 1..Len(rs)
    BY LenProperties
<1>2. rs # <<>> => Len(rs) \in Nat \ {0}
    BY EmptySeq
<1>3. rs = <<>> => Len(rs) = 0
    BY EmptySeq
<1>4. Repaired(rs, preferred) = IF same = {} THEN 1 ELSE first
    BY Zenon DEF Repaired
<1>5. CASE same = {}
    BY <1>1, <1>2, <1>4, <1>5
<1>6. CASE same # {}
    <2>1. same \in SUBSET Nat
        BY <1>1
    <2>2. \E k \in same : \A j \in same : k <= j
        BY <1>6, <2>1, LeastNat, Zenon
    <2>3. first \in same
        BY <2>2, Zenon
    <2> HIDE DEF first
    <2>4. Repaired(rs, preferred) \in DOMAIN rs /\ KeyOf(rs[Repaired(rs, preferred)]) \in preferred
        BY <1>4, <1>6, <2>3
    <2> QED
        BY <1>1, <1>3, <2>4
<1> QED
    BY <1>5, <1>6

-----------------------------------------------------------------------------
(* HostRows: the selected row *)

\* The rows are those of the tree, the folds and the search; what is selected is one of them and,
\* once drawn, in the window.
RowsInv ==
    /\ rowTree \in Trees /\ rows = Shown(rowTree, folded, query)
    /\ chosen \in Nat \ {0} /\ (IF rows = <<>> THEN chosen = 1 ELSE chosen <= Len(rows))
    /\ top \in Nat /\ height \in Nat /\ drawn \in BOOLEAN
    /\ (drawn /\ rows # <<>>) => chosen \in (top + 1)..(top + height)

LEMMA RowsAreLines ==
    ASSUME RowsInv PROVE rows \in Seq(Range(rowTree)) /\ Len(rows) \in Nat
                         /\ DOMAIN rows = 1..Len(rows) /\ (rows # <<>> <=> Len(rows) # 0)
<1>1. rows \in Seq(Range(rowTree))
    BY ShownIs, TreesAssumption DEF RowsInv
<1> QED
    BY <1>1, LenProperties, EmptySeq

LEMMA RefilterKept ==
    ASSUME RowsInv, NEW preferred, rowTree' \in Trees, Refilter(preferred),
           top' \in Nat, height' \in Nat, drawn' = FALSE
    PROVE  RowsInv'
<1>1. rows' = Shown(rowTree', folded', query') /\ chosen' = Repaired(rows', preferred)
    BY DEF Refilter
<1>2. rows' \in Seq(Range(rowTree'))
    BY <1>1, ShownIs, TreesAssumption
<1>3. chosen' \in Nat \ {0} /\ (rows' # <<>> => chosen' \in 1..Len(rows'))
    BY <1>1, <1>2, RepairedIs
<1>4. Len(rows') \in Nat
    BY <1>2, LenProperties
<1>5. IF rows' = <<>> THEN chosen' = 1 ELSE chosen' <= Len(rows')
    BY <1>1, <1>2, <1>3, <1>4, RepairedIs
<1> QED
    BY <1>1, <1>3, <1>5 DEF RowsInv

LEMMA SelectKept ==
    ASSUME RowsInv, Handled, NEW k \in 1..Len(rows), Select(k)
    PROVE  RowsInv'
<1>1. /\ chosen' = k /\ folded' = folded /\ query' = query /\ rows' = rows /\ top' = top
      /\ drawn' = FALSE /\ rowTree' = rowTree /\ height' = height
    BY DEF Handled, Select
<1>2. k \in Nat \ {0} /\ k <= Len(rows) /\ rows # <<>>
    BY RowsAreLines
<1> QED
    BY <1>1, <1>2 DEF RowsInv

LEMMA FoldKept ==
    ASSUME RowsInv, Handled, NEW ln, NEW fold, SetFolded(ln, fold)
    PROVE  RowsInv'
<1>1. /\ Refilter({KeyOf(ln)}) /\ top' \in Nat /\ height' \in Nat /\ drawn' = FALSE
      /\ rowTree' \in Trees
    BY DEF SetFolded, Handled, RowsInv
<1> QED
    BY <1>1, RefilterKept

\* The place that a scroll bar is dragged to is a place in the list.
LEMMA DragKept ==
    ASSUME RowsInv, NEW r \in Nat, DragBar(r)
    PROVE  RowsInv'
<1> DEFINE most == Len(rows) - height
           rounded == (r * most + (height - 1) \div 2) \div (height - 1)
           to == IF height = 1 THEN 0 ELSE IF rounded > most THEN most ELSE rounded
           place == IF chosen - 1 - top > height - 1 THEN height - 1 ELSE chosen - 1 - top
           row == to + place + 1
<1>1. /\ drawn /\ drawn' = FALSE /\ rowTree' = rowTree /\ height' = height
      /\ r < height /\ most > 0
      /\ top' = to /\ chosen' = IF row > Len(rows) THEN Len(rows) ELSE row
      /\ folded' = folded /\ query' = query /\ rows' = rows
    BY DEF DragBar, Handled
<1>2. /\ Len(rows) \in Nat /\ height \in Nat \ {0} /\ most \in Nat \ {0} /\ Len(rows) # 0
    BY <1>1, RowsAreLines DEF RowsInv
<1>3. chosen \in Nat /\ top \in Nat /\ chosen >= top + 1
    <2>1. rows # <<>>
        BY <1>2, RowsAreLines
    <2> QED
        BY <1>1, <1>2, <2>1, SMTT(30) DEF RowsInv
<1>4. place \in Nat
    BY <1>2, <1>3
<1>5. to \in Nat
    <2>1. CASE height = 1
        BY <2>1
    <2>2. CASE height # 1
        <3>1. r * most \in Nat
            <4>1. \A m, n \in Nat : m * n \in Nat
                OBVIOUS
            <4> QED
                BY <1>2, <4>1, Zenon
        <3>2. \A m, n \in Nat : n # 0 => m \div n \in Nat
            OBVIOUS
        <3>3. (height - 1) \div 2 \in Nat /\ height - 1 \in Nat /\ height - 1 # 0
            BY <1>2, <2>2
        <3>4. r * most + (height - 1) \div 2 \in Nat
            BY <3>1, <3>3
        <3>5. rounded \in Nat
            BY <3>2, <3>3, <3>4, Zenon
        <3> HIDE DEF rounded
        <3> QED
            BY <1>2, <2>2, <3>5
    <2> QED
        BY <2>1, <2>2
<1> HIDE DEF to, place
<1>6. chosen' \in Nat \ {0} /\ chosen' <= Len(rows)
    BY <1>1, <1>2, <1>4, <1>5
<1>7. rows # <<>>
    BY <1>2, RowsAreLines
<1> QED
    BY <1>1, <1>5, <1>6, <1>7 DEF RowsInv

LEMMA DrawRowsKept ==
    ASSUME RowsInv, NEW h \in Heights, DrawRows(h)
    PROVE  RowsInv'
<1>1. h \in Nat \ {0}
    BY HeightsAssumption
<1>2. /\ drawn' = TRUE /\ height' = h /\ rowTree' = rowTree /\ folded' = folded
      /\ query' = query /\ rows' = rows /\ chosen' = chosen
      /\ top' = IF rows = <<>> THEN top
                ELSE IF chosen <= top THEN chosen - 1
                ELSE IF chosen > top + h THEN chosen - h ELSE top
    BY DEF DrawRows
<1>3. chosen \in Nat \ {0} /\ top \in Nat
    BY DEF RowsInv
<1>4. top' \in Nat /\ (rows # <<>> => chosen \in (top' + 1)..(top' + h))
    BY <1>1, <1>2, <1>3
<1> QED
    BY <1>1, <1>2, <1>4 DEF RowsInv

LEMMA ReloadKept ==
    ASSUME RowsInv, NEW t \in Trees, ReloadRows(t)
    PROVE  RowsInv'
<1>1. /\ rowTree' = t /\ drawn' = FALSE /\ height' = height /\ Refilter(SelectedKey)
      /\ top' = IF rows' = <<>> THEN 0 ELSE IF top > Len(rows') - 1 THEN Len(rows') - 1 ELSE top
    BY DEF ReloadRows
<1>2. rows' \in Seq(Range(t))
    BY <1>1, ShownIs, TreesAssumption DEF Refilter
<1>3. rows' # <<>> => Len(rows') \in Nat \ {0}
    BY <1>2, EmptySeq
<1>4. top' \in Nat
    BY <1>1, <1>3 DEF RowsInv
<1> QED
    BY <1>1, <1>4, RefilterKept DEF RowsInv

LEMMA RowsInvInit == RowsInit => RowsInv
<1> SUFFICES ASSUME RowsInit PROVE RowsInv
    OBVIOUS
<1>1. rowTree \in Trees /\ rows = Shown(rowTree, folded, query) /\ chosen = 1 /\ drawn = FALSE
      /\ top = 0 /\ height = 0
    BY DEF RowsInit
<1>2. rows \in Seq(Range(rowTree))
    BY <1>1, ShownIs, TreesAssumption
<1>3. rows # <<>> => Len(rows) \in Nat \ {0}
    BY <1>2, EmptySeq
<1>4. chosen \in Nat \ {0} /\ (IF rows = <<>> THEN chosen = 1 ELSE chosen <= Len(rows))
    BY <1>1, <1>3
<1>5. drawn \in BOOLEAN /\ ~drawn
    BY <1>1, Zenon
<1>6. top \in Nat /\ height \in Nat
    BY <1>1
<1> QED
    BY <1>1, <1>4, <1>5, <1>6, Zenon DEF RowsInv

LEMMA RowsInvNext == RowsInv /\ [RowsNext]_rowsVars => RowsInv'
<1> SUFFICES ASSUME RowsInv, [RowsNext]_rowsVars PROVE RowsInv'
    OBVIOUS
<1>1. /\ Len(rows) \in Nat /\ DOMAIN rows = 1..Len(rows) /\ (rows # <<>> <=> Len(rows) # 0)
      /\ chosen \in Nat \ {0} /\ (IF rows = <<>> THEN chosen = 1 ELSE chosen <= Len(rows))
      /\ top \in Nat /\ height \in Nat /\ rowTree \in Trees
    BY RowsAreLines DEF RowsInv
<1>2. ASSUME NEW h \in Heights, DrawRows(h) PROVE RowsInv'
    BY <1>2, DrawRowsKept
<1>3. CASE RowUp \/ RowDown \/ PageUp \/ PageDown \/ ToFirst \/ ToLast
    <2>1. Page \in Nat \ {0}
        BY <1>1 DEF Page
    <2>2. PICK k \in 1..Len(rows) : Select(k)
        <3>1. CASE RowUp
            <4>1. chosen - 1 \in 1..Len(rows)
                BY <1>1, <3>1 DEF RowUp
            <4> QED
                BY <3>1, <4>1 DEF RowUp
        <3>2. CASE RowDown
            <4>1. chosen + 1 \in 1..Len(rows)
                BY <1>1, <3>2 DEF RowDown
            <4> QED
                BY <3>2, <4>1 DEF RowDown
        <3>3. CASE PageUp
            <4>1. (IF chosen > Page THEN chosen - Page ELSE 1) \in 1..Len(rows)
                BY <1>1, <2>1, <3>3 DEF PageUp
            <4> QED
                BY <3>3, <4>1 DEF PageUp
        <3>4. CASE PageDown
            <4>1. (IF chosen + Page < Len(rows) THEN chosen + Page ELSE Len(rows)) \in 1..Len(rows)
                BY <1>1, <2>1, <3>4 DEF PageDown
            <4> QED
                BY <3>4, <4>1 DEF PageDown
        <3>5. CASE ToFirst
            <4>1. 1 \in 1..Len(rows)
                BY <1>1, <3>5 DEF ToFirst
            <4> QED
                BY <3>5, <4>1 DEF ToFirst
        <3>6. CASE ToLast
            <4>1. Len(rows) \in 1..Len(rows)
                BY <1>1, <3>6 DEF ToLast
            <4> QED
                BY <3>6, <4>1 DEF ToLast
        <3> QED
            BY <1>3, <3>1, <3>2, <3>3, <3>4, <3>5, <3>6
    <2>3. Handled
        BY <1>3 DEF RowUp, RowDown, PageUp, PageDown, ToFirst, ToLast
    <2> QED
        BY <2>2, <2>3, SelectKept
<1>4. CASE FoldRow \/ UnfoldRow \/ ToggleRow
    BY <1>4, FoldKept DEF FoldRow, UnfoldRow, ToggleRow
<1>5. CASE FoldAll
    <2>1. Refilter(SelectedKey) /\ top' = 0 /\ height' = height /\ drawn' = FALSE /\ rowTree' = rowTree
        BY <1>5 DEF FoldAll, Handled
    <2>2. 0 \in Nat
        OBVIOUS
    <2> QED
        BY <1>1, <2>1, <2>2, RefilterKept
<1>6. ASSUME NEW h \in Heights, NEW r \in 1..h, ClickRow(r) PROVE RowsInv'
    <2> DEFINE k == top + r
    <2>1. Handled /\ k \in DOMAIN rows
        BY <1>6 DEF ClickRow
    <2>2. CASE SetFolded(rows[k], rows[k].id \notin folded)
        BY <2>1, <2>2, FoldKept
    <2>3. CASE Select(k)
        BY <1>1, <2>1, <2>3, SelectKept
    <2> QED
        BY <1>6, <2>2, <2>3 DEF ClickRow
<1>7. ASSUME NEW h \in Heights, NEW r \in 1..h, DragBar(r - 1) PROVE RowsInv'
    <2>1. r - 1 \in Nat
        BY HeightsAssumption
    <2> QED
        BY <1>7, <2>1, DragKept
<1>8. ASSUME NEW q, Search(q) PROVE RowsInv'
    <2>1. Refilter(SelectedKey) /\ top' = 0 /\ height' = height /\ drawn' = FALSE /\ rowTree' = rowTree
        BY <1>8 DEF Search, Handled
    <2>2. 0 \in Nat
        OBVIOUS
    <2> QED
        BY <1>1, <2>1, <2>2, RefilterKept
<1>9. ASSUME NEW t \in Trees, ReloadRows(t) PROVE RowsInv'
    BY <1>9, ReloadKept
<1>10. CASE UNCHANGED rowsVars
    BY <1>10 DEF RowsInv, rowsVars
<1> QED
    BY <1>2, <1>3, <1>4, <1>5, <1>6, <1>7, <1>8, <1>9, <1>10 DEF RowsNext

LEMMA RowsInvariant == RowsSpec => []RowsInv
    BY RowsInvInit, RowsInvNext, PTL DEF RowsSpec

\* The selected row of the browser is drawn, whatever is folded, searched, dragged or reloaded.
THEOREM SelectedRowIsDrawn == RowsSpec => []SelectedRowDrawn
<1>1. RowsInv => SelectedRowDrawn
    BY DEF RowsInv, SelectedRowDrawn
<1> QED
    BY <1>1, RowsInvariant, PTL

-----------------------------------------------------------------------------
(* HostRows: what a reload leaves *)

\* The folders that are folded after a reload are those with a key that was folded.
LEMMA FoldedKeysKept ==
    ASSUME NEW t \in Trees, NEW keys
    PROVE  KeysOf(t, IdsOf(t, keys)) = {KeyOf(ln) : ln \in FolderLines(t)} \cap keys
<1>1. \A a, b \in FolderLines(t) : a.id = b.id => a = b
    BY TreesAssumption DEF FolderLines
<1>2. \A f \in FolderLines(t) : f.id \in IdsOf(t, keys) <=> KeyOf(f) \in keys
    BY <1>1 DEF IdsOf
<1> QED
    BY <1>2 DEF KeysOf

LEMMA AllKeys ==
    ASSUME NEW t
    PROVE  KeysOf(t, {ln.id : ln \in FolderLines(t)}) = {KeyOf(ln) : ln \in FolderLines(t)}
    BY DEF KeysOf

LEMMA ReloadStep ==
    ASSUME RowsInv, NEW t \in Trees, ReloadRows(t)
    PROVE  /\ FoldedOf(rowTree', folded', rowTree) = FoldedOf(rowTree, folded, rowTree')
           /\ \A key \in SelectedKey :
                 (\E k \in DOMAIN rows' : KeyOf(rows'[k]) = key) => KeyOf(rows'[chosen']) = key
<1> DEFINE keys == KeysOf(rowTree, folded)
<1>1. rowTree' = t /\ folded' = IdsOf(t, keys) /\ Refilter(SelectedKey)
    BY DEF ReloadRows
<1>2. FoldedOf(rowTree', folded', rowTree) = FoldedOf(rowTree, folded, rowTree')
    <2>1. keys \subseteq {KeyOf(ln) : ln \in FolderLines(rowTree)}
        BY DEF KeysOf
    <2>2. KeysOf(t, IdsOf(t, keys)) = {KeyOf(ln) : ln \in FolderLines(t)} \cap keys
        BY FoldedKeysKept
    <2> DEFINE here == {KeyOf(ln) : ln \in FolderLines(rowTree)}
               there == {KeyOf(ln) : ln \in FolderLines(t)}
    <2>3. FoldedOf(t, IdsOf(t, keys), rowTree) = (there \cap keys) \cap here
        BY <2>2, AllKeys, Zenon DEF FoldedOf
    <2>4. FoldedOf(rowTree, folded, t) = keys \cap there
        BY AllKeys, Zenon DEF FoldedOf
    <2>5. (there \cap keys) \cap here = keys \cap there
        BY <2>1
    <2> QED
        BY <1>1, <2>3, <2>4, <2>5, Zenon
<1>3. ASSUME NEW key \in SelectedKey, \E k \in DOMAIN rows' : KeyOf(rows'[k]) = key
      PROVE  KeyOf(rows'[chosen']) = key
    <2>1. SelectedKey = {key}
        BY <1>3 DEF SelectedKey
    <2>2. rows' \in Seq(Range(t)) /\ chosen' = Repaired(rows', {key})
        BY <1>1, <2>1, ShownIs, TreesAssumption DEF Refilter
    <2>3. KeyOf(rows'[Repaired(rows', {key})]) \in {key}
        BY <1>3, <2>2, RepairedIs
    <2> QED
        BY <2>2, <2>3
<1> QED
    BY <1>2, <1>3

\* A reload of any tree by any other keeps the folded folders by their paths and, where it is
\* still shown, the selected line (tui/state/app.rs), although it numbers the folders anew.
THEOREM PlaceIsKept == RowsSpec => ReloadKeepsPlace
<1> DEFINE Kept == rowTree' # rowTree =>
        /\ FoldedOf(rowTree', folded', rowTree) = FoldedOf(rowTree, folded, rowTree')
        /\ \A key \in SelectedKey :
              (\E k \in DOMAIN rows' : KeyOf(rows'[k]) = key) => KeyOf(rows'[chosen']) = key
<1>1. RowsInv /\ [RowsNext]_rowsVars => [Kept]_rowsVars
    <2> SUFFICES ASSUME RowsInv, RowsNext PROVE Kept
        OBVIOUS
    <2> SUFFICES ASSUME rowTree' # rowTree PROVE Kept
        OBVIOUS
    <2>1. ~Handled
        BY DEF Handled
    <2>2. PICK t \in Trees : ReloadRows(t)
        BY <2>1 DEF RowsNext, DrawRows, RowUp, RowDown, PageUp, PageDown, ToFirst, ToLast,
                    FoldRow, UnfoldRow, ToggleRow, FoldAll, ClickRow, DragBar, Search
    <2> QED
        BY <2>2, ReloadStep
<1> QED
    BY <1>1, RowsInvariant, PTL DEF RowsSpec, ReloadKeepsPlace

-----------------------------------------------------------------------------
(* Lists: what a step done again and again leads to *)

\* From base, step k takes a value to the next one.
Iterated(f, n, base, step) ==
    f = [k \in 0..n |-> IF k = 0 THEN base ELSE step[k][f[k - 1]]]

LEMMA IteratedExists ==
    ASSUME NEW D, NEW base \in D, NEW step \in [Nat -> [D -> D]], NEW n \in Nat
    PROVE  \E f \in [0..n -> D] : Iterated(f, n, base, step)
<1> DEFINE S == {m \in Nat : ~ \E f \in [0..m -> D] : Iterated(f, m, base, step)}
<1> SUFFICES ASSUME S # {} PROVE FALSE
    OBVIOUS
<1>1. PICK m \in S : \A k \in S : m <= k
    BY LeastNat
<1>2. m # 0
    <2> DEFINE g == [k \in 0..0 |-> base]
    <2>1. g \in [0..0 -> D] /\ Iterated(g, 0, base, step)
        BY DEF Iterated
    <2> QED
        BY <2>1
<1>3. m \in Nat /\ m - 1 \in Nat /\ m - 1 \notin S
    BY <1>1, <1>2
<1>4. PICK f \in [0..(m - 1) -> D] : Iterated(f, m - 1, base, step)
    BY <1>3
<1> DEFINE last == step[m][f[m - 1]]
           g == [k \in 0..m |-> IF k = m THEN last ELSE f[k]]
<1>5. last \in D
    BY <1>3
<1> HIDE DEF last
<1>6. g \in [0..m -> D]
    BY <1>3, <1>5
<1>7. \A k \in 0..m : g[k] = IF k = 0 THEN base ELSE step[k][g[k - 1]]
    <2> TAKE k \in 0..m
    <2>1. CASE k = m
        <3>1. g[k] = last /\ g[k - 1] = f[m - 1] /\ k # 0
            BY <1>2, <1>3, <2>1
        <3> QED
            BY <2>1, <3>1 DEF last
    <2>2. CASE k # m
        <3>1. k \in 0..(m - 1) /\ g[k] = f[k] /\ (k # 0 => k - 1 \in 0..m /\ k - 1 # m)
            BY <1>3, <2>2
        <3>2. f[k] = IF k = 0 THEN base ELSE step[k][f[k - 1]]
            BY <1>4, <3>1 DEF Iterated
        <3> QED
            BY <3>1, <3>2
    <2> QED
        BY <2>1, <2>2
<1>8. Iterated(g, m, base, step)
    <2> DEFINE h == [k \in 0..m |-> IF k = 0 THEN base ELSE step[k][g[k - 1]]]
    <2> HIDE DEF g
    <2>1. g = h
        BY <1>6, <1>7
    <2> QED
        BY <2>1 DEF Iterated
<1> QED
    BY <1>1, <1>6, <1>8

\* What holds at first and stays holds at the end: the induction on such a list of values.
LEMMA Holds ==
    ASSUME NEW n \in Nat, NEW H \in SUBSET (0..n), 0 \in H,
           \A k \in 1..n : k - 1 \in H => k \in H
    PROVE  H = 0..n
<1> DEFINE S == (0..n) \ H
<1> SUFFICES ASSUME S # {} PROVE FALSE
    OBVIOUS
<1>0. S \in SUBSET Nat
    OBVIOUS
<1>1. PICK m \in S : \A k \in S : m <= k
    BY <1>0, LeastNat
<1>2. m \in 1..n /\ m - 1 \in 0..n /\ m - 1 \notin S
    BY <1>1
<1> QED
    BY <1>1, <1>2

-----------------------------------------------------------------------------
(* Inventory: what a file leads to *)

Disks ==
    {disk \in [Files -> Doc] :
        \A f \in Files : /\ Len(disk[f].include) <= MaxIncludes
                         /\ disk[f].state = "missing" => disk[f] = Missing}

IncludedBy(disk, f) == {disk[f].include[k].file : k \in DOMAIN disk[f].include}

LEMMA IncludedAreFiles ==
    ASSUME NEW disk \in Disks, NEW f \in Files
    PROVE  IncludedBy(disk, f) \subseteq Files
<1>1. disk[f].include \in Seq(Include)
    BY DEF Disks, Doc
<1>2. \A k \in DOMAIN disk[f].include : disk[f].include[k] \in Include
    BY <1>1
<1> QED
    BY <1>2 DEF IncludedBy, Include

Reaching(r, disk) ==
    r = [n \in 0..Cardinality(Files) |->
            IF n = 0 THEN {Root} ELSE r[n - 1] \cup UNION {IncludedBy(disk, f) : f \in r[n - 1]}]

LEMMA ReachingExists ==
    ASSUME NEW disk \in Disks
    PROVE  /\ Cardinality(Files) \in Nat
           /\ \E r \in [0..Cardinality(Files) -> SUBSET Files] : Reaching(r, disk)
<1> DEFINE n == Cardinality(Files)
           D == SUBSET Files
           More(S) == S \cup UNION {IncludedBy(disk, f) : f \in S}
           step == [k \in Nat |-> [S \in D |-> More(S)]]
<1>1. n \in Nat
    BY FilesAssumption, FS_CardinalityType
<1>2. \A S \in D : More(S) \in D
    BY IncludedAreFiles
<1> HIDE DEF More
<1>3. step \in [Nat -> [D -> D]]
    BY <1>2
<1>4. {Root} \in D
    BY FilesAssumption
<1> HIDE DEF n, D
<1>5. PICK r \in [0..n -> D] : Iterated(r, n, {Root}, step)
    BY <1>1, <1>3, <1>4, IteratedExists
<1>6. \A k \in 1..n : step[k][r[k - 1]] = More(r[k - 1])
    <2> TAKE k \in 1..n
    <2>1. k \in Nat /\ k - 1 \in 0..n
        BY <1>1
    <2>2. r[k - 1] \in D
        BY <1>5, <2>1
    <2> QED
        BY <2>1, <2>2
<1>7. r = [k \in 0..n |-> IF k = 0 THEN {Root} ELSE More(r[k - 1])]
    <2>1. r = [k \in 0..n |-> IF k = 0 THEN {Root} ELSE step[k][r[k - 1]]]
        BY <1>5 DEF Iterated
    <2>2. \A k \in 0..n : (IF k = 0 THEN {Root} ELSE step[k][r[k - 1]])
                           = IF k = 0 THEN {Root} ELSE More(r[k - 1])
        BY <1>1, <1>6
    <2> HIDE DEF step
    <2> QED
        BY <2>1, <2>2, Zenon
<1>8. Reaching(r, disk)
    BY <1>7 DEF Reaching, More, n
<1> QED
    BY <1>1, <1>5, <1>8 DEF n, D

\* The tracked files are the fewest that hold the root and all that one of them includes.
LEMMA TrackedIs ==
    ASSUME NEW disk \in Disks
    PROVE  /\ Tracked(disk) \subseteq Files /\ Root \in Tracked(disk)
           /\ \A f \in Tracked(disk) : IncludedBy(disk, f) \subseteq Tracked(disk)
           /\ \A S : (Root \in S /\ \A f \in S : IncludedBy(disk, f) \subseteq S)
                     => Tracked(disk) \subseteq S
<1> DEFINE n == Cardinality(Files)
           r == CHOOSE q : Reaching(q, disk)
           More(S) == S \cup UNION {IncludedBy(disk, f) : f \in S}
<1>1. n \in Nat /\ Reaching(r, disk)
    BY ReachingExists
<1>2. Tracked(disk) = r[n]
    BY DEF Tracked, Reaching, IncludedBy
<1> HIDE DEF r, n
<1>3. r[0] = {Root} /\ \A k \in 1..n : r[k] = More(r[k - 1])
    BY <1>1 DEF Reaching, n
<1> HIDE DEF More
<1>4. \A S : Root \in S /\ (\A f \in S : IncludedBy(disk, f) \subseteq S) => r[n] \subseteq S
    <2> TAKE S
    <2> SUFFICES ASSUME Root \in S, \A f \in S : IncludedBy(disk, f) \subseteq S
                 PROVE  r[n] \subseteq S
        OBVIOUS
    <2> DEFINE H == {k \in 0..n : r[k] \subseteq S}
    <2>1. 0 \in H
        BY <1>1, <1>3
    <2>2. \A k \in 1..n : k - 1 \in H => k \in H
        BY <1>1, <1>3 DEF More
    <2>3. H = 0..n
        BY <1>1, <2>1, <2>2, Holds
    <2> QED
        BY <1>1, <2>3
<1>5. \A k \in 0..n : r[k] \subseteq Files
    <2> DEFINE H == {k \in 0..n : r[k] \subseteq Files}
    <2>1. 0 \in H
        BY <1>1, <1>3, FilesAssumption
    <2>2. \A k \in 1..n : k - 1 \in H => k \in H
        BY <1>1, <1>3, IncludedAreFiles DEF More
    <2>3. H = 0..n
        BY <1>1, <2>1, <2>2, Holds
    <2> QED
        BY <2>3
<1>6. Root \in r[n]
    <2> DEFINE H == {k \in 0..n : Root \in r[k]}
    <2>1. 0 \in H
        BY <1>1, <1>3
    <2>2. \A k \in 1..n : k - 1 \in H => k \in H
        BY <1>1, <1>3 DEF More
    <2>3. H = 0..n
        BY <1>1, <2>1, <2>2, Holds
    <2> QED
        BY <1>1, <2>3
\* Each step adds a file or is the last to add one.
<1>7. r[n] = More(r[n])
    <2> DEFINE H == {k \in 0..n : Cardinality(r[k]) > k \/ r[k] = More(r[k])}
    <2>1. 0 \in H
        <3>1. Cardinality({Root}) = 1
            BY FS_Singleton, Zenon
        <3> QED
            BY <1>1, <1>3, <3>1
    <2>2. \A k \in 1..n : k - 1 \in H => k \in H
        <3> SUFFICES ASSUME NEW k \in 1..n, k - 1 \in H PROVE k \in H
            OBVIOUS
        <3>1. k - 1 \in 0..n /\ k \in 0..n /\ r[k] = More(r[k - 1])
            BY <1>1, <1>3
        <3>2. CASE r[k - 1] = More(r[k - 1])
            BY <3>1, <3>2
        <3>3. CASE r[k - 1] # More(r[k - 1])
            <4>1. PICK f \in r[k] : f \notin r[k - 1]
                BY <3>1, <3>3 DEF More
            <4>2. r[k - 1] \cup {f} \subseteq r[k] /\ r[k] \subseteq Files /\ r[k - 1] \subseteq Files
                BY <1>5, <3>1, <4>1 DEF More
            <4>3. IsFiniteSet(r[k]) /\ IsFiniteSet(r[k - 1])
                BY <4>2, FilesAssumption, FS_Subset
            <4>4. /\ Cardinality(r[k - 1] \cup {f}) = Cardinality(r[k - 1]) + 1
                  /\ Cardinality(r[k - 1] \cup {f}) <= Cardinality(r[k])
                BY <4>1, <4>2, <4>3, FS_AddElement, FS_Subset
            <4>5. Cardinality(r[k - 1]) \in Nat /\ Cardinality(r[k]) \in Nat
                BY <4>3, FS_CardinalityType
            <4>6. Cardinality(r[k - 1]) > k - 1
                BY <3>3
            <4> QED
                BY <3>1, <4>4, <4>5, <4>6
        <3> QED
            BY <3>2, <3>3
    <2>3. H = 0..n
        BY <1>1, <2>1, <2>2, Holds
    <2>4. Cardinality(r[n]) <= n
        BY <1>1, <1>5, FilesAssumption, FS_Subset DEF n
    <2>5. Cardinality(r[n]) \in Nat
        BY <1>1, <1>5, FilesAssumption, FS_Subset, FS_CardinalityType
    <2> QED
        BY <1>1, <2>3, <2>4, <2>5
<1>8. \A f \in r[n] : IncludedBy(disk, f) \subseteq r[n]
    BY <1>7 DEF More
<1> QED
    BY <1>1, <1>2, <1>4, <1>5, <1>6, <1>8

\* Files that are not tracked make no difference.
LEMMA TrackedStays ==
    ASSUME NEW disk \in Disks, NEW other \in Disks, \A f \in Tracked(disk) : other[f] = disk[f]
    PROVE  Tracked(other) = Tracked(disk)
<1>1. \A f \in Tracked(disk) : IncludedBy(other, f) = IncludedBy(disk, f)
    BY DEF IncludedBy
<1>2. Tracked(other) \subseteq Tracked(disk)
    BY <1>1, TrackedIs
<1>3. \A f \in Tracked(other) : IncludedBy(disk, f) \subseteq Tracked(other)
    BY <1>1, <1>2, TrackedIs
<1> QED
    BY <1>2, <1>3, TrackedIs

-----------------------------------------------------------------------------
(* Inventory: the walk through the files *)

Work == [file : Files, place : Seq(Nat), part : Nat \ {0}]
Load == [visited : SUBSET Files, rows : Seq(Row), todo : Seq(Work)]
Start == [visited |-> {}, rows |-> <<>>, todo |-> <<>>]

LEMMA DocIs ==
    ASSUME NEW disk \in Disks, NEW f \in Files
    PROVE  /\ disk[f] \in Doc /\ disk[f].include \in Seq(Include) /\ disk[f].nodes \in Seq(Node)
           /\ Len(disk[f].include) \in Nat /\ DOMAIN disk[f].include = 1..Len(disk[f].include)
           /\ Len(disk[f].include) <= MaxIncludes
           /\ \A k \in DOMAIN disk[f].include : /\ disk[f].include[k].file \in Files
                                                /\ disk[f].include[k].under \in Seq(Nat)
<1>1. disk[f] \in Doc /\ disk[f].include \in Seq(Include) /\ disk[f].nodes \in Seq(Node)
      /\ Len(disk[f].include) <= MaxIncludes
    BY DEF Disks, Doc
<1>2. \A k \in DOMAIN disk[f].include : disk[f].include[k] \in Include
    BY <1>1
<1> QED
    BY <1>1, <1>2, LenProperties DEF Include

LEMMA PartsAre ==
    ASSUME NEW disk \in Disks, NEW f \in Files, NEW place \in Seq(Nat)
    PROVE  /\ Parts(disk, f, place) \in Seq(Work)
           /\ Len(Parts(disk, f, place)) = Len(disk[f].include) + 1
           /\ \A k \in 1..(Len(disk[f].include) + 1) :
                 Parts(disk, f, place)[k] = [file |-> f, place |-> place, part |-> k]
    BY DocIs DEF Parts, Work

LEMMA OpenedIs ==
    ASSUME NEW disk \in Disks, NEW load \in Load, NEW f \in Files, NEW place \in Seq(Nat)
    PROVE  Opened(disk, load, f, place) \in Load
<1> DEFINE todo == Parts(disk, f, place) \o load.todo
<1>1. todo \in Seq(Work)
    BY PartsAre, ConcatProperties DEF Load
<1> HIDE DEF todo
<1> DEFINE new == [visited |-> load.visited \cup {f}, rows |-> load.rows, todo |-> todo]
<1>2. new \in Load
    BY <1>1 DEF Load
<1>3. Opened(disk, load, f, place) = new
    BY Zenon DEF Opened, todo
<1> QED
    BY <1>2, <1>3, Zenon

LEMMA ChainIs ==
    ASSUME NEW place \in Seq(Nat), NEW under \in Seq(Nat), NEW f \in Files
    PROVE  Chain(place, under, f) \in Seq(Row)
<1>1. \A k \in 1..Len(under) :
          [at |-> place \o SubSeq(under, 1, k - 1), name |-> under[k], host |-> FALSE, file |-> f] \in Row
    <2> TAKE k \in 1..Len(under)
    <2>1. SubSeq(under, 1, k - 1) \in Seq(Nat) /\ under[k] \in Nat
        BY SubSeqProperties, LenProperties, ElementOfSeq
    <2>2. place \o SubSeq(under, 1, k - 1) \in Seq(Nat)
        BY <2>1, ConcatProperties
    <2> QED
        BY <2>1, <2>2 DEF Row
<1>2. DOMAIN under = 1..Len(under) /\ Len(under) \in Nat
    BY LenProperties
<1>3. Chain(place, under, f) \in [1..Len(under) -> Row]
    BY <1>1, <1>2 DEF Chain
<1>4. Seq(Row) = UNION {[1..n -> Row] : n \in Nat}
    BY SeqDef, Zenon
<1> QED
    BY <1>2, <1>3, <1>4, Zenon

LEMMA NodeRowsAre ==
    ASSUME NEW disk \in Disks, NEW f \in Files, NEW place \in Seq(Nat)
    PROVE  /\ NodeRows(disk, f, place) \in Seq(Row)
           /\ Len(NodeRows(disk, f, place)) = Len(disk[f].nodes)
           /\ \A k \in DOMAIN disk[f].nodes :
                 /\ NodeRows(disk, f, place)[k].name = disk[f].nodes[k].name
                 /\ NodeRows(disk, f, place)[k].host = disk[f].nodes[k].host
                 /\ NodeRows(disk, f, place)[k].file = f
<1> DEFINE nodes == disk[f].nodes
           row(k) == [at |-> place \o nodes[k].at, name |-> nodes[k].name, host |-> nodes[k].host,
                      file |-> f]
           list == [k \in DOMAIN nodes |-> row(k)]
<1>1. nodes \in Seq(Node) /\ DOMAIN nodes = 1..Len(nodes) /\ Len(nodes) \in Nat
    BY DocIs, LenProperties
<1>2. \A k \in DOMAIN nodes : nodes[k] \in Node
    BY <1>1
<1> HIDE DEF nodes
<1>3. \A k \in DOMAIN nodes : row(k) \in Row
    <2> TAKE k \in DOMAIN nodes
    <2>1. nodes[k].at \in Seq(Nat) /\ nodes[k].name \in Nat /\ nodes[k].host \in BOOLEAN
        BY <1>2 DEF Node
    <2>2. place \o nodes[k].at \in Seq(Nat)
        BY <2>1, ConcatProperties
    <2> QED
        BY <2>1, <2>2 DEF Row
<1> HIDE DEF row
<1>4. list \in [1..Len(nodes) -> Row]
    BY <1>1, <1>3
<1>5. list \in Seq(Row) /\ Len(list) = Len(nodes)
    BY <1>1, <1>4, SeqDef
<1>6. NodeRows(disk, f, place) = list
    BY DEF NodeRows, nodes, row
<1>7. \A k \in DOMAIN nodes : list[k].name = nodes[k].name /\ list[k].host = nodes[k].host
                              /\ list[k].file = f
    BY DEF row
<1> QED
    BY <1>5, <1>6, <1>7 DEF nodes

LEMMA AppendLater ==
    ASSUME NEW S, NEW s \in Seq(S), NEW t \in Seq(S), NEW e \in S
    PROVE  Append(s \o t, e) = s \o Append(t, e)
<1>1. Append(t, e) \in Seq(S) /\ Append(s \o t, e) \in Seq(S)
    OBVIOUS
<1>2. Len(Append(s \o t, e)) = Len(s \o Append(t, e))
    OBVIOUS
<1>3. \A k \in 1..Len(Append(s \o t, e)) : Append(s \o t, e)[k] = (s \o Append(t, e))[k]
    OBVIOUS
<1> QED
    BY <1>1, <1>2, <1>3, ConcatProperties, SeqEqual

Mount(f, under) == [at |-> under, name |-> Stem[f], host |-> FALSE, file |-> f]

LEMMA MountIs ==
    ASSUME NEW f \in Files, NEW under \in Seq(Nat)
    PROVE  /\ Mount(f, under) \in Row /\ ~Mount(f, under).host
           /\ PathOf(Mount(f, under)) \in Seq(Nat)
<1>1. Stem[f] \in Nat
    BY NamesAssumption
<1>2. Append(under, Stem[f]) \in Seq(Nat)
    BY <1>1, AppendProperties
<1> QED
    BY <1>1, <1>2 DEF Mount, Row, PathOf

LEMMA IncludedSkips ==
    ASSUME NEW disk, NEW load, NEW f, NEW under, disk[f].state = "missing" \/ f \in load.visited
    PROVE  Included(disk, load, f, under) = load
    BY Zenon DEF Included

LEMMA IncludedOpens ==
    ASSUME NEW disk \in Disks, NEW load \in Load, NEW f \in Files, NEW under \in Seq(Nat),
           disk[f].state # "missing", f \notin load.visited
    PROVE  /\ Included(disk, load, f, under) \in Load
           /\ Included(disk, load, f, under) =
                [visited |-> load.visited \cup {f}, rows |-> Append(load.rows, Mount(f, under)),
                 todo |-> Parts(disk, f, PathOf(Mount(f, under))) \o load.todo]
<1> DEFINE place == PathOf(Mount(f, under))
           list == Append(load.rows, Mount(f, under))
           mid == [load EXCEPT !.rows = list]
<1>2. place \in Seq(Nat) /\ Mount(f, under) \in Row
    BY MountIs
<1> HIDE DEF place
<1>3. list \in Seq(Row)
    BY <1>2, AppendProperties DEF Load
<1> HIDE DEF list
<1>4. mid \in Load /\ mid.visited = load.visited /\ mid.rows = list /\ mid.todo = load.todo
    BY <1>3 DEF Load
<1> HIDE DEF mid
<1>5. Included(disk, load, f, under) = Opened(disk, mid, f, place)
    BY Zenon DEF Included, Mount, place, list, mid
<1>6. /\ Opened(disk, mid, f, place) \in Load
      /\ Opened(disk, mid, f, place) =
           [visited |-> mid.visited \cup {f}, rows |-> mid.rows,
            todo |-> Parts(disk, f, place) \o mid.todo]
    <2>1. Opened(disk, mid, f, place) \in Load
        BY <1>2, <1>4, OpenedIs
    <2> QED
        BY <2>1, Zenon DEF Opened
<1>7. Opened(disk, mid, f, place) =
         [visited |-> load.visited \cup {f}, rows |-> list, todo |-> Parts(disk, f, place) \o load.todo]
    BY <1>4, <1>6, Zenon
<1> QED
    BY <1>5, <1>6, <1>7, Zenon DEF list, place

\* One part of the work, told by what it adds.
LEMMA LoadPartIs ==
    ASSUME NEW disk \in Disks, NEW load \in Load
    PROVE  /\ LoadPart(disk, load) \in Load
           /\ load.todo = <<>> => LoadPart(disk, load) = load
           /\ load.todo # <<>> =>
                LET part == Head(load.todo)
                    include == disk[part.file].include
                    new == LoadPart(disk, load)
                IN  \/ /\ part.part \notin DOMAIN include
                       /\ new = [visited |-> load.visited,
                                 rows |-> load.rows \o NodeRows(disk, part.file, part.place),
                                 todo |-> Tail(load.todo)]
                    \/ /\ part.part \in DOMAIN include
                       /\ \/ disk[include[part.part].file].state = "missing"
                          \/ include[part.part].file \in load.visited
                       /\ \E list \in Seq(Row) :
                             /\ \A k \in DOMAIN list : ~list[k].host
                             /\ new = [visited |-> load.visited, rows |-> load.rows \o list,
                                       todo |-> Tail(load.todo)]
                    \/ /\ part.part \in DOMAIN include
                       /\ disk[include[part.part].file].state # "missing"
                       /\ include[part.part].file \notin load.visited
                       /\ \E list \in Seq(Row), place \in Seq(Nat) :
                             /\ \A k \in DOMAIN list : ~list[k].host
                             /\ new = [visited |-> load.visited \cup {include[part.part].file},
                                       rows |-> load.rows \o list,
                                       todo |-> Parts(disk, include[part.part].file, place)
                                                \o Tail(load.todo)]
<1> DEFINE part == Head(load.todo)
           todo == Tail(load.todo)
           include == disk[part.file].include
           entry == include[part.part]
           new == LoadPart(disk, load)
           rest == [load EXCEPT !.todo = todo]
<1>1. CASE load.todo = <<>>
    BY <1>1, Zenon DEF LoadPart
<1>2. CASE load.todo # <<>>
    <2>1. part \in Work /\ todo \in Seq(Work) /\ load.rows \in Seq(Row) /\ load.visited \in SUBSET Files
        BY <1>2, HeadTailProperties DEF Load
    <2>2. part.file \in Files /\ part.place \in Seq(Nat) /\ part.part \in Nat \ {0}
        BY <2>1 DEF Work
    <2> HIDE DEF part, todo
    <2>3. rest \in Load /\ rest.visited = load.visited /\ rest.rows = load.rows /\ rest.todo = todo
        BY <2>1 DEF Load
    <2> HIDE DEF rest
    <2>4. CASE part.part \notin DOMAIN include
        <3> DEFINE list == load.rows \o NodeRows(disk, part.file, part.place)
        <3>1. list \in Seq(Row)
            BY <2>1, <2>2, NodeRowsAre, ConcatProperties
        <3>2. new = [rest EXCEPT !.rows = list]
            <4>1. new = [rest EXCEPT !.rows = @ \o NodeRows(disk, part.file, part.place)]
                BY <1>2, <2>4, Zenon DEF LoadPart, part, todo, rest
            <4> QED
                BY <2>3, <4>1, Zenon
        <3> HIDE DEF list, new
        <3>3. new \in Load /\ new.visited = load.visited /\ new.rows = list /\ new.todo = todo
            BY <2>3, <3>1, <3>2 DEF Load
        <3>4. new = [visited |-> load.visited, rows |-> list, todo |-> todo]
            BY <3>3 DEF Load
        <3> QED
            BY <1>2, <2>4, <3>3, <3>4 DEF list, new, part, todo
    <2>5. CASE part.part \in DOMAIN include
        <3> DEFINE chain == Chain(part.place, entry.under, part.file)
                   list == load.rows \o chain
                   mid == [rest EXCEPT !.rows = list]
                   under == part.place \o entry.under
        <3>1. entry.file \in Files /\ entry.under \in Seq(Nat)
            BY <2>2, <2>5, DocIs
        <3>2. chain \in Seq(Row) /\ list \in Seq(Row) /\ under \in Seq(Nat)
            BY <2>1, <2>2, <3>1, ChainIs, ConcatProperties
        <3>3. \A k \in DOMAIN chain : ~chain[k].host
            BY DEF Chain
        <3>4. new = Included(disk, mid, entry.file, under)
            <4>1. new = Included(disk, [rest EXCEPT !.rows = @ \o chain], entry.file, under)
                BY <1>2, <2>5, Zenon DEF LoadPart, part, todo, rest
            <4> QED
                BY <2>3, <4>1, Zenon
        <3> HIDE DEF chain, new, under, entry
        <3>5. mid \in Load /\ mid.visited = load.visited /\ mid.rows = list /\ mid.todo = todo
            BY <2>3, <3>2 DEF Load
        <3> HIDE DEF mid
        <3>6. CASE disk[entry.file].state = "missing" \/ entry.file \in load.visited
            <4>0. disk[entry.file].state = "missing" \/ entry.file \in mid.visited
                BY <3>5, <3>6
            <4>1. new = mid
                BY <3>4, <4>0, IncludedSkips
            <4>2. new = [visited |-> load.visited, rows |-> load.rows \o chain, todo |-> todo]
                BY <3>5, <4>1 DEF Load
            <4> QED
                BY <1>2, <2>5, <3>2, <3>3, <3>5, <3>6, <4>1, <4>2 DEF new, part, todo, entry
        <3>7. CASE ~(disk[entry.file].state = "missing" \/ entry.file \in load.visited)
            <4> DEFINE row == Mount(entry.file, under)
                       place == PathOf(row)
                       more == Append(chain, row)
            <4>1. row \in Row /\ ~row.host /\ place \in Seq(Nat)
                BY <3>1, <3>2, MountIs, Zenon
            <4>2. mid.visited = load.visited /\ mid.rows = list /\ mid.todo = todo
                  /\ entry.file \notin mid.visited /\ disk[entry.file].state # "missing"
                BY <3>5, <3>7
            <4>3. /\ new \in Load
                  /\ new = [visited |-> mid.visited \cup {entry.file}, rows |-> Append(mid.rows, row),
                            todo |-> Parts(disk, entry.file, place) \o mid.todo]
                BY <3>1, <3>2, <3>4, <3>5, <4>2, IncludedOpens
            <4> HIDE DEF row, place
            <4>4. more \in Seq(Row) /\ \A k \in DOMAIN more : ~more[k].host
                <5>1. more \in Seq(Row) /\ Len(more) = Len(chain) + 1 /\ more[Len(chain) + 1] = row
                      /\ \A k \in 1..Len(chain) : more[k] = chain[k]
                    BY <3>2, <4>1, AppendProperties
                <5>2. DOMAIN more = 1..(Len(chain) + 1) /\ DOMAIN chain = 1..Len(chain)
                      /\ Len(chain) \in Nat
                    BY <3>2, <5>1, LenProperties
                <5> HIDE DEF more
                <5>3. \A k \in 1..(Len(chain) + 1) : k = Len(chain) + 1 \/ k \in 1..Len(chain)
                    BY <5>2
                <5>4. \A k \in DOMAIN more : ~more[k].host
                    BY <3>3, <4>1, <5>1, <5>2, <5>3, Zenon
                <5> QED
                    BY <5>1, <5>4
            <4>5. Append(list, row) = load.rows \o more
                <5> HIDE DEF list, more
                <5>1. list = load.rows \o chain /\ more = Append(chain, row)
                    BY Zenon DEF list, more
                <5>2. Append(load.rows \o chain, row) = load.rows \o Append(chain, row)
                    <6>1. \A s, r \in Seq(Row), e \in Row : Append(s \o r, e) = s \o Append(r, e)
                        BY AppendLater
                    <6> QED
                        BY <2>1, <3>2, <4>1, <6>1, Zenon
                <5> QED
                    BY <5>1, <5>2, Zenon
            <4> HIDE DEF more
            <4>6. new = [visited |-> load.visited \cup {entry.file}, rows |-> load.rows \o more,
                         todo |-> Parts(disk, entry.file, place) \o todo]
                BY <4>2, <4>3, <4>5, Zenon
            <4> QED
                BY <1>2, <2>5, <3>7, <4>1, <4>3, <4>4, <4>6, Zenon DEF new, part, todo, entry
        <3> QED
            BY <3>6, <3>7
    <2> QED
        BY <2>4, <2>5
<1> QED
    BY <1>1, <1>2

-----------------------------------------------------------------------------
(* Inventory: what the walk keeps *)

LEMMA StartIs == Start \in Load
<1>1. Start.visited \in SUBSET Files /\ Start.rows \in Seq(Row) /\ Start.todo \in Seq(Work)
    BY EmptySeq DEF Start
<1> QED
    BY <1>1 DEF Start, Load

LEMMA MaxPartsIs == MaxParts \in Nat /\ Cardinality(Files) \in Nat /\ MaxIncludes \in Nat
<1>1. Cardinality(Files) \in Nat /\ MaxIncludes \in Nat
    BY FilesAssumption, FS_CardinalityType, InventoryBoundsAssumption
<1> DEFINE a == Cardinality(Files)
<1> HIDE DEF a
<1>2. a \in Nat => a * (MaxIncludes + 1) \in Nat
    BY <1>1
<1> QED
    BY <1>1, <1>2 DEF MaxParts, a

\* The loads after each part of the work.
Walked(w, disk) ==
    w = [n \in 0..MaxParts |-> IF n = 0 THEN Opened(disk, Start, Root, <<>>)
                               ELSE LoadPart(disk, w[n - 1])]

LEMMA WalkExists ==
    ASSUME NEW disk \in Disks
    PROVE  \E w \in [0..MaxParts -> Load] : Walked(w, disk)
<1> DEFINE step == [k \in Nat |-> [load \in Load |-> LoadPart(disk, load)]]
           base == Opened(disk, Start, Root, <<>>)
<1>1. base \in Load
    <2>1. <<>> \in Seq(Nat) /\ Root \in Files
        BY EmptySeq, FilesAssumption
    <2> QED
        BY <2>1, StartIs, OpenedIs
<1>2. \A load \in Load : LoadPart(disk, load) \in Load
    BY LoadPartIs
<1>3. step \in [Nat -> [Load -> Load]]
    BY <1>2
<1>4. PICK w \in [0..MaxParts -> Load] : Iterated(w, MaxParts, base, step)
    <2> HIDE DEF base, step
    <2> QED
        BY <1>1, <1>3, MaxPartsIs, IteratedExists
<1>5. \A k \in 0..MaxParts : (IF k = 0 THEN base ELSE step[k][w[k - 1]])
                             = IF k = 0 THEN base ELSE LoadPart(disk, w[k - 1])
    <2> SUFFICES ASSUME NEW k \in 0..MaxParts, k # 0
                 PROVE  step[k][w[k - 1]] = LoadPart(disk, w[k - 1])
        OBVIOUS
    <2>1. k \in Nat /\ k - 1 \in 0..MaxParts
        BY MaxPartsIs
    <2>2. w[k - 1] \in Load
        BY <1>4, <2>1
    <2> QED
        BY <2>1, <2>2
<1>6. w = [k \in 0..MaxParts |-> IF k = 0 THEN base ELSE LoadPart(disk, w[k - 1])]
    <2>1. w = [k \in 0..MaxParts |-> IF k = 0 THEN base ELSE step[k][w[k - 1]]]
        BY <1>4 DEF Iterated
    <2> HIDE DEF base, step
    <2> QED
        BY <1>5, <2>1, Zenon
<1> QED
    BY <1>6 DEF Walked

LEMMA MergedIs ==
    ASSUME NEW disk \in Disks, disk[Root].state # "missing"
    PROVE  \E w : /\ Walked(w, disk) /\ Merged(disk) = w[MaxParts]
                  /\ w[0] = Opened(disk, Start, Root, <<>>)
                  /\ \A k \in 1..MaxParts : w[k] = LoadPart(disk, w[k - 1])
<1> DEFINE w == CHOOSE q : Walked(q, disk)
<1>1. Walked(w, disk)
    BY WalkExists
<1>2. Merged(disk) = w[MaxParts]
    BY DEF Merged, Walked, Start
<1> HIDE DEF w
<1>3. w[0] = Opened(disk, Start, Root, <<>>) /\ \A k \in 1..MaxParts : w[k] = LoadPart(disk, w[k - 1])
    BY <1>1, MaxPartsIs DEF Walked
<1> QED
    BY <1>1, <1>2, <1>3, Zenon

\* What holds of the load when the root is opened, and stays with each part of the work, holds
\* of the result. It may depend on how many parts are done.
LEMMA WalkKeeps ==
    ASSUME NEW disk \in Disks, disk[Root].state # "missing", NEW P,
           Opened(disk, Start, Root, <<>>) \in P[0],
           \A k \in 1..MaxParts : \A load \in P[k - 1] : LoadPart(disk, load) \in P[k]
    PROVE  Merged(disk) \in P[MaxParts]
<1>1. PICK w : /\ Merged(disk) = w[MaxParts]
               /\ w[0] = Opened(disk, Start, Root, <<>>)
               /\ \A k \in 1..MaxParts : w[k] = LoadPart(disk, w[k - 1])
    BY MergedIs, Zenon
<1> DEFINE H == {k \in 0..MaxParts : w[k] \in P[k]}
<1>2. 0 \in H
    BY <1>1, MaxPartsIs
<1>3. \A k \in 1..MaxParts : k - 1 \in H => k \in H
    BY <1>1, MaxPartsIs
<1>4. H = 0..MaxParts
    BY <1>2, <1>3, MaxPartsIs, Holds
<1> QED
    BY <1>1, <1>4, MaxPartsIs

\* Every include of a file that was opened is there, was missing, or is still to come.
Reached(disk, load) ==
    \A f \in load.visited : \A k \in DOMAIN disk[f].include :
        \/ disk[f].include[k].file \in load.visited
        \/ disk[disk[f].include[k].file].state = "missing"
        \/ \E i \in DOMAIN load.todo : load.todo[i].file = f /\ load.todo[i].part = k

Walk(disk) ==
    {load \in Load :
        /\ Root \in load.visited /\ load.visited \subseteq Tracked(disk)
        /\ \A f \in load.visited : disk[f].state # "missing"
        /\ \A i \in DOMAIN load.todo : load.todo[i].file \in load.visited
        /\ Reached(disk, load)}

\* The list of what is left to do, without its first and with a file's parts before the rest.
LEMMA TailIs ==
    ASSUME NEW todo \in Seq(Work), todo # <<>>
    PROVE  /\ Head(todo) \in Work /\ Tail(todo) \in Seq(Work) /\ Len(todo) \in Nat /\ 1 \in DOMAIN todo
           /\ Len(Tail(todo)) = Len(todo) - 1 /\ Head(todo) = todo[1]
           /\ \A i \in DOMAIN Tail(todo) : i + 1 \in DOMAIN todo /\ Tail(todo)[i] = todo[i + 1]
           /\ \A i \in DOMAIN todo : i = 1 \/ (i - 1 \in DOMAIN Tail(todo) /\ Tail(todo)[i - 1] = todo[i])
<1>1. Head(todo) \in Work /\ Tail(todo) \in Seq(Work) /\ Len(todo) \in Nat /\ Len(todo) # 0
      /\ Len(Tail(todo)) = Len(todo) - 1 /\ Head(todo) = todo[1]
      /\ \A i \in 1..(Len(todo) - 1) : Tail(todo)[i] = todo[i + 1]
    BY HeadTailProperties, LenProperties, EmptySeq
<1>2. DOMAIN todo = 1..Len(todo) /\ DOMAIN Tail(todo) = 1..(Len(todo) - 1)
    BY <1>1, LenProperties
<1> QED
    BY <1>1, <1>2

Ahead(disk, f, place, rest) == Parts(disk, f, place) \o rest

IsAhead(disk, f, rest, todo) ==
    /\ \A i \in DOMAIN todo : todo[i].file = f \/ \E j \in DOMAIN rest : todo[i] = rest[j]
    /\ \A j \in DOMAIN rest : \E i \in DOMAIN todo : todo[i] = rest[j]
    /\ \A k \in DOMAIN disk[f].include :
          \E i \in DOMAIN todo : todo[i].file = f /\ todo[i].part = k

LEMMA PartsAheadAre ==
    ASSUME NEW disk \in Disks, NEW f \in Files, NEW place \in Seq(Nat), NEW rest \in Seq(Work)
    PROVE  /\ Ahead(disk, f, place, rest) \in Seq(Work)
           /\ Len(Ahead(disk, f, place, rest)) = Len(disk[f].include) + 1 + Len(rest)
           /\ IsAhead(disk, f, rest, Ahead(disk, f, place, rest))
<1> DEFINE first == Parts(disk, f, place)
           n == Len(disk[f].include) + 1
           todo == Ahead(disk, f, place, rest)
<1>1. first \in Seq(Work) /\ Len(first) = n /\ n \in Nat
      /\ \A k \in 1..n : first[k] = [file |-> f, place |-> place, part |-> k]
    BY PartsAre, DocIs
<1>2. DOMAIN disk[f].include \subseteq 1..n
    BY DocIs
<1>0. todo = first \o rest
    BY DEF Ahead
<1> HIDE DEF first, n, todo
<1>3. todo \in Seq(Work) /\ Len(todo) = n + Len(rest) /\ Len(rest) \in Nat
      /\ \A i \in 1..(n + Len(rest)) : todo[i] = IF i <= n THEN first[i] ELSE rest[i - n]
    <2>1. Len(rest) \in Nat
        BY LenProperties
    <2>2. /\ todo \in Seq(Work) /\ Len(todo) = Len(first) + Len(rest)
          /\ \A i \in 1..(Len(first) + Len(rest)) :
                todo[i] = IF i <= Len(first) THEN first[i] ELSE rest[i - Len(first)]
        <3>1. /\ first \o rest \in Seq(Work) /\ Len(first \o rest) = Len(first) + Len(rest)
              /\ \A i \in 1..(Len(first) + Len(rest)) :
                    (first \o rest)[i] = IF i <= Len(first) THEN first[i] ELSE rest[i - Len(first)]
            BY <1>1, ConcatProperties
        <3> QED
            BY <1>0, <3>1, Zenon
    <2> QED
        BY <1>1, <2>1, <2>2
<1>4. DOMAIN todo = 1..(n + Len(rest)) /\ DOMAIN rest = 1..Len(rest)
    BY <1>3, LenProperties
<1>5. ASSUME NEW i \in DOMAIN todo
      PROVE  todo[i].file = f \/ \E j \in DOMAIN rest : todo[i] = rest[j]
    <2>1. CASE i <= n
        BY <1>1, <1>3, <1>4, <2>1
    <2>2. CASE ~(i <= n)
        <3>1. i - n \in DOMAIN rest /\ todo[i] = rest[i - n]
            BY <1>1, <1>3, <1>4, <2>2
        <3> QED
            BY <3>1
    <2> QED
        BY <2>1, <2>2
<1>6. ASSUME NEW j \in DOMAIN rest PROVE \E i \in DOMAIN todo : todo[i] = rest[j]
    <2>1. n + j \in DOMAIN todo /\ ~(n + j <= n) /\ (n + j) - n = j
        BY <1>1, <1>3, <1>4
    <2>2. todo[n + j] = rest[j]
        BY <1>3, <1>4, <2>1
    <2> QED
        BY <2>1, <2>2
<1>7. ASSUME NEW k \in DOMAIN disk[f].include
      PROVE  \E i \in DOMAIN todo : todo[i].file = f /\ todo[i].part = k
    <2>1. k \in DOMAIN todo /\ todo[k] = first[k] /\ k \in 1..n
        BY <1>1, <1>2, <1>3, <1>4
    <2>2. todo[k].file = f /\ todo[k].part = k
        BY <1>1, <2>1
    <2> QED
        BY <2>1, <2>2
<1>8. todo \in Seq(Work) /\ Len(todo) = Len(disk[f].include) + 1 + Len(rest)
    BY <1>3 DEF n
<1> QED
    BY <1>5, <1>6, <1>7, <1>8 DEF todo, IsAhead

\* A part of the work by what it does: the nodes or a skipped include, or a file that is opened.
Skips(disk, load, new, part, rest) ==
    /\ new.visited = load.visited /\ new.todo = rest
    /\ \/ part.part \notin DOMAIN disk[part.file].include
       \/ disk[disk[part.file].include[part.part].file].state = "missing"
       \/ disk[part.file].include[part.part].file \in load.visited

Opens1(disk, load, new, part, rest, g) ==
    /\ part.part \in DOMAIN disk[part.file].include
    /\ g = disk[part.file].include[part.part].file
    /\ disk[g].state # "missing" /\ g \notin load.visited
    /\ new.visited = load.visited \cup {g}
    /\ \E place \in Seq(Nat) : new.todo = Parts(disk, g, place) \o rest

LEMMA SkipKeepsWalk ==
    ASSUME NEW disk \in Disks, NEW load \in Walk(disk), NEW new \in Load, NEW part, NEW rest,
           load.todo # <<>>, part = Head(load.todo), rest = Tail(load.todo),
           Skips(disk, load, new, part, rest)
    PROVE  new \in Walk(disk)
<1>1. load.todo \in Seq(Work) /\ new.visited = load.visited /\ new.todo = rest
    BY DEF Walk, Load, Skips
<1>2. \A i \in DOMAIN new.todo : new.todo[i].file \in new.visited
    <2>1. \A i \in DOMAIN rest : i + 1 \in DOMAIN load.todo /\ rest[i] = load.todo[i + 1]
        BY <1>1, TailIs
    <2> QED
        BY <1>1, <2>1 DEF Walk
<1>3. ASSUME NEW f \in load.visited, NEW k \in DOMAIN disk[f].include,
             disk[f].include[k].file \notin load.visited,
             disk[disk[f].include[k].file].state # "missing"
      PROVE  \E i \in DOMAIN rest : rest[i].file = f /\ rest[i].part = k
    <2>1. PICK i \in DOMAIN load.todo : load.todo[i].file = f /\ load.todo[i].part = k
        BY <1>3 DEF Walk, Reached
    <2>2. i # 1
        <3>1. load.todo[1] = part
            BY <1>1, TailIs
        <3> QED
            BY <1>3, <2>1, <3>1 DEF Skips
    <2>3. i - 1 \in DOMAIN rest /\ rest[i - 1] = load.todo[i]
        BY <1>1, <2>2, TailIs
    <2> QED
        BY <2>1, <2>3
<1>4. Reached(disk, new)
    BY <1>1, <1>3 DEF Reached
<1> QED
    BY <1>1, <1>2, <1>4 DEF Walk

LEMMA OpenKeepsWalk ==
    ASSUME NEW disk \in Disks, NEW load \in Walk(disk), NEW new \in Load, NEW part, NEW rest, NEW g,
           load.todo # <<>>, part = Head(load.todo), rest = Tail(load.todo),
           Opens1(disk, load, new, part, rest, g)
    PROVE  new \in Walk(disk)
<1>1. load.todo \in Seq(Work) /\ load.visited \subseteq Tracked(disk)
      /\ new.visited = load.visited \cup {g} /\ g \notin load.visited
    BY DEF Walk, Load, Opens1
<1>2. PICK place \in Seq(Nat) : new.todo = Parts(disk, g, place) \o rest
    BY DEF Opens1
<1>3. /\ part.file \in load.visited /\ rest \in Seq(Work) /\ part = load.todo[1]
      /\ \A i \in DOMAIN rest : i + 1 \in DOMAIN load.todo /\ rest[i] = load.todo[i + 1]
      /\ \A i \in DOMAIN load.todo : i = 1 \/ (i - 1 \in DOMAIN rest /\ rest[i - 1] = load.todo[i])
    BY <1>1, TailIs DEF Walk
<1>4. g \in Tracked(disk) /\ g \in Files
    <2>1. g \in IncludedBy(disk, part.file) /\ part.file \in Tracked(disk)
        BY <1>1, <1>3 DEF IncludedBy, Opens1
    <2> QED
        BY <2>1, TrackedIs
<1>5. /\ \A i \in DOMAIN new.todo : new.todo[i].file = g \/ \E j \in DOMAIN rest : new.todo[i] = rest[j]
      /\ \A j \in DOMAIN rest : \E i \in DOMAIN new.todo : new.todo[i] = rest[j]
      /\ \A k \in DOMAIN disk[g].include :
            \E i \in DOMAIN new.todo : new.todo[i].file = g /\ new.todo[i].part = k
    <2>1. g \in Files /\ place \in Seq(Nat) /\ rest \in Seq(Work)
          /\ new.todo = Parts(disk, g, place) \o rest
        BY <1>2, <1>3, <1>4
    <2> DEFINE todo == new.todo
    <2>2. todo = Ahead(disk, g, place, rest)
        BY <2>1 DEF Ahead
    <2> HIDE DEF todo
    <2>3. IsAhead(disk, g, rest, todo)
        BY <2>1, <2>2, PartsAheadAre
    <2> QED
        BY <2>3, Zenon DEF todo, IsAhead
<1>6. \A i \in DOMAIN new.todo : new.todo[i].file \in new.visited
    <2>1. \A i \in DOMAIN rest : rest[i].file \in load.visited
        BY <1>3 DEF Walk
    <2> QED
        BY <1>1, <1>5, <2>1
<1>7. ASSUME NEW f \in new.visited, NEW k \in DOMAIN disk[f].include,
             disk[f].include[k].file \notin new.visited,
             disk[disk[f].include[k].file].state # "missing"
      PROVE  \E i \in DOMAIN new.todo : new.todo[i].file = f /\ new.todo[i].part = k
    <2>1. CASE f = g
        BY <1>5, <2>1
    <2>2. CASE f # g
        <3>1. f \in load.visited /\ disk[f].include[k].file \notin load.visited
              /\ disk[f].include[k].file # g
            BY <1>1, <1>7, <2>2
        <3>2. PICK i \in DOMAIN load.todo : load.todo[i].file = f /\ load.todo[i].part = k
            BY <1>7, <3>1 DEF Walk, Reached
        <3>3. i # 1
            BY <1>3, <3>1, <3>2 DEF Opens1
        <3>4. i - 1 \in DOMAIN rest /\ rest[i - 1] = load.todo[i]
            BY <1>3, <3>3
        <3>5. PICK j \in DOMAIN new.todo : new.todo[j] = rest[i - 1]
            BY <1>5, <3>4
        <3> QED
            BY <3>2, <3>4, <3>5
    <2> QED
        BY <2>1, <2>2
<1>8. Reached(disk, new)
    BY <1>7 DEF Reached
<1>9. Root \in new.visited /\ new.visited \subseteq Tracked(disk)
      /\ \A f \in new.visited : disk[f].state # "missing"
    BY <1>1, <1>4 DEF Walk, Opens1
<1> QED
    BY <1>6, <1>8, <1>9 DEF Walk

LEMMA StepIs ==
    ASSUME NEW disk \in Disks, NEW load \in Load, load.todo # <<>>
    PROVE  LET new == LoadPart(disk, load)
           IN  \/ Skips(disk, load, new, Head(load.todo), Tail(load.todo))
               \/ \E g : Opens1(disk, load, new, Head(load.todo), Tail(load.todo), g)
<1> DEFINE part == Head(load.todo)
           rest == Tail(load.todo)
           include == disk[part.file].include
           g == include[part.part].file
           new == LoadPart(disk, load)
           Nodes == /\ part.part \notin DOMAIN include
                    /\ new = [visited |-> load.visited,
                              rows |-> load.rows \o NodeRows(disk, part.file, part.place), todo |-> rest]
           Skip == /\ part.part \in DOMAIN include
                   /\ disk[g].state = "missing" \/ g \in load.visited
                   /\ \E list \in Seq(Row) :
                         /\ \A k \in DOMAIN list : ~list[k].host
                         /\ new = [visited |-> load.visited, rows |-> load.rows \o list, todo |-> rest]
           Open == /\ part.part \in DOMAIN include
                   /\ disk[g].state # "missing"
                   /\ g \notin load.visited
                   /\ \E list \in Seq(Row), place \in Seq(Nat) :
                         /\ \A k \in DOMAIN list : ~list[k].host
                         /\ new = [visited |-> load.visited \cup {g}, rows |-> load.rows \o list,
                                   todo |-> Parts(disk, g, place) \o rest]
<1>1. Nodes \/ Skip \/ Open
    BY LoadPartIs
<1>2. CASE Nodes
    <2>1. new.visited = load.visited /\ new.todo = rest /\ part.part \notin DOMAIN include
        <3> HIDE DEF new
        <3> QED
            BY <1>2
    <2> QED
        BY <2>1, Zenon DEF Skips
<1>3. CASE Skip
    <2>0. PICK list \in Seq(Row) :
              new = [visited |-> load.visited, rows |-> load.rows \o list, todo |-> rest]
        BY <1>3
    <2>1. new.visited = load.visited /\ new.todo = rest
        <3> HIDE DEF new
        <3> QED
            BY <2>0
    <2> QED
        BY <1>3, <2>1, Zenon DEF Skips
<1>4. CASE Open
    <2>1. PICK list \in Seq(Row), place \in Seq(Nat) :
              new = [visited |-> load.visited \cup {g}, rows |-> load.rows \o list,
                     todo |-> Parts(disk, g, place) \o rest]
        <3> HIDE DEF new, g, rest
        <3> QED
            BY <1>4
    <2>2. new.visited = load.visited \cup {g} /\ new.todo = Parts(disk, g, place) \o rest
        <3> HIDE DEF new
        <3> QED
            BY <2>1
    <2>3. Opens1(disk, load, new, part, rest, g)
        BY <1>4, <2>2, Zenon DEF Opens1
    <2> QED
        BY <2>3, Zenon
<1> QED
    BY <1>1, <1>2, <1>3, <1>4

\* One part of the work keeps what is true of the walk.
LEMMA WalkStep ==
    ASSUME NEW disk \in Disks, NEW load \in Walk(disk)
    PROVE  LoadPart(disk, load) \in Walk(disk)
<1>1. load \in Load /\ LoadPart(disk, load) \in Load
    BY LoadPartIs DEF Walk
<1>2. CASE load.todo = <<>>
    BY <1>1, <1>2, LoadPartIs
<1>3. CASE load.todo # <<>>
    <2>1. CASE Skips(disk, load, LoadPart(disk, load), Head(load.todo), Tail(load.todo))
        BY <1>1, <1>3, <2>1, SkipKeepsWalk
    <2>2. CASE \E g : Opens1(disk, load, LoadPart(disk, load), Head(load.todo), Tail(load.todo), g)
        BY <1>1, <1>3, <2>2, OpenKeepsWalk
    <2> QED
        BY <1>1, <1>3, <2>1, <2>2, StepIs
<1> QED
    BY <1>2, <1>3

LEMMA FirstOpened ==
    ASSUME NEW disk \in Disks, disk[Root].state # "missing"
    PROVE  LET first == Opened(disk, Start, Root, <<>>)
           IN  first \in Walk(disk) /\ first.visited = {Root}
               /\ Len(first.todo) = Len(disk[Root].include) + 1 /\ first.rows = <<>>
<1> DEFINE first == Opened(disk, Start, Root, <<>>)
           todo == Ahead(disk, Root, <<>>, <<>>)
<1>1. <<>> \in Seq(Nat) /\ <<>> \in Seq(Work) /\ Root \in Files /\ Len(<<>>) = 0
    BY EmptySeq, FilesAssumption
<1>2. todo \in Seq(Work) /\ Len(todo) = Len(disk[Root].include) + 1 + Len(<<>>)
      /\ IsAhead(disk, Root, <<>>, todo)
    BY <1>1, PartsAheadAre
<1>3. first = [visited |-> {} \cup {Root}, rows |-> <<>>, todo |-> todo]
    BY DEF Opened, Start, Ahead
<1> HIDE DEF first, todo
<1>4. first.visited = {Root} /\ first.rows = <<>> /\ first.todo = todo
    BY <1>3
<1>5. first \in Load
    BY <1>1, StartIs, OpenedIs DEF first
<1>6. \A i \in DOMAIN todo : todo[i].file = Root
    BY <1>1, <1>2 DEF IsAhead
<1>7. Reached(disk, first)
    BY <1>2, <1>4 DEF Reached, IsAhead
<1>8. first \in Walk(disk)
    BY <1>4, <1>5, <1>6, <1>7, TrackedIs DEF Walk
<1>9. Len(todo) = Len(disk[Root].include) + 1
    BY <1>1, <1>2, DocIs
<1> QED
    BY <1>4, <1>8, <1>9 DEF first

\* All the work is done after MaxParts parts.
Room(load) ==
    Len(load.todo) + (Cardinality(Files) - Cardinality(load.visited)) * (MaxIncludes + 1)

LEMMA RoomShrinks ==
    ASSUME NEW disk \in Disks, NEW load \in Load, load.todo # <<>>
    PROVE  Room(LoadPart(disk, load)) < Room(load) /\ Room(load) \in Int
<1> DEFINE new == LoadPart(disk, load)
           part == Head(load.todo)
           rest == Tail(load.todo)
           n == Cardinality(Files)
           m == MaxIncludes + 1
           v == Cardinality(load.visited)
<1>1. n \in Nat /\ m \in Nat \ {0}
    BY MaxPartsIs
<1>2. /\ part \in Work /\ rest \in Seq(Work) /\ Len(load.todo) \in Nat
      /\ Len(rest) = Len(load.todo) - 1 /\ load.visited \subseteq Files
    BY TailIs DEF Load
<1>3. IsFiniteSet(load.visited) /\ v \in Nat
    BY <1>2, FilesAssumption, FS_Subset, FS_CardinalityType
<1> HIDE DEF new, part, rest, n, m, v
<1>4. \A w \in Int : (n - w) * m \in Int
    BY <1>1
<1>5. CASE Skips(disk, load, new, part, rest)
    <2>1. Len(new.todo) = Len(load.todo) - 1 /\ new.visited = load.visited
        BY <1>2, <1>5 DEF Skips
    <2>2. Room(load) = Len(load.todo) + (n - v) * m /\ Room(new) = Len(new.todo) + (n - v) * m
        BY <2>1 DEF Room, n, m, v
    <2> DEFINE x == (n - v) * m
    <2>3. x \in Int
        BY <1>1, <1>3, <1>4
    <2> HIDE DEF x
    <2>4. Room(load) = Len(load.todo) + x /\ Room(new) = Len(load.todo) - 1 + x
        BY <2>1, <2>2 DEF x
    <2> QED
        BY <1>2, <2>3, <2>4 DEF new
<1>6. CASE \E g : Opens1(disk, load, new, part, rest, g)
    <2>1. PICK g : Opens1(disk, load, new, part, rest, g)
        BY <1>6
    <2>2. part.file \in Files /\ g \in Files
        BY <1>2, <2>1, DocIs DEF Work, Opens1
    <2>3. PICK place \in Seq(Nat) : new.todo = Ahead(disk, g, place, rest)
        BY <2>1 DEF Opens1, Ahead
    <2>4. Len(new.todo) = Len(disk[g].include) + 1 + Len(rest)
        <3>1. Len(Ahead(disk, g, place, rest)) = Len(disk[g].include) + 1 + Len(rest)
            BY <1>2, <2>2, PartsAheadAre
        <3> QED
            BY <2>3, <3>1, Zenon
    <2>5. Len(disk[g].include) \in Nat /\ Len(disk[g].include) + 1 <= m
        BY <2>2, DocIs, MaxPartsIs DEF m
    <2>6. new.visited = load.visited \cup {g} /\ g \notin load.visited
        BY <2>1 DEF Opens1
    <2>7. Cardinality(new.visited) = v + 1
        BY <1>3, <2>6, FS_AddElement DEF v
    <2>8. Room(load) = Len(load.todo) + (n - v) * m /\ Room(new) = Len(new.todo) + (n - (v + 1)) * m
        BY <2>7 DEF Room, n, m, v
    <2>9. (n - (v + 1)) * m = (n - v) * m - m
        BY <1>1, <1>3
    <2> DEFINE x == (n - v) * m
               y == Len(disk[g].include)
    <2>10. x \in Int
        BY <1>1, <1>3, <1>4
    <2>11. Room(load) = Len(load.todo) + x /\ Room(new) = (y + 1 + (Len(load.todo) - 1)) + (x - m)
        BY <1>2, <2>4, <2>8, <2>9
    <2>12. y \in Nat /\ y + 1 <= m
        BY <2>5
    <2> HIDE DEF x, y
    <2>13. \A a, b, c, d \in Int :
               b + 1 <= d => (b + 1 + (a - 1)) + (c - d) < a + c /\ a + c \in Int
        OBVIOUS
    <2>14. Len(load.todo) \in Int /\ y \in Int /\ x \in Int /\ m \in Int /\ y + 1 <= m
        BY <1>1, <1>2, <2>10, <2>12
    <2>15. /\ (y + 1 + (Len(load.todo) - 1)) + (x - m) < Len(load.todo) + x
           /\ Len(load.todo) + x \in Int
        BY <2>13, <2>14, Zenon
    <2> QED
        BY <2>11, <2>15, Zenon DEF new
<1> QED
    BY <1>5, <1>6, StepIs DEF new, part, rest

LEMMA WalkEnds ==
    ASSUME NEW disk \in Disks, disk[Root].state # "missing"
    PROVE  Merged(disk).todo = <<>> /\ Merged(disk) \in Walk(disk)
<1> DEFINE P == [k \in Nat |-> {load \in Walk(disk) : load.todo = <<>> \/ Room(load) <= MaxParts - k}]
           first == Opened(disk, Start, Root, <<>>)
<1>1. first \in P[0]
    <2>1. first \in Walk(disk) /\ first.visited = {Root} /\ Len(first.todo) = Len(disk[Root].include) + 1
        BY FirstOpened
    <2> HIDE DEF first
    <2>2. Cardinality(first.visited) = 1
        BY <2>1, FS_Singleton, Zenon
    <2>3. Len(first.todo) <= MaxIncludes + 1 /\ Len(first.todo) \in Nat
        BY <2>1, DocIs, FilesAssumption, MaxPartsIs
    <2> DEFINE n == Cardinality(Files)
               m == MaxIncludes + 1
    <2>4. Room(first) = Len(first.todo) + (n - 1) * m /\ MaxParts = n * m /\ n \in Nat /\ m \in Nat
        BY <2>2, MaxPartsIs DEF Room, MaxParts
    <2>5. Len(first.todo) <= m
        BY <2>3
    <2> HIDE DEF n, m
    <2>6. (n - 1) * m = n * m - m /\ n * m \in Int
        BY <2>4
    <2>7. Room(first) <= MaxParts - 0
        <3> DEFINE x == n * m
        <3>1. x \in Int /\ Room(first) = Len(first.todo) + (x - m) /\ MaxParts = x
            BY <2>4, <2>6
        <3>2. x \in Int /\ Len(first.todo) \in Int /\ m \in Int /\ Len(first.todo) <= m
            BY <2>3, <2>4, <2>5, <3>1
        <3> HIDE DEF x
        <3>3. \A a, b, c \in Int : a <= c => a + (b - c) <= b - 0
            OBVIOUS
        <3> QED
            BY <3>1, <3>2, <3>3
    <2> QED
        BY <2>1, <2>7
<1>2. \A k \in 1..MaxParts : \A load \in P[k - 1] : LoadPart(disk, load) \in P[k]
    <2> SUFFICES ASSUME NEW k \in 1..MaxParts, NEW load \in P[k - 1] PROVE LoadPart(disk, load) \in P[k]
        OBVIOUS
    <2>1. k \in Nat /\ k - 1 \in Nat /\ MaxParts \in Nat
        BY MaxPartsIs
    <2>2. load \in Walk(disk) /\ (load.todo = <<>> \/ Room(load) <= MaxParts - (k - 1))
        BY <2>1
    <2>3. LoadPart(disk, load) \in Walk(disk) /\ load \in Load /\ LoadPart(disk, load) \in Load
        BY <2>2, WalkStep DEF Walk
    <2>4. CASE load.todo = <<>>
        <3>1. LoadPart(disk, load) = load
            BY <2>3, <2>4, LoadPartIs
        <3> QED
            BY <2>1, <2>2, <2>4, <3>1
    <2>5. CASE load.todo # <<>>
        <3>1. Room(LoadPart(disk, load)) < Room(load) /\ Room(load) \in Int
            BY <2>3, <2>5, RoomShrinks
        <3>2. LoadPart(disk, load).todo = <<>> \/ Room(LoadPart(disk, load)) \in Int
            BY <2>3, RoomShrinks
        <3> HIDE DEF P
        <3>3. LoadPart(disk, load).todo = <<>> \/ Room(LoadPart(disk, load)) <= MaxParts - k
            BY <2>1, <2>2, <2>5, <3>1, <3>2
        <3> QED
            BY <2>1, <2>3, <3>3 DEF P
    <2> QED
        BY <2>4, <2>5
<1>3. Merged(disk) \in P[MaxParts]
    <2> HIDE DEF P
    <2> QED
        BY <1>1, <1>2, WalkKeeps
<1>4. Merged(disk) \in Walk(disk) /\ (Merged(disk).todo = <<>> \/ Room(Merged(disk)) <= 0)
    BY <1>3, MaxPartsIs
<1>5. ASSUME NEW load \in Load, Room(load) <= 0 PROVE load.todo = <<>>
    <2> DEFINE n == Cardinality(Files)
               m == MaxIncludes + 1
               v == Cardinality(load.visited)
    <2>1. load.todo \in Seq(Work) /\ load.visited \subseteq Files /\ Len(load.todo) \in Nat
          /\ (Len(load.todo) = 0 => load.todo = <<>>)
        BY EmptySeq, LenProperties DEF Load
    <2>2. v \in Nat /\ v <= n
        BY <2>1, FilesAssumption, FS_Subset, FS_CardinalityType
    <2>3. n \in Nat /\ m \in Nat
        BY MaxPartsIs
    <2>4. Room(load) = Len(load.todo) + (n - v) * m
        BY DEF Room
    <2> HIDE DEF n, m, v
    <2>5. (n - v) * m \in Nat
        <3>1. n - v \in Nat
            BY <2>2, <2>3
        <3> QED
            BY <2>3, <3>1
    <2> QED
        BY <1>5, <2>1, <2>4, <2>5
<1> QED
    BY <1>4, <1>5 DEF Walk

\* What the includes lead to was opened, or is not there.
LEMMA TrackedAre ==
    ASSUME NEW disk \in Disks
    PROVE  Tracked(disk) \subseteq {f \in Files : f \in Merged(disk).visited \/ disk[f].state = "missing"}
<1>1. ASSUME NEW f \in Files, disk[f].state = "missing" PROVE IncludedBy(disk, f) = {}
    <2>1. disk[f].include = <<>>
        BY <1>1 DEF Disks, Missing
    <2> QED
        BY <2>1 DEF IncludedBy
<1>2. CASE disk[Root].state = "missing"
    <2>1. Tracked(disk) \subseteq {Root}
        BY <1>1, <1>2, TrackedIs, FilesAssumption
    <2> QED
        BY <1>2, <2>1, FilesAssumption
<1>3. CASE disk[Root].state # "missing"
    <2> DEFINE S == {f \in Files : f \in Merged(disk).visited \/ disk[f].state = "missing"}
    <2>1. Merged(disk) \in Walk(disk) /\ Merged(disk).todo = <<>>
        BY <1>3, WalkEnds
    <2>2. Root \in S
        BY <2>1, FilesAssumption DEF Walk
    <2>3. ASSUME NEW f \in S PROVE IncludedBy(disk, f) \subseteq S
        <3>1. CASE disk[f].state = "missing"
            BY <1>1, <3>1
        <3>2. CASE f \in Merged(disk).visited
            <4>1. \A k \in DOMAIN disk[f].include :
                      \/ disk[f].include[k].file \in Merged(disk).visited
                      \/ disk[disk[f].include[k].file].state = "missing"
                BY <2>1, <3>2 DEF Walk, Reached
            <4> QED
                BY <4>1, IncludedAreFiles DEF IncludedBy
        <3> QED
            BY <3>1, <3>2
    <2> QED
        BY <2>2, <2>3, TrackedIs
<1> QED
    BY <1>2, <1>3

\* Every tracked file was read or is not there, when the tree could be loaded.
LEMMA AllWasRead ==
    ASSUME NEW disk \in Disks, \A f \in Merged(disk).visited : Loads(disk[f])
    PROVE  \A f \in Tracked(disk) : disk[f].state = "missing" \/ Loads(disk[f])
    BY TrackedAre

-----------------------------------------------------------------------------
(* Inventory: the tree is what the tracked files make of it *)

\* Files that are not tracked make no difference to the walk.
LEMMA PartStays ==
    ASSUME NEW disk \in Disks, NEW other \in Disks, \A f \in Tracked(disk) : other[f] = disk[f],
           NEW load \in Walk(disk)
    PROVE  LoadPart(other, load) = LoadPart(disk, load)
<1> DEFINE part == Head(load.todo)
           rest == [load EXCEPT !.todo = Tail(load.todo)]
           include == disk[part.file].include
           entry == include[part.part]
           mid == [rest EXCEPT !.rows = @ \o Chain(part.place, entry.under, part.file)]
           place == part.place \o entry.under
<1>1. CASE load.todo = <<>>
    BY <1>1, Zenon DEF LoadPart
<1>2. CASE load.todo # <<>>
    <2>1. part.file \in Tracked(disk)
        <3>1. load.todo \in Seq(Work) /\ load.visited \subseteq Tracked(disk)
            BY DEF Walk, Load
        <3>2. part = load.todo[1] /\ 1 \in DOMAIN load.todo
            BY <1>2, <3>1, TailIs
        <3> QED
            BY <3>1, <3>2 DEF Walk
    <2>2. disk[part.file] = other[part.file] /\ part.file \in Files
        BY <2>1, TrackedIs
    <2>3. CASE part.part \notin DOMAIN include
        <3>1. LoadPart(disk, load) = [rest EXCEPT !.rows = @ \o NodeRows(disk, part.file, part.place)]
            BY <1>2, <2>3, Zenon DEF LoadPart
        <3>2. part.part \notin DOMAIN other[part.file].include
            BY <2>2, <2>3
        <3>3. LoadPart(other, load) = [rest EXCEPT !.rows = @ \o NodeRows(other, part.file, part.place)]
            BY <1>2, <3>2, Zenon DEF LoadPart
        <3>4. NodeRows(other, part.file, part.place) = NodeRows(disk, part.file, part.place)
            BY <2>2, Zenon DEF NodeRows
        <3> QED
            BY <3>1, <3>3, <3>4, Zenon
    <2>4. CASE part.part \in DOMAIN include
        <3>1. LoadPart(disk, load) = Included(disk, mid, entry.file, place)
            BY <1>2, <2>4, Zenon DEF LoadPart
        <3>2. part.part \in DOMAIN other[part.file].include /\ other[part.file].include[part.part] = entry
            BY <2>2, <2>4
        <3>3. LoadPart(other, load) = Included(other, mid, entry.file, place)
            <4>1. LoadPart(other, load) =
                    Included(other, [rest EXCEPT !.rows = @ \o
                        Chain(part.place, other[part.file].include[part.part].under, part.file)],
                        other[part.file].include[part.part].file,
                        part.place \o other[part.file].include[part.part].under)
                BY <1>2, <3>2, Zenon DEF LoadPart
            <4> QED
                BY <3>2, <4>1, Zenon
        <3>4. entry.file \in Tracked(disk)
            <4>1. entry.file \in IncludedBy(disk, part.file)
                BY <2>4 DEF IncludedBy
            <4> QED
                BY <2>1, <4>1, TrackedIs
        <3>5. disk[entry.file] = other[entry.file]
            BY <3>4
        <3> HIDE DEF mid, place, entry
        <3>6. Included(disk, mid, entry.file, place) = Included(other, mid, entry.file, place)
            BY <3>5, Zenon DEF Included, Opened, Parts
        <3> QED
            BY <3>1, <3>3, <3>6, Zenon
    <2> QED
        BY <2>3, <2>4
<1> QED
    BY <1>1, <1>2

LEMMA MergedStays ==
    ASSUME NEW disk \in Disks, NEW other \in Disks, \A f \in Tracked(disk) : other[f] = disk[f]
    PROVE  Merged(other) = Merged(disk)
<1>1. other[Root] = disk[Root]
    BY TrackedIs
<1>2. CASE disk[Root].state = "missing"
    BY <1>1, <1>2, Zenon DEF Merged
<1>3. CASE disk[Root].state # "missing"
    <2>1. PICK w : /\ Merged(disk) = w[MaxParts]
                   /\ w[0] = Opened(disk, Start, Root, <<>>)
                   /\ \A k \in 1..MaxParts : w[k] = LoadPart(disk, w[k - 1])
        BY <1>3, MergedIs, Zenon
    <2>2. other[Root].state # "missing"
        BY <1>1, <1>3
    <2>3. PICK u : /\ Merged(other) = u[MaxParts]
                   /\ u[0] = Opened(other, Start, Root, <<>>)
                   /\ \A k \in 1..MaxParts : u[k] = LoadPart(other, u[k - 1])
        BY <2>2, MergedIs, Zenon
    <2> DEFINE H == {k \in 0..MaxParts : u[k] = w[k] /\ w[k] \in Walk(disk)}
    <2>4. 0 \in H
        <3>1. u[0] = w[0]
            BY <1>1, <2>1, <2>3, Zenon DEF Opened, Parts
        <3>2. w[0] \in Walk(disk)
            BY <1>3, <2>1, FirstOpened
        <3> QED
            BY <3>1, <3>2, MaxPartsIs
    <2>5. \A k \in 1..MaxParts : k - 1 \in H => k \in H
        <3> SUFFICES ASSUME NEW k \in 1..MaxParts, k - 1 \in H PROVE k \in H
            OBVIOUS
        <3>1. u[k - 1] = w[k - 1] /\ w[k - 1] \in Walk(disk)
            OBVIOUS
        <3>2. u[k] = LoadPart(other, w[k - 1]) /\ w[k] = LoadPart(disk, w[k - 1])
            BY <2>1, <2>3, <3>1, Zenon
        <3>3. LoadPart(other, w[k - 1]) = LoadPart(disk, w[k - 1])
            BY <3>1, PartStays
        <3>4. w[k] \in Walk(disk)
            BY <3>1, <3>2, WalkStep
        <3> QED
            BY <3>2, <3>3, <3>4, MaxPartsIs
    <2>6. H = 0..MaxParts
        BY <2>4, <2>5, MaxPartsIs, Holds
    <2>7. u[MaxParts] = w[MaxParts]
        BY <2>6, MaxPartsIs
    <2> QED
        BY <2>1, <2>3, <2>7, Zenon
<1> QED
    BY <1>2, <1>3

Fails(disk, all) ==
    \/ \E file \in all.visited : ~Loads(disk[file])
    \/ \E i, j \in DOMAIN all.rows :
          i # j /\ all.rows[i].host /\ all.rows[j].host /\ all.rows[i].name = all.rows[j].name

FirstMet(list) ==
    {k \in DOMAIN list :
        ~list[k].host /\ \A j \in 1..(k - 1) : list[j].host \/ PathOf(list[j]) # PathOf(list[k])}

FoldersOf(list) ==
    [p \in {<<>>} \cup {PathOf(list[k]) : k \in FirstMet(list)} |->
        IF p = <<>> THEN [file |-> Root, met |-> 0]
        ELSE LET k == CHOOSE k \in FirstMet(list) : PathOf(list[k]) = p
             IN  [file |-> list[k].file, met |-> k]]

Built(list) ==
    [hosts |-> Filtered(list, {row \in Range(list) : row.host}), folders |-> FoldersOf(list)]

LEMMA TreeIs ==
    ASSUME NEW disk
    PROVE  Tree(disk) = IF Fails(disk, Merged(disk)) THEN {} ELSE {Built(Merged(disk).rows)}
    BY Zenon DEF Tree, Fails, FirstMet, FoldersOf, Built

LEMMA MergedTypes ==
    ASSUME NEW disk \in Disks
    PROVE  Merged(disk) \in Load /\ Merged(disk).visited \subseteq Tracked(disk)
<1>1. CASE disk[Root].state = "missing"
    <2>1. Merged(disk) = Start
        BY <1>1, Zenon DEF Merged, Start
    <2> QED
        BY <2>1, StartIs DEF Start
<1>2. CASE disk[Root].state # "missing"
    BY <1>2, WalkEnds DEF Walk
<1> QED
    BY <1>1, <1>2

\* The tree is the same when the tracked files are.
LEMMA TreeStays ==
    ASSUME NEW disk \in Disks, NEW other \in Disks, \A f \in Tracked(disk) : other[f] = disk[f]
    PROVE  Tree(other) = Tree(disk) /\ Tracked(other) = Tracked(disk)
<1>1. Merged(other) = Merged(disk) /\ Tracked(other) = Tracked(disk)
    BY MergedStays, TrackedStays
<1>2. \A f \in Merged(disk).visited : other[f] = disk[f]
    BY MergedTypes
<1>3. Fails(other, Merged(disk)) <=> Fails(disk, Merged(disk))
    BY <1>2 DEF Fails
<1> QED
    BY <1>1, <1>3, TreeIs, Zenon

\* A tree that could be loaded leaves no broken file unread, so its plan covers all it came from.
LEMMA PlanCovers ==
    ASSUME NEW disk \in Disks, Tree(disk) # {}
    PROVE  PlanOf(disk).tracked = Tracked(disk)
<1>1. ~Fails(disk, Merged(disk))
    BY TreeIs
<1>2. \A f \in Tracked(disk) : disk[f].state = "missing" \/ Loads(disk[f])
    BY <1>1, AllWasRead DEF Fails
<1> QED
    BY <1>2 DEF PlanOf

LEMMA RowPath ==
    ASSUME NEW row \in Row
    PROVE  PathOf(row) \in Seq(Nat) /\ PathOf(row) # <<>> /\ row.at \in Seq(Nat) /\ row.name \in Nat
           /\ row.file \in Files /\ row.host \in BOOLEAN
<1>1. row.at \in Seq(Nat) /\ row.name \in Nat /\ row.file \in Files /\ row.host \in BOOLEAN
    BY DEF Row
<1>2. Append(row.at, row.name) \in Seq(Nat) /\ Append(row.at, row.name) # <<>>
    BY <1>1, AppendProperties
<1> QED
    BY <1>1, <1>2 DEF PathOf

LEMMA BuiltIs ==
    ASSUME NEW list \in Seq(Row)
    PROVE  IsTree(Built(list))
<1> DEFINE t == Built(list)
           met == FirstMet(list)
           paths == {PathOf(list[k]) : k \in met}
<1>1. list \in [1..Len(list) -> Row] /\ Len(list) \in Nat /\ DOMAIN list = 1..Len(list)
    BY LenProperties
<1>2. met \subseteq 1..Len(list) /\ \A k \in met : list[k] \in Row
    BY <1>1 DEF FirstMet
<1>3. IsFiniteSet(met)
    <2>1. 1 \in Int /\ Len(list) \in Int
        BY <1>1
    <2>2. IsFiniteSet(1..Len(list))
        BY <2>1, FS_Interval
    <2> QED
        BY <1>2, <2>2, FS_Subset
<1> HIDE DEF met
<1>4. IsFiniteSet(paths)
    <2> DEFINE f == [k \in met |-> PathOf(list[k])]
    <2>1. f \in Surjection(met, paths)
        BY DEF Surjection
    <2> QED
        BY <1>3, <2>1, FS_Surjection
<1>5. paths \subseteq Seq(Nat) /\ <<>> \notin paths
    BY <1>2, RowPath
<1>6. t.hosts \in Seq(Row)
    <2>1. Filtered(list, {row \in Range(list) : row.host}) \in Seq(Row)
        BY FilteredIs
    <2> QED
        BY <2>1 DEF Built
<1>7. ASSUME NEW p \in paths
      PROVE  FoldersOf(list)[p] \in [file : Files, met : Nat]
    <2> DEFINE k == CHOOSE k \in met : PathOf(list[k]) = p
    <2>1. k \in met
        BY <1>7
    <2> HIDE DEF k
    <2>2. list[k].file \in Files /\ k \in Nat
        BY <1>1, <1>2, <2>1, RowPath
    <2>3. FoldersOf(list)[p] = [file |-> list[k].file, met |-> k]
        BY <1>5, <1>7 DEF FoldersOf, k, met
    <2> QED
        BY <2>2, <2>3
<1>8. FoldersOf(list)[<<>>] \in [file : Files, met : Nat]
    BY FilesAssumption DEF FoldersOf
<1>9. DOMAIN t.folders = {<<>>} \cup paths /\ t.folders = FoldersOf(list)
    BY DEF Built, FoldersOf, met
<1>10. DOMAIN t = {"hosts", "folders"}
    BY DEF Built
<1>11. IsFiniteSet({<<>>} \cup paths)
    BY <1>4, FS_Singleton, FS_Union
<1>12. {<<>>} \cup paths \subseteq Seq(Nat)
    BY <1>5, EmptySeq
<1> HIDE DEF t, paths
<1> QED
    BY <1>6, <1>7, <1>8, <1>9, <1>10, <1>11, <1>12 DEF IsTree, t

LEMMA TreeTypes ==
    ASSUME NEW disk \in Disks
    PROVE  (\A t \in Tree(disk) : IsTree(t)) /\ (\A s, t \in Tree(disk) : s = t)
<1>1. Merged(disk).rows \in Seq(Row)
    BY MergedTypes DEF Load
<1> QED
    BY <1>1, BuiltIs, TreeIs

LEMMA NoTreeIs == IsTree(NoTree)
<1>1. NoTree.hosts = <<>> /\ NoTree.folders = [p \in {<<>>} |-> [file |-> Root, met |-> 0]]
      /\ DOMAIN NoTree = {"hosts", "folders"}
    BY DEF NoTree
<1>2. IsFiniteSet({<<>>}) /\ <<>> \in Seq(Nat) /\ <<>> \in Seq(Row)
    BY FS_Singleton, EmptySeq
<1>3. [file |-> Root, met |-> 0] \in [file : Files, met : Nat]
    BY FilesAssumption
<1> QED
    BY <1>1, <1>2, <1>3 DEF IsTree

-----------------------------------------------------------------------------
(* Inventory: the edits of a document *)

LEMMA LongerPath ==
    ASSUME NEW path \in Seq(Nat), NEW name \in Nat
    PROVE  Append(path, name) \in Seq(Nat) /\ Append(path, name) # <<>>
    BY AppendProperties

LEMMA NodePath ==
    ASSUME NEW node \in Node
    PROVE  PathOf(node) \in Seq(Nat) /\ PathOf(node) # <<>> /\ node.at \in Seq(Nat)
           /\ node.name \in Nat /\ node.host \in BOOLEAN
<1>1. node.at \in Seq(Nat) /\ node.name \in Nat /\ node.host \in BOOLEAN
    BY DEF Node
<1>2. Append(node.at, node.name) \in Seq(Nat) /\ Append(node.at, node.name) # <<>>
    BY <1>1, LongerPath
<1> QED
    BY <1>1, <1>2 DEF PathOf

LEMMA NewNodes ==
    ASSUME NEW path \in Seq(Nat), NEW name \in Nat
    PROVE  /\ FolderNode(path, name) \in Node
           /\ \A refused \in BOOLEAN : /\ HostNode(path, name, refused) \in Node
                                      /\ HostNode(path, name, refused).host
                                      /\ HostNode(path, name, refused).name = name
           /\ ~FolderNode(path, name).host
           /\ PathOf(FolderNode(path, name)) = Append(path, name)
    BY DEF HostNode, FolderNode, Node, PathOf

\* A greatest index.
LEMMA LastIndex ==
    ASSUME NEW n \in Nat, NEW S \in SUBSET (1..n), S # {}
    PROVE  \E k \in S : \A j \in S : j <= k
<1> DEFINE T == {n - k : k \in S}
<1>1. T \in SUBSET Nat /\ T # {}
    <2>1. \A k \in S : n - k \in Nat
        OBVIOUS
    <2> QED
        BY <2>1
<1>2. PICK m \in T : \A j \in T : m <= j
    BY <1>1, LeastNat
<1>3. PICK k \in S : m = n - k
    BY <1>2
<1>4. \A j \in S : n - j \in T
    OBVIOUS
<1> HIDE DEF T
<1>5. \A j \in S : n - k <= n - j
    BY <1>2, <1>3, <1>4
<1> QED
    BY <1>5

\* A list with another one put behind its first items.
Inserted(nodes, last, more) ==
    SubSeq(nodes, 1, last) \o more \o SubSeq(nodes, last + 1, Len(nodes))

LEMMA InsertedIs ==
    ASSUME NEW nodes \in Seq(Node), NEW more \in Seq(Node), NEW last \in 0..Len(nodes)
    PROVE  LET all == Inserted(nodes, last, more)
           IN  /\ all \in Seq(Node) /\ Len(all) = Len(nodes) + Len(more)
               /\ \A i \in 1..(Len(nodes) + Len(more)) :
                     all[i] = IF i <= last THEN nodes[i]
                              ELSE IF i <= last + Len(more) THEN more[i - last]
                              ELSE nodes[i - Len(more)]
<1> DEFINE a == SubSeq(nodes, 1, last)
           b == SubSeq(nodes, last + 1, Len(nodes))
           n == Len(nodes)
           m == Len(more)
<1>1. n \in Nat /\ m \in Nat /\ last \in Nat /\ last <= n
    BY LenProperties
<1>2. /\ a \in Seq(Node) /\ Len(a) = last /\ \A i \in 1..last : a[i] = nodes[i]
      /\ b \in Seq(Node) /\ Len(b) = n - last /\ \A i \in 1..(n - last) : b[i] = nodes[last + i]
    <2>1. /\ a \in Seq(Node) /\ Len(a) = last /\ \A i \in 1..last : a[i] = nodes[i]
        BY <1>1, SubSeqProperties
    <2>2. /\ b \in Seq(Node) /\ Len(b) = n - last /\ \A i \in 1..(n - last) : b[i] = nodes[last + i]
        BY <1>1, SubSeqProperties
    <2> QED
        BY <2>1, <2>2
<1> HIDE DEF a, b
<1> DEFINE c == a \o more
<1>3. /\ c \in Seq(Node) /\ Len(c) = Len(a) + m
      /\ \A i \in 1..(Len(a) + m) : c[i] = IF i <= Len(a) THEN a[i] ELSE more[i - Len(a)]
    BY <1>2, ConcatProperties
<1> HIDE DEF c
<1> DEFINE d == c \o b
<1>4. /\ d \in Seq(Node) /\ Len(d) = Len(c) + Len(b)
      /\ \A i \in 1..(Len(c) + Len(b)) : d[i] = IF i <= Len(c) THEN c[i] ELSE b[i - Len(c)]
    <2>1. c \in Seq(Node) /\ b \in Seq(Node)
        BY <1>2, <1>3
    <2> HIDE DEF n, m
    <2> QED
        BY <2>1, ConcatProperties
<1>5. Inserted(nodes, last, more) = d
    BY DEF Inserted, a, b, c
<1> HIDE DEF d, n, m
<1>6. Len(d) = n + m
    BY <1>1, <1>2, <1>3, <1>4
<1>7. ASSUME NEW i \in 1..(n + m)
      PROVE  d[i] = IF i <= last THEN nodes[i]
                    ELSE IF i <= last + m THEN more[i - last] ELSE nodes[i - m]
    <2>1. d[i] = IF i <= Len(c) THEN c[i] ELSE b[i - Len(c)]
        BY <1>4, <1>6, <1>7
    <2>2. CASE i <= last
        BY <1>1, <1>2, <1>3, <2>1, <2>2
    <2>3. CASE i > last /\ i <= last + m
        BY <1>1, <1>2, <1>3, <2>1, <2>3
    <2>4. CASE i > last + m
        <3>1. i - (last + m) \in 1..(n - last) /\ last + (i - (last + m)) = i - m
            BY <1>1, <2>4
        <3>2. d[i] = b[i - (last + m)]
            BY <1>1, <1>2, <1>3, <2>1, <2>4
        <3>3. b[i - (last + m)] = nodes[i - m]
            BY <1>2, <3>1
        <3> QED
            BY <1>1, <2>4, <3>2, <3>3
    <2> QED
        BY <1>1, <2>2, <2>3, <2>4
<1> QED
    BY <1>4, <1>5, <1>6, <1>7 DEF n, m

\* The items go behind all that a folder holds, somewhere in the list.
LEMMA PushedIs ==
    ASSUME NEW nodes \in Seq(Node), NEW path \in Seq(Nat), NEW more, IsFolder(nodes, path)
    PROVE  \E last \in 0..Len(nodes) : Pushed(nodes, path, more) = Inserted(nodes, last, more)
<1> DEFINE inside == {k \in DOMAIN nodes : Within(nodes[k], path)}
           last == IF path = <<>> THEN Len(nodes) ELSE CHOOSE k \in inside : \A j \in inside : j <= k
<1>1. Len(nodes) \in Nat /\ DOMAIN nodes = 1..Len(nodes)
    BY LenProperties
<1>2. last \in 0..Len(nodes)
    <2>1. CASE path = <<>>
        BY <1>1, <2>1
    <2>2. CASE path # <<>>
        <3>1. inside # {} /\ inside \in SUBSET (1..Len(nodes))
            BY <1>1, <2>2 DEF IsFolder, Within
        <3> HIDE DEF inside
        <3>2. \E k \in inside : \A j \in inside : j <= k
            BY <1>1, <3>1, LastIndex
        <3>3. last \in inside
            BY <2>2, <3>2
        <3> HIDE DEF last
        <3>4. last \in 1..Len(nodes)
            BY <3>1, <3>3
        <3> QED
            BY <1>1, <3>4
    <2> QED
        BY <2>1, <2>2
<1>3. Pushed(nodes, path, more) = Inserted(nodes, last, more)
    BY Zenon DEF Pushed, Inserted
<1> HIDE DEF last
<1> QED
    BY <1>2, <1>3

\* What an edit leaves of a document, and what it adds.
LEMMA InsertedHolds ==
    ASSUME NEW nodes \in Seq(Node), NEW more \in Seq(Node), NEW last \in 0..Len(nodes)
    PROVE  /\ \A k \in DOMAIN nodes :
                 \E i \in DOMAIN Inserted(nodes, last, more) : Inserted(nodes, last, more)[i] = nodes[k]
           /\ \A k \in DOMAIN more :
                 \E i \in DOMAIN Inserted(nodes, last, more) : Inserted(nodes, last, more)[i] = more[k]
<1> DEFINE all == Inserted(nodes, last, more)
           n == Len(nodes)
           m == Len(more)
<1>1. n \in Nat /\ m \in Nat /\ last \in 0..n /\ DOMAIN nodes = 1..n /\ DOMAIN more = 1..m
    BY LenProperties
<1>2. all \in Seq(Node) /\ Len(all) = n + m
      /\ \A i \in 1..(n + m) : all[i] = IF i <= last THEN nodes[i]
                                        ELSE IF i <= last + m THEN more[i - last] ELSE nodes[i - m]
    BY InsertedIs
<1>3. DOMAIN all = 1..(n + m)
    BY <1>2, LenProperties
<1> HIDE DEF all, n, m
<1>4. ASSUME NEW k \in 1..n PROVE \E i \in DOMAIN all : all[i] = nodes[k]
    <2>1. CASE k <= last
        <3>1. k \in 1..(n + m)
            BY <1>1
        <3>2. all[k] = nodes[k]
            BY <1>2, <2>1, <3>1
        <3> QED
            BY <1>3, <3>1, <3>2
    <2>2. CASE k > last
        <3>1. k + m \in 1..(n + m) /\ ~(k + m <= last) /\ ~(k + m <= last + m) /\ (k + m) - m = k
            BY <1>1, <2>2
        <3>2. all[k + m] = nodes[k]
            BY <1>2, <3>1
        <3> QED
            BY <1>3, <3>1, <3>2
    <2> QED
        BY <1>1, <2>1, <2>2
<1>5. ASSUME NEW k \in 1..m PROVE \E i \in DOMAIN all : all[i] = more[k]
    <2>1. last + k \in 1..(n + m) /\ ~(last + k <= last) /\ last + k <= last + m /\ (last + k) - last = k
        BY <1>1
    <2>2. all[last + k] = more[k]
        BY <1>2, <2>1
    <2> QED
        BY <1>3, <2>1, <2>2
<1> QED
    BY <1>1, <1>4, <1>5 DEF all

-----------------------------------------------------------------------------
(* Inventory: the hosts of a document *)

NamesIn(nodes) == {nodes[k].name : k \in {k \in DOMAIN nodes : nodes[k].host}}

Distinct(nodes) ==
    \A i, j \in DOMAIN nodes :
        (i # j /\ nodes[i].host /\ nodes[j].host) => nodes[i].name # nodes[j].name

\* The new list has no hosts but the old one's and the ones of these names, each once if it was so.
Adds(new, old, names) ==
    /\ NamesIn(new) \subseteq NamesIn(old) \cup names
    /\ (Distinct(old) /\ NamesIn(old) \cap names = {}) => Distinct(new)

LEMMA AddsTwice ==
    ASSUME NEW a, NEW b, NEW c, NEW names, Adds(b, a, {}), Adds(c, b, names)
    PROVE  Adds(c, a, names)
    BY DEF Adds

LEMMA AddsNothing ==
    ASSUME NEW a PROVE Adds(a, a, {})
    BY DEF Adds

LEMMA InsertedNames ==
    ASSUME NEW nodes \in Seq(Node), NEW more \in Seq(Node), NEW last \in 0..Len(nodes)
    PROVE  /\ NamesIn(Inserted(nodes, last, more)) \subseteq NamesIn(nodes) \cup NamesIn(more)
           /\ Distinct(more) => Adds(Inserted(nodes, last, more), nodes, NamesIn(more))
<1> DEFINE all == Inserted(nodes, last, more)
           n == Len(nodes)
           m == Len(more)
<1>1. n \in Nat /\ m \in Nat /\ last \in 0..n /\ DOMAIN nodes = 1..n /\ DOMAIN more = 1..m
    BY LenProperties
<1>2. all \in Seq(Node) /\ Len(all) = n + m
      /\ \A i \in 1..(n + m) : all[i] = IF i <= last THEN nodes[i]
                                        ELSE IF i <= last + m THEN more[i - last] ELSE nodes[i - m]
    BY InsertedIs
<1>3. DOMAIN all = 1..(n + m)
    BY <1>2, LenProperties
<1> HIDE DEF all, n, m
<1> DEFINE Old(i) == i <= last \/ i > last + m
           Of(i) == IF i <= last THEN i ELSE i - m
<1>4. ASSUME NEW i \in 1..(n + m)
      PROVE  /\ Old(i) => Of(i) \in 1..n /\ all[i] = nodes[Of(i)]
             /\ ~Old(i) => i - last \in 1..m /\ all[i] = more[i - last]
    <2>1. CASE i <= last
        <3>1. i \in 1..n
            BY <1>1, <2>1
        <3>2. all[i] = nodes[i]
            BY <1>2, <2>1
        <3> QED
            BY <1>1, <2>1, <3>1, <3>2
    <2>2. CASE ~(i <= last) /\ i <= last + m
        <3>1. i - last \in 1..m /\ ~Old(i)
            BY <1>1, <2>2
        <3>2. all[i] = more[i - last]
            BY <1>2, <2>2
        <3> QED
            BY <3>1, <3>2
    <2>3. CASE ~(i <= last) /\ ~(i <= last + m)
        <3>1. i - m \in 1..n /\ Old(i)
            BY <1>1, <2>3
        <3>2. all[i] = nodes[i - m]
            BY <1>2, <2>3
        <3> QED
            BY <2>3, <3>1, <3>2
    <2> QED
        BY <2>1, <2>2, <2>3
<1>5. NamesIn(all) \subseteq NamesIn(nodes) \cup NamesIn(more)
    BY <1>1, <1>3, <1>4 DEF NamesIn
<1>6. ASSUME Distinct(more), Distinct(nodes), NamesIn(nodes) \cap NamesIn(more) = {}
      PROVE  Distinct(all)
    <2> SUFFICES ASSUME NEW i \in 1..(n + m), NEW j \in 1..(n + m), i # j, all[i].host, all[j].host
                 PROVE  all[i].name # all[j].name
        BY <1>3 DEF Distinct
    <2>1. CASE Old(i) /\ Old(j)
        <3>1. Of(i) # Of(j)
            BY <1>1, <2>1
        <3> HIDE DEF Old, Of
        <3> QED
            BY <1>1, <1>4, <1>6, <2>1, <3>1 DEF Distinct
    <2>2. CASE ~Old(i) /\ ~Old(j)
        <3>1. i - last # j - last
            BY <1>1
        <3>2. i - last \in 1..m /\ all[i] = more[i - last] /\ j - last \in 1..m /\ all[j] = more[j - last]
            BY <1>4, <2>2
        <3> QED
            BY <1>1, <1>6, <3>1, <3>2 DEF Distinct
    <2>3. CASE Old(i) /\ ~Old(j)
        <3> HIDE DEF Old, Of
        <3> QED
            BY <1>1, <1>4, <1>6, <2>3 DEF NamesIn
    <2>4. CASE ~Old(i) /\ Old(j)
        <3> HIDE DEF Old, Of
        <3> QED
            BY <1>1, <1>4, <1>6, <2>4 DEF NamesIn
    <2> QED
        BY <2>1, <2>2, <2>3, <2>4
<1> QED
    BY <1>5, <1>6 DEF Adds, all

LEMMA PrefixGrows ==
    ASSUME NEW path \in Seq(Nat), NEW k \in 1..Len(path)
    PROVE  /\ SubSeq(path, 1, k - 1) \in Seq(Nat) /\ path[k] \in Nat
           /\ SubSeq(path, 1, k) \in Seq(Nat)
           /\ Append(SubSeq(path, 1, k - 1), path[k]) = SubSeq(path, 1, k)
           /\ SubSeq(path, 1, 0) = <<>> /\ SubSeq(path, 1, Len(path)) = path
<1> DEFINE a == SubSeq(path, 1, k - 1)
           b == SubSeq(path, 1, k)
           c == Append(a, path[k])
<1>1. Len(path) \in Nat /\ k \in Nat /\ path[k] \in Nat
    BY LenProperties, ElementOfSeq
<1>2. a \in Seq(Nat) /\ Len(a) = k - 1 /\ \A i \in 1..(k - 1) : a[i] = path[i]
    BY <1>1, SubSeqProperties
<1>3. b \in Seq(Nat) /\ Len(b) = k /\ \A i \in 1..k : b[i] = path[i]
    BY <1>1, SubSeqProperties
<1> HIDE DEF a, b
<1>4. c \in Seq(Nat) /\ Len(c) = k /\ c[k] = path[k] /\ \A i \in 1..(k - 1) : c[i] = path[i]
    BY <1>1, <1>2, AppendProperties
<1> HIDE DEF c
<1>5. \A i \in 1..Len(c) : c[i] = b[i]
    BY <1>1, <1>3, <1>4
<1>6. c = b
    BY <1>3, <1>4, <1>5, SeqEqual
<1>7. SubSeq(path, 1, 0) = <<>> /\ SubSeq(path, 1, Len(path)) = path
    OBVIOUS
<1> QED
    BY <1>1, <1>2, <1>3, <1>6, <1>7 DEF a, b, c

Grow(nodes, path, k) ==
    IF IsFolder(nodes, SubSeq(path, 1, k)) THEN nodes
    ELSE Pushed(nodes, SubSeq(path, 1, k - 1), <<FolderNode(SubSeq(path, 1, k - 1), path[k])>>)

LEMMA FolderListIs ==
    ASSUME NEW path \in Seq(Nat), NEW name \in Nat
    PROVE  /\ <<FolderNode(path, name)>> \in Seq(Node) /\ Distinct(<<FolderNode(path, name)>>)
           /\ NamesIn(<<FolderNode(path, name)>>) = {}
<1> DEFINE node == FolderNode(path, name)
           list == <<node>>
<1>1. node \in Node /\ ~node.host
    BY NewNodes
<1> HIDE DEF node
<1>2. list \in Seq(Node) /\ DOMAIN list = {1} /\ list[1] = node
    BY <1>1
<1> HIDE DEF list
<1>3. Distinct(list) /\ NamesIn(list) = {}
    BY <1>1, <1>2 DEF Distinct, NamesIn
<1> QED
    BY <1>2, <1>3 DEF list, node

LEMMA GrowIs ==
    ASSUME NEW nodes \in Seq(Node), NEW path \in Seq(Nat), NEW k \in 1..Len(path),
           IsFolder(nodes, SubSeq(path, 1, k - 1))
    PROVE  /\ Grow(nodes, path, k) \in Seq(Node) /\ IsFolder(Grow(nodes, path, k), SubSeq(path, 1, k))
           /\ Adds(Grow(nodes, path, k), nodes, {})
<1> DEFINE parent == SubSeq(path, 1, k - 1)
           more == <<FolderNode(parent, path[k])>>
           new == Grow(nodes, path, k)
<1>1. CASE IsFolder(nodes, SubSeq(path, 1, k))
    BY <1>1, AddsNothing DEF Grow
<1>2. CASE ~IsFolder(nodes, SubSeq(path, 1, k))
    <2>1. parent \in Seq(Nat) /\ path[k] \in Nat /\ Append(parent, path[k]) = SubSeq(path, 1, k)
        BY PrefixGrows
    <2>2. new = Pushed(nodes, parent, more)
        BY <1>2, Zenon DEF Grow
    <2> HIDE DEF parent
    <2>3. more \in Seq(Node) /\ Distinct(more) /\ NamesIn(more) = {} /\ 1 \in DOMAIN more
          /\ more[1] = FolderNode(parent, path[k])
        BY <2>1, FolderListIs
    <2>4. ~more[1].host /\ PathOf(more[1]) = SubSeq(path, 1, k)
        <3>1. ~FolderNode(parent, path[k]).host
              /\ PathOf(FolderNode(parent, path[k])) = Append(parent, path[k])
            BY <2>1, NewNodes
        <3> QED
            BY <2>1, <2>3, <3>1, Zenon
    <2>5. IsFolder(nodes, parent)
        BY DEF parent
    <2> HIDE DEF more, new
    <2>6. PICK last \in 0..Len(nodes) : new = Inserted(nodes, last, more)
        BY <2>1, <2>2, <2>5, PushedIs
    <2>7. new \in Seq(Node)
        BY <2>3, <2>6, InsertedIs
    <2>8. Adds(new, nodes, {})
        <3>1. Adds(Inserted(nodes, last, more), nodes, NamesIn(more))
            BY <2>3, InsertedNames
        <3> QED
            BY <2>3, <2>6, <3>1, Zenon
    <2>9. PICK i \in DOMAIN new : new[i] = more[1]
        <3>1. \E i \in DOMAIN Inserted(nodes, last, more) : Inserted(nodes, last, more)[i] = more[1]
            BY <2>3, InsertedHolds
        <3> QED
            BY <2>6, <3>1, Zenon
    <2>10. IsFolder(new, SubSeq(path, 1, k))
        BY <2>4, <2>9 DEF IsFolder
    <2> QED
        BY <2>7, <2>8, <2>10 DEF new
<1> QED
    BY <1>1, <1>2

Grown(f, nodes, path) ==
    f = [k \in 0..Len(path) |-> IF k = 0 THEN nodes ELSE Grow(f[k - 1], path, k)]

\* What the folders grow to, one after the other: the folder is there, and so are the hosts.
LEMMA GrownIs ==
    ASSUME NEW nodes \in Seq(Node), NEW path \in Seq(Nat), NEW f,
           f[0] = nodes, \A k \in 1..Len(path) : f[k] = Grow(f[k - 1], path, k)
    PROVE  \A k \in 0..Len(path) : /\ f[k] \in Seq(Node) /\ IsFolder(f[k], SubSeq(path, 1, k))
                                   /\ Adds(f[k], nodes, {})
<1> DEFINE n == Len(path)
           H == {k \in 0..n : /\ f[k] \in Seq(Node) /\ IsFolder(f[k], SubSeq(path, 1, k))
                              /\ Adds(f[k], nodes, {})}
<1>1. n \in Nat
    BY LenProperties
<1>2. 0 \in H
    <2>1. SubSeq(path, 1, 0) = <<>>
        OBVIOUS
    <2>2. IsFolder(nodes, <<>>)
        BY DEF IsFolder
    <2>3. f[0] \in Seq(Node) /\ Adds(f[0], nodes, {})
        BY AddsNothing
    <2>4. IsFolder(f[0], SubSeq(path, 1, 0))
        BY <2>1, <2>2, Zenon
    <2>5. 0 \in 0..n
        BY <1>1
    <2> QED
        BY <2>3, <2>4, <2>5, Zenon
<1>3. \A k \in 1..n : k - 1 \in H => k \in H
    <2> SUFFICES ASSUME NEW k \in 1..n, k - 1 \in H PROVE k \in H
        OBVIOUS
    <2> DEFINE g == f[k - 1]
    <2>1. g \in Seq(Node) /\ IsFolder(g, SubSeq(path, 1, k - 1)) /\ Adds(g, nodes, {})
        OBVIOUS
    <2>2. f[k] = Grow(g, path, k)
        OBVIOUS
    <2> HIDE DEF g, H
    <2>3. /\ Grow(g, path, k) \in Seq(Node) /\ IsFolder(Grow(g, path, k), SubSeq(path, 1, k))
          /\ Adds(Grow(g, path, k), g, {})
        BY <2>1, GrowIs
    <2>4. Adds(f[k], nodes, {})
        BY <2>1, <2>2, <2>3, AddsTwice
    <2>5. k \in 0..n
        BY <1>1
    <2> QED
        BY <2>2, <2>3, <2>4, <2>5, Zenon DEF H
<1>4. H = 0..n
    <2> HIDE DEF H
    <2>1. H \in SUBSET (0..n)
        BY DEF H
    <2> QED
        BY <1>1, <1>2, <1>3, <2>1, Holds
<1> QED
    BY <1>4

LEMMA GrownExists ==
    ASSUME NEW nodes \in Seq(Node), NEW path \in Seq(Nat)
    PROVE  \E f : Grown(f, nodes, path)
<1> DEFINE n == Len(path)
           D == Seq(Node)
           Next1(b, k) == IF k \in 1..n /\ IsFolder(b, SubSeq(path, 1, k - 1)) THEN Grow(b, path, k) ELSE b
           step == [k \in Nat |-> [b \in D |-> Next1(b, k)]]
<1>1. n \in Nat
    BY LenProperties
<1>2. \A k \in Nat : \A b \in D : Next1(b, k) \in D
    BY GrowIs
<1> HIDE DEF Next1
<1>3. step \in [Nat -> [D -> D]]
    BY <1>2
<1>4. PICK f \in [0..n -> D] : Iterated(f, n, nodes, step)
    <2> HIDE DEF step, D, n
    <2>1. nodes \in D
        BY DEF D
    <2> QED
        BY <1>1, <1>3, <2>1, IteratedExists
<1>5. f[0] = nodes /\ \A k \in 1..n : f[k] = step[k][f[k - 1]]
    <2> HIDE DEF step, n
    <2>1. f = [k \in 0..n |-> IF k = 0 THEN nodes ELSE step[k][f[k - 1]]]
        BY <1>4, Zenon DEF Iterated
    <2>2. 0 \in 0..n /\ \A k \in 1..n : k \in 0..n /\ k # 0
        BY <1>1
    <2> QED
        BY <2>1, <2>2
<1>6. \A k \in 1..n : f[k] = Next1(f[k - 1], k)
    <2> TAKE k \in 1..n
    <2>1. k \in Nat /\ k - 1 \in 0..n
        BY <1>1
    <2>2. f[k - 1] \in D
        BY <1>4, <2>1
    <2> QED
        BY <1>5, <2>1, <2>2
<1> DEFINE H == {k \in 0..n : IsFolder(f[k], SubSeq(path, 1, k))}
<1>7. H = 0..n
    <2>1. 0 \in H
        <3>1. SubSeq(path, 1, 0) = <<>>
            OBVIOUS
        <3>2. IsFolder(nodes, <<>>)
            BY DEF IsFolder
        <3>3. IsFolder(f[0], SubSeq(path, 1, 0))
            BY <1>5, <3>1, <3>2, Zenon
        <3>4. 0 \in 0..n
            BY <1>1
        <3> QED
            BY <3>3, <3>4, Zenon
    <2>2. \A k \in 1..n : k - 1 \in H => k \in H
        <3> SUFFICES ASSUME NEW k \in 1..n, k - 1 \in H PROVE k \in H
            OBVIOUS
        <3> DEFINE g == f[k - 1]
        <3>1. IsFolder(g, SubSeq(path, 1, k - 1)) /\ k \in 0..n /\ k - 1 \in 0..n
            BY <1>1
        <3>2. g \in Seq(Node)
            BY <1>4, <3>1
        <3>3. f[k] = Grow(g, path, k)
            BY <1>6, <3>1 DEF Next1
        <3> HIDE DEF g, H
        <3>4. IsFolder(f[k], SubSeq(path, 1, k))
            BY <3>1, <3>2, <3>3, GrowIs
        <3> QED
            BY <3>1, <3>4 DEF H
    <2>3. H \in SUBSET (0..n)
        OBVIOUS
    <2> HIDE DEF H
    <2> QED
        BY <1>1, <2>1, <2>2, <2>3, Holds
<1>8. \A k \in 1..n : f[k] = Grow(f[k - 1], path, k)
    <2> TAKE k \in 1..n
    <2>1. k - 1 \in 0..n
        BY <1>1
    <2>2. IsFolder(f[k - 1], SubSeq(path, 1, k - 1))
        BY <1>7, <2>1
    <2> QED
        BY <1>6, <2>2 DEF Next1
<1>9. \A k \in 0..n : f[k] = IF k = 0 THEN nodes ELSE Grow(f[k - 1], path, k)
    BY <1>1, <1>5, <1>8
<1>10. f = [k \in 0..n |-> IF k = 0 THEN nodes ELSE Grow(f[k - 1], path, k)]
    BY <1>4, <1>9
<1> QED
    BY <1>10, Zenon DEF Grown

LEMMA WithFolderIs ==
    ASSUME NEW nodes \in Seq(Node), NEW path \in Seq(Nat)
    PROVE  /\ WithFolder(nodes, path) \in Seq(Node) /\ IsFolder(WithFolder(nodes, path), path)
           /\ Adds(WithFolder(nodes, path), nodes, {})
<1> DEFINE f == CHOOSE g : Grown(g, nodes, path)
           n == Len(path)
<1>1. Grown(f, nodes, path)
    <2>1. \E g : Grown(g, nodes, path)
        BY GrownExists
    <2> QED
        BY <2>1, Zenon
<1>2. WithFolder(nodes, path) = f[n]
    BY Zenon DEF WithFolder, Grown, Grow
<1> HIDE DEF f
<1>3. n \in Nat
    BY LenProperties
<1>4. f[0] = nodes /\ \A k \in 1..n : f[k] = Grow(f[k - 1], path, k)
    <2> HIDE DEF n
    <2>1. f = [k \in 0..n |-> IF k = 0 THEN nodes ELSE Grow(f[k - 1], path, k)]
        BY <1>1, Zenon DEF Grown, n
    <2>2. 0 \in 0..n /\ \A k \in 1..n : k \in 0..n /\ k # 0
        BY <1>3
    <2> QED
        BY <2>1, <2>2
<1>5. f[n] \in Seq(Node) /\ IsFolder(f[n], SubSeq(path, 1, n)) /\ Adds(f[n], nodes, {})
    <2>1. n \in 0..n
        BY <1>3
    <2> QED
        BY <1>4, <2>1, GrownIs
<1>6. SubSeq(path, 1, n) = path
    OBVIOUS
<1> QED
    BY <1>2, <1>5, <1>6, Zenon

\* What filtering keeps are different items of the list.
LEMMA FilteredOf ==
    ASSUME NEW S, NEW s \in Seq(S), NEW keep
    PROVE  \E m \in [DOMAIN Filtered(s, keep) -> DOMAIN s] :
              /\ \A i \in DOMAIN Filtered(s, keep) :
                    Filtered(s, keep)[i] = s[m[i]] /\ s[m[i]] \in keep
              /\ \A i, j \in DOMAIN Filtered(s, keep) : i # j => m[i] # m[j]
<1> DEFINE n == Len(s)
<1>1. n \in Nat /\ DOMAIN s = 1..n /\ \A i \in 1..n : s[i] \in S
    BY LenProperties, ElementOfSeq
<1> DEFINE f == CHOOSE g : Taking(g, s, keep, n)
<1>2. Taking(f, s, keep, n)
    <2>1. \E g : Taking(g, s, keep, n)
        BY <1>1, TakingExists
    <2> QED
        BY <2>1, Zenon
<1>3. Filtered(s, keep) = f[n]
    BY Zenon DEF Filtered, Taking
<1> HIDE DEF f
<1>4. /\ f[0] = <<>>
      /\ \A k \in 1..n : f[k] = IF s[k] \in keep THEN Append(f[k - 1], s[k]) ELSE f[k - 1]
    <2>1. ASSUME NEW k \in 0..n
          PROVE  f[k] = IF k = 0 THEN <<>>
                        ELSE IF s[k] \in keep THEN Append(f[k - 1], s[k]) ELSE f[k - 1]
        BY <1>2 DEF Taking
    <2>2. 0 \in 0..n /\ \A k \in 1..n : k \in 0..n /\ k # 0
        BY <1>1
    <2> HIDE DEF n
    <2> QED
        BY <2>1, <2>2
<1> DEFINE Of(m, t, k) == /\ m \in [1..Len(t) -> 1..k]
                          /\ \A i \in 1..Len(t) : t[i] = s[m[i]] /\ s[m[i]] \in keep
                          /\ \A i, j \in 1..Len(t) : i # j => m[i] # m[j]
           H == {k \in 0..n : f[k] \in Seq(S) /\ \E m : Of(m, f[k], k)}
<1>5. 0 \in H
    <2>1. Of([i \in {} |-> 0], <<>>, 0)
        OBVIOUS
    <2>2. f[0] \in Seq(S) /\ 0 \in 0..n
        BY <1>1, <1>4, EmptySeq
    <2> HIDE DEF Of
    <2> QED
        BY <1>4, <2>1, <2>2
<1>6. \A k \in 1..n : k - 1 \in H => k \in H
    <2> SUFFICES ASSUME NEW k \in 1..n, k - 1 \in H PROVE k \in H
        OBVIOUS
    <2>1. k \in Nat /\ k \in 0..n /\ s[k] \in S
        BY <1>1
    <2> DEFINE t == f[k - 1]
    <2>2. t \in Seq(S) /\ \E m : Of(m, t, k - 1)
        OBVIOUS
    <2>3. PICK m : Of(m, t, k - 1)
        BY <2>2
    <2>4. f[k] = IF s[k] \in keep THEN Append(t, s[k]) ELSE t
        BY <1>4
    <2> HIDE DEF t, H
    <2>5. Len(t) \in Nat
        BY <2>2, LenProperties
    <2>6. CASE s[k] \in keep
        <3> DEFINE u == Append(t, s[k])
                   q == [i \in 1..(Len(t) + 1) |-> IF i = Len(t) + 1 THEN k ELSE m[i]]
        <3>1. u \in Seq(S) /\ Len(u) = Len(t) + 1 /\ u[Len(t) + 1] = s[k]
              /\ \A i \in 1..Len(t) : u[i] = t[i]
            BY <2>1, <2>2, AppendProperties
        <3>2. \A i \in 1..(Len(t) + 1) : i = Len(t) + 1 \/ i \in 1..Len(t)
            BY <2>5
        <3>3. \A i \in 1..Len(t) : m[i] \in 1..k /\ m[i] # k /\ q[i] = m[i]
            BY <2>1, <2>3, <2>5
        <3>4. q[Len(t) + 1] = k /\ k \in 1..k
            BY <2>1, <2>5
        <3>5. q \in [1..(Len(t) + 1) -> 1..k]
            BY <3>2, <3>3, <3>4
        <3> HIDE DEF u, q
        <3>6. \A i \in 1..(Len(t) + 1) : u[i] = s[q[i]] /\ s[q[i]] \in keep
            BY <2>3, <2>6, <3>1, <3>2, <3>3, <3>4
        <3>7. \A i, j \in 1..(Len(t) + 1) : i # j => q[i] # q[j]
            BY <2>3, <3>2, <3>3, <3>4
        <3>8. Of(q, u, k)
            BY <3>1, <3>5, <3>6, <3>7
        <3>9. f[k] = u
            BY <2>4, <2>6 DEF u
        <3> HIDE DEF Of
        <3> QED
            BY <2>1, <3>1, <3>8, <3>9, Zenon DEF H
    <2>7. CASE s[k] \notin keep
        <3>1. f[k] = t
            BY <2>4, <2>7
        <3>2. Of(m, t, k)
            <4>1. m \in [1..Len(t) -> 1..k]
                BY <2>1, <2>3
            <4> QED
                BY <2>3, <4>1
        <3> HIDE DEF Of
        <3> QED
            BY <2>1, <2>2, <3>1, <3>2, Zenon DEF H
    <2> QED
        BY <2>6, <2>7
<1>7. n \in H
    <2>1. H \in SUBSET (0..n)
        OBVIOUS
    <2> HIDE DEF H
    <2>2. H = 0..n
        BY <1>1, <1>5, <1>6, <2>1, Holds
    <2> QED
        BY <1>1, <2>2
<1>8. f[n] \in Seq(S) /\ \E m : Of(m, f[n], n)
    BY <1>7
<1> DEFINE t == f[n]
<1>9. DOMAIN t = 1..Len(t)
    BY <1>8, LenProperties
<1>10. PICK m : Of(m, t, n)
    BY <1>8
<1> HIDE DEF t
<1>11. /\ m \in [DOMAIN t -> DOMAIN s]
       /\ \A i \in DOMAIN t : t[i] = s[m[i]] /\ s[m[i]] \in keep
       /\ \A i, j \in DOMAIN t : i # j => m[i] # m[j]
    BY <1>1, <1>9, <1>10
<1>12. Filtered(s, keep) = t
    BY <1>3 DEF t
<1> QED
    BY <1>11, <1>12

\* A list of different items of a list of nodes, each with its name if it is still a host.
LEMMA DrawnFrom ==
    ASSUME NEW old, NEW new, NEW m \in [DOMAIN new -> DOMAIN old],
           \A i \in DOMAIN new : new[i].host => old[m[i]].host /\ new[i].name = old[m[i]].name,
           \A i, j \in DOMAIN new : i # j => m[i] # m[j]
    PROVE  Adds(new, old, {})
<1>1. NamesIn(new) \subseteq NamesIn(old)
    BY DEF NamesIn
<1>2. Distinct(old) => Distinct(new)
    BY DEF Distinct
<1> QED
    BY <1>1, <1>2 DEF Adds

LEMMA RemovedIs ==
    ASSUME NEW nodes \in Seq(Node), NEW k \in DOMAIN nodes
    PROVE  /\ RemoveAt(nodes, k) \in Seq(Node) /\ Adds(RemoveAt(nodes, k), nodes, {})
           /\ (Distinct(nodes) /\ nodes[k].host) => nodes[k].name \notin NamesIn(RemoveAt(nodes, k))
<1> DEFINE n == Len(nodes)
           a == SubSeq(nodes, 1, k - 1)
           b == SubSeq(nodes, k + 1, n)
           new == a \o b
<1>1. n \in Nat /\ DOMAIN nodes = 1..n /\ k \in 1..n
    BY LenProperties
<1>2. a \in Seq(Node) /\ Len(a) = k - 1 /\ \A i \in 1..(k - 1) : a[i] = nodes[i]
    BY <1>1, SubSeqProperties
<1>3. b \in Seq(Node) /\ Len(b) = n - k /\ \A i \in 1..(n - k) : b[i] = nodes[k + i]
    BY <1>1, SubSeqProperties
<1> HIDE DEF a, b, n
<1>4. /\ new \in Seq(Node) /\ Len(new) = Len(a) + Len(b)
      /\ \A i \in 1..(Len(a) + Len(b)) : new[i] = IF i <= Len(a) THEN a[i] ELSE b[i - Len(a)]
    BY <1>2, <1>3, ConcatProperties
<1>5. RemoveAt(nodes, k) = new
    BY Zenon DEF RemoveAt, a, b, n
<1> HIDE DEF new
<1> DEFINE m == [i \in 1..(n - 1) |-> IF i < k THEN i ELSE i + 1]
<1>6. DOMAIN new = 1..(n - 1)
    <2>1. Len(new) = n - 1
        BY <1>1, <1>2, <1>3, <1>4
    <2> QED
        BY <1>4, <2>1, LenProperties
<1>7. ASSUME NEW i \in 1..(n - 1) PROVE m[i] \in 1..n /\ m[i] # k /\ new[i] = nodes[m[i]]
    <2>1. CASE i < k
        <3>1. i \in 1..(k - 1) /\ i \in 1..n /\ m[i] = i
            BY <1>1, <2>1
        <3>2. new[i] = a[i]
            BY <1>1, <1>2, <1>3, <1>4, <3>1
        <3> QED
            BY <1>2, <2>1, <3>1, <3>2
    <2>2. CASE ~(i < k)
        <3>1. i - (k - 1) \in 1..(n - k) /\ k + (i - (k - 1)) = i + 1 /\ m[i] = i + 1 /\ i + 1 \in 1..n
              /\ i + 1 # k
            BY <1>1, <2>2
        <3>2. new[i] = b[i - (k - 1)]
            BY <1>1, <1>2, <1>3, <1>4, <2>2
        <3> QED
            BY <1>3, <3>1, <3>2
    <2> QED
        BY <2>1, <2>2
<1>8. \A i, j \in 1..(n - 1) : i # j => m[i] # m[j]
    BY <1>1
<1>9. m \in [DOMAIN new -> DOMAIN nodes]
    BY <1>1, <1>6, <1>7
<1> HIDE DEF m
<1>10. Adds(new, nodes, {})
    BY <1>6, <1>7, <1>8, <1>9, DrawnFrom
<1>11. ASSUME Distinct(nodes), nodes[k].host PROVE nodes[k].name \notin NamesIn(new)
    BY <1>1, <1>6, <1>7, <1>11 DEF NamesIn, Distinct
<1> QED
    BY <1>4, <1>5, <1>10, <1>11

LEMMA PartOfIs ==
    ASSUME NEW nodes \in Seq(Node), NEW path
    PROVE  /\ Inside(nodes, path) \in Seq(Node) /\ Adds(Inside(nodes, path), nodes, {})
           /\ Without(nodes, path) \in Seq(Node) /\ Adds(Without(nodes, path), nodes, {})
           /\ Distinct(nodes) => NamesIn(Inside(nodes, path)) \cap NamesIn(Without(nodes, path)) = {}
           /\ \A k \in DOMAIN Inside(nodes, path) : Within(Inside(nodes, path)[k], path)
<1> DEFINE in == {node \in Range(nodes) : Within(node, path)}
           out == {node \in Range(nodes) : ~Within(node, path)}
           inside == Inside(nodes, path)
           without == Without(nodes, path)
<1>1. inside \in Seq(Node) /\ without \in Seq(Node)
    BY FilteredIs DEF Inside, Without
<1>2. PICK m \in [DOMAIN inside -> DOMAIN nodes] :
          /\ \A i \in DOMAIN inside : inside[i] = nodes[m[i]] /\ nodes[m[i]] \in in
          /\ \A i, j \in DOMAIN inside : i # j => m[i] # m[j]
    <2>1. \E m \in [DOMAIN Filtered(nodes, in) -> DOMAIN nodes] :
              /\ \A i \in DOMAIN Filtered(nodes, in) :
                    Filtered(nodes, in)[i] = nodes[m[i]] /\ nodes[m[i]] \in in
              /\ \A i, j \in DOMAIN Filtered(nodes, in) : i # j => m[i] # m[j]
        <3> HIDE DEF in
        <3> QED
            BY FilteredOf
    <2> QED
        BY <2>1, Zenon DEF Inside
<1>3. PICK q \in [DOMAIN without -> DOMAIN nodes] :
          /\ \A i \in DOMAIN without : without[i] = nodes[q[i]] /\ nodes[q[i]] \in out
          /\ \A i, j \in DOMAIN without : i # j => q[i] # q[j]
    <2>1. \E q \in [DOMAIN Filtered(nodes, out) -> DOMAIN nodes] :
              /\ \A i \in DOMAIN Filtered(nodes, out) :
                    Filtered(nodes, out)[i] = nodes[q[i]] /\ nodes[q[i]] \in out
              /\ \A i, j \in DOMAIN Filtered(nodes, out) : i # j => q[i] # q[j]
        <3> HIDE DEF out
        <3> QED
            BY FilteredOf
    <2> QED
        BY <2>1, Zenon DEF Without
<1>4. \A i \in DOMAIN inside : Within(inside[i], path)
    BY <1>2
<1>5. \A i \in DOMAIN inside, j \in DOMAIN without : m[i] # q[j]
    BY <1>2, <1>3
<1> HIDE DEF inside, without, in, out
<1>6. Adds(inside, nodes, {}) /\ Adds(without, nodes, {})
    BY <1>2, <1>3, DrawnFrom
<1>7. Distinct(nodes) => NamesIn(inside) \cap NamesIn(without) = {}
    BY <1>2, <1>3, <1>5 DEF Distinct, NamesIn
<1> QED
    BY <1>1, <1>4, <1>6, <1>7 DEF inside, without

\* Putting one more node into a folder.
LEMMA PushedNode ==
    ASSUME NEW nodes \in Seq(Node), NEW path \in Seq(Nat), NEW node \in Node, IsFolder(nodes, path)
    PROVE  /\ Pushed(nodes, path, <<node>>) \in Seq(Node)
           /\ Adds(Pushed(nodes, path, <<node>>), nodes, IF node.host THEN {node.name} ELSE {})
<1> DEFINE more == <<node>>
<1>1. more \in Seq(Node) /\ DOMAIN more = {1} /\ more[1] = node
    OBVIOUS
<1> HIDE DEF more
<1>2. Distinct(more) /\ NamesIn(more) = IF node.host THEN {node.name} ELSE {}
    BY <1>1 DEF Distinct, NamesIn
<1>3. PICK last \in 0..Len(nodes) : Pushed(nodes, path, more) = Inserted(nodes, last, more)
    BY <1>1, PushedIs
<1>4. Inserted(nodes, last, more) \in Seq(Node)
    BY <1>1, InsertedIs
<1>5. Adds(Inserted(nodes, last, more), nodes, NamesIn(more))
    BY <1>1, <1>2, InsertedNames
<1> QED
    BY <1>2, <1>3, <1>4, <1>5, Zenon DEF more

LEMMA RenamedIs ==
    ASSUME NEW nodes \in Seq(Node), NEW k \in DOMAIN nodes, NEW name \in Nat, nodes[k].host,
           NEW refused \in BOOLEAN
    PROVE  LET new == [nodes EXCEPT ![k].name = name, ![k].refused = refused]
           IN  /\ new \in Seq(Node) /\ Adds(new, nodes, {name})
               /\ name = nodes[k].name => Adds(new, nodes, {})
<1> DEFINE n == Len(nodes)
           node == [nodes[k] EXCEPT !.name = name, !.refused = refused]
           new == [nodes EXCEPT ![k] = node]
<1>1. n \in Nat /\ DOMAIN nodes = 1..n /\ nodes \in [1..n -> Node] /\ nodes[k] \in Node
    BY LenProperties
<1>2. node \in Node /\ node.name = name /\ node.host /\ node.host = nodes[k].host
    BY <1>1 DEF Node
<1> HIDE DEF node, n
<1>3. new \in [1..n -> Node] /\ new[k] = node /\ \A i \in 1..n : i # k => new[i] = nodes[i]
    BY <1>1, <1>2
<1>4. new \in Seq(Node) /\ DOMAIN new = DOMAIN nodes
    BY <1>1, <1>3, SeqDef
<1> HIDE DEF new
<1>5. ASSUME name = nodes[k].name PROVE Adds(new, nodes, {})
    <2>1. \A i \in DOMAIN nodes : new[i].host = nodes[i].host /\ new[i].name = nodes[i].name
        BY <1>1, <1>2, <1>3, <1>5
    <2>2. NamesIn(new) = NamesIn(nodes) /\ (Distinct(nodes) => Distinct(new))
        BY <1>4, <2>1 DEF NamesIn, Distinct
    <2> QED
        BY <2>2 DEF Adds
<1>6. NamesIn(new) \subseteq NamesIn(nodes) \cup {name}
    BY <1>1, <1>2, <1>3, <1>4 DEF NamesIn
<1>7. ASSUME Distinct(nodes), NamesIn(nodes) \cap {name} = {} PROVE Distinct(new)
    <2>1. \A i \in DOMAIN nodes : nodes[i].host => nodes[i].name # name
        BY <1>7 DEF NamesIn
    <2> QED
        BY <1>1, <1>2, <1>3, <1>4, <1>7, <2>1 DEF Distinct
<1>8. [nodes EXCEPT ![k].name = name, ![k].refused = refused] = new
    BY <1>1 DEF new, node
<1> QED
    BY <1>4, <1>5, <1>6, <1>7, <1>8 DEF Adds

LEMMA NamedIs ==
    ASSUME NEW nodes, NEW name, NEW k \in Named(nodes, name)
    PROVE  k \in DOMAIN nodes /\ nodes[k].host /\ nodes[k].name = name
    BY DEF Named

LEMMA UpdateHostIs ==
    ASSUME NEW nodes \in Seq(Node), NEW name, NEW new \in Nat, NEW refused \in BOOLEAN,
           NEW saved \in UpdateHost(nodes, name, new, refused)
    PROVE  saved \in Seq(Node) /\ Adds(saved, nodes, {new}) /\ (name = new => Adds(saved, nodes, {}))
<1>1. PICK k \in Named(nodes, name) :
          saved = [nodes EXCEPT ![k].name = new, ![k].refused = refused]
    BY DEF UpdateHost
<1>2. k \in DOMAIN nodes /\ nodes[k].host /\ nodes[k].name = name
    BY NamedIs
<1> DEFINE r == [nodes EXCEPT ![k].name = new, ![k].refused = refused]
<1>3. r \in Seq(Node) /\ Adds(r, nodes, {new}) /\ (new = nodes[k].name => Adds(r, nodes, {}))
    BY <1>2, RenamedIs
<1> QED
    BY <1>1, <1>2, <1>3, Zenon

LEMMA DeleteHostIs ==
    ASSUME NEW nodes \in Seq(Node), NEW name, NEW saved \in DeleteHost(nodes, name)
    PROVE  saved \in Seq(Node) /\ Adds(saved, nodes, {})
<1>1. PICK k \in Named(nodes, name) : saved = RemoveAt(nodes, k)
    BY DEF DeleteHost
<1> QED
    BY <1>1, NamedIs, RemovedIs

LEMMA AddsMore ==
    ASSUME NEW a, NEW b, NEW c, NEW names, Adds(b, a, {}), Adds(c, b, names)
    PROVE  Adds(c, a, names)
    BY AddsTwice

LEMMA CreateHostIs ==
    ASSUME NEW nodes \in Seq(Node), NEW path \in Seq(Nat), NEW name \in Nat, NEW refused \in BOOLEAN,
           NEW saved \in CreateHost(nodes, path, name, refused)
    PROVE  saved \in Seq(Node) /\ Adds(saved, nodes, {name})
<1> DEFINE grown == WithFolder(nodes, path)
           node == HostNode(path, name, refused)
<1>1. grown \in Seq(Node) /\ IsFolder(grown, path) /\ Adds(grown, nodes, {})
    BY WithFolderIs
<1>2. node \in Node /\ node.host /\ node.name = name
    BY NewNodes
<1>3. saved = Pushed(grown, path, <<node>>)
    BY DEF CreateHost
<1> HIDE DEF grown, node
<1>4. /\ Pushed(grown, path, <<node>>) \in Seq(Node)
      /\ Adds(Pushed(grown, path, <<node>>), grown, IF node.host THEN {node.name} ELSE {})
    BY <1>1, <1>2, PushedNode
<1>5. Adds(saved, grown, {name})
    BY <1>2, <1>3, <1>4
<1> QED
    BY <1>1, <1>3, <1>4, <1>5, AddsMore

LEMMA CreateFolderIs ==
    ASSUME NEW nodes \in Seq(Node), NEW path \in Seq(Nat), NEW name \in Nat,
           NEW saved \in CreateFolder(nodes, path, name)
    PROVE  saved \in Seq(Node) /\ Adds(saved, nodes, {})
<1> DEFINE grown == WithFolder(nodes, path)
           node == FolderNode(path, name)
<1>1. grown \in Seq(Node) /\ IsFolder(grown, path) /\ Adds(grown, nodes, {})
    BY WithFolderIs
<1>2. node \in Node /\ ~node.host
    BY NewNodes
<1>3. saved = Pushed(grown, path, <<node>>)
    BY DEF CreateFolder
<1> HIDE DEF grown, node
<1>4. /\ Pushed(grown, path, <<node>>) \in Seq(Node)
      /\ Adds(Pushed(grown, path, <<node>>), grown, IF node.host THEN {node.name} ELSE {})
    BY <1>1, <1>2, PushedNode
<1>5. Adds(saved, grown, {})
    BY <1>2, <1>3, <1>4
<1> QED
    BY <1>1, <1>3, <1>4, <1>5, AddsMore

\* What is taken out and put in again is there once.
LEMMA MoveHostIs ==
    ASSUME NEW nodes \in Seq(Node), NEW path \in Seq(Nat), NEW name \in Nat,
           NEW saved \in MoveHost(nodes, name, path)
    PROVE  saved \in Seq(Node) /\ Adds(saved, nodes, {})
<1>1. PICK k \in Named(nodes, name) :
          saved = IF nodes[k].at = path THEN nodes
                  ELSE Pushed(WithFolder(RemoveAt(nodes, k), path), path, <<[nodes[k] EXCEPT !.at = path]>>)
    BY DEF MoveHost
<1>2. k \in DOMAIN nodes /\ nodes[k].host /\ nodes[k].name = name
    BY NamedIs
<1> DEFINE left == RemoveAt(nodes, k)
           grown == WithFolder(left, path)
           node == [nodes[k] EXCEPT !.at = path]
<1>3. /\ left \in Seq(Node) /\ Adds(left, nodes, {})
      /\ Distinct(nodes) => name \notin NamesIn(left)
    BY <1>2, RemovedIs
<1>4. CASE nodes[k].at = path
    BY <1>1, <1>4, AddsNothing
<1>5. CASE nodes[k].at # path
    <2>1. saved = Pushed(grown, path, <<node>>)
        BY <1>1, <1>5
    <2>2. node \in Node /\ node.host /\ node.name = name
        <3>1. nodes[k] \in Node
            BY <1>2, LenProperties
        <3> QED
            BY <1>2, <3>1 DEF Node
    <2> HIDE DEF left, node
    <2>3. grown \in Seq(Node) /\ IsFolder(grown, path) /\ Adds(grown, left, {})
        BY <1>3, WithFolderIs
    <2> HIDE DEF grown
    <2>4. /\ Pushed(grown, path, <<node>>) \in Seq(Node)
          /\ Adds(Pushed(grown, path, <<node>>), grown, IF node.host THEN {node.name} ELSE {})
        BY <2>2, <2>3, PushedNode
    <2>5. Adds(saved, left, {name})
        <3>1. Adds(saved, grown, {name})
            BY <2>1, <2>2, <2>4
        <3> QED
            BY <2>3, <3>1, AddsMore
    <2>6. name \in NamesIn(nodes)
        BY <1>2 DEF NamesIn
    <2>7. NamesIn(saved) \subseteq NamesIn(nodes)
        BY <1>3, <2>5, <2>6 DEF Adds
    <2>8. Distinct(nodes) => Distinct(saved)
        BY <1>3, <2>5 DEF Adds
    <2> QED
        BY <2>1, <2>4, <2>7, <2>8 DEF Adds
<1> QED
    BY <1>4, <1>5

LEMMA DeleteFolderIs ==
    ASSUME NEW nodes \in Seq(Node), NEW path, NEW saved \in DeleteFolder(nodes, path)
    PROVE  saved \in Seq(Node) /\ Adds(saved, nodes, {})
<1>1. saved = Without(nodes, path)
    BY DEF DeleteFolder
<1> QED
    BY <1>1, PartOfIs

LEMMA JoinedPath ==
    ASSUME NEW new \in Seq(Nat), NEW path \in Seq(Nat), NEW at \in Seq(Nat), IsPrefix(path, at)
    PROVE  new \o SubSeq(at, Len(path) + 1, Len(at)) \in Seq(Nat)
<1>1. Len(path) \in Nat /\ Len(at) \in Nat /\ Len(path) <= Len(at)
    BY LenProperties DEF IsPrefix
<1>2. SubSeq(at, Len(path) + 1, Len(at)) \in Seq(Nat)
    BY <1>1, SubSeqProperties
<1> QED
    BY <1>2, ConcatProperties

LEMMA RelocateFolderIs ==
    ASSUME NEW nodes \in Seq(Node), NEW path \in Seq(Nat), NEW parent \in Seq(Nat), NEW name \in Nat,
           NEW saved \in RelocateFolder(nodes, path, parent, name)
    PROVE  /\ saved \in Seq(Node) /\ Adds(saved, nodes, {})
           /\ path = Append(parent, name) => saved = nodes
<1> DEFINE new == Append(parent, name)
           Relocated(node) == IF PathOf(node) = path THEN FolderNode(parent, name)
                              ELSE [node EXCEPT !.at = new \o SubSeq(@, Len(path) + 1, Len(@))]
           inside == Inside(nodes, path)
           without == Without(nodes, path)
           grown == WithFolder(without, parent)
           Refused == \/ IsPrefix(path, parent) \/ Hidden(parent)
                      \/ ~FindsFolder(nodes, path) \/ FindsFolder(grown, new)
           moved == [k \in DOMAIN inside |-> Relocated(inside[k])]
<1>1. CASE path = new
    <2>1. saved = nodes
        BY <1>1, Zenon DEF RelocateFolder
    <2> QED
        BY <2>1, AddsNothing
<1>2. CASE path # new
    <2>1. saved = Pushed(grown, parent, moved)
        <3>1. CASE Refused
            BY <1>2, <3>1, Zenon DEF RelocateFolder
        <3>2. CASE ~Refused
            BY <1>2, <3>2, Zenon DEF RelocateFolder
        <3> QED
            BY <3>1, <3>2, Zenon
    <2>2. /\ inside \in Seq(Node) /\ Adds(inside, nodes, {})
          /\ without \in Seq(Node) /\ Adds(without, nodes, {})
          /\ Distinct(nodes) => NamesIn(inside) \cap NamesIn(without) = {}
          /\ \A k \in DOMAIN inside : Within(inside[k], path)
        BY PartOfIs
    <2> HIDE DEF inside, without
    <2>3. grown \in Seq(Node) /\ IsFolder(grown, parent) /\ Adds(grown, without, {})
        BY <2>2, WithFolderIs
    <2> HIDE DEF grown
    <2>4. new \in Seq(Nat)
        BY LongerPath
    <2> HIDE DEF new
    <2>5. ASSUME NEW node \in Node, Within(node, path)
          PROVE  /\ Relocated(node) \in Node
                 /\ Relocated(node).host => node.host /\ Relocated(node).name = node.name
        <3>1. CASE PathOf(node) = path
            BY <3>1, NewNodes
        <3>2. CASE PathOf(node) # path
            <4> DEFINE at == new \o SubSeq(node.at, Len(path) + 1, Len(node.at))
            <4>1. node.at \in Seq(Nat)
                BY NodePath
            <4>2. IsPrefix(path, node.at)
                BY <2>5, <3>2 DEF Within
            <4>3. at \in Seq(Nat)
                BY <2>4, <4>1, <4>2, JoinedPath
            <4>4. Relocated(node) = [node EXCEPT !.at = at]
                BY <3>2, Zenon
            <4> HIDE DEF at, Relocated
            <4> QED
                BY <4>3, <4>4 DEF Node
        <3> QED
            BY <3>1, <3>2
    <2> HIDE DEF Relocated
    <2>6. DOMAIN inside = 1..Len(inside) /\ Len(inside) \in Nat /\ \A k \in DOMAIN inside : inside[k] \in Node
        BY <2>2, LenProperties
    <2>7. \A k \in DOMAIN inside : /\ Relocated(inside[k]) \in Node
                                   /\ Relocated(inside[k]).host =>
                                        inside[k].host /\ Relocated(inside[k]).name = inside[k].name
        BY <2>2, <2>5, <2>6
    <2>8. moved \in Seq(Node) /\ DOMAIN moved = DOMAIN inside
        <3>1. moved \in [1..Len(inside) -> Node]
            BY <2>6, <2>7
        <3> QED
            BY <2>6, <3>1, SeqDef
    <2>9. Adds(moved, inside, {})
        <3> DEFINE id == [k \in DOMAIN moved |-> k]
        <3>1. id \in [DOMAIN moved -> DOMAIN inside] /\ \A k \in DOMAIN moved : id[k] = k
            BY <2>8
        <3>2. \A k \in DOMAIN moved : moved[k] = Relocated(inside[k])
            BY <2>8
        <3> HIDE DEF id, moved
        <3>3. /\ \A i \in DOMAIN moved :
                    moved[i].host => inside[id[i]].host /\ moved[i].name = inside[id[i]].name
              /\ \A i, j \in DOMAIN moved : i # j => id[i] # id[j]
            BY <2>7, <2>8, <3>1, <3>2
        <3> QED
            BY <3>1, <3>3, DrawnFrom
    <2> HIDE DEF moved
    <2>10. PICK last \in 0..Len(grown) : saved = Inserted(grown, last, moved)
        BY <2>1, <2>3, <2>8, PushedIs
    <2>11. saved \in Seq(Node)
        BY <2>3, <2>8, <2>10, InsertedIs
    <2>12. Distinct(moved) => Adds(saved, grown, NamesIn(moved))
        BY <2>3, <2>8, <2>10, InsertedNames
    <2>13. NamesIn(saved) \subseteq NamesIn(grown) \cup NamesIn(moved)
        <3>1. saved \in Seq(Node) /\ moved \in Seq(Node) /\ grown \in Seq(Node)
            BY <2>3, <2>8, <2>11
        <3> QED
            BY <2>10, <3>1, InsertedNames
    <2>14. NamesIn(saved) \subseteq NamesIn(nodes)
        BY <2>2, <2>3, <2>9, <2>13 DEF Adds
    <2>15. Distinct(nodes) => Distinct(saved)
        <3> SUFFICES ASSUME Distinct(nodes) PROVE Distinct(saved)
            OBVIOUS
        <3>1. Distinct(inside) /\ Distinct(without) /\ NamesIn(inside) \cap NamesIn(without) = {}
            BY <2>2 DEF Adds
        <3>2. Distinct(moved) /\ Distinct(grown)
            BY <2>3, <2>9, <3>1 DEF Adds
        <3>3. NamesIn(grown) \cap NamesIn(moved) = {}
            BY <2>3, <2>9, <3>1 DEF Adds
        <3> QED
            BY <2>12, <3>2, <3>3 DEF Adds
    <2> QED
        BY <1>2, <2>11, <2>14, <2>15 DEF Adds, new
<1> QED
    BY <1>1, <1>2

-----------------------------------------------------------------------------
(* HostDialogs: what it shows has its type *)

Target == [host : BOOLEAN, index : Nat, file : Files, seen : Int]
Kinds == {"move", "place", "create", "createIn", "rename", "renameIn", "deleteHost", "deleteFolder"}
DialogRecord == [kind : Kinds, file : Files, path : Seq(Nat), parent : Seq(Nat), rows : SUBSET Seq(Nat),
                 name : Nat, shown : SUBSET Nat, fromEditor : BOOLEAN, seen : Int]
FormRecord == [mode : {"edit", "duplicate", "new"}, file : Files, name : Nat, folder : Seq(Nat)]

LEMMA DialogKind ==
    ASSUME NEW d \in DialogRecord, NEW kind \in Kinds
    PROVE  [d EXCEPT !.kind = kind] \in DialogRecord
    BY DEF DialogRecord

LEMMA DialogPath ==
    ASSUME NEW d \in DialogRecord, NEW path \in Seq(Nat)
    PROVE  [d EXCEPT !.path = path] \in DialogRecord
    BY DEF DialogRecord

LEMMA DialogParent ==
    ASSUME NEW d \in DialogRecord, NEW parent \in Seq(Nat)
    PROVE  [d EXCEPT !.parent = parent] \in DialogRecord
    BY DEF DialogRecord

LEMMA DialogRows ==
    ASSUME NEW d \in DialogRecord, NEW rws \in SUBSET Seq(Nat)
    PROVE  [d EXCEPT !.rows = rws] \in DialogRecord
    BY DEF DialogRecord

LEMMA DialogName ==
    ASSUME NEW d \in DialogRecord, NEW name \in Nat
    PROVE  [d EXCEPT !.name = name] \in DialogRecord
    BY DEF DialogRecord

LEMMA DialogShown ==
    ASSUME NEW d \in DialogRecord, NEW shown \in SUBSET Nat
    PROVE  [d EXCEPT !.shown = shown] \in DialogRecord
    BY DEF DialogRecord

LEMMA DialogFromEditor ==
    ASSUME NEW d \in DialogRecord
    PROVE  [d EXCEPT !.fromEditor = TRUE] \in DialogRecord
    BY DEF DialogRecord

LEMMA PathsAre ==
    ASSUME IsTree(tree)
    PROVE  /\ IsFiniteSet(Paths) /\ Paths \subseteq Seq(Nat)
           /\ \A p \in Paths : FileOf(p) \in Files
           /\ \A h \in Range(tree.hosts) : h \in Row
           /\ \A k \in DOMAIN tree.hosts : tree.hosts[k] \in Range(tree.hosts) /\ k \in Nat
<1>1. IsFiniteSet(Paths) /\ Paths \subseteq Seq(Nat) /\ tree.hosts \in Seq(Row)
    BY DEF IsTree, Paths
<1>2. \A p \in Paths : FileOf(p) \in Files
    BY DEF IsTree, Paths, FileOf
<1>3. DOMAIN tree.hosts = 1..Len(tree.hosts) /\ Len(tree.hosts) \in Nat
      /\ \A k \in DOMAIN tree.hosts : tree.hosts[k] \in Row
    BY <1>1, LenProperties
<1> QED
    BY <1>1, <1>2, <1>3 DEF Range

LEMMA IdIs ==
    ASSUME IsTree(tree), NEW path PROVE IdOf(path) \in Nat
<1> DEFINE S == {p \in Paths : NumberedBefore(p, path)}
<1>1. IsFiniteSet(S)
    <2>1. S \subseteq Paths /\ IsFiniteSet(Paths)
        BY PathsAre
    <2> HIDE DEF S
    <2> QED
        BY <2>1, FS_Subset
<1> HIDE DEF S
<1>2. Cardinality(S) \in Nat
    BY <1>1, FS_CardinalityType
<1> QED
    BY <1>2 DEF IdOf, S

LEMMA Behind ==
    ASSUME NEW p \in Seq(Nat), NEW q \in Seq(Nat), IsPrefix(p, q)
    PROVE  SubSeq(q, Len(p) + 1, Len(q)) \in Seq(Nat)
<1>1. Len(p) \in Nat /\ Len(q) \in Nat /\ Len(p) <= Len(q)
    BY LenProperties DEF IsPrefix
<1> QED
    BY <1>1, SubSeqProperties

LEMMA PathInIs ==
    ASSUME IsTree(tree), NEW file, NEW path \in Seq(Nat)
    PROVE  PathIn(file, path) \in Seq(Nat)
<1> DEFINE prefix == IF SourceRoots(file) = {} THEN <<>> ELSE CHOOSE p \in SourceRoots(file) : TRUE
<1>1. SourceRoots(file) \subseteq Seq(Nat)
    BY PathsAre DEF SourceRoots
<1>2. prefix \in Seq(Nat)
    BY <1>1, EmptySeq
<1> HIDE DEF prefix
<1>3. PathIn(file, path) = IF IsPrefix(prefix, path) THEN SubSeq(path, Len(prefix) + 1, Len(path)) ELSE path
    BY Zenon DEF PathIn, prefix
<1> QED
    BY <1>2, <1>3, Behind

LEMMA PathByIdIs ==
    ASSUME IsTree(tree), NEW file, NEW id
    PROVE  PathById(file, id) \in Seq(Nat)
<1> DEFINE found == {p \in Paths : p # <<>> /\ IdOf(p) = id}
           p == CHOOSE p \in found : TRUE
<1>1. CASE found = {}
    BY <1>1, EmptySeq DEF PathById
<1>2. CASE found # {}
    <2>1. p \in Seq(Nat)
        <3>1. p \in found
            BY <1>2
        <3> QED
            BY <3>1, PathsAre
    <2>2. PathById(file, id) = PathIn(file, p)
        BY <1>2, Zenon DEF PathById
    <2> HIDE DEF p
    <2> QED
        BY <2>1, <2>2, PathInIs
<1> QED
    BY <1>1, <1>2

LEMMA PickerRowsAre ==
    ASSUME IsTree(tree), NEW file PROVE PickerRows(file) \subseteq Seq(Nat)
<1>1. SourceRoots(file) \subseteq Seq(Nat) /\ Paths \subseteq Seq(Nat)
    BY PathsAre DEF SourceRoots
<1>2. ASSUME NEW root \in SourceRoots(file), NEW p \in Paths, IsStrictPrefix(root, p)
      PROVE  SubSeq(p, Len(root) + 1, Len(p)) \in Seq(Nat)
    BY <1>1, <1>2, Behind DEF IsStrictPrefix
<1> SUFFICES ASSUME NEW x \in PickerRows(file) PROVE x \in Seq(Nat)
    OBVIOUS
<1>3. x = <<>> \/ \E root \in SourceRoots(file) : \E p \in Paths :
                      IsStrictPrefix(root, p) /\ x = SubSeq(p, Len(root) + 1, Len(p))
    BY Zenon DEF PickerRows
<1> QED
    BY <1>2, <1>3, EmptySeq

LEMMA HostsByIdAre ==
    ASSUME IsTree(tree), NEW id PROVE HostsById(id) \subseteq Nat
<1>1. \A h \in Range(tree.hosts) : h.name \in Nat
    BY PathsAre, RowPath
<1> QED
    BY <1>1 DEF HostsById, HostsUnder

LEMMA FrontIs ==
    ASSUME NEW path \in Seq(Nat), path # <<>> PROVE Front(path) \in Seq(Nat)
<1>1. Len(path) \in Nat /\ Len(path) # 0
    BY LenProperties, EmptySeq
<1>2. SubSeq(path, 1, Len(path) - 1) \in Seq(Nat)
    BY <1>1, SubSeqProperties
<1> QED
    BY <1>2 DEF Front

InventoryTyped ==
    /\ files \in Disks /\ IsTree(tree)
    /\ plan \in [tracked : SUBSET Files, dirs : SUBSET {Dir[f] : f \in Files}]
    /\ pending \in BOOLEAN /\ rearming \in BOOLEAN /\ exact \in BOOLEAN
    /\ outside \in 0..MaxOutside

DialogsTyped ==
    /\ menu \subseteq Target /\ dialog \subseteq DialogRecord /\ editor \subseteq FormRecord
    /\ commits \in 0..MaxCommits
    /\ \A x, y \in menu : x = y
    /\ \A x, y \in dialog : x = y
    /\ \A x, y \in editor : x = y

BrowserTyped == InventoryTyped /\ DialogsTyped

LEMMA TypedIs == BrowserTyped <=> BrowserTypeOK
<1>1. (\A open \in {menu, dialog, editor} : \A x, y \in open : x = y)
      <=> (\A x, y \in menu : x = y) /\ (\A x, y \in dialog : x = y) /\ (\A x, y \in editor : x = y)
    BY Zenon
<1>2. InventoryTypeOK <=> InventoryTyped
    <2>1. files \in Disks <=>
            /\ files \in [Files -> Doc]
            /\ \A f \in Files : /\ Len(files[f].include) <= MaxIncludes
                                /\ files[f].state = "missing" => files[f] = Missing
        BY DEF Disks
    <2> QED
        BY <2>1, Zenon DEF InventoryTypeOK, InventoryTyped
<1> QED
    BY <1>1, <1>2, Zenon DEF BrowserTyped, DialogsTyped, BrowserTypeOK, Target, DialogRecord, Kinds, FormRecord

LEMMA SeenIs ==
    ASSUME BrowserTyped PROVE Seen \in Int
<1>1. outside \in Int
    BY InventoryBoundsAssumption DEF BrowserTyped, InventoryTyped
<1> QED
    BY <1>1 DEF Seen

LEMMA DialogIs ==
    ASSUME BrowserTyped, NEW kind \in Kinds, NEW file \in Files
    PROVE  Dialog(kind, file) \in DialogRecord
<1> DEFINE s == IF \A m \in menu : m.seen = outside THEN Seen ELSE -1
<1>1. s \in Int
    BY SeenIs
<1> HIDE DEF s
<1>2. <<>> \in Seq(Nat)
    BY EmptySeq
<1>3. [kind |-> kind, file |-> file, path |-> <<>>, parent |-> <<>>, rows |-> {}, name |-> 0,
       shown |-> {}, fromEditor |-> FALSE, seen |-> s] \in DialogRecord
    BY <1>1, <1>2 DEF DialogRecord
<1> QED
    BY <1>3 DEF Dialog, s

LEMMA FormIs ==
    ASSUME NEW mode \in {"edit", "duplicate", "new"}, NEW file \in Files, NEW name \in Nat,
           NEW path \in Seq(Nat)
    PROVE  Form(mode, file, name, path) \in FormRecord
    BY DEF Form, FormRecord

-----------------------------------------------------------------------------
(* HostDialogs: what is shown when nothing is on its way *)

\* What the watcher is for: it covers what the tree came from.
Covered ==
    /\ (exact /\ rearming) => InSync
    /\ (exact /\ ~rearming /\ ~pending) => (InSync /\ plan.tracked = Tracked(files))

BrowserInv == BrowserTyped /\ Covered

\* The names no host in memory has.
Fresh == {n \in Nat : \A h \in Range(tree.hosts) : h.name # n}

WithNodes(disk, file, nodes) == [disk EXCEPT ![file] = [@ EXCEPT !.state = "read", !.nodes = nodes]]

\* A save by another program may be lost.
OthersLost == outside' = outside \/ (outside < MaxOutside /\ outside' = outside + 1)

\* What an edit by the manager does to the inventory.
FileEdited ==
    \E file \in Files : \E nodes \in Seq(Node) : \E wrote \in BOOLEAN :
        /\ ~rearming /\ Readable(file)
        /\ \E names \in SUBSET Fresh : Adds(nodes, files[file].nodes, names)
        /\ files' = IF wrote THEN WithNodes(files, file, nodes) ELSE files
        /\ pending' = (pending \/ (wrote /\ Counts(file)))
        /\ tree' \in Tree(files') \/ (Tree(files') = {} /\ tree' = tree)
        /\ OthersLost
        /\ UNCHANGED <<plan, rearming, exact>>

LEMMA WrittenIs ==
    ASSUME NEW disk \in Disks, NEW file \in Files, NEW nodes \in Seq(Node), disk[file].state # "broken"
    PROVE  /\ WithNodes(disk, file, nodes) \in Disks
           /\ \A f \in Files : f # file => WithNodes(disk, file, nodes)[f] = disk[f]
           /\ WithNodes(disk, file, nodes)[file].state = "read"
           /\ WithNodes(disk, file, nodes)[file].nodes = nodes
           /\ WithNodes(disk, file, nodes)[file].include = disk[file].include
<1> DEFINE doc == [disk[file] EXCEPT !.state = "read", !.nodes = nodes]
           new == [disk EXCEPT ![file] = doc]
<1>1. disk \in [Files -> Doc] /\ disk[file] \in Doc /\ Len(disk[file].include) <= MaxIncludes
    BY DEF Disks
<1>2. doc \in Doc /\ doc.state = "read" /\ doc.nodes = nodes /\ doc.include = disk[file].include
    BY <1>1 DEF Doc
<1> HIDE DEF doc
<1>3. new \in [Files -> Doc] /\ new[file] = doc /\ \A f \in Files : f # file => new[f] = disk[f]
    BY <1>1, <1>2
<1> HIDE DEF new
<1>4. ASSUME NEW f \in Files
      PROVE  Len(new[f].include) <= MaxIncludes /\ (new[f].state = "missing" => new[f] = Missing)
    <2>1. CASE f = file
        BY <1>1, <1>2, <1>3, <2>1
    <2>2. CASE f # file
        BY <1>3, <2>2 DEF Disks
    <2> QED
        BY <2>1, <2>2
<1>5. new \in Disks
    BY <1>3, <1>4 DEF Disks
<1> QED
    <2>1. WithNodes(disk, file, nodes) = new
        BY Zenon DEF WithNodes, new, doc
    <2> QED
        BY <1>2, <1>3, <1>5, <2>1

LEMMA InSyncIs ==
    ASSUME NEW disk \in Disks, NEW t \in Tree(disk) PROVE Tree(disk) = {t}
    BY TreeTypes

LEMMA PlanIs ==
    ASSUME NEW disk \in Disks
    PROVE  PlanOf(disk) \in [tracked : SUBSET Files, dirs : SUBSET {Dir[f] : f \in Files}]
<1>1. Tracked(disk) \subseteq Files /\ Root \in Files
    BY TrackedIs, FilesAssumption
<1>2. UNION {{Dir[disk[f].include[k].file] : k \in DOMAIN disk[f].include} : f \in Tracked(disk)}
      \subseteq {Dir[f] : f \in Files}
    BY <1>1, DocIs
<1> QED
    BY <1>1, <1>2, Zenon DEF PlanOf

LEMMA InitIs == BrowserInit => BrowserInv
<1> SUFFICES ASSUME BrowserInit PROVE BrowserInv
    OBVIOUS
<1> USE DEF BrowserInit, InventoryInit
<1>1. files \in Disks
    <2>1. \A v \in Versions : v.doc \in Doc /\ v.doc.state # "missing" /\ Len(v.doc.include) <= MaxIncludes
        BY VersionsAssumption
    <2>2. Missing \in Doc /\ Len(Missing.include) <= MaxIncludes
        BY InventoryBoundsAssumption, EmptySeq DEF Missing, Doc
    <2>3. files \in [Files -> Doc]
        BY <2>1, <2>2
    <2>4. ASSUME NEW f \in Files
          PROVE  Len(files[f].include) <= MaxIncludes /\ (files[f].state = "missing" => files[f] = Missing)
        BY <2>1, <2>2
    <2> QED
        BY <2>3, <2>4 DEF Disks
<1>2. IsTree(tree) /\ (exact => InSync)
    <2>1. CASE Tree(files) = {}
        BY <2>1, NoTreeIs
    <2>2. CASE Tree(files) # {}
        <3>1. tree \in Tree(files)
            BY <2>2
        <3> QED
            BY <1>1, <3>1, TreeTypes, InSyncIs DEF InSync
    <2> QED
        BY <2>1, <2>2
<1>3. InventoryTyped
    <2>1. plan \in [tracked : SUBSET Files, dirs : SUBSET {Dir[f] : f \in Files}]
        OBVIOUS
    <2>2. pending \in BOOLEAN /\ rearming \in BOOLEAN /\ exact \in BOOLEAN /\ outside \in 0..MaxOutside
        <3>1. exact \in BOOLEAN
            <4>1. exact = (Tree(files) # {})
                OBVIOUS
            <4> HIDE DEF BrowserInit, InventoryInit
            <4> QED
                BY <4>1
        <3>2. pending = FALSE /\ rearming = TRUE /\ outside = 0
            OBVIOUS
        <3> HIDE DEF BrowserInit, InventoryInit
        <3> QED
            <4>1. pending \in BOOLEAN /\ rearming \in BOOLEAN
                BY <3>2, Zenon
            <4>2. outside \in 0..MaxOutside
                BY <3>2, InventoryBoundsAssumption
            <4> QED
                BY <3>1, <4>1, <4>2, Zenon
    <2> QED
        BY <1>1, <1>2, <2>1, <2>2 DEF InventoryTyped
<1>4. DialogsTyped
    BY CommitsAssumption DEF DialogsTyped
<1> QED
    BY <1>2, <1>3, <1>4 DEF BrowserInv, BrowserTyped, Covered

LEMMA OutsideSaveKeeps ==
    ASSUME InventoryTyped, Covered, NEW v \in Versions, OutsideSave(v)
    PROVE  InventoryTyped' /\ Covered'
<1> USE DEF OutsideSave
<1>1. v.file \in Files /\ v.doc \in Doc /\ v.doc.state # "missing" /\ Len(v.doc.include) <= MaxIncludes
    BY VersionsAssumption
<1>2. files' \in Disks /\ \A f \in Files : f # v.file => files'[f] = files[f]
    BY <1>1 DEF InventoryTyped, Disks
<1>3. outside' \in 0..MaxOutside /\ pending' \in BOOLEAN /\ exact' \in BOOLEAN
    BY InventoryBoundsAssumption DEF InventoryTyped, Counts
<1>4. InventoryTyped'
    BY <1>2, <1>3 DEF InventoryTyped
<1>5. ASSUME exact', ~rearming', ~pending' PROVE InSync' /\ plan'.tracked = Tracked(files')
    <2>1. InSync /\ plan.tracked = Tracked(files) /\ v.file \notin plan.tracked
        BY <1>5 DEF Covered, Counts
    <2>2. \A f \in Tracked(files) : files'[f] = files[f]
        BY <1>2, <2>1, TrackedIs DEF InventoryTyped
    <2>3. Tree(files') = Tree(files) /\ Tracked(files') = Tracked(files)
        BY <1>2, <2>2, TreeStays DEF InventoryTyped
    <2> QED
        BY <2>1, <2>3 DEF InSync
<1> QED
    BY <1>4, <1>5 DEF Covered

LEMMA ReloadKeeps ==
    ASSUME InventoryTyped, Covered, InventoryReload PROVE InventoryTyped' /\ Covered'
<1> USE DEF InventoryReload, diskVars
<1>1. IsTree(tree') /\ (exact' => InSync')
    BY TreeTypes DEF InventoryTyped, InSync
<1>2. InventoryTyped'
    BY <1>1 DEF InventoryTyped
<1> QED
    BY <1>1, <1>2 DEF Covered

LEMMA RearmKeeps ==
    ASSUME InventoryTyped, Covered, Rearm PROVE InventoryTyped' /\ Covered'
<1> USE DEF Rearm, diskVars
<1>1. InventoryTyped'
    BY PlanIs DEF InventoryTyped
<1>2. ASSUME exact PROVE InSync' /\ plan'.tracked = Tracked(files')
    <2>1. InSync
        BY <1>2 DEF Covered
    <2>2. Tree(files) # {}
        BY <2>1 DEF InSync
    <2> QED
        BY <2>1, <2>2, PlanCovers DEF InventoryTyped, InSync
<1> QED
    BY <1>1, <1>2 DEF Covered

LEMMA RearmFailsKeeps ==
    ASSUME InventoryTyped, Covered, RearmFails PROVE InventoryTyped' /\ Covered'
    BY DEF RearmFails, diskVars, InventoryTyped, Covered

LEMMA EditedKeeps ==
    ASSUME InventoryTyped, Covered, FileEdited PROVE InventoryTyped' /\ Covered'
<1>1. PICK file \in Files, nodes \in Seq(Node), wrote \in BOOLEAN :
        /\ ~rearming /\ Readable(file)
        /\ files' = IF wrote THEN WithNodes(files, file, nodes) ELSE files
        /\ pending' = (pending \/ (wrote /\ Counts(file)))
        /\ tree' \in Tree(files') \/ (Tree(files') = {} /\ tree' = tree)
        /\ OthersLost
        /\ UNCHANGED <<plan, rearming, exact>>
    BY DEF FileEdited
<1>2. files' \in Disks /\ \A f \in Files : f # file => files'[f] = files[f]
    <2>1. CASE wrote
        <3>1. files' = WithNodes(files, file, nodes) /\ files[file].state # "broken" /\ files \in Disks
            BY <1>1, <2>1 DEF Readable, InventoryTyped
        <3>2. WithNodes(files, file, nodes) \in Disks /\ \A f \in Files : f # file => WithNodes(files, file, nodes)[f] = files[f]
            BY <3>1, WrittenIs
        <3> QED
            BY <3>1, <3>2
    <2>2. CASE ~wrote
        BY <1>1, <2>2 DEF InventoryTyped
    <2> QED
        BY <2>1, <2>2
<1>3. IsTree(tree')
    BY <1>1, <1>2, TreeTypes DEF InventoryTyped
<1>4. pending' \in BOOLEAN /\ outside' \in 0..MaxOutside
    <2>1. outside' \in 0..MaxOutside
        BY <1>1, InventoryBoundsAssumption DEF InventoryTyped, OthersLost
    <2> QED
        BY <1>1, <2>1 DEF InventoryTyped, Counts
<1>5. InventoryTyped'
    BY <1>1, <1>2, <1>3, <1>4 DEF InventoryTyped
<1>6. ASSUME exact', ~pending' PROVE InSync' /\ plan'.tracked = Tracked(files')
    <2>1. InSync /\ plan.tracked = Tracked(files) /\ (wrote => file \notin plan.tracked)
        BY <1>1, <1>6 DEF Covered, Counts
    <2>2. \A f \in Tracked(files) : files'[f] = files[f]
        BY <1>1, <1>2, <2>1, TrackedIs DEF InventoryTyped
    <2>3. Tree(files') = Tree(files) /\ Tracked(files') = Tracked(files)
        BY <1>2, <2>2, TreeStays DEF InventoryTyped
    <2>4. tree' = tree
        BY <1>1, <2>1, <2>3 DEF InSync
    <2> QED
        BY <1>1, <2>1, <2>3, <2>4 DEF InSync
<1> QED
    BY <1>1, <1>5, <1>6 DEF Covered

LEMMA StaysSo ==
    ASSUME InventoryTyped, Covered, UNCHANGED inventoryVars PROVE InventoryTyped' /\ Covered'
<1>1. UNCHANGED <<files, tree, plan, pending, rearming, exact, outside>>
    BY DEF inventoryVars
<1>2. InventoryTyped'
    BY <1>1 DEF InventoryTyped
<1>3. Covered'
    BY <1>1 DEF Covered, InSync
<1> QED
    BY <1>2, <1>3

-----------------------------------------------------------------------------
(* HostDialogs: its steps *)

\* What a step of the manager does: the inventory stays, or an edit is saved.
Steps == DialogsTyped' /\ (UNCHANGED inventoryVars \/ FileEdited)

LEMMA OpensIs ==
    ASSUME BrowserTyped, NEW d \in DialogRecord, Opens(d), menu' \subseteq menu
    PROVE  Steps
    BY DEF BrowserTyped, DialogsTyped, Opens, Steps

LEMMA OpensEditorIs ==
    ASSUME BrowserTyped, NEW made \in FormRecord, OpensEditor(made), menu' \subseteq menu
    PROVE  Steps
    BY DEF BrowserTyped, DialogsTyped, OpensEditor, Steps

LEMMA NothingIs ==
    ASSUME BrowserTyped, Nothing, menu' \subseteq Target, \A x, y \in menu' : x = y
    PROVE  Steps
    BY DEF BrowserTyped, DialogsTyped, Nothing, Steps

LEMMA HostDoIs ==
    ASSUME BrowserTyped, NEW h \in Range(tree.hosts), HostDo(h), menu' \subseteq menu
    PROVE  Steps
<1> DEFINE path == PathIn(h.file, h.at)
<1>1. h.file \in Files /\ h.at \in Seq(Nat) /\ h.name \in Nat /\ <<>> \in Seq(Nat)
    BY PathsAre, RowPath, EmptySeq DEF BrowserTyped, InventoryTyped
<1>2. path \in Seq(Nat) /\ PickerRows(h.file) \subseteq Seq(Nat)
    BY <1>1, PathInIs, PickerRowsAre DEF BrowserTyped, InventoryTyped
<1>3. Form("edit", h.file, h.name, <<>>) \in FormRecord /\ Form("duplicate", h.file, h.name, path) \in FormRecord
    BY <1>1, <1>2, FormIs
<1>4. /\ Dialog("move", h.file) \in DialogRecord /\ Dialog("deleteHost", h.file) \in DialogRecord
      /\ Dialog("create", h.file) \in DialogRecord
    BY <1>1, DialogIs DEF Kinds
<1> DEFINE named == [Dialog("move", h.file) EXCEPT !.name = h.name]
           move == [named EXCEPT !.rows = PickerRows(h.file)]
           gone == [Dialog("deleteHost", h.file) EXCEPT !.name = h.name]
           create == [Dialog("create", h.file) EXCEPT !.parent = path]
<1>5. named \in DialogRecord /\ gone \in DialogRecord
    BY <1>1, <1>4, DialogName
<1>6. create \in DialogRecord
    BY <1>2, <1>4, DialogParent
<1>7. move \in DialogRecord
    <2> HIDE DEF named
    <2> QED
        BY <1>2, <1>5, DialogRows
<1>8. move = [Dialog("move", h.file) EXCEPT !.name = h.name, !.rows = PickerRows(h.file)]
    OBVIOUS
<1>9. \/ OpensEditor(Form("edit", h.file, h.name, <<>>))
      \/ OpensEditor(Form("duplicate", h.file, h.name, path))
      \/ Opens(move) \/ Opens(gone) \/ Opens(create)
    BY <1>8, Zenon DEF HostDo
<1> HIDE DEF move, gone, create, path
<1> QED
    BY <1>3, <1>5, <1>6, <1>7, <1>9, OpensIs, OpensEditorIs

LEMMA FolderDoIs ==
    ASSUME BrowserTyped, NEW file \in Files, NEW id, FolderDo(file, id), menu' \subseteq menu
    PROVE  Steps
<1> DEFINE path == PathById(file, id)
<1>1. path \in Seq(Nat) /\ (path # <<>> => Front(path) \in Seq(Nat)) /\ HostsById(id) \subseteq Nat
    BY PathByIdIs, FrontIs, HostsByIdAre DEF BrowserTyped, InventoryTyped
<1>2. Form("new", file, 0, path) \in FormRecord
    BY <1>1, FormIs
<1>3. /\ Dialog("create", file) \in DialogRecord /\ Dialog("rename", file) \in DialogRecord
      /\ Dialog("deleteFolder", file) \in DialogRecord
    BY DialogIs DEF Kinds
<1> DEFINE create == [Dialog("create", file) EXCEPT !.parent = path]
           placed == [Dialog("rename", file) EXCEPT !.path = path]
           rename == [placed EXCEPT !.parent = Front(path)]
           picked == [Dialog("deleteFolder", file) EXCEPT !.path = path]
           gone == [picked EXCEPT !.shown = HostsById(id)]
<1>4. create \in DialogRecord /\ placed \in DialogRecord /\ picked \in DialogRecord
    BY <1>1, <1>3, DialogParent, DialogPath
<1>5. (path # <<>> => rename \in DialogRecord) /\ gone \in DialogRecord
    <2> HIDE DEF placed, picked, path
    <2> QED
        BY <1>1, <1>4, DialogParent, DialogShown
<1>6. /\ rename = [Dialog("rename", file) EXCEPT !.path = path, !.parent = Front(path)]
      /\ gone = [Dialog("deleteFolder", file) EXCEPT !.path = path, !.shown = HostsById(id)]
    OBVIOUS
<1>7. OpensEditor(Form("new", file, 0, path)) \/ Opens(create) \/ Nothing
      \/ (path # <<>> /\ (Opens(rename) \/ Opens(gone)))
    <2> HIDE DEF rename, gone
    <2> QED
        BY <1>6, Zenon DEF FolderDo
<1>8. CASE Nothing
    BY <1>8, NothingIs DEF BrowserTyped, DialogsTyped
<1> HIDE DEF create, rename, gone, path
<1> QED
    BY <1>2, <1>4, <1>5, <1>7, <1>8, OpensIs, OpensEditorIs

LEMMA KeysStep ==
    ASSUME BrowserTyped, KeyOnHost \/ KeyOnFolder \/ KeyOnNone \/ MenuAction PROVE Steps
<1>0. \A p \in Paths : FileOf(p) \in Files
    BY PathsAre DEF BrowserTyped, InventoryTyped
<1>1. CASE KeyOnHost
    BY <1>1, HostDoIs DEF KeyOnHost
<1>2. CASE KeyOnFolder
    BY <1>0, <1>2, FolderDoIs DEF KeyOnFolder
<1>3. CASE KeyOnNone
    <2>1. Dialog("create", Root) \in DialogRecord /\ Form("new", Root, 0, <<>>) \in FormRecord
        BY DialogIs, FormIs, FilesAssumption, EmptySeq DEF Kinds
    <2> QED
        BY <1>3, <2>1, OpensIs, OpensEditorIs DEF KeyOnNone
<1>4. CASE MenuAction
    <2>1. PICK target \in menu :
              IF target.host
              THEN IF target.index \in DOMAIN tree.hosts THEN HostDo(tree.hosts[target.index])
                   ELSE Nothing
              ELSE FolderDo(target.file, target.index)
        BY <1>4 DEF MenuAction
    <2>2. menu' = {} /\ target \in Target
        BY <1>4 DEF MenuAction, BrowserTyped, DialogsTyped
    <2>3. CASE target.host /\ target.index \in DOMAIN tree.hosts
        <3>1. tree.hosts[target.index] \in Range(tree.hosts)
            BY <2>3, PathsAre DEF BrowserTyped, InventoryTyped
        <3> QED
            BY <2>1, <2>2, <2>3, <3>1, HostDoIs
    <2>4. CASE target.host /\ target.index \notin DOMAIN tree.hosts
        BY <2>1, <2>2, <2>4, NothingIs
    <2>5. CASE ~target.host
        BY <2>1, <2>2, <2>5, FolderDoIs DEF Target
    <2> QED
        BY <2>3, <2>4, <2>5
<1> QED
    BY <1>1, <1>2, <1>3, <1>4

LEMMA MenusStep ==
    ASSUME BrowserTyped, OpenHostMenu \/ OpenFolderMenu \/ CloseMenu PROVE Steps
<1>0. Seen \in Int
    BY SeenIs
<1>1. CASE OpenHostMenu
    <2>1. PICK k \in DOMAIN tree.hosts : menu' = {[host |-> TRUE, index |-> k, file |-> Root, seen |-> Seen]}
        BY <1>1 DEF OpenHostMenu
    <2>2. k \in Nat
        BY PathsAre DEF BrowserTyped, InventoryTyped
    <2>3. [host |-> TRUE, index |-> k, file |-> Root, seen |-> Seen] \in Target
        BY <1>0, <2>2, FilesAssumption DEF Target
    <2> QED
        BY <1>1, <2>1, <2>3, NothingIs DEF OpenHostMenu
<1>2. CASE OpenFolderMenu
    <2>1. PICK p \in Paths :
              menu' = {[host |-> FALSE, index |-> IdOf(p), file |-> FileOf(p), seen |-> Seen]}
        BY <1>2 DEF OpenFolderMenu
    <2>2. IdOf(p) \in Nat /\ FileOf(p) \in Files
        BY PathsAre, IdIs DEF BrowserTyped, InventoryTyped
    <2>3. [host |-> FALSE, index |-> IdOf(p), file |-> FileOf(p), seen |-> Seen] \in Target
        BY <1>0, <2>2 DEF Target
    <2> QED
        BY <1>2, <2>1, <2>3, NothingIs DEF OpenFolderMenu
<1>3. CASE CloseMenu
    BY <1>3, NothingIs DEF CloseMenu
<1> QED
    BY <1>1, <1>2, <1>3

LEMMA LeavesIs ==
    ASSUME BrowserTyped, NEW d \in dialog, NEW next, Leaves(d, next), next = {} \/ \E x \in DialogRecord : next = {x}
    PROVE  Steps
    BY DEF Leaves, BrowserTyped, DialogsTyped, Steps

LEMMA RowsOf ==
    ASSUME BrowserTyped, NEW d \in dialog
    PROVE  /\ d \in DialogRecord /\ d.file \in Files /\ d.path \in Seq(Nat) /\ d.parent \in Seq(Nat)
           /\ d.name \in Nat /\ d.rows \subseteq Seq(Nat) /\ PickerRows(d.file) \subseteq Seq(Nat)
<1>1. d \in DialogRecord
    BY DEF BrowserTyped, DialogsTyped
<1> QED
    BY <1>1, PickerRowsAre DEF DialogRecord, BrowserTyped, InventoryTyped

LEMMA PickersStep ==
    ASSUME BrowserTyped, CancelDialog \/ PickParent \/ ParentPicked PROVE Steps
<1>1. ASSUME NEW d \in dialog, NEW kind \in Kinds, NEW rws \in SUBSET Seq(Nat)
      PROVE  [d EXCEPT !.kind = kind, !.rows = rws] \in DialogRecord
    <2> DEFINE e == [d EXCEPT !.kind = kind]
    <2>1. e \in DialogRecord
        BY RowsOf, DialogKind
    <2>2. [e EXCEPT !.rows = rws] = [d EXCEPT !.kind = kind, !.rows = rws]
        OBVIOUS
    <2> HIDE DEF e
    <2>3. [e EXCEPT !.rows = rws] \in DialogRecord
        BY <2>1, DialogRows
    <2> QED
        BY <2>2, <2>3
<1>2. ASSUME NEW d \in dialog, NEW kind \in Kinds, NEW p \in Seq(Nat)
      PROVE  [d EXCEPT !.kind = kind, !.rows = {}, !.parent = p] \in DialogRecord
    <2> DEFINE e == [d EXCEPT !.kind = kind, !.rows = {}]
    <2>1. e \in DialogRecord
        BY <1>1
    <2>2. [e EXCEPT !.parent = p] = [d EXCEPT !.kind = kind, !.rows = {}, !.parent = p]
        OBVIOUS
    <2> HIDE DEF e
    <2>3. [e EXCEPT !.parent = p] \in DialogRecord
        BY <2>1, DialogParent
    <2> QED
        BY <2>2, <2>3
<1>3. CASE CancelDialog
    <2>1. PICK d \in dialog :
              Leaves(d, CASE d.kind = "createIn" -> {[d EXCEPT !.kind = "create", !.rows = {}]}
                          [] d.kind = "renameIn" -> {[d EXCEPT !.kind = "rename", !.rows = {}]}
                          [] OTHER -> {})
        BY <1>3 DEF CancelDialog
    <2>2. [d EXCEPT !.kind = "create", !.rows = {}] \in DialogRecord
          /\ [d EXCEPT !.kind = "rename", !.rows = {}] \in DialogRecord
        BY <1>1 DEF Kinds
    <2> QED
        BY <2>1, <2>2, LeavesIs
<1>4. CASE PickParent
    <2>1. PICK d \in dialog :
              \/ Leaves(d, {[d EXCEPT !.kind = "createIn", !.rows = PickerRows(d.file)]})
              \/ Leaves(d, {[d EXCEPT !.kind = "renameIn",
                                      !.rows = {p \in PickerRows(d.file) : ~IsPrefix(d.path, p)}]})
        BY <1>4 DEF PickParent
    <2>2. [d EXCEPT !.kind = "createIn", !.rows = PickerRows(d.file)] \in DialogRecord
          /\ [d EXCEPT !.kind = "renameIn",
                       !.rows = {p \in PickerRows(d.file) : ~IsPrefix(d.path, p)}] \in DialogRecord
        <3>1. PickerRows(d.file) \subseteq Seq(Nat)
            BY RowsOf
        <3>2. {p \in PickerRows(d.file) : ~IsPrefix(d.path, p)} \subseteq Seq(Nat)
            BY <3>1
        <3> QED
            BY <1>1, <3>1, <3>2 DEF Kinds
    <2> QED
        BY <2>1, <2>2, LeavesIs
<1>5. CASE ParentPicked
    <2>1. PICK d \in dialog : \E p \in d.rows :
              \/ Leaves(d, {[d EXCEPT !.kind = "create", !.rows = {}, !.parent = p]})
              \/ Leaves(d, {[d EXCEPT !.kind = "rename", !.rows = {}, !.parent = p]})
        BY <1>5 DEF ParentPicked
    <2>2. PICK p \in d.rows :
              \/ Leaves(d, {[d EXCEPT !.kind = "create", !.rows = {}, !.parent = p]})
              \/ Leaves(d, {[d EXCEPT !.kind = "rename", !.rows = {}, !.parent = p]})
        BY <2>1
    <2>3. [d EXCEPT !.kind = "create", !.rows = {}, !.parent = p] \in DialogRecord
          /\ [d EXCEPT !.kind = "rename", !.rows = {}, !.parent = p] \in DialogRecord
        BY <1>2, RowsOf DEF Kinds
    <2> QED
        BY <2>2, <2>3, LeavesIs
<1> QED
    BY <1>3, <1>4, <1>5

Committed(file, nodes, wrote) ==
    /\ files' = IF wrote THEN WithNodes(files, file, nodes) ELSE files
    /\ pending' = (pending \/ (wrote /\ Counts(file)))
    /\ tree' \in Tree(files') \/ (Tree(files') = {} /\ tree' = tree)
    /\ OthersLost
    /\ UNCHANGED <<plan, rearming, exact>>

\* What stays open.
Closes ==
    /\ menu' = menu /\ dialog' \in {{}, dialog} /\ editor' \in {{}, editor}
    /\ commits' = commits \/ (commits < MaxCommits /\ commits' = commits + 1)

LEMMA ClosesIs ==
    ASSUME BrowserTyped, Closes PROVE DialogsTyped'
    BY CommitsAssumption DEF BrowserTyped, DialogsTyped, Closes

LEMMA EditsIs ==
    ASSUME BrowserTyped, NEW d \in dialog, NEW results, NEW wrote \in BOOLEAN,
           \A nodes \in results : nodes \in Seq(Node) /\ Adds(nodes, files[d.file].nodes, {}),
           NEW ACTION failed, NEW ACTION loaded, NEW ACTION unloaded,
           Edits(d, results, wrote, failed, loaded, unloaded),
           failed \/ loaded \/ unloaded => dialog' \in {{}, dialog} /\ editor' \in {{}, editor}
    PROVE  Steps
<1>1. CASE ~(Readable(d.file) /\ results # {})
    <2>1. Closes /\ UNCHANGED inventoryVars
        BY <1>1 DEF Edits, Closes
    <2> QED
        BY <2>1, ClosesIs DEF Steps
<1>2. CASE Readable(d.file) /\ results # {}
    <2>1. PICK nodes \in results : Commit(d.file, nodes, wrote, loaded, unloaded)
        BY <1>2 DEF Edits
    <2>2. Committed(d.file, nodes, wrote) /\ (loaded \/ unloaded)
        BY <2>1, Zenon DEF Commit, Committed, OthersLost, WithNodes
    <2>3. Closes
        BY <1>2, <2>2 DEF Edits, Closes
    <2>4. ~rearming /\ d.file \in Files
        BY RowsOf DEF Edits, Idle
    <2>5. {} \in SUBSET Fresh /\ nodes \in Seq(Node) /\ Adds(nodes, files[d.file].nodes, {})
        OBVIOUS
    <2>6. FileEdited
        BY <1>2, <2>2, <2>4, <2>5 DEF FileEdited, Committed
    <2> QED
        BY <2>3, <2>6, ClosesIs DEF Steps
<1> QED
    BY <1>1, <1>2

LEMMA NodesAre ==
    ASSUME BrowserTyped, NEW file \in Files PROVE files[file].nodes \in Seq(Node)
    BY DocIs DEF BrowserTyped, InventoryTyped

LEMMA SubmitsStep ==
    ASSUME BrowserTyped, SubmitMove \/ SubmitRename \/ SubmitCreate \/ ConfirmFolder \/ ConfirmHost PROVE Steps
<1>0. \A name \in FolderNames : name \in Nat
    BY NamesAssumption
<1>1. CASE SubmitMove
    <2>1. PICK d \in dialog : \E p \in d.rows :
              LET gone == dialog' = {} /\ UNCHANGED editor
                  nodes == files[d.file].nodes
              IN  Edits(d, MoveHost(nodes, d.name, p), MoveHost(nodes, d.name, p) # {nodes},
                        gone, gone, gone)
        BY <1>1 DEF SubmitMove
    <2>2. PICK p \in d.rows :
              LET gone == dialog' = {} /\ UNCHANGED editor
                  nodes == files[d.file].nodes
              IN  Edits(d, MoveHost(nodes, d.name, p), MoveHost(nodes, d.name, p) # {nodes},
                        gone, gone, gone)
        BY <2>1
    <2> DEFINE results == MoveHost(files[d.file].nodes, d.name, p)
               wrote == results # {files[d.file].nodes}
               gone == dialog' = {} /\ UNCHANGED editor
    <2>3. \A nodes \in results : nodes \in Seq(Node) /\ Adds(nodes, files[d.file].nodes, {})
        BY MoveHostIs, NodesAre, RowsOf
    <2>4. wrote \in BOOLEAN
        OBVIOUS
    <2>5. Edits(d, results, wrote, gone, gone, gone)
        BY <2>2
    <2>6. gone \/ gone \/ gone => dialog' \in {{}, dialog} /\ editor' \in {{}, editor}
        OBVIOUS
    <2> HIDE DEF results, wrote, gone
    <2> QED
        BY <2>3, <2>4, <2>5, <2>6, EditsIs
<1>2. CASE SubmitRename
    <2>1. PICK d \in dialog : \E name \in FolderNames :
              LET gone == dialog' = {} /\ UNCHANGED editor
              IN  Edits(d, RelocateFolder(files[d.file].nodes, d.path, d.parent, name),
                        d.path # Append(d.parent, name), UNCHANGED <<dialog, editor>>, gone, gone)
        BY <1>2 DEF SubmitRename
    <2>2. PICK name \in FolderNames :
              LET gone == dialog' = {} /\ UNCHANGED editor
              IN  Edits(d, RelocateFolder(files[d.file].nodes, d.path, d.parent, name),
                        d.path # Append(d.parent, name), UNCHANGED <<dialog, editor>>, gone, gone)
        BY <2>1
    <2> DEFINE results == RelocateFolder(files[d.file].nodes, d.path, d.parent, name)
               wrote == d.path # Append(d.parent, name)
               stays == UNCHANGED <<dialog, editor>>
               gone == dialog' = {} /\ UNCHANGED editor
    <2>3. \A nodes \in results : nodes \in Seq(Node) /\ Adds(nodes, files[d.file].nodes, {})
        BY <1>0, RelocateFolderIs, NodesAre, RowsOf
    <2>4. wrote \in BOOLEAN
        OBVIOUS
    <2>5. Edits(d, results, wrote, stays, gone, gone)
        BY <2>2
    <2>6. stays \/ gone \/ gone => dialog' \in {{}, dialog} /\ editor' \in {{}, editor}
        OBVIOUS
    <2> HIDE DEF results, wrote, gone, stays
    <2> QED
        BY <2>3, <2>4, <2>5, <2>6, EditsIs
<1>3. CASE SubmitCreate
    <2>1. PICK d \in dialog : \E name \in FolderNames :
              LET gone == dialog' = {} /\ UNCHANGED editor
              IN  Edits(d, CreateFolder(files[d.file].nodes, d.parent, name), TRUE,
                        UNCHANGED <<dialog, editor>>, gone, gone)
        BY <1>3 DEF SubmitCreate
    <2>2. PICK name \in FolderNames :
              LET gone == dialog' = {} /\ UNCHANGED editor
              IN  Edits(d, CreateFolder(files[d.file].nodes, d.parent, name), TRUE,
                        UNCHANGED <<dialog, editor>>, gone, gone)
        BY <2>1
    <2> DEFINE results == CreateFolder(files[d.file].nodes, d.parent, name)
               stays == UNCHANGED <<dialog, editor>>
               gone == dialog' = {} /\ UNCHANGED editor
    <2>3. \A nodes \in results : nodes \in Seq(Node) /\ Adds(nodes, files[d.file].nodes, {})
        BY <1>0, CreateFolderIs, NodesAre, RowsOf
    <2>5. Edits(d, results, TRUE, stays, gone, gone)
        BY <2>2
    <2>6. stays \/ gone \/ gone => dialog' \in {{}, dialog} /\ editor' \in {{}, editor}
        OBVIOUS
    <2> HIDE DEF results, gone, stays
    <2> QED
        BY <2>3, <2>5, <2>6, EditsIs
<1>4. CASE ConfirmFolder
    <2>1. PICK d \in dialog :
              LET gone == dialog' = {} /\ UNCHANGED editor
              IN  Edits(d, DeleteFolder(files[d.file].nodes, d.path), TRUE, gone, gone, gone)
        BY <1>4 DEF ConfirmFolder
    <2> DEFINE results == DeleteFolder(files[d.file].nodes, d.path)
               gone == dialog' = {} /\ UNCHANGED editor
    <2>3. \A nodes \in results : nodes \in Seq(Node) /\ Adds(nodes, files[d.file].nodes, {})
        BY DeleteFolderIs, NodesAre, RowsOf
    <2>5. Edits(d, results, TRUE, gone, gone, gone)
        BY <2>1
    <2>6. gone \/ gone \/ gone => dialog' \in {{}, dialog} /\ editor' \in {{}, editor}
        OBVIOUS
    <2> HIDE DEF results, gone
    <2> QED
        BY <2>3, <2>5, <2>6, EditsIs
<1>5. CASE ConfirmHost
    <2>1. PICK d \in dialog :
              LET gone == dialog' = {} /\ UNCHANGED editor
              IN  Edits(d, DeleteHost(files[d.file].nodes, d.name), TRUE, gone,
                        dialog' = {} /\ editor' = (IF d.fromEditor THEN {} ELSE editor), gone)
        BY <1>5 DEF ConfirmHost
    <2> DEFINE results == DeleteHost(files[d.file].nodes, d.name)
               gone == dialog' = {} /\ UNCHANGED editor
               done == dialog' = {} /\ editor' = (IF d.fromEditor THEN {} ELSE editor)
    <2>3. \A nodes \in results : nodes \in Seq(Node) /\ Adds(nodes, files[d.file].nodes, {})
        BY DeleteHostIs, NodesAre, RowsOf
    <2>5. Edits(d, results, TRUE, gone, done, gone)
        BY <2>1
    <2>6. gone \/ done \/ gone => dialog' \in {{}, dialog} /\ editor' \in {{}, editor}
        OBVIOUS
    <2> HIDE DEF results, gone, done
    <2> QED
        BY <2>3, <2>5, <2>6, EditsIs
<1> QED
    BY <1>1, <1>2, <1>3, <1>4, <1>5

LEMMA FormsOf ==
    ASSUME BrowserTyped, NEW e \in editor
    PROVE  e \in FormRecord /\ e.file \in Files /\ e.name \in Nat /\ e.folder \in Seq(Nat)
    BY DEF BrowserTyped, DialogsTyped, FormRecord

LEMMA EditorStep ==
    ASSUME BrowserTyped, AskDelete \/ AskFolder \/ FolderPicked \/ CloseEditor PROVE Steps
<1>1. CASE AskDelete
    <2>1. PICK e \in editor :
              Opens([Dialog("deleteHost", e.file) EXCEPT !.name = e.name, !.fromEditor = TRUE])
        BY <1>1 DEF AskDelete
    <2> DEFINE named == [Dialog("deleteHost", e.file) EXCEPT !.name = e.name]
    <2>2. named \in DialogRecord
        BY DialogIs, DialogName, FormsOf DEF Kinds
    <2>3. [named EXCEPT !.fromEditor = TRUE]
          = [Dialog("deleteHost", e.file) EXCEPT !.name = e.name, !.fromEditor = TRUE]
        OBVIOUS
    <2> HIDE DEF named
    <2>4. [named EXCEPT !.fromEditor = TRUE] \in DialogRecord
        BY <2>2, DialogFromEditor
    <2> QED
        BY <1>1, <2>1, <2>3, <2>4, OpensIs DEF AskDelete
<1>2. CASE AskFolder
    <2>1. PICK e \in editor : Opens([Dialog("place", e.file) EXCEPT !.rows = PickerRows(e.file)])
        BY <1>2 DEF AskFolder
    <2>2. e.file \in Files /\ PickerRows(e.file) \subseteq Seq(Nat)
        BY FormsOf, PickerRowsAre DEF BrowserTyped, InventoryTyped
    <2>3. [Dialog("place", e.file) EXCEPT !.rows = PickerRows(e.file)] \in DialogRecord
        BY <2>2, DialogIs, DialogRows DEF Kinds
    <2> QED
        BY <1>2, <2>1, <2>3, OpensIs DEF AskFolder
<1>3. CASE FolderPicked
    <2>1. PICK d \in dialog, p \in UNION {x.rows : x \in dialog} :
              /\ dialog' = {} /\ editor' = {[e EXCEPT !.folder = p] : e \in editor}
              /\ UNCHANGED <<menu, commits, inventoryVars>>
        BY <1>3 DEF FolderPicked
    <2>2. p \in Seq(Nat)
        BY RowsOf
    <2>3. \A e \in editor : [e EXCEPT !.folder = p] \in FormRecord
        BY <2>2, FormsOf DEF FormRecord
    <2>4. editor' \subseteq FormRecord /\ \A x, y \in editor' : x = y
        BY <2>1, <2>3 DEF BrowserTyped, DialogsTyped
    <2>5. DialogsTyped'
        BY <2>1, <2>4 DEF BrowserTyped, DialogsTyped
    <2> QED
        BY <2>1, <2>5 DEF Steps
<1>4. CASE CloseEditor
    BY <1>4 DEF CloseEditor, BrowserTyped, DialogsTyped, Steps
<1> QED
    BY <1>1, <1>2, <1>3, <1>4

LEMMA SaveEntryStep ==
    ASSUME BrowserTyped, NEW name \in HostNames, NEW refused \in BOOLEAN, SaveEntry(name, refused) PROVE Steps
<1>1. PICK e \in editor :
          LET nodes == files[e.file].nodes
              results == IF e.mode = "edit" THEN UpdateHost(nodes, e.name, name, refused)
                         ELSE CreateHost(nodes, e.folder, name, refused)
          IN  IF ~NameExists(e, name) /\ Readable(e.file) /\ results # {}
              THEN /\ commits' = commits + 1
                   /\ \E saved \in results :
                         Commit(e.file, saved, TRUE, editor' = {}, UNCHANGED editor)
              ELSE UNCHANGED <<editor, commits, inventoryVars>>
    BY DEF SaveEntry
<1> DEFINE nodes == files[e.file].nodes
           results == IF e.mode = "edit" THEN UpdateHost(nodes, e.name, name, refused)
                      ELSE CreateHost(nodes, e.folder, name, refused)
           goes == ~NameExists(e, name) /\ Readable(e.file) /\ results # {}
<1>2. menu' = menu /\ dialog' = dialog /\ commits < MaxCommits /\ ~rearming
    BY DEF SaveEntry, Browsing, Idle
<1>3. CASE ~goes
    <2>1. UNCHANGED <<editor, commits, inventoryVars>>
        BY <1>1, <1>3
    <2>2. Closes
        BY <1>2, <2>1 DEF Closes
    <2> QED
        BY <2>1, <2>2, ClosesIs DEF Steps
<1>4. CASE goes
    <2>1. commits' = commits + 1 /\ \E saved \in results :
              Commit(e.file, saved, TRUE, editor' = {}, UNCHANGED editor)
        BY <1>1, <1>4
    <2>2. PICK saved \in results : Commit(e.file, saved, TRUE, editor' = {}, UNCHANGED editor)
        BY <2>1
    <2>3. Committed(e.file, saved, TRUE) /\ (editor' = {} \/ UNCHANGED editor)
        BY <2>2, Zenon DEF Commit, Committed, OthersLost, WithNodes
    <2>4. Closes
        BY <1>2, <2>1, <2>3 DEF Closes
    <2>5. e.file \in Files /\ e.name \in Nat /\ e.folder \in Seq(Nat) /\ nodes \in Seq(Node) /\ name \in Nat
        BY FormsOf, NodesAre, NamesAssumption
    <2>6. \A h \in Range(tree.hosts) : h.name = name => (e.mode = "edit" /\ name = e.name)
        BY <1>4 DEF NameExists
    <2>7. saved \in Seq(Node) /\ \E names \in SUBSET Fresh : Adds(saved, nodes, names)
        <3>1. CASE e.mode = "edit" /\ name = e.name
            <4>1. saved \in UpdateHost(nodes, e.name, name, refused)
                BY <3>1
            <4>2. saved \in Seq(Node) /\ Adds(saved, nodes, {})
                <5> HIDE DEF nodes, results, goes
                <5>1. name \in Nat /\ nodes \in Seq(Node) /\ e.name = name
                    BY <2>5, <3>1
                <5> QED
                    BY <4>1, <5>1, UpdateHostIs
            <4> QED
                BY <4>2
        <3>2. CASE ~(e.mode = "edit" /\ name = e.name)
            <4>1. {name} \in SUBSET Fresh
                BY <2>5, <2>6, <3>2 DEF Fresh
            <4>2. saved \in Seq(Node) /\ Adds(saved, nodes, {name})
                <5> HIDE DEF nodes
                <5>1. CASE e.mode = "edit"
                    BY <2>5, <5>1, UpdateHostIs
                <5>2. CASE e.mode # "edit"
                    BY <2>5, <5>2, CreateHostIs
                <5> QED
                    BY <5>1, <5>2
            <4> QED
                BY <4>1, <4>2
        <3> QED
            BY <3>1, <3>2
    <2>8. FileEdited
        BY <1>2, <1>4, <2>3, <2>5, <2>7 DEF FileEdited, Committed
    <2> QED
        BY <2>4, <2>8, ClosesIs DEF Steps
<1> QED
    BY <1>3, <1>4

LEMMA StepsKeep ==
    ASSUME BrowserInv, Steps PROVE BrowserInv'
    BY StaysSo, EditedKeeps DEF BrowserInv, BrowserTyped, Steps

LEMMA BrowserStep ==
    ASSUME BrowserInv, [BrowserNext]_browserVars
    PROVE  BrowserInv'
<1>1. ASSUME InventoryTyped' /\ Covered', UNCHANGED dialogsVars PROVE BrowserInv'
    BY <1>1 DEF BrowserInv, BrowserTyped, DialogsTyped, dialogsVars
<1>2. ASSUME Steps PROVE BrowserInv'
    BY <1>2, StepsKeep
<1>3. BrowserTyped /\ InventoryTyped /\ Covered
    BY DEF BrowserInv, BrowserTyped
<1>4. CASE \E v \in Versions : OutsideSave(v) /\ UNCHANGED dialogsVars
    BY <1>1, <1>3, <1>4, OutsideSaveKeeps
<1>5. CASE InventoryReload /\ UNCHANGED dialogsVars
    BY <1>1, <1>3, <1>5, ReloadKeeps
<1>6. CASE Rearm /\ UNCHANGED dialogsVars
    BY <1>1, <1>3, <1>6, RearmKeeps
<1>7. CASE RearmFails /\ UNCHANGED dialogsVars
    BY <1>1, <1>3, <1>7, RearmFailsKeeps
<1>8. CASE KeyOnHost \/ KeyOnFolder \/ KeyOnNone \/ MenuAction
    BY <1>2, <1>3, <1>8, KeysStep
<1>9. CASE OpenHostMenu \/ OpenFolderMenu \/ CloseMenu
    BY <1>2, <1>3, <1>9, MenusStep
<1>10. CASE CancelDialog \/ PickParent \/ ParentPicked
    BY <1>2, <1>3, <1>10, PickersStep
<1>11. CASE SubmitMove \/ SubmitRename \/ SubmitCreate \/ ConfirmFolder \/ ConfirmHost
    BY <1>2, <1>3, <1>11, SubmitsStep
<1>12. CASE AskDelete \/ AskFolder \/ FolderPicked \/ CloseEditor
    BY <1>2, <1>3, <1>12, EditorStep
<1>13. CASE \E name \in HostNames, refused \in BOOLEAN : SaveEntry(name, refused)
    BY <1>2, <1>3, <1>13, SaveEntryStep
<1>14. CASE UNCHANGED browserVars
    <2>1. UNCHANGED inventoryVars /\ UNCHANGED dialogsVars
        BY <1>14 DEF browserVars, dialogsVars
    <2> QED
        BY <1>1, <1>3, <2>1, StaysSo
<1> QED
    BY <1>4, <1>5, <1>6, <1>7, <1>8, <1>9, <1>10, <1>11, <1>12, <1>13, <1>14 DEF BrowserNext

LEMMA BrowserAlways == BrowserSpec => []BrowserInv
<1> QED
    BY InitIs, BrowserStep, PTL DEF BrowserSpec

\* Types of the inventory, of the dialogs over it and of the menu: an edit is of a document that
\* was loaded, and a row that a dialog picks is a row of the file (host_browser/, folder_picker/).
THEOREM BrowserTypeCorrect == BrowserSpec => []BrowserTypeOK
<1>1. BrowserInv => BrowserTypeOK
    BY TypedIs DEF BrowserInv
<1> QED
    BY <1>1, BrowserAlways, PTL

\* With no notification on its way and the watcher in place, the tree that is shown is that of the
\* files (inventory/watcher.rs, tui/state/app.rs), whatever the files include, whoever edits them,
\* and whichever of them come and go. As in QuietMeansCurrent, changes between a reload and its new
\* watcher are excepted, and a reload that failed.
THEOREM QuietIsCurrent == BrowserSpec => []QuietMeansCurrent
<1>1. BrowserInv => QuietMeansCurrent
    BY DEF BrowserInv, Covered, QuietMeansCurrent
<1> QED
    BY <1>1, BrowserAlways, PTL

-----------------------------------------------------------------------------
(* Inventory: which rows are whose *)

HostsOf(list, f) == {i \in DOMAIN list : list[i].host /\ list[i].file = f}

\* The hosts of the file are in the rows, each once and next to each other as in the document.
Placed(nodes, list, f) ==
    \E o \in Nat :
        /\ \A i \in HostsOf(list, f) : /\ i - o \in DOMAIN nodes /\ nodes[i - o].host
                                       /\ nodes[i - o].name = list[i].name
        /\ \A k \in DOMAIN nodes :
              nodes[k].host => o + k \in HostsOf(list, f) /\ list[o + k].name = nodes[k].name

LEMMA JoinedRows ==
    ASSUME NEW list \in Seq(Row), NEW more \in Seq(Row)
    PROVE  /\ list \o more \in Seq(Row) /\ Len(list) \in Nat
           /\ \A i \in DOMAIN list : i \in DOMAIN (list \o more) /\ (list \o more)[i] = list[i]
           /\ \A k \in DOMAIN more : Len(list) + k \in DOMAIN (list \o more)
                                     /\ (list \o more)[Len(list) + k] = more[k]
           /\ \A i \in DOMAIN (list \o more) :
                 i \in DOMAIN list \/ (i - Len(list) \in DOMAIN more /\ i \notin DOMAIN list)
<1> DEFINE all == list \o more
<1>1. /\ all \in Seq(Row) /\ Len(list) \in Nat /\ Len(more) \in Nat
      /\ DOMAIN list = 1..Len(list) /\ DOMAIN more = 1..Len(more)
      /\ DOMAIN all = 1..(Len(list) + Len(more))
      /\ \A i \in 1..(Len(list) + Len(more)) :
            all[i] = IF i <= Len(list) THEN list[i] ELSE more[i - Len(list)]
    BY ConcatProperties, LenProperties
<1> HIDE DEF all
<1>2. \A i \in DOMAIN list : i \in DOMAIN all /\ all[i] = list[i]
    BY <1>1
<1>3. ASSUME NEW k \in DOMAIN more PROVE Len(list) + k \in DOMAIN all /\ all[Len(list) + k] = more[k]
    <2>1. Len(list) + k \in 1..(Len(list) + Len(more)) /\ ~(Len(list) + k <= Len(list))
          /\ (Len(list) + k) - Len(list) = k
        BY <1>1
    <2> QED
        BY <1>1, <2>1
<1>4. \A i \in DOMAIN all : i \in DOMAIN list \/ (i - Len(list) \in DOMAIN more /\ i \notin DOMAIN list)
    BY <1>1
<1> QED
    BY <1>1, <1>2, <1>3, <1>4 DEF all

LEMMA SameHosts ==
    ASSUME NEW list \in Seq(Row), NEW more \in Seq(Row), NEW f,
           \A k \in DOMAIN more : ~(more[k].host /\ more[k].file = f)
    PROVE  /\ HostsOf(list \o more, f) = HostsOf(list, f)
           /\ \A nodes : Placed(nodes, list, f) => Placed(nodes, list \o more, f)
<1> DEFINE all == list \o more
<1>1. /\ \A i \in DOMAIN list : i \in DOMAIN all /\ all[i] = list[i]
      /\ \A k \in DOMAIN more : all[Len(list) + k] = more[k]
      /\ \A i \in DOMAIN all : i \in DOMAIN list \/ (i - Len(list) \in DOMAIN more /\ i \notin DOMAIN list)
      /\ Len(list) \in Nat /\ \A i \in DOMAIN all : i \in Int
    <2>1. all \in Seq(Row)
        BY JoinedRows
    <2>2. \A i \in DOMAIN all : i \in Int
        <3> HIDE DEF all
        <3> QED
            BY <2>1, LenProperties
    <2> QED
        BY <2>2, JoinedRows
<1> HIDE DEF all
<1>2. ASSUME NEW i \in DOMAIN all, i \notin DOMAIN list PROVE ~(all[i].host /\ all[i].file = f)
    <2>1. i - Len(list) \in DOMAIN more /\ Len(list) + (i - Len(list)) = i
        BY <1>1, <1>2
    <2>2. all[i] = more[i - Len(list)]
        BY <1>1, <2>1
    <2> QED
        BY <2>1, <2>2
<1>3. HostsOf(all, f) = HostsOf(list, f)
    BY <1>1, <1>2 DEF HostsOf
<1>4. \A i \in HostsOf(list, f) : all[i] = list[i]
    BY <1>1 DEF HostsOf
<1>5. ASSUME NEW nodes, Placed(nodes, list, f) PROVE Placed(nodes, all, f)
    <2>1. PICK o \in Nat :
            /\ \A i \in HostsOf(list, f) : /\ i - o \in DOMAIN nodes /\ nodes[i - o].host
                                           /\ nodes[i - o].name = list[i].name
            /\ \A k \in DOMAIN nodes :
                  nodes[k].host => o + k \in HostsOf(list, f) /\ list[o + k].name = nodes[k].name
        BY <1>5, Zenon DEF Placed
    <2>2. /\ \A i \in HostsOf(all, f) : /\ i - o \in DOMAIN nodes /\ nodes[i - o].host
                                        /\ nodes[i - o].name = all[i].name
          /\ \A k \in DOMAIN nodes :
                nodes[k].host => o + k \in HostsOf(all, f) /\ all[o + k].name = nodes[k].name
        BY <1>3, <1>4, <2>1
    <2> QED
        BY <2>2, Zenon DEF Placed
<1> QED
    BY <1>3, <1>5 DEF all

LEMMA NodesPlaced ==
    ASSUME NEW disk \in Disks, NEW f \in Files, NEW place \in Seq(Nat), NEW list \in Seq(Row),
           HostsOf(list, f) = {}
    PROVE  Placed(disk[f].nodes, list \o NodeRows(disk, f, place), f)
<1> DEFINE more == NodeRows(disk, f, place)
           all == list \o more
           nodes == disk[f].nodes
           o == Len(list)
<1>1. /\ more \in Seq(Row) /\ DOMAIN more = DOMAIN nodes
      /\ \A k \in DOMAIN nodes : more[k].name = nodes[k].name /\ more[k].host = nodes[k].host
                                 /\ more[k].file = f
    <2>1. nodes \in Seq(Node) /\ more \in Seq(Row) /\ Len(more) = Len(nodes)
        BY DocIs, NodeRowsAre
    <2>2. DOMAIN more = DOMAIN nodes
        <3> HIDE DEF more, nodes
        <3> QED
            BY <2>1, LenProperties
    <2> QED
        BY <2>1, <2>2, NodeRowsAre
<1> HIDE DEF more, nodes
<1>2. /\ all \in Seq(Row) /\ o \in Nat
      /\ \A i \in DOMAIN list : i \in DOMAIN all /\ all[i] = list[i]
      /\ \A k \in DOMAIN more : o + k \in DOMAIN all /\ all[o + k] = more[k]
      /\ \A i \in DOMAIN all : i \in DOMAIN list \/ (i - o \in DOMAIN more /\ i \notin DOMAIN list)
    BY <1>1, JoinedRows
<1> HIDE DEF all
<1>3. \A i \in DOMAIN all : i \in Int
    BY <1>2, LenProperties
<1> HIDE DEF o
<1>4. ASSUME NEW i \in HostsOf(all, f)
      PROVE  i - o \in DOMAIN nodes /\ nodes[i - o].host /\ nodes[i - o].name = all[i].name
    <2>1. i \in DOMAIN all /\ all[i].host /\ all[i].file = f
        BY DEF HostsOf
    <2>2. i \notin DOMAIN list
        BY <1>2, <2>1 DEF HostsOf
    <2>3. i - o \in DOMAIN more /\ o + (i - o) = i
        BY <1>2, <1>3, <2>1, <2>2
    <2>4. all[i] = more[i - o]
        BY <1>2, <2>3
    <2> QED
        BY <1>1, <2>1, <2>3, <2>4
<1>5. ASSUME NEW k \in DOMAIN nodes, nodes[k].host
      PROVE  o + k \in HostsOf(all, f) /\ all[o + k].name = nodes[k].name
    BY <1>1, <1>2, <1>5 DEF HostsOf
<1>6. Placed(nodes, all, f)
    BY <1>2, <1>4, <1>5, Zenon DEF Placed
<1> QED
    BY <1>6 DEF all, more, nodes

-----------------------------------------------------------------------------
(* Inventory: what is left to do, in order *)

LastPart(disk, f) == Len(disk[f].include) + 1

InOrder(disk, todo) ==
    /\ \A i \in DOMAIN todo : todo[i].part <= LastPart(disk, todo[i].file)
    /\ \A i, j \in DOMAIN todo :
          (i < j /\ todo[i].file = todo[j].file) => todo[i].part < todo[j].part

HasLast(disk, todo, f) == \E i \in DOMAIN todo : todo[i].file = f /\ todo[i].part = LastPart(disk, f)
HasNone(todo, f) == \A i \in DOMAIN todo : todo[i].file # f

\* Before its nodes are read a file has no row of a host, and afterwards it has all of them.
Kept(disk, load) ==
    /\ InOrder(disk, load.todo)
    /\ \A i \in DOMAIN load.rows : load.rows[i].host => load.rows[i].file \in load.visited
    /\ \A f \in load.visited :
          \/ HasLast(disk, load.todo, f) /\ HostsOf(load.rows, f) = {}
          \/ HasNone(load.todo, f) /\ Placed(disk[f].nodes, load.rows, f)

LEMMA TailKeepsOrder ==
    ASSUME NEW disk, NEW todo \in Seq(Work), todo # <<>>, InOrder(disk, todo)
    PROVE  /\ InOrder(disk, Tail(todo))
           /\ \A f : HasNone(todo, f) => HasNone(Tail(todo), f)
           /\ \A f : (HasLast(disk, todo, f) /\ ~(Head(todo).file = f /\ Head(todo).part = LastPart(disk, f)))
                     => HasLast(disk, Tail(todo), f)
           /\ Head(todo).part = LastPart(disk, Head(todo).file) => HasNone(Tail(todo), Head(todo).file)
<1> DEFINE rest == Tail(todo)
<1>1. /\ rest \in Seq(Work) /\ Head(todo) = todo[1] /\ 1 \in DOMAIN todo
      /\ \A i \in DOMAIN rest : i + 1 \in DOMAIN todo /\ rest[i] = todo[i + 1]
      /\ \A i \in DOMAIN todo : i = 1 \/ (i - 1 \in DOMAIN rest /\ rest[i - 1] = todo[i])
    BY TailIs
<1>2. \A i \in DOMAIN rest : i \in Nat /\ i >= 1
    <2> HIDE DEF rest
    <2> QED
        BY <1>1, LenProperties
<1> HIDE DEF rest
<1>3. \A i \in DOMAIN todo : todo[i].part \in Nat
    <2>1. \A i \in DOMAIN todo : todo[i] \in Work
        OBVIOUS
    <2> QED
        BY <2>1 DEF Work
<1>4. InOrder(disk, rest)
    <2>1. \A i \in DOMAIN rest : rest[i].part <= LastPart(disk, rest[i].file)
        BY <1>1 DEF InOrder
    <2>2. ASSUME NEW i \in DOMAIN rest, NEW j \in DOMAIN rest, i < j, rest[i].file = rest[j].file
          PROVE  rest[i].part < rest[j].part
        <3>1. i + 1 \in DOMAIN todo /\ j + 1 \in DOMAIN todo /\ i + 1 < j + 1
              /\ rest[i] = todo[i + 1] /\ rest[j] = todo[j + 1]
            BY <1>1, <1>2, <2>2
        <3> QED
            BY <2>2, <3>1 DEF InOrder
    <2> QED
        BY <2>1, <2>2 DEF InOrder
<1>5. \A f : HasNone(todo, f) => HasNone(rest, f)
    BY <1>1 DEF HasNone
<1>6. ASSUME NEW f, HasLast(disk, todo, f), ~(Head(todo).file = f /\ Head(todo).part = LastPart(disk, f))
      PROVE  HasLast(disk, rest, f)
    <2>1. PICK i \in DOMAIN todo : todo[i].file = f /\ todo[i].part = LastPart(disk, f)
        BY <1>6 DEF HasLast
    <2>2. i - 1 \in DOMAIN rest /\ rest[i - 1] = todo[i]
        BY <1>1, <1>6, <2>1
    <2> QED
        BY <2>1, <2>2 DEF HasLast
<1>7. ASSUME Head(todo).part = LastPart(disk, Head(todo).file), NEW i \in DOMAIN rest
      PROVE  rest[i].file # Head(todo).file
    <2> SUFFICES ASSUME rest[i].file = Head(todo).file PROVE FALSE
        OBVIOUS
    <2>1. i + 1 \in DOMAIN todo /\ 1 < i + 1 /\ rest[i] = todo[i + 1]
        BY <1>1, <1>2
    <2>2. todo[1].part < todo[i + 1].part /\ todo[i + 1].part <= LastPart(disk, todo[i + 1].file)
        BY <1>1, <2>1 DEF InOrder
    <2>3. todo[1].part \in Nat /\ todo[i + 1].part \in Nat /\ LastPart(disk, todo[i + 1].file) = todo[1].part
        BY <1>1, <1>3, <1>7, <2>1
    <2> QED
        BY <2>2, <2>3
<1> QED
    BY <1>4, <1>5, <1>6, <1>7 DEF rest, HasNone

LEMMA AheadInOrder ==
    ASSUME NEW disk \in Disks, NEW g \in Files, NEW place \in Seq(Nat), NEW rest \in Seq(Work),
           InOrder(disk, rest), HasNone(rest, g)
    PROVE  LET todo == Ahead(disk, g, place, rest)
           IN  /\ InOrder(disk, todo) /\ HasLast(disk, todo, g)
               /\ \A f : HasLast(disk, rest, f) => HasLast(disk, todo, f)
               /\ \A f : (f # g /\ HasNone(rest, f)) => HasNone(todo, f)
<1> DEFINE todo == Ahead(disk, g, place, rest)
           n == LastPart(disk, g)
           first == Parts(disk, g, place)
<1>1. first \in Seq(Work) /\ Len(first) = n /\ n \in Nat /\ n >= 1
      /\ \A k \in 1..n : first[k].file = g /\ first[k].part = k
    <2>1. /\ first \in Seq(Work) /\ Len(first) = n
          /\ \A k \in 1..n : first[k] = [file |-> g, place |-> place, part |-> k]
        BY PartsAre DEF LastPart
    <2>2. n \in Nat /\ n >= 1
        BY DocIs DEF LastPart
    <2> QED
        BY <2>1, <2>2
<1>2. todo = first \o rest
    BY DEF Ahead
<1> HIDE DEF first, todo
<1>3. /\ todo \in Seq(Work) /\ Len(rest) \in Nat /\ DOMAIN rest = 1..Len(rest)
      /\ DOMAIN todo = 1..(Len(first) + Len(rest))
      /\ \A i \in 1..(Len(first) + Len(rest)) :
            todo[i] = IF i <= Len(first) THEN first[i] ELSE rest[i - Len(first)]
    <2>1. /\ first \o rest \in Seq(Work) /\ Len(first \o rest) = Len(first) + Len(rest)
          /\ \A i \in 1..(Len(first) + Len(rest)) :
                (first \o rest)[i] = IF i <= Len(first) THEN first[i] ELSE rest[i - Len(first)]
        BY <1>1, ConcatProperties
    <2> QED
        BY <1>2, <2>1, LenProperties
<1> HIDE DEF n
<1>4. \A i \in DOMAIN todo : \/ i \in 1..n /\ todo[i].file = g /\ todo[i].part = i
                             \/ i - n \in DOMAIN rest /\ i > n /\ todo[i] = rest[i - n] /\ todo[i].file # g
    <2> TAKE i \in DOMAIN todo
    <2>1. i \in 1..(n + Len(rest))
        BY <1>1, <1>3
    <2>2. CASE i <= n
        BY <1>1, <1>3, <2>1, <2>2
    <2>3. CASE ~(i <= n)
        <3>1. i - n \in DOMAIN rest /\ i > n
            BY <1>1, <1>3, <2>1, <2>3
        <3>2. todo[i] = rest[i - n]
            BY <1>1, <1>3, <2>1, <2>3
        <3> QED
            BY <3>1, <3>2 DEF HasNone
    <2> QED
        BY <2>2, <2>3
<1>5. \A k \in DOMAIN rest : n + k \in DOMAIN todo /\ todo[n + k] = rest[k]
    <2> TAKE k \in DOMAIN rest
    <2>1. n + k \in 1..(Len(first) + Len(rest)) /\ ~(n + k <= Len(first)) /\ (n + k) - Len(first) = k
        BY <1>1, <1>3
    <2> QED
        BY <1>3, <2>1
<1>6. \A k \in 1..n : k \in DOMAIN todo
    BY <1>1, <1>3
<1>7. \A i \in DOMAIN todo : i \in Nat
    BY <1>3
<1>8. InOrder(disk, todo)
    <2>1. \A i \in DOMAIN todo : todo[i].part <= LastPart(disk, todo[i].file)
        BY <1>1, <1>4 DEF InOrder, n
    <2>2. ASSUME NEW i \in DOMAIN todo, NEW j \in DOMAIN todo, i < j, todo[i].file = todo[j].file
          PROVE  todo[i].part < todo[j].part
        <3>1. CASE i \in 1..n /\ todo[i].file = g /\ todo[i].part = i
            BY <1>4, <2>2, <3>1
        <3>2. CASE i - n \in DOMAIN rest /\ i > n /\ todo[i] = rest[i - n] /\ todo[i].file # g
            <4>1. j - n \in DOMAIN rest /\ todo[j] = rest[j - n]
                BY <1>4, <2>2, <3>2
            <4>2. i - n < j - n
                BY <1>1, <1>7, <2>2
            <4> QED
                BY <2>2, <3>2, <4>1, <4>2 DEF InOrder
        <3> QED
            BY <1>4, <3>1, <3>2
    <2> QED
        BY <2>1, <2>2 DEF InOrder
<1>9. HasLast(disk, todo, g)
    <2>1. n \in 1..n
        BY <1>1
    <2>2. n \in DOMAIN todo /\ todo[n].file = g /\ todo[n].part = n
        BY <1>1, <1>4, <1>6, <2>1
    <2> QED
        BY <2>2 DEF HasLast, n
<1>10. \A f : HasLast(disk, rest, f) => HasLast(disk, todo, f)
    BY <1>5 DEF HasLast
<1>11. \A f : (f # g /\ HasNone(rest, f)) => HasNone(todo, f)
    BY <1>4 DEF HasNone
<1> QED
    BY <1>8, <1>9, <1>10, <1>11 DEF todo

-----------------------------------------------------------------------------
(* Inventory: every host has its row *)

Reads(disk, load, new) ==
    LET part == Head(load.todo)
    IN  /\ part.part \notin DOMAIN disk[part.file].include
        /\ new.visited = load.visited /\ new.todo = Tail(load.todo)
        /\ new.rows = load.rows \o NodeRows(disk, part.file, part.place)

Passes(disk, load, new) ==
    LET part == Head(load.todo)
    IN  /\ part.part \in DOMAIN disk[part.file].include
        /\ new.visited = load.visited /\ new.todo = Tail(load.todo)
        /\ \E list \in Seq(Row) : /\ \A k \in DOMAIN list : ~list[k].host
                                  /\ new.rows = load.rows \o list

Enters(disk, load, new, g) ==
    LET part == Head(load.todo)
    IN  /\ part.part \in DOMAIN disk[part.file].include
        /\ g = disk[part.file].include[part.part].file /\ g \notin load.visited
        /\ new.visited = load.visited \cup {g}
        /\ \E list \in Seq(Row) : /\ \A k \in DOMAIN list : ~list[k].host
                                  /\ new.rows = load.rows \o list
        /\ \E place \in Seq(Nat) : new.todo = Ahead(disk, g, place, Tail(load.todo))

LEMMA WorkIs ==
    ASSUME NEW disk \in Disks, NEW load \in Load, load.todo # <<>>
    PROVE  LET new == LoadPart(disk, load)
           IN  Reads(disk, load, new) \/ Passes(disk, load, new) \/ \E g : Enters(disk, load, new, g)
<1> DEFINE part == Head(load.todo)
           rest == Tail(load.todo)
           include == disk[part.file].include
           g == include[part.part].file
           new == LoadPart(disk, load)
           Nodes == /\ part.part \notin DOMAIN include
                    /\ new = [visited |-> load.visited,
                              rows |-> load.rows \o NodeRows(disk, part.file, part.place), todo |-> rest]
           Skip == /\ part.part \in DOMAIN include
                   /\ disk[g].state = "missing" \/ g \in load.visited
                   /\ \E list \in Seq(Row) :
                         /\ \A k \in DOMAIN list : ~list[k].host
                         /\ new = [visited |-> load.visited, rows |-> load.rows \o list, todo |-> rest]
           Open == /\ part.part \in DOMAIN include
                   /\ disk[g].state # "missing"
                   /\ g \notin load.visited
                   /\ \E list \in Seq(Row), place \in Seq(Nat) :
                         /\ \A k \in DOMAIN list : ~list[k].host
                         /\ new = [visited |-> load.visited \cup {g}, rows |-> load.rows \o list,
                                   todo |-> Parts(disk, g, place) \o rest]
<1>1. Nodes \/ Skip \/ Open
    BY LoadPartIs
<1>2. CASE Nodes
    <2>1. new.visited = load.visited /\ new.todo = rest
          /\ new.rows = load.rows \o NodeRows(disk, part.file, part.place)
        <3> HIDE DEF new
        <3> QED
            BY <1>2
    <2>2. Reads(disk, load, new)
        BY <1>2, <2>1, Zenon DEF Reads
    <2> QED
        BY <2>2
<1>3. CASE Skip
    <2>0. PICK list \in Seq(Row) :
              /\ \A k \in DOMAIN list : ~list[k].host
              /\ new = [visited |-> load.visited, rows |-> load.rows \o list, todo |-> rest]
        <3> HIDE DEF new, rest
        <3> QED
            BY <1>3
    <2>1. new.visited = load.visited /\ new.todo = rest /\ new.rows = load.rows \o list
        <3> HIDE DEF new
        <3> QED
            BY <2>0
    <2>2. Passes(disk, load, new)
        BY <1>3, <2>0, <2>1, Zenon DEF Passes
    <2> QED
        BY <2>2
<1>4. CASE Open
    <2>1. PICK list \in Seq(Row), place \in Seq(Nat) :
              /\ \A k \in DOMAIN list : ~list[k].host
              /\ new = [visited |-> load.visited \cup {g}, rows |-> load.rows \o list,
                        todo |-> Parts(disk, g, place) \o rest]
        <3> HIDE DEF new, g, rest
        <3> QED
            BY <1>4
    <2>2. new.visited = load.visited \cup {g} /\ new.rows = load.rows \o list
          /\ new.todo = Parts(disk, g, place) \o rest
        <3> HIDE DEF new
        <3> QED
            BY <2>1
    <2>3. new.todo = Ahead(disk, g, place, rest)
        BY <2>2, Zenon DEF Ahead
    <2>4. \E r \in Seq(Row) : (\A k \in DOMAIN r : ~r[k].host) /\ new.rows = load.rows \o r
        BY <2>1, <2>2, Zenon
    <2>5. Enters(disk, load, new, g)
        BY <1>4, <2>2, <2>3, <2>4, Zenon DEF Enters
    <2> QED
        BY <2>5
<1> QED
    BY <1>1, <1>2, <1>3, <1>4

StillPlaced(list, all, S) ==
    /\ \A i \in DOMAIN all : all[i].host => all[i].file \in S
    /\ \A f : HostsOf(all, f) = HostsOf(list, f)
    /\ \A f, nodes : Placed(nodes, list, f) => Placed(nodes, all, f)

\* Rows of no host are added: what was so stays so.
LEMMA PlainRows ==
    ASSUME NEW list \in Seq(Row), NEW more \in Seq(Row), \A k \in DOMAIN more : ~more[k].host, NEW S,
           \A i \in DOMAIN list : list[i].host => list[i].file \in S
    PROVE  StillPlaced(list, list \o more, S)
<1>1. \A f : /\ HostsOf(list \o more, f) = HostsOf(list, f)
             /\ \A nodes : Placed(nodes, list, f) => Placed(nodes, list \o more, f)
    <2> TAKE f
    <2>1. \A k \in DOMAIN more : ~(more[k].host /\ more[k].file = f)
        OBVIOUS
    <2> QED
        BY <2>1, SameHosts
<1>2. ASSUME NEW i \in DOMAIN (list \o more), (list \o more)[i].host PROVE (list \o more)[i].file \in S
    <2> DEFINE all == list \o more
               f == all[i].file
    <2>1. i \in HostsOf(all, f)
        BY <1>2 DEF HostsOf
    <2>2. i \in HostsOf(list, f)
        BY <1>1, <2>1
    <2>3. list[i].host /\ i \in DOMAIN list /\ list[i].file = f
        BY <2>2 DEF HostsOf
    <2> QED
        BY <2>3
<1> QED
    BY <1>1, <1>2 DEF StillPlaced

LEMMA PartOrder ==
    ASSUME NEW disk \in Disks, NEW load \in Walk(disk), load.todo # <<>>, InOrder(disk, load.todo)
    PROVE  LET part == Head(load.todo)
           IN  /\ part.file \in load.visited /\ part.file \in Files /\ part.place \in Seq(Nat)
               /\ part.part \in DOMAIN disk[part.file].include => part.part # LastPart(disk, part.file)
               /\ part.part \notin DOMAIN disk[part.file].include => part.part = LastPart(disk, part.file)
<1> DEFINE part == Head(load.todo)
<1>1. load.todo \in Seq(Work)
    BY DEF Walk, Load
<1>2. part \in Work /\ part = load.todo[1] /\ 1 \in DOMAIN load.todo
    BY <1>1, TailIs
<1>3. part.file \in load.visited /\ part.part <= LastPart(disk, part.file)
    BY <1>2 DEF Walk, InOrder
<1> HIDE DEF part
<1>4. part.file \in Files /\ part.place \in Seq(Nat) /\ part.part \in Nat \ {0}
    BY <1>2 DEF Work
<1>5. DOMAIN disk[part.file].include = 1..Len(disk[part.file].include) /\ Len(disk[part.file].include) \in Nat
    BY <1>4, DocIs
<1>6. part.part \in DOMAIN disk[part.file].include <=> part.part # LastPart(disk, part.file)
    BY <1>3, <1>4, <1>5 DEF LastPart
<1> QED
    BY <1>3, <1>4, <1>6 DEF part

LEMMA KeptStep ==
    ASSUME NEW disk \in Disks, NEW load \in Walk(disk), Kept(disk, load)
    PROVE  Kept(disk, LoadPart(disk, load))
<1> DEFINE new == LoadPart(disk, load)
           part == Head(load.todo)
           rest == Tail(load.todo)
<1>0. load \in Load /\ new \in Load /\ load.rows \in Seq(Row) /\ load.todo \in Seq(Work)
      /\ load.visited \subseteq Files
    BY LoadPartIs DEF Walk, Load
<1>1. CASE load.todo = <<>>
    <2>1. new = load
        BY <1>0, <1>1, LoadPartIs
    <2> QED
        BY <2>1
<1>2. CASE load.todo # <<>>
    <2>1. /\ part.file \in load.visited /\ part.file \in Files /\ part.place \in Seq(Nat)
          /\ part.part \in DOMAIN disk[part.file].include => part.part # LastPart(disk, part.file)
          /\ part.part \notin DOMAIN disk[part.file].include => part.part = LastPart(disk, part.file)
        BY <1>2, PartOrder DEF Kept
    <2>2. /\ rest \in Seq(Work) /\ part = load.todo[1] /\ 1 \in DOMAIN load.todo
          /\ InOrder(disk, rest)
          /\ \A f : HasNone(load.todo, f) => HasNone(rest, f)
          /\ \A f : (HasLast(disk, load.todo, f) /\ ~(part.file = f /\ part.part = LastPart(disk, f)))
                    => HasLast(disk, rest, f)
          /\ part.part = LastPart(disk, part.file) => HasNone(rest, part.file)
        BY <1>0, <1>2, TailKeepsOrder, TailIs DEF Kept
    <2>3. HasLast(disk, load.todo, part.file) /\ HostsOf(load.rows, part.file) = {}
        <3>1. ~HasNone(load.todo, part.file)
            BY <2>2 DEF HasNone
        <3> QED
            BY <2>1, <3>1 DEF Kept
    <2> SUFFICES Kept(disk, new)
        OBVIOUS
    <2> HIDE DEF new, part, rest
    <2>4. CASE Reads(disk, load, new)
        <3> DEFINE more == NodeRows(disk, part.file, part.place)
        <3>1. /\ part.part = LastPart(disk, part.file) /\ new.visited = load.visited /\ new.todo = rest
              /\ new.rows = load.rows \o more
            BY <2>1, <2>4 DEF Reads, part, rest
        <3>2. more \in Seq(Row) /\ \A k \in DOMAIN more : more[k].file = part.file
            <4>1. disk[part.file].nodes \in Seq(Node) /\ more \in Seq(Row)
                  /\ Len(more) = Len(disk[part.file].nodes)
                  /\ \A k \in DOMAIN disk[part.file].nodes : more[k].file = part.file
                BY <2>1, DocIs, NodeRowsAre
            <4>2. DOMAIN more = DOMAIN disk[part.file].nodes
                <5> HIDE DEF more
                <5> QED
                    BY <4>1, LenProperties
            <4> QED
                BY <4>1, <4>2
        <3>3. Placed(disk[part.file].nodes, new.rows, part.file)
            BY <1>0, <2>1, <2>3, <3>1, NodesPlaced
        <3> HIDE DEF more
        <3>4. \A f : f # part.file => /\ HostsOf(new.rows, f) = HostsOf(load.rows, f)
                                      /\ \A nodes : Placed(nodes, load.rows, f) => Placed(nodes, new.rows, f)
            <4> TAKE f
            <4> HAVE f # part.file
            <4>1. \A k \in DOMAIN more : ~(more[k].host /\ more[k].file = f)
                BY <3>2
            <4> QED
                BY <1>0, <3>1, <3>2, <4>1, SameHosts
        <3>5. ASSUME NEW i \in DOMAIN new.rows, new.rows[i].host PROVE new.rows[i].file \in new.visited
            <4>1. CASE new.rows[i].file = part.file
                BY <2>1, <3>1, <4>1
            <4>2. CASE new.rows[i].file # part.file
                <5>1. i \in HostsOf(new.rows, new.rows[i].file)
                    BY <3>5 DEF HostsOf
                <5>2. i \in HostsOf(load.rows, new.rows[i].file)
                    BY <3>4, <4>2, <5>1
                <5> QED
                    BY <3>1, <5>2 DEF HostsOf, Kept
            <4> QED
                BY <4>1, <4>2
        <3>6. ASSUME NEW f \in new.visited
              PROVE  \/ HasLast(disk, new.todo, f) /\ HostsOf(new.rows, f) = {}
                     \/ HasNone(new.todo, f) /\ Placed(disk[f].nodes, new.rows, f)
            <4>1. CASE f = part.file
                BY <2>2, <3>1, <3>3, <4>1
            <4>2. CASE f # part.file
                BY <2>2, <3>1, <3>4, <4>2 DEF Kept
            <4> QED
                BY <4>1, <4>2
        <3> QED
            BY <2>2, <3>1, <3>5, <3>6 DEF Kept
    <2>5. CASE Passes(disk, load, new)
        <3>1. /\ part.part # LastPart(disk, part.file) /\ new.visited = load.visited /\ new.todo = rest
            BY <2>1, <2>5 DEF Passes, part, rest
        <3>2. PICK more \in Seq(Row) : (\A k \in DOMAIN more : ~more[k].host) /\ new.rows = load.rows \o more
            BY <2>5 DEF Passes
        <3>3. \A i \in DOMAIN load.rows : load.rows[i].host => load.rows[i].file \in load.visited
            BY DEF Kept
        <3>4. /\ \A i \in DOMAIN new.rows : new.rows[i].host => new.rows[i].file \in load.visited
              /\ \A f : HostsOf(new.rows, f) = HostsOf(load.rows, f)
              /\ \A f, nodes : Placed(nodes, load.rows, f) => Placed(nodes, new.rows, f)
            <4>1. StillPlaced(load.rows, load.rows \o more, load.visited)
                BY <1>0, <3>2, <3>3, PlainRows
            <4>2. StillPlaced(load.rows, new.rows, load.visited)
                BY <3>2, <4>1
            <4> QED
                BY <4>2, Zenon DEF StillPlaced
        <3>5. ASSUME NEW f \in new.visited
              PROVE  \/ HasLast(disk, new.todo, f) /\ HostsOf(new.rows, f) = {}
                     \/ HasNone(new.todo, f) /\ Placed(disk[f].nodes, new.rows, f)
            <4>1. HasLast(disk, load.todo, f) => HasLast(disk, rest, f)
                BY <2>2, <3>1
            <4> QED
                BY <2>2, <3>1, <3>4, <4>1 DEF Kept
        <3> QED
            BY <2>2, <3>1, <3>4, <3>5 DEF Kept
    <2>6. CASE \E g : Enters(disk, load, new, g)
        <3>0. PICK g : Enters(disk, load, new, g)
            BY <2>6
        <3>1. /\ part.part \in DOMAIN disk[part.file].include /\ part.part # LastPart(disk, part.file)
              /\ g = disk[part.file].include[part.part].file /\ g \notin load.visited
              /\ new.visited = load.visited \cup {g}
            BY <2>1, <3>0 DEF Enters, part
        <3>2. g \in Files
            BY <2>1, <3>1, DocIs
        <3>3. PICK more \in Seq(Row) : (\A k \in DOMAIN more : ~more[k].host) /\ new.rows = load.rows \o more
            BY <3>0 DEF Enters
        <3>4. PICK place \in Seq(Nat) : new.todo = Ahead(disk, g, place, rest)
            BY <3>0 DEF Enters, rest
        <3>5. \A i \in DOMAIN load.rows : load.rows[i].host => load.rows[i].file \in load.visited
            BY DEF Kept
        <3>6. /\ \A i \in DOMAIN new.rows : new.rows[i].host => new.rows[i].file \in load.visited
              /\ \A f : HostsOf(new.rows, f) = HostsOf(load.rows, f)
              /\ \A f, nodes : Placed(nodes, load.rows, f) => Placed(nodes, new.rows, f)
            <4>1. StillPlaced(load.rows, load.rows \o more, load.visited)
                BY <1>0, <3>3, <3>5, PlainRows
            <4>2. StillPlaced(load.rows, new.rows, load.visited)
                BY <3>3, <4>1
            <4> QED
                BY <4>2, Zenon DEF StillPlaced
        <3>7. HasNone(load.todo, g) /\ HasNone(rest, g)
            BY <2>2, <3>1 DEF HasNone, Walk
        <3>8. /\ InOrder(disk, new.todo) /\ HasLast(disk, new.todo, g)
              /\ \A f : HasLast(disk, rest, f) => HasLast(disk, new.todo, f)
              /\ \A f : (f # g /\ HasNone(rest, f)) => HasNone(new.todo, f)
            BY <2>2, <3>2, <3>4, <3>7, AheadInOrder
        <3>9. ASSUME NEW f \in new.visited
              PROVE  \/ HasLast(disk, new.todo, f) /\ HostsOf(new.rows, f) = {}
                     \/ HasNone(new.todo, f) /\ Placed(disk[f].nodes, new.rows, f)
            <4>1. CASE f = g
                <5>1. HostsOf(load.rows, g) = {}
                    BY <3>1, <3>5 DEF HostsOf
                <5> QED
                    BY <3>6, <3>8, <4>1, <5>1
            <4>2. CASE f # g
                <5>1. f \in load.visited
                    BY <3>1, <4>2
                <5>2. HasLast(disk, load.todo, f) => HasLast(disk, new.todo, f)
                    BY <2>2, <3>1, <3>8
                <5>3. HasNone(load.todo, f) => HasNone(new.todo, f)
                    BY <2>2, <3>8, <4>2
                <5> QED
                    BY <3>6, <5>1, <5>2, <5>3 DEF Kept
            <4> QED
                BY <4>1, <4>2
        <3> QED
            BY <3>1, <3>6, <3>8, <3>9 DEF Kept
    <2> QED
        BY <1>0, <1>2, <2>4, <2>5, <2>6, WorkIs DEF new
<1> QED
    BY <1>1, <1>2

LEMMA KeptFirst ==
    ASSUME NEW disk \in Disks
    PROVE  Kept(disk, Opened(disk, Start, Root, <<>>))
<1> DEFINE first == Opened(disk, Start, Root, <<>>)
           todo == Ahead(disk, Root, <<>>, <<>>)
<1>1. <<>> \in Seq(Nat) /\ <<>> \in Seq(Work) /\ Root \in Files
    BY EmptySeq, FilesAssumption
<1>2. InOrder(disk, <<>>) /\ HasNone(<<>>, Root)
    BY DEF InOrder, HasNone
<1>3. InOrder(disk, todo) /\ HasLast(disk, todo, Root)
    BY <1>1, <1>2, AheadInOrder
<1>4. first = [visited |-> {} \cup {Root}, rows |-> <<>>, todo |-> todo]
    BY DEF Opened, Start, Ahead
<1> HIDE DEF first, todo
<1>5. first.visited = {Root} /\ first.rows = <<>> /\ first.todo = todo
    BY <1>4
<1>6. HostsOf(<<>>, Root) = {}
    BY DEF HostsOf
<1>7. Kept(disk, first)
    BY <1>3, <1>5, <1>6 DEF Kept
<1> QED
    BY <1>7 DEF first

\* Each host of a file that was opened has its row, and there are no others.
LEMMA AllPlaced ==
    ASSUME NEW disk \in Disks
    PROVE  LET all == Merged(disk)
           IN  /\ \A i \in DOMAIN all.rows : all.rows[i].host => all.rows[i].file \in all.visited
               /\ \A f \in all.visited : Placed(disk[f].nodes, all.rows, f)
               /\ \A f \in all.visited : disk[f].state # "missing"
<1>1. CASE disk[Root].state = "missing"
    <2>1. Merged(disk) = Start
        BY <1>1, Zenon DEF Merged, Start
    <2> QED
        BY <2>1 DEF Start
<1>2. CASE disk[Root].state # "missing"
    <2> DEFINE P == [k \in Nat |-> {load \in Walk(disk) : Kept(disk, load)}]
               first == Opened(disk, Start, Root, <<>>)
    <2>1. first \in P[0]
        <3>1. first \in Walk(disk) /\ Kept(disk, first)
            BY <1>2, FirstOpened, KeptFirst
        <3> HIDE DEF first
        <3> QED
            BY <3>1
    <2>2. \A k \in 1..MaxParts : \A load \in P[k - 1] : LoadPart(disk, load) \in P[k]
        <3> TAKE k \in 1..MaxParts
        <3> TAKE load \in P[k - 1]
        <3>1. k \in Nat /\ k - 1 \in Nat
            BY MaxPartsIs
        <3>2. load \in Walk(disk) /\ Kept(disk, load)
            BY <3>1
        <3>3. LoadPart(disk, load) \in Walk(disk) /\ Kept(disk, LoadPart(disk, load))
            BY <3>2, WalkStep, KeptStep
        <3> QED
            BY <3>1, <3>3
    <2>3. Merged(disk) \in P[MaxParts]
        <3> HIDE DEF P, first
        <3> QED
            BY <1>2, <2>1, <2>2, WalkKeeps DEF first
    <2>4. Kept(disk, Merged(disk)) /\ Merged(disk) \in Walk(disk) /\ Merged(disk).todo = <<>>
        BY <1>2, <2>3, MaxPartsIs, WalkEnds
    <2>5. \A f : ~HasLast(disk, Merged(disk).todo, f)
        BY <2>4 DEF HasLast
    <2> QED
        BY <2>4, <2>5 DEF Kept, Walk
<1> QED
    BY <1>1, <1>2

-----------------------------------------------------------------------------
(* Inventory: when the next load succeeds *)

\* The files a load has opened, or would have opened had they been there.
Known(disk) == {f \in Files : f \in Merged(disk).visited \/ disk[f].state = "missing"}

HostNamesOf(t) == {h.name : h \in Range(t.hosts)}

\* A document holds each name once, and no name of another.
Apart(disk, S) ==
    /\ \A f \in S : Distinct(disk[f].nodes)
    /\ \A f, g \in S : f # g => NamesIn(disk[f].nodes) \cap NamesIn(disk[g].nodes) = {}

LEMMA LoadedApart ==
    ASSUME NEW disk \in Disks, NEW t \in Tree(disk)
    PROVE  /\ Apart(disk, Known(disk)) /\ \A f \in Known(disk) : NamesIn(disk[f].nodes) \subseteq HostNamesOf(t)
           /\ \A f \in Known(disk) : disk[f].state = "missing" \/ Loads(disk[f])
<1> DEFINE all == Merged(disk)
           list == all.rows
<1>1. ~Fails(disk, all) /\ t = Built(list)
    BY TreeIs
<1>2. list \in Seq(Row) /\ all.visited \subseteq Files
    BY MergedTypes DEF Load
<1>3. \A f \in all.visited : Placed(disk[f].nodes, list, f)
    BY AllPlaced
<1> HIDE DEF all, list
<1>4. \A i, j \in DOMAIN list : (i # j /\ list[i].host /\ list[j].host) => list[i].name # list[j].name
    BY <1>1 DEF Fails, list
<1>5. \A f \in all.visited : Loads(disk[f])
    BY <1>1 DEF Fails
<1>6. \A i \in DOMAIN list : list[i].host => list[i].name \in HostNamesOf(t)
    <2>1. t.hosts = Filtered(list, {row \in Range(list) : row.host})
        BY <1>1 DEF Built
    <2>2. Range(t.hosts) = Range(list) \cap {row \in Range(list) : row.host}
        BY <1>2, <2>1, FilteredIs
    <2>3. \A i \in DOMAIN list : list[i] \in Range(list)
        BY DEF Range
    <2> QED
        BY <2>2, <2>3 DEF HostNamesOf
<1>7. ASSUME NEW f \in Files, disk[f].state = "missing"
      PROVE  disk[f].nodes = <<>> /\ NamesIn(disk[f].nodes) = {} /\ Distinct(disk[f].nodes)
    <2>1. disk[f].nodes = <<>>
        BY <1>7 DEF Disks, Missing
    <2> QED
        BY <2>1 DEF NamesIn, Distinct
<1>8. ASSUME NEW f \in all.visited
      PROVE  \E o \in Nat : \A k \in DOMAIN disk[f].nodes :
                disk[f].nodes[k].host => /\ o + k \in DOMAIN list /\ list[o + k].host
                                         /\ list[o + k].file = f /\ list[o + k].name = disk[f].nodes[k].name
    BY <1>3, <1>8 DEF Placed, HostsOf
<1>9. \A f \in Files : \A k \in DOMAIN disk[f].nodes : k \in Nat
    <2> TAKE f \in Files
    <2>1. disk[f].nodes \in Seq(Node)
        BY DocIs
    <2> QED
        BY <2>1, LenProperties
<1>10. ASSUME NEW f \in all.visited PROVE Distinct(disk[f].nodes)
    <2> DEFINE nodes == disk[f].nodes
    <2>1. PICK o \in Nat : \A k \in DOMAIN nodes :
              nodes[k].host => o + k \in DOMAIN list /\ list[o + k].host /\ list[o + k].name = nodes[k].name
        BY <1>8
    <2>2. \A k \in DOMAIN nodes : k \in Nat
        BY <1>2, <1>9
    <2> HIDE DEF nodes
    <2>3. ASSUME NEW i \in DOMAIN nodes, NEW j \in DOMAIN nodes, i # j, nodes[i].host, nodes[j].host
          PROVE  nodes[i].name # nodes[j].name
        <3>1. o + i # o + j
            BY <2>2, <2>3
        <3> QED
            BY <1>4, <2>1, <2>3, <3>1
    <2>4. Distinct(nodes)
        BY <2>3 DEF Distinct
    <2> QED
        BY <2>4 DEF nodes
<1>11. ASSUME NEW f \in all.visited, NEW g \in all.visited, f # g, NEW n \in NamesIn(disk[f].nodes),
              n \in NamesIn(disk[g].nodes)
       PROVE  FALSE
    <2>1. PICK i \in DOMAIN disk[f].nodes : disk[f].nodes[i].host /\ disk[f].nodes[i].name = n
        BY DEF NamesIn
    <2>2. PICK j \in DOMAIN disk[g].nodes : disk[g].nodes[j].host /\ disk[g].nodes[j].name = n
        BY <1>11 DEF NamesIn
    <2>3. PICK k \in DOMAIN list : list[k].host /\ list[k].file = f /\ list[k].name = n
        BY <1>8, <2>1
    <2>4. PICK l \in DOMAIN list : list[l].host /\ list[l].file = g /\ list[l].name = n
        BY <1>8, <2>2
    <2> QED
        BY <1>4, <1>11, <2>3, <2>4
<1>12. ASSUME NEW f \in all.visited, NEW n \in NamesIn(disk[f].nodes) PROVE n \in HostNamesOf(t)
    <2>1. PICK i \in DOMAIN disk[f].nodes : disk[f].nodes[i].host /\ disk[f].nodes[i].name = n
        BY DEF NamesIn
    <2>2. PICK k \in DOMAIN list : list[k].host /\ list[k].name = n
        BY <1>8, <2>1
    <2> QED
        BY <1>6, <2>2
<1>13. \A f \in Known(disk) : f \in all.visited \/ (f \in Files /\ disk[f].state = "missing")
    BY DEF Known, all
<1>14. \A f, g \in Known(disk) : f # g => NamesIn(disk[f].nodes) \cap NamesIn(disk[g].nodes) = {}
    BY <1>7, <1>11, <1>13
<1>15. \A f \in Known(disk) : Distinct(disk[f].nodes) /\ NamesIn(disk[f].nodes) \subseteq HostNamesOf(t)
    BY <1>7, <1>10, <1>12, <1>13
<1> QED
    BY <1>5, <1>13, <1>14, <1>15 DEF Apart

LEMMA ApartLoads ==
    ASSUME NEW disk \in Disks, NEW S, Apart(disk, S), Tracked(disk) \subseteq S,
           \A f \in S : disk[f].state = "missing" \/ Loads(disk[f])
    PROVE  Tree(disk) # {}
<1> DEFINE all == Merged(disk)
           list == all.rows
<1>1. list \in Seq(Row) /\ all.visited \subseteq Tracked(disk)
    BY MergedTypes DEF Load
<1>2. /\ \A i \in DOMAIN list : list[i].host => list[i].file \in all.visited
      /\ \A f \in all.visited : Placed(disk[f].nodes, list, f)
      /\ \A f \in all.visited : disk[f].state # "missing"
    BY AllPlaced
<1>3. \A f \in all.visited : Loads(disk[f])
    BY <1>1, <1>2
<1> HIDE DEF all, list
<1>4. ASSUME NEW i \in DOMAIN list, NEW j \in DOMAIN list, i # j, list[i].host, list[j].host,
             list[i].name = list[j].name
      PROVE  FALSE
    <2> DEFINE f == list[i].file
               g == list[j].file
    <2>1. f \in all.visited /\ g \in all.visited /\ f \in S /\ g \in S
        BY <1>1, <1>2, <1>4
    <2>2. i \in HostsOf(list, f) /\ j \in HostsOf(list, g) /\ i \in Int /\ j \in Int
        BY <1>1, <1>4, LenProperties DEF HostsOf
    <2> HIDE DEF f, g
    <2>3. PICK o \in Nat : \A m \in HostsOf(list, f) : /\ m - o \in DOMAIN disk[f].nodes
                                                       /\ disk[f].nodes[m - o].host
                                                       /\ disk[f].nodes[m - o].name = list[m].name
        BY <1>2, <2>1 DEF Placed
    <2>4. PICK p \in Nat : \A m \in HostsOf(list, g) : /\ m - p \in DOMAIN disk[g].nodes
                                                       /\ disk[g].nodes[m - p].host
                                                       /\ disk[g].nodes[m - p].name = list[m].name
        BY <1>2, <2>1 DEF Placed
    <2>5. CASE f = g
        <3>1. i - o # j - o
            BY <1>4, <2>2
        <3>2. /\ i - o \in DOMAIN disk[f].nodes /\ disk[f].nodes[i - o].host
              /\ disk[f].nodes[i - o].name = list[i].name
              /\ j - o \in DOMAIN disk[f].nodes /\ disk[f].nodes[j - o].host
              /\ disk[f].nodes[j - o].name = list[j].name
            BY <2>2, <2>3, <2>5
        <3>3. Distinct(disk[f].nodes)
            BY <2>1 DEF Apart
        <3> QED
            BY <1>4, <3>1, <3>2, <3>3 DEF Distinct
    <2>6. CASE f # g
        <3>1. list[i].name \in NamesIn(disk[f].nodes) /\ list[j].name \in NamesIn(disk[g].nodes)
            BY <2>2, <2>3, <2>4 DEF NamesIn
        <3> QED
            BY <1>4, <2>1, <2>6, <3>1 DEF Apart
    <2> QED
        BY <2>5, <2>6
<1>5. ~Fails(disk, all)
    BY <1>3, <1>4 DEF Fails, list
<1> QED
    BY <1>5, TreeIs DEF all

LEMMA SameIncludes ==
    ASSUME NEW disk \in Disks, NEW other \in Disks,
           \A f \in Files : other[f].include = disk[f].include
    PROVE  Tracked(other) \subseteq Tracked(disk)
<1>1. \A f \in Tracked(disk) : IncludedBy(other, f) \subseteq Tracked(disk)
    BY TrackedIs DEF IncludedBy
<1> QED
    BY <1>1, TrackedIs

LEMMA EditLoads ==
    ASSUME NEW disk \in Disks, NEW t \in Tree(disk), NEW file \in Files, NEW nodes \in Seq(Node),
           disk[file].state # "broken", NEW names, names \cap HostNamesOf(t) = {},
           Adds(nodes, disk[file].nodes, names),
           (\E node \in Range(nodes) : node.refused) => Refuses(disk[file])
    PROVE  Tree(WithNodes(disk, file, nodes)) # {}
<1> DEFINE other == WithNodes(disk, file, nodes)
<1>1. /\ other \in Disks /\ other[file].state = "read" /\ other[file].nodes = nodes
      /\ \A f \in Files : f # file => other[f] = disk[f]
      /\ \A f \in Files : other[f].include = disk[f].include
    <2>1. /\ WithNodes(disk, file, nodes) \in Disks
          /\ \A f \in Files : f # file => WithNodes(disk, file, nodes)[f] = disk[f]
          /\ WithNodes(disk, file, nodes)[file].state = "read"
          /\ WithNodes(disk, file, nodes)[file].nodes = nodes
          /\ WithNodes(disk, file, nodes)[file].include = disk[file].include
        BY WrittenIs
    <2> HIDE DEF other
    <2>2. other = WithNodes(disk, file, nodes)
        BY DEF other
    <2> QED
        BY <2>1, <2>2
<1> HIDE DEF other
<1>2. Tracked(disk) \subseteq Known(disk) /\ Known(disk) \subseteq Files
    BY TrackedAre DEF Known
<1>3. /\ Apart(disk, Known(disk)) /\ \A f \in Known(disk) : NamesIn(disk[f].nodes) \subseteq HostNamesOf(t)
      /\ \A f \in Known(disk) : disk[f].state = "missing" \/ Loads(disk[f])
    BY LoadedApart
<1>4. Tracked(other) \subseteq Known(disk)
    BY <1>1, <1>2, SameIncludes
<1>5. ASSUME NEW f \in Known(disk) PROVE other[f].state = "missing" \/ Loads(other[f])
    <2>1. CASE f # file
        BY <1>1, <1>2, <1>3, <2>1
    <2>2. CASE f = file
        <3>1. ~Refuses(disk[file])
            <4>1. CASE disk[file].state = "missing"
                <5>1. disk[file].nodes = <<>>
                    BY <4>1 DEF Disks, Missing
                <5> QED
                    BY <5>1 DEF Refuses, Range
            <4>2. CASE disk[file].state # "missing"
                BY <1>3, <2>2, <4>2 DEF Loads
            <4> QED
                BY <4>1, <4>2
        <3> QED
            BY <1>1, <2>2, <3>1 DEF Loads, Refuses
    <2> QED
        BY <2>1, <2>2
<1>6. CASE file \notin Known(disk)
    <2>1. \A f \in Known(disk) : other[f] = disk[f]
        BY <1>1, <1>2, <1>6
    <2>2. Apart(other, Known(disk))
        BY <1>3, <2>1 DEF Apart
    <2> QED
        BY <1>1, <1>4, <1>5, <2>2, ApartLoads DEF other
<1>7. CASE file \in Known(disk)
    <2>1. Distinct(disk[file].nodes) /\ NamesIn(disk[file].nodes) \subseteq HostNamesOf(t)
        BY <1>3, <1>7 DEF Apart
    <2>2. Distinct(nodes) /\ NamesIn(nodes) \subseteq NamesIn(disk[file].nodes) \cup names
        BY <2>1 DEF Adds
    <2>3. \A f \in Known(disk) : Distinct(other[f].nodes)
        BY <1>1, <1>2, <1>3, <2>2 DEF Apart
    <2>4. ASSUME NEW f \in Known(disk), f # file
          PROVE  NamesIn(other[f].nodes) \cap NamesIn(nodes) = {}
        <3>1. other[f] = disk[f] /\ NamesIn(disk[f].nodes) \cap NamesIn(disk[file].nodes) = {}
              /\ NamesIn(disk[f].nodes) \subseteq HostNamesOf(t)
            BY <1>1, <1>2, <1>3, <1>7, <2>4 DEF Apart
        <3> QED
            BY <2>2, <3>1
    <2>5. ASSUME NEW f \in Known(disk), NEW g \in Known(disk), f # g
          PROVE  NamesIn(other[f].nodes) \cap NamesIn(other[g].nodes) = {}
        <3>1. CASE f = file
            <4>1. NamesIn(other[g].nodes) \cap NamesIn(nodes) = {} /\ other[f].nodes = nodes
                BY <1>1, <2>4, <2>5, <3>1
            <4> QED
                BY <4>1
        <3>2. CASE g = file
            BY <1>1, <2>4, <2>5, <3>2
        <3>3. CASE f # file /\ g # file
            <4>1. other[f] = disk[f] /\ other[g] = disk[g]
                BY <1>1, <1>2, <3>3
            <4> QED
                BY <1>3, <2>5, <4>1 DEF Apart
        <3> QED
            BY <3>1, <3>2, <3>3
    <2>6. Apart(other, Known(disk))
        BY <2>3, <2>5 DEF Apart
    <2> QED
        BY <1>1, <1>4, <1>5, <2>6, ApartLoads DEF other
<1> QED
    BY <1>6, <1>7

LEMMA StepsLoad ==
    ASSUME BrowserInv, FileEdited, InSync PROVE Tree(files') # {} \/ Spoils
<1>1. PICK file \in Files, nodes \in Seq(Node), wrote \in BOOLEAN :
        /\ Readable(file)
        /\ \E names \in SUBSET Fresh : Adds(nodes, files[file].nodes, names)
        /\ files' = IF wrote THEN WithNodes(files, file, nodes) ELSE files
    BY DEF FileEdited
<1>2. PICK names \in SUBSET Fresh : Adds(nodes, files[file].nodes, names)
    BY <1>1
<1>3. names \cap HostNamesOf(tree) = {}
    BY DEF Fresh, HostNamesOf
<1>4. files \in Disks /\ tree \in Tree(files) /\ files[file].state # "broken"
    BY <1>1 DEF BrowserInv, BrowserTyped, InventoryTyped, InSync, Readable
<1>5. CASE ~wrote
    <2>1. files' = files
        BY <1>1, <1>5
    <2> QED
        BY <1>4, <2>1
<1>6. CASE wrote /\ ((\E node \in Range(nodes) : node.refused) => Refuses(files[file]))
    <2>1. Tree(WithNodes(files, file, nodes)) # {}
        BY <1>2, <1>3, <1>4, <1>6, EditLoads
    <2> QED
        BY <1>1, <1>6, <2>1
<1>7. CASE wrote /\ (\E node \in Range(nodes) : node.refused) /\ ~Refuses(files[file])
    <2>1. WithNodes(files, file, nodes)[file].nodes = nodes
        BY <1>4, WrittenIs
    <2>2. files'[file].nodes = nodes
        BY <1>1, <1>7, <2>1
    <2>3. Refuses(files'[file])
        BY <1>7, <2>2 DEF Refuses
    <2> QED
        BY <1>7, <2>3 DEF Spoils
<1> QED
    BY <1>5, <1>6, <1>7

LEMMA StepsNotLost ==
    ASSUME BrowserInv, [BrowserNext]_browserVars, ByManager, InSync
    PROVE  Tree(files') # {} \/ Spoils
<1>0. BrowserTyped /\ commits' # commits
    BY DEF BrowserInv, ByManager
<1>1. ASSUME Steps PROVE Tree(files') # {} \/ Spoils
    <2>1. CASE UNCHANGED inventoryVars
        <3>1. files' = files
            BY <2>1 DEF inventoryVars
        <3> QED
            BY <3>1 DEF InSync
    <2> QED
        BY <1>1, <2>1, StepsLoad DEF Steps
<1>2. CASE UNCHANGED browserVars
    BY <1>0, <1>2 DEF browserVars
<1>3. CASE UNCHANGED dialogsVars
    BY <1>0, <1>3 DEF dialogsVars
<1>8. CASE KeyOnHost \/ KeyOnFolder \/ KeyOnNone \/ MenuAction
    BY <1>0, <1>1, <1>8, KeysStep
<1>9. CASE OpenHostMenu \/ OpenFolderMenu \/ CloseMenu
    BY <1>0, <1>1, <1>9, MenusStep
<1>10. CASE CancelDialog \/ PickParent \/ ParentPicked
    BY <1>0, <1>1, <1>10, PickersStep
<1>11. CASE SubmitMove \/ SubmitRename \/ SubmitCreate \/ ConfirmFolder \/ ConfirmHost
    BY <1>0, <1>1, <1>11, SubmitsStep
<1>12. CASE AskDelete \/ AskFolder \/ FolderPicked \/ CloseEditor
    BY <1>0, <1>1, <1>12, EditorStep
<1>13. CASE \E name \in HostNames, refused \in BOOLEAN : SaveEntry(name, refused)
    BY <1>0, <1>1, <1>13, SaveEntryStep
<1> QED
    BY <1>2, <1>3, <1>8, <1>9, <1>10, <1>11, <1>12, <1>13 DEF BrowserNext

\* An edit that the manager makes while it shows the files as they are makes the next load fail only
\* by putting a folder called "name" or an option that the loader refuses into a document: otherwise
\* host_name_exists (host_editor/input.rs) and inventory/edit.rs refuse each name that
\* inventory/tree.rs would find twice, in whichever of the included files it is.
THEOREM SyncedEditsAreLoaded == BrowserSpec => SyncedEditsLoad
<1>1. (BrowserInv /\ [BrowserNext]_browserVars)
      => [(ByManager /\ InSync) => (Tree(files') # {} \/ Spoils)]_browserVars
    BY StepsNotLost
<1> QED
    BY <1>1, BrowserAlways, PTL DEF BrowserSpec, SyncedEditsLoad
-----------------------------------------------------------------------------
(* HostDialogs: what an edit loses *)

\* The new list has every host of the old one but the ones of these names.
Loses(new, old, lost) == NamesIn(old) \subseteq NamesIn(new) \cup lost

LEMMA LosesTwice ==
    ASSUME NEW a, NEW b, NEW c, NEW lost, Loses(b, a, lost), Loses(c, b, {})
    PROVE  Loses(c, a, lost)
    BY DEF Loses

LEMMA NamesAre ==
    ASSUME NEW nodes
    PROVE  NamesIn(nodes) = {node.name : node \in {node \in Range(nodes) : node.host}}
    BY DEF NamesIn, Range

LEMMA InsertedLoses ==
    ASSUME NEW nodes \in Seq(Node), NEW more \in Seq(Node), NEW last \in 0..Len(nodes)
    PROVE  /\ Loses(Inserted(nodes, last, more), nodes, {})
           /\ NamesIn(more) \subseteq NamesIn(Inserted(nodes, last, more))
<1> DEFINE all == Inserted(nodes, last, more)
<1>1. /\ \A k \in DOMAIN nodes : \E i \in DOMAIN all : all[i] = nodes[k]
      /\ \A k \in DOMAIN more : \E i \in DOMAIN all : all[i] = more[k]
    BY InsertedHolds
<1> HIDE DEF all
<1>2. NamesIn(nodes) \subseteq NamesIn(all) /\ NamesIn(more) \subseteq NamesIn(all)
    BY <1>1 DEF NamesIn
<1> QED
    BY <1>2 DEF all, Loses

LEMMA PushedLoses ==
    ASSUME NEW nodes \in Seq(Node), NEW path \in Seq(Nat), NEW more \in Seq(Node), IsFolder(nodes, path)
    PROVE  /\ Loses(Pushed(nodes, path, more), nodes, {})
           /\ NamesIn(more) \subseteq NamesIn(Pushed(nodes, path, more))
<1>1. PICK last \in 0..Len(nodes) : Pushed(nodes, path, more) = Inserted(nodes, last, more)
    BY PushedIs
<1>2. /\ Loses(Inserted(nodes, last, more), nodes, {})
      /\ NamesIn(more) \subseteq NamesIn(Inserted(nodes, last, more))
    BY InsertedLoses
<1> QED
    BY <1>1, <1>2, Zenon

LEMMA GrowLoses ==
    ASSUME NEW nodes \in Seq(Node), NEW path \in Seq(Nat), NEW k \in 1..Len(path),
           IsFolder(nodes, SubSeq(path, 1, k - 1))
    PROVE  Loses(Grow(nodes, path, k), nodes, {})
<1> DEFINE parent == SubSeq(path, 1, k - 1)
           more == <<FolderNode(parent, path[k])>>
<1>1. parent \in Seq(Nat) /\ path[k] \in Nat
    BY PrefixGrows
<1>2. IsFolder(nodes, parent)
    OBVIOUS
<1>3. Grow(nodes, path, k) \in {nodes, Pushed(nodes, parent, more)}
    BY Zenon DEF Grow
<1> HIDE DEF parent
<1>4. more \in Seq(Node)
    BY <1>1, FolderListIs
<1> HIDE DEF more
<1>5. Loses(Pushed(nodes, parent, more), nodes, {})
    BY <1>1, <1>2, <1>4, PushedLoses
<1>6. Loses(nodes, nodes, {})
    BY DEF Loses
<1> QED
    BY <1>3, <1>5, <1>6, Zenon

LEMMA GrownLoses ==
    ASSUME NEW nodes \in Seq(Node), NEW path \in Seq(Nat), NEW f,
           f[0] = nodes, \A k \in 1..Len(path) : f[k] = Grow(f[k - 1], path, k)
    PROVE  \A k \in 0..Len(path) : Loses(f[k], nodes, {})
<1> DEFINE n == Len(path)
           H == {k \in 0..n : Loses(f[k], nodes, {})}
<1>1. n \in Nat
    BY LenProperties
<1>2. 0 \in H
    <2>1. Loses(f[0], nodes, {}) /\ 0 \in 0..n
        BY <1>1 DEF Loses
    <2> QED
        BY <2>1, Zenon
<1>3. \A k \in 1..n : k - 1 \in H => k \in H
    <2> SUFFICES ASSUME NEW k \in 1..n, k - 1 \in H PROVE k \in H
        OBVIOUS
    <2> DEFINE g == f[k - 1]
    <2>1. k \in 0..n /\ k - 1 \in 0..n /\ Loses(g, nodes, {})
        BY <1>1
    <2>2. g \in Seq(Node) /\ IsFolder(g, SubSeq(path, 1, k - 1))
        BY <2>1, GrownIs
    <2>3. f[k] = Grow(g, path, k)
        OBVIOUS
    <2> HIDE DEF g, H
    <2>4. Loses(f[k], g, {})
        BY <2>2, <2>3, GrowLoses
    <2>5. Loses(f[k], nodes, {})
        BY <2>1, <2>4, LosesTwice
    <2> QED
        BY <2>1, <2>5 DEF H
<1>4. H = 0..n
    <2>1. H \in SUBSET (0..n)
        OBVIOUS
    <2> HIDE DEF H
    <2> QED
        BY <1>1, <1>2, <1>3, <2>1, Holds
<1> QED
    BY <1>4

LEMMA WithFolderLoses ==
    ASSUME NEW nodes \in Seq(Node), NEW path \in Seq(Nat)
    PROVE  Loses(WithFolder(nodes, path), nodes, {})
<1> DEFINE f == CHOOSE g : Grown(g, nodes, path)
           n == Len(path)
<1>1. Grown(f, nodes, path)
    <2>1. \E g : Grown(g, nodes, path)
        BY GrownExists
    <2> QED
        BY <2>1, Zenon
<1>2. WithFolder(nodes, path) = f[n]
    BY Zenon DEF WithFolder, Grown, Grow
<1> HIDE DEF f
<1>3. n \in Nat
    BY LenProperties
<1>4. f[0] = nodes /\ \A k \in 1..n : f[k] = Grow(f[k - 1], path, k)
    <2> HIDE DEF n
    <2>1. f = [k \in 0..n |-> IF k = 0 THEN nodes ELSE Grow(f[k - 1], path, k)]
        BY <1>1, Zenon DEF Grown, n
    <2>2. 0 \in 0..n /\ \A k \in 1..n : k \in 0..n /\ k # 0
        BY <1>3
    <2> QED
        BY <2>1, <2>2
<1>5. n \in 0..n
    BY <1>3
<1>6. Loses(f[n], nodes, {})
    BY <1>4, <1>5, GrownLoses
<1> QED
    BY <1>2, <1>6, Zenon

LEMMA RemovedLoses ==
    ASSUME NEW nodes \in Seq(Node), NEW k \in DOMAIN nodes
    PROVE  Loses(RemoveAt(nodes, k), nodes, {nodes[k].name})
<1> DEFINE n == Len(nodes)
           a == SubSeq(nodes, 1, k - 1)
           b == SubSeq(nodes, k + 1, n)
           new == a \o b
<1>1. n \in Nat /\ DOMAIN nodes = 1..n /\ k \in 1..n
    BY LenProperties
<1>2. a \in Seq(Node) /\ Len(a) = k - 1 /\ \A i \in 1..(k - 1) : a[i] = nodes[i]
    BY <1>1, SubSeqProperties
<1>3. b \in Seq(Node) /\ Len(b) = n - k /\ \A i \in 1..(n - k) : b[i] = nodes[k + i]
    BY <1>1, SubSeqProperties
<1> HIDE DEF a, b, n
<1>4. /\ new \in Seq(Node) /\ Len(new) = Len(a) + Len(b)
      /\ \A i \in 1..(Len(a) + Len(b)) : new[i] = IF i <= Len(a) THEN a[i] ELSE b[i - Len(a)]
    BY <1>2, <1>3, ConcatProperties
<1>5. RemoveAt(nodes, k) = new
    BY Zenon DEF RemoveAt, a, b, n
<1> HIDE DEF new
<1>6. DOMAIN new = 1..(n - 1)
    <2>1. Len(new) = n - 1
        BY <1>1, <1>2, <1>3, <1>4
    <2> QED
        BY <1>4, <2>1, LenProperties
<1>7. ASSUME NEW j \in 1..n, j # k PROVE \E i \in DOMAIN new : new[i] = nodes[j]
    <2>1. CASE j < k
        <3>1. j \in 1..(k - 1) /\ j \in 1..(n - 1)
            BY <1>1, <2>1
        <3>2. new[j] = a[j]
            BY <1>1, <1>2, <1>3, <1>4, <3>1
        <3> QED
            BY <1>2, <1>6, <3>1, <3>2
    <2>2. CASE j > k
        <3>1. j - k \in 1..(n - k) /\ k + (j - k) = j /\ j - 1 \in 1..(n - 1) /\ ~(j - 1 <= k - 1)
              /\ (j - 1) - (k - 1) = j - k
            BY <1>1, <2>2
        <3>2. new[j - 1] = b[j - k]
            <4>1. j - 1 \in 1..(Len(a) + Len(b)) /\ ~(j - 1 <= Len(a)) /\ (j - 1) - Len(a) = j - k
                BY <1>1, <1>2, <1>3, <2>2
            <4> DEFINE i == j - 1
            <4>2. new[i] = b[i - Len(a)]
                <5>1. i \in 1..(Len(a) + Len(b)) /\ ~(i <= Len(a))
                    BY <4>1
                <5> HIDE DEF i
                <5> QED
                    BY <1>4, <5>1
            <4> QED
                BY <4>1, <4>2
        <3>3. b[j - k] = nodes[j]
            BY <1>3, <3>1
        <3> QED
            BY <1>6, <3>1, <3>2, <3>3
    <2> QED
        BY <1>1, <1>7, <2>1, <2>2
<1>8. NamesIn(nodes) \subseteq NamesIn(new) \cup {nodes[k].name}
    <2> SUFFICES ASSUME NEW j \in 1..n, nodes[j].host, j # k PROVE nodes[j].name \in NamesIn(new)
        BY <1>1 DEF NamesIn
    <2>1. PICK i \in DOMAIN new : new[i] = nodes[j]
        BY <1>7
    <2> QED
        BY <2>1 DEF NamesIn
<1> QED
    BY <1>5, <1>8 DEF Loses

LEMMA PartsLose ==
    ASSUME NEW nodes \in Seq(Node), NEW path
    PROVE  /\ Range(Inside(nodes, path)) = {node \in Range(nodes) : Within(node, path)}
           /\ Range(Without(nodes, path)) = {node \in Range(nodes) : ~Within(node, path)}
           /\ Loses(Without(nodes, path), nodes, {node.name : node \in HostsWithin(nodes, path)})
           /\ NamesIn(nodes) \subseteq NamesIn(Inside(nodes, path)) \cup NamesIn(Without(nodes, path))
<1> DEFINE in == {node \in Range(nodes) : Within(node, path)}
           out == {node \in Range(nodes) : ~Within(node, path)}
<1>1. Range(Inside(nodes, path)) = in
    <2>1. Range(Filtered(nodes, in)) = Range(nodes) \cap in
        BY FilteredIs
    <2> QED
        BY <2>1 DEF Inside
<1>2. Range(Without(nodes, path)) = out
    <2>1. Range(Filtered(nodes, out)) = Range(nodes) \cap out
        BY FilteredIs
    <2> QED
        BY <2>1 DEF Without
<1>3. Loses(Without(nodes, path), nodes, {node.name : node \in HostsWithin(nodes, path)})
    <2> SUFFICES ASSUME NEW node \in Range(nodes), node.host,
                        node.name \notin NamesIn(Without(nodes, path))
                 PROVE  node \in HostsWithin(nodes, path)
        BY NamesAre DEF Loses
    <2>1. Within(node, path)
        BY <1>2, NamesAre
    <2> QED
        BY <2>1 DEF Within, HostsWithin
<1>4. NamesIn(nodes) \subseteq NamesIn(Inside(nodes, path)) \cup NamesIn(Without(nodes, path))
    BY <1>1, <1>2, NamesAre
<1> QED
    BY <1>1, <1>2, <1>3, <1>4

LEMMA UpdateHostLoses ==
    ASSUME NEW nodes \in Seq(Node), NEW name, NEW new \in Nat, NEW refused \in BOOLEAN,
           NEW saved \in UpdateHost(nodes, name, new, refused)
    PROVE  Loses(saved, nodes, {name})
<1>1. PICK k \in Named(nodes, name) :
          saved = [nodes EXCEPT ![k].name = new, ![k].refused = refused]
    BY DEF UpdateHost
<1>2. k \in DOMAIN nodes /\ nodes[k].host /\ nodes[k].name = name
    BY NamedIs
<1> DEFINE node == [nodes[k] EXCEPT !.name = new, !.refused = refused]
           other == [nodes EXCEPT ![k] = node]
<1>3. saved = other
    BY <1>1, <1>2
<1> HIDE DEF node
<1>4. DOMAIN other = DOMAIN nodes /\ \A i \in DOMAIN nodes : i # k => other[i] = nodes[i]
    OBVIOUS
<1> HIDE DEF other
<1> QED
    BY <1>2, <1>3, <1>4 DEF Loses, NamesIn

LEMMA DeleteHostLoses ==
    ASSUME NEW nodes \in Seq(Node), NEW name, NEW saved \in DeleteHost(nodes, name)
    PROVE  Loses(saved, nodes, {name})
<1>1. PICK k \in Named(nodes, name) : saved = RemoveAt(nodes, k)
    BY DEF DeleteHost
<1>2. k \in DOMAIN nodes /\ nodes[k].name = name
    BY NamedIs
<1>3. Loses(RemoveAt(nodes, k), nodes, {nodes[k].name})
    BY <1>2, RemovedLoses
<1> QED
    BY <1>1, <1>2, <1>3

\* A folder is made where it was not, and a node put into it.
LEMMA PutLoses ==
    ASSUME NEW nodes \in Seq(Node), NEW path \in Seq(Nat), NEW node \in Node,
           NEW saved, saved = Pushed(WithFolder(nodes, path), path, <<node>>)
    PROVE  Loses(saved, nodes, {}) /\ (node.host => node.name \in NamesIn(saved))
<1> DEFINE grown == WithFolder(nodes, path)
           more == <<node>>
<1>1. grown \in Seq(Node) /\ IsFolder(grown, path) /\ Loses(grown, nodes, {})
    BY WithFolderIs, WithFolderLoses
<1>2. more \in Seq(Node) /\ (node.host => node.name \in NamesIn(more))
    <2>1. more \in Seq(Node) /\ DOMAIN more = {1} /\ more[1] = node
        OBVIOUS
    <2> HIDE DEF more
    <2> QED
        BY <2>1 DEF NamesIn
<1>3. saved = Pushed(grown, path, more)
    OBVIOUS
<1> HIDE DEF grown, more
<1>4. Loses(saved, grown, {}) /\ NamesIn(more) \subseteq NamesIn(saved)
    BY <1>1, <1>2, <1>3, PushedLoses
<1> QED
    BY <1>1, <1>2, <1>4, LosesTwice

LEMMA CreateHostLoses ==
    ASSUME NEW nodes \in Seq(Node), NEW path \in Seq(Nat), NEW name \in Nat, NEW refused \in BOOLEAN,
           NEW saved \in CreateHost(nodes, path, name, refused)
    PROVE  Loses(saved, nodes, {})
<1>1. saved = Pushed(WithFolder(nodes, path), path, <<HostNode(path, name, refused)>>)
    BY DEF CreateHost
<1> QED
    BY <1>1, NewNodes, PutLoses

LEMMA CreateFolderLoses ==
    ASSUME NEW nodes \in Seq(Node), NEW path \in Seq(Nat), NEW name \in Nat,
           NEW saved \in CreateFolder(nodes, path, name)
    PROVE  Loses(saved, nodes, {})
<1>1. saved = Pushed(WithFolder(nodes, path), path, <<FolderNode(path, name)>>)
    BY DEF CreateFolder
<1> QED
    BY <1>1, NewNodes, PutLoses

\* The entry that is taken out is put in again.
LEMMA MoveHostLoses ==
    ASSUME NEW nodes \in Seq(Node), NEW path \in Seq(Nat), NEW name \in Nat,
           NEW saved \in MoveHost(nodes, name, path)
    PROVE  Loses(saved, nodes, {})
<1>1. PICK k \in Named(nodes, name) :
          saved = IF nodes[k].at = path THEN nodes
                  ELSE Pushed(WithFolder(RemoveAt(nodes, k), path), path, <<[nodes[k] EXCEPT !.at = path]>>)
    BY DEF MoveHost
<1>2. k \in DOMAIN nodes /\ nodes[k].host /\ nodes[k].name = name
    BY NamedIs
<1> DEFINE left == RemoveAt(nodes, k)
           node == [nodes[k] EXCEPT !.at = path]
<1>3. left \in Seq(Node) /\ Loses(left, nodes, {name})
    BY <1>2, RemovedIs, RemovedLoses
<1>4. CASE nodes[k].at = path
    BY <1>1, <1>4 DEF Loses
<1>5. CASE nodes[k].at # path
    <2>1. saved = Pushed(WithFolder(left, path), path, <<node>>)
        BY <1>1, <1>5
    <2>2. node \in Node /\ node.host /\ node.name = name
        <3>1. nodes[k] \in Node
            BY <1>2, LenProperties
        <3> QED
            BY <1>2, <3>1 DEF Node
    <2> HIDE DEF left, node
    <2>3. Loses(saved, left, {}) /\ name \in NamesIn(saved)
        BY <1>3, <2>1, <2>2, PutLoses
    <2> QED
        BY <1>3, <2>3 DEF Loses
<1> QED
    BY <1>4, <1>5

LEMMA DeleteFolderLoses ==
    ASSUME NEW nodes \in Seq(Node), NEW path, NEW saved \in DeleteFolder(nodes, path)
    PROVE  Loses(saved, nodes, {node.name : node \in HostsWithin(nodes, path)})
<1>1. saved = Without(nodes, path)
    BY DEF DeleteFolder
<1> QED
    BY <1>1, PartsLose

\* A host lies in the folder, so its own path is longer than the folder's.
LEMMA HostIsNoFolder ==
    ASSUME NEW path \in Seq(Nat), NEW node \in Node, node.host, Within(node, path)
    PROVE  PathOf(node) # path
<1>1. node.at \in Seq(Nat) /\ node.name \in Nat
    BY DEF Node
<1>2. Len(path) <= Len(node.at) /\ Len(node.at) \in Nat
    BY <1>1, LenProperties DEF Within, IsPrefix
<1>3. Len(PathOf(node)) = Len(node.at) + 1
    BY <1>1, AppendProperties DEF PathOf
<1> QED
    BY <1>2, <1>3

LEMMA RelocateFolderLoses ==
    ASSUME NEW nodes \in Seq(Node), NEW path \in Seq(Nat), NEW parent \in Seq(Nat), NEW name \in Nat,
           NEW saved \in RelocateFolder(nodes, path, parent, name)
    PROVE  Loses(saved, nodes, {})
<1> DEFINE new == Append(parent, name)
           Relocated(node) == IF PathOf(node) = path THEN FolderNode(parent, name)
                              ELSE [node EXCEPT !.at = new \o SubSeq(@, Len(path) + 1, Len(@))]
           inside == Inside(nodes, path)
           without == Without(nodes, path)
           grown == WithFolder(without, parent)
           Refused == \/ IsPrefix(path, parent) \/ Hidden(parent)
                      \/ ~FindsFolder(nodes, path) \/ FindsFolder(grown, new)
           moved == [k \in DOMAIN inside |-> Relocated(inside[k])]
<1>1. CASE path = new
    <2>1. saved = nodes
        BY <1>1, Zenon DEF RelocateFolder
    <2> QED
        BY <2>1 DEF Loses
<1>2. CASE path # new
    <2>1. saved = Pushed(grown, parent, moved)
        <3>1. CASE Refused
            BY <1>2, <3>1, Zenon DEF RelocateFolder
        <3>2. CASE ~Refused
            BY <1>2, <3>2, Zenon DEF RelocateFolder
        <3> QED
            BY <3>1, <3>2, Zenon
    <2>2. /\ inside \in Seq(Node) /\ without \in Seq(Node)
          /\ \A k \in DOMAIN inside : Within(inside[k], path)
          /\ NamesIn(nodes) \subseteq NamesIn(inside) \cup NamesIn(without)
        BY PartOfIs, PartsLose
    <2> HIDE DEF inside, without
    <2>3. grown \in Seq(Node) /\ IsFolder(grown, parent) /\ Loses(grown, without, {})
        BY <2>2, WithFolderIs, WithFolderLoses
    <2> HIDE DEF grown
    <2>4. new \in Seq(Nat)
        BY LongerPath
    <2> HIDE DEF new
    <2>5. ASSUME NEW node \in Node, Within(node, path)
          PROVE  /\ Relocated(node) \in Node
                 /\ node.host => Relocated(node).host /\ Relocated(node).name = node.name
        <3>1. CASE PathOf(node) = path
            BY <2>5, <3>1, NewNodes, HostIsNoFolder
        <3>2. CASE PathOf(node) # path
            <4> DEFINE at == new \o SubSeq(node.at, Len(path) + 1, Len(node.at))
            <4>1. node.at \in Seq(Nat)
                BY NodePath
            <4>2. IsPrefix(path, node.at)
                BY <2>5, <3>2 DEF Within
            <4>3. at \in Seq(Nat)
                BY <2>4, <4>1, <4>2, JoinedPath
            <4>4. Relocated(node) = [node EXCEPT !.at = at]
                BY <3>2, Zenon
            <4> HIDE DEF at, Relocated
            <4> QED
                BY <4>3, <4>4 DEF Node
        <3> QED
            BY <3>1, <3>2
    <2> HIDE DEF Relocated
    <2>6. DOMAIN inside = 1..Len(inside) /\ Len(inside) \in Nat /\ \A k \in DOMAIN inside : inside[k] \in Node
        BY <2>2, LenProperties
    <2>7. /\ DOMAIN moved = DOMAIN inside
          /\ \A k \in DOMAIN inside : /\ moved[k] \in Node
                                      /\ inside[k].host => moved[k].host /\ moved[k].name = inside[k].name
        BY <2>2, <2>5, <2>6
    <2>8. moved \in Seq(Node)
        <3>1. moved \in [1..Len(inside) -> Node]
            BY <2>6, <2>7
        <3> QED
            BY <2>6, <3>1, SeqDef
    <2> HIDE DEF moved
    <2>9. NamesIn(inside) \subseteq NamesIn(moved)
        BY <2>7 DEF NamesIn
    <2>10. Loses(saved, grown, {}) /\ NamesIn(moved) \subseteq NamesIn(saved)
        BY <2>1, <2>3, <2>8, PushedLoses
    <2> QED
        BY <2>2, <2>3, <2>9, <2>10 DEF Loses
<1> QED
    BY <1>1, <1>2

-----------------------------------------------------------------------------
LEMMA HeldIs ==
    ASSUME NEW disk
    PROVE  Held(disk) = UNION {{<<f, name>> : name \in NamesIn(disk[f].nodes)} : f \in Files}
<1> DEFINE Of(f) == {<<f, disk[f].nodes[k].name>> :
                         k \in {k \in DOMAIN disk[f].nodes : disk[f].nodes[k].host}}
           As(f) == {<<f, name>> : name \in NamesIn(disk[f].nodes)}
<1>1. \A f \in Files : Of(f) = As(f)
    BY DEF NamesIn
<1>2. Held(disk) = UNION {Of(f) : f \in Files}
    BY Zenon DEF Held
<1> HIDE DEF Of, As
<1>3. {Of(f) : f \in Files} = {As(f) : f \in Files}
    BY <1>1
<1> QED
    BY <1>2, <1>3, Zenon DEF As

\* Of a file that was written, the names it lost; of the others, nothing.
LEMMA CommittedLoses ==
    ASSUME BrowserTyped, NEW file \in Files, NEW nodes \in Seq(Node), NEW wrote \in BOOLEAN,
           NEW lost,
           Readable(file), files' = (IF wrote THEN WithNodes(files, file, nodes) ELSE files),
           Loses(nodes, files[file].nodes, lost)
    PROVE  Held(files) \ Held(files') \subseteq {<<file, name>> : name \in lost}
<1>1. files \in Disks
    BY DEF BrowserTyped, InventoryTyped
<1>2. CASE ~wrote
    <2>1. files' = files
        BY <1>2
    <2>2. Held(files') = Held(files)
        BY <2>1
    <2> QED
        BY <2>2
<1>3. CASE wrote
    <2> DEFINE other == WithNodes(files, file, nodes)
    <2>1. other[file].nodes = nodes /\ \A f \in Files : f # file => other[f] = files[f]
        <3>1. files[file].state # "broken"
            BY DEF Readable
        <3> QED
            BY <1>1, <3>1, WrittenIs
    <2>2. files' = other
        BY <1>3
    <2> HIDE DEF other
    <2>3. Held(files') = UNION {{<<f, name>> : name \in NamesIn(other[f].nodes)} : f \in Files}
        BY <2>2, HeldIs
    <2>4. Held(files) = UNION {{<<f, name>> : name \in NamesIn(files[f].nodes)} : f \in Files}
        BY HeldIs
    <2> SUFFICES ASSUME NEW f \in Files, NEW name \in NamesIn(files[f].nodes),
                        name \notin NamesIn(other[f].nodes)
                 PROVE  <<f, name>> \in {<<file, n>> : n \in lost}
        BY <2>3, <2>4
    <2>5. f = file
        BY <2>1
    <2>6. name \in lost
        BY <2>1, <2>5 DEF Loses
    <2> QED
        BY <2>5, <2>6
<1> QED
    BY <1>2, <1>3

Meaning(d) ==
    CASE d.kind = "deleteHost" -> {d.name}
      [] d.kind = "deleteFolder" -> {node.name : node \in HostsWithin(files[d.file].nodes, d.path)}
      [] OTHER -> {}

MeantBy(d) ==
    CASE d.kind = "deleteHost" -> {<<d.file, d.name>>}
      [] d.kind = "deleteFolder" ->
           {<<d.file, node.name>> : node \in HostsWithin(files[d.file].nodes, d.path)}
      [] OTHER -> {}

LEMMA MeantIs ==
    /\ \A d \in dialog : \A name \in Meaning(d) : <<d.file, name>> \in Meant
    /\ dialog = {} => \A e \in editor : e.mode = "edit" => <<e.file, e.name>> \in Meant
<1>1. Meant = Renamed \cup UNION {MeantBy(d) : d \in dialog}
    BY Zenon DEF Meant, MeantBy
<1>2. ASSUME NEW d \in dialog, NEW name \in Meaning(d) PROVE <<d.file, name>> \in Meant
    <2>1. <<d.file, name>> \in MeantBy(d)
        <3>1. CASE d.kind = "deleteHost"
            BY <1>2, <3>1 DEF Meaning, MeantBy
        <3>2. CASE d.kind = "deleteFolder"
            <4> DEFINE there == HostsWithin(files[d.file].nodes, d.path)
            <4>1. MeantBy(d) = {<<d.file, node.name>> : node \in there}
                BY <3>2 DEF MeantBy
            <4>2. Meaning(d) = {node.name : node \in there}
                BY <3>2 DEF Meaning
            <4> HIDE DEF there
            <4> QED
                BY <1>2, <4>1, <4>2
        <3>3. CASE d.kind \notin {"deleteHost", "deleteFolder"}
            BY <1>2, <3>3 DEF Meaning
        <3> QED
            BY <3>1, <3>2, <3>3
    <2> QED
        BY <1>1, <2>1
<1>3. ASSUME dialog = {}, NEW e \in editor, e.mode = "edit" PROVE <<e.file, e.name>> \in Meant
    <2> DEFINE edited == {x \in editor : dialog = {} /\ x.mode = "edit"}
    <2>1. Renamed = {<<x.file, x.name>> : x \in edited}
        BY Zenon DEF Renamed
    <2>2. e \in edited
        BY <1>3
    <2> HIDE DEF edited
    <2>3. <<e.file, e.name>> \in Renamed
        BY <2>1, <2>2
    <2> QED
        BY <1>1, <2>3
<1> QED
    BY <1>2, <1>3

LEMMA EditsLose ==
    ASSUME BrowserTyped, NEW d \in dialog, NEW results, NEW wrote \in BOOLEAN,
           \A nodes \in results : /\ nodes \in Seq(Node)
                                 /\ Loses(nodes, files[d.file].nodes, Meaning(d)),
           NEW ACTION failed, NEW ACTION loaded, NEW ACTION unloaded,
           Edits(d, results, wrote, failed, loaded, unloaded)
    PROVE  Held(files) \ Held(files') \subseteq Meant
<1>1. CASE ~(Readable(d.file) /\ results # {})
    <2>1. files' = files
        BY <1>1 DEF Edits, inventoryVars
    <2>2. Held(files') = Held(files)
        BY <2>1
    <2> QED
        BY <2>2
<1>2. CASE Readable(d.file) /\ results # {}
    <2>1. PICK nodes \in results : Commit(d.file, nodes, wrote, loaded, unloaded)
        BY <1>2 DEF Edits
    <2>2. files' = (IF wrote THEN WithNodes(files, d.file, nodes) ELSE files)
        BY <2>1, Zenon DEF Commit, WithNodes
    <2>3. d.file \in Files /\ nodes \in Seq(Node) /\ Loses(nodes, files[d.file].nodes, Meaning(d))
        BY RowsOf
    <2>4. Held(files) \ Held(files') \subseteq {<<d.file, name>> : name \in Meaning(d)}
        BY <1>2, <2>2, <2>3, CommittedLoses
    <2> QED
        BY <2>4, MeantIs
<1> QED
    BY <1>1, <1>2

LEMMA LosesNone ==
    ASSUME NEW new, NEW old, NEW lost, Loses(new, old, {}) PROVE Loses(new, old, lost)
    BY DEF Loses

LEMMA SubmitsLose ==
    ASSUME BrowserTyped, SubmitMove \/ SubmitRename \/ SubmitCreate \/ ConfirmFolder \/ ConfirmHost
    PROVE  Held(files) \ Held(files') \subseteq Meant
<1>0. \A name \in FolderNames : name \in Nat
    BY NamesAssumption
<1>1. CASE SubmitMove
    <2>1. PICK d \in dialog : \E p \in d.rows :
              LET gone == dialog' = {} /\ UNCHANGED editor
                  nodes == files[d.file].nodes
              IN  Edits(d, MoveHost(nodes, d.name, p), MoveHost(nodes, d.name, p) # {nodes},
                        gone, gone, gone)
        BY <1>1 DEF SubmitMove
    <2>2. PICK p \in d.rows :
              LET gone == dialog' = {} /\ UNCHANGED editor
                  nodes == files[d.file].nodes
              IN  Edits(d, MoveHost(nodes, d.name, p), MoveHost(nodes, d.name, p) # {nodes},
                        gone, gone, gone)
        BY <2>1
    <2> DEFINE results == MoveHost(files[d.file].nodes, d.name, p)
               wrote == results # {files[d.file].nodes}
               gone == dialog' = {} /\ UNCHANGED editor
    <2>3. \A nodes \in results : nodes \in Seq(Node) /\ Loses(nodes, files[d.file].nodes, Meaning(d))
        BY MoveHostIs, MoveHostLoses, LosesNone, NodesAre, RowsOf
    <2>4. wrote \in BOOLEAN /\ Edits(d, results, wrote, gone, gone, gone)
        BY <2>2
    <2> HIDE DEF results, wrote, gone
    <2> QED
        BY <2>3, <2>4, EditsLose
<1>2. CASE SubmitRename
    <2>1. PICK d \in dialog : \E name \in FolderNames :
              LET gone == dialog' = {} /\ UNCHANGED editor
              IN  Edits(d, RelocateFolder(files[d.file].nodes, d.path, d.parent, name),
                        d.path # Append(d.parent, name), UNCHANGED <<dialog, editor>>, gone, gone)
        BY <1>2 DEF SubmitRename
    <2>2. PICK name \in FolderNames :
              LET gone == dialog' = {} /\ UNCHANGED editor
              IN  Edits(d, RelocateFolder(files[d.file].nodes, d.path, d.parent, name),
                        d.path # Append(d.parent, name), UNCHANGED <<dialog, editor>>, gone, gone)
        BY <2>1
    <2> DEFINE results == RelocateFolder(files[d.file].nodes, d.path, d.parent, name)
               wrote == d.path # Append(d.parent, name)
               stays == UNCHANGED <<dialog, editor>>
               gone == dialog' = {} /\ UNCHANGED editor
    <2>3. \A nodes \in results : nodes \in Seq(Node) /\ Loses(nodes, files[d.file].nodes, Meaning(d))
        BY <1>0, RelocateFolderIs, RelocateFolderLoses, LosesNone, NodesAre, RowsOf
    <2>4. wrote \in BOOLEAN /\ Edits(d, results, wrote, stays, gone, gone)
        BY <2>2
    <2> HIDE DEF results, wrote, gone, stays
    <2> QED
        BY <2>3, <2>4, EditsLose
<1>3. CASE SubmitCreate
    <2>1. PICK d \in dialog : \E name \in FolderNames :
              LET gone == dialog' = {} /\ UNCHANGED editor
              IN  Edits(d, CreateFolder(files[d.file].nodes, d.parent, name), TRUE,
                        UNCHANGED <<dialog, editor>>, gone, gone)
        BY <1>3 DEF SubmitCreate
    <2>2. PICK name \in FolderNames :
              LET gone == dialog' = {} /\ UNCHANGED editor
              IN  Edits(d, CreateFolder(files[d.file].nodes, d.parent, name), TRUE,
                        UNCHANGED <<dialog, editor>>, gone, gone)
        BY <2>1
    <2> DEFINE results == CreateFolder(files[d.file].nodes, d.parent, name)
               stays == UNCHANGED <<dialog, editor>>
               gone == dialog' = {} /\ UNCHANGED editor
    <2>3. \A nodes \in results : nodes \in Seq(Node) /\ Loses(nodes, files[d.file].nodes, Meaning(d))
        BY <1>0, CreateFolderIs, CreateFolderLoses, LosesNone, NodesAre, RowsOf
    <2>4. Edits(d, results, TRUE, stays, gone, gone)
        BY <2>2
    <2> HIDE DEF results, gone, stays
    <2> QED
        BY <2>3, <2>4, EditsLose
<1>4. CASE ConfirmFolder
    <2>1. PICK d \in dialog :
              LET gone == dialog' = {} /\ UNCHANGED editor
              IN  /\ d.kind = "deleteFolder"
                  /\ Edits(d, DeleteFolder(files[d.file].nodes, d.path), TRUE, gone, gone, gone)
        BY <1>4 DEF ConfirmFolder
    <2> DEFINE results == DeleteFolder(files[d.file].nodes, d.path)
               gone == dialog' = {} /\ UNCHANGED editor
    <2>2. Meaning(d) = {node.name : node \in HostsWithin(files[d.file].nodes, d.path)}
        BY <2>1 DEF Meaning
    <2>3. \A nodes \in results : nodes \in Seq(Node) /\ Loses(nodes, files[d.file].nodes, Meaning(d))
        BY <2>2, DeleteFolderIs, DeleteFolderLoses, NodesAre, RowsOf
    <2>4. Edits(d, results, TRUE, gone, gone, gone)
        BY <2>1
    <2> HIDE DEF results, gone
    <2> QED
        BY <2>3, <2>4, EditsLose
<1>5. CASE ConfirmHost
    <2>1. PICK d \in dialog :
              LET gone == dialog' = {} /\ UNCHANGED editor
              IN  /\ d.kind = "deleteHost"
                  /\ Edits(d, DeleteHost(files[d.file].nodes, d.name), TRUE, gone,
                           dialog' = {} /\ editor' = (IF d.fromEditor THEN {} ELSE editor), gone)
        BY <1>5 DEF ConfirmHost
    <2> DEFINE results == DeleteHost(files[d.file].nodes, d.name)
               gone == dialog' = {} /\ UNCHANGED editor
               done == dialog' = {} /\ editor' = (IF d.fromEditor THEN {} ELSE editor)
    <2>2. Meaning(d) = {d.name}
        BY <2>1 DEF Meaning
    <2>3. \A nodes \in results : nodes \in Seq(Node) /\ Loses(nodes, files[d.file].nodes, Meaning(d))
        BY <2>2, DeleteHostIs, DeleteHostLoses, NodesAre, RowsOf
    <2>4. Edits(d, results, TRUE, gone, done, gone)
        BY <2>1
    <2> HIDE DEF results, gone, done
    <2> QED
        BY <2>3, <2>4, EditsLose
<1> QED
    BY <1>1, <1>2, <1>3, <1>4, <1>5

LEMMA SaveEntryLoses ==
    ASSUME BrowserTyped, NEW name \in HostNames, NEW refused \in BOOLEAN, SaveEntry(name, refused)
    PROVE  Held(files) \ Held(files') \subseteq Meant
<1>1. PICK e \in editor :
          LET nodes == files[e.file].nodes
              results == IF e.mode = "edit" THEN UpdateHost(nodes, e.name, name, refused)
                         ELSE CreateHost(nodes, e.folder, name, refused)
          IN  IF ~NameExists(e, name) /\ Readable(e.file) /\ results # {}
              THEN /\ commits' = commits + 1
                   /\ \E saved \in results :
                         Commit(e.file, saved, TRUE, editor' = {}, UNCHANGED editor)
              ELSE UNCHANGED <<editor, commits, inventoryVars>>
    BY DEF SaveEntry
<1> DEFINE nodes == files[e.file].nodes
           results == IF e.mode = "edit" THEN UpdateHost(nodes, e.name, name, refused)
                      ELSE CreateHost(nodes, e.folder, name, refused)
           goes == ~NameExists(e, name) /\ Readable(e.file) /\ results # {}
           lost == IF e.mode = "edit" THEN {e.name} ELSE {}
<1>2. CASE ~goes
    <2>1. files' = files
        BY <1>1, <1>2 DEF inventoryVars
    <2>2. Held(files') = Held(files)
        BY <2>1
    <2> QED
        BY <2>2
<1>3. CASE goes
    <2>1. PICK saved \in results : Commit(e.file, saved, TRUE, editor' = {}, UNCHANGED editor)
        BY <1>1, <1>3
    <2>2. files' = (IF TRUE THEN WithNodes(files, e.file, saved) ELSE files)
        BY <2>1, Zenon DEF Commit, WithNodes
    <2>3. e.file \in Files /\ e.folder \in Seq(Nat) /\ nodes \in Seq(Node) /\ name \in Nat
        BY FormsOf, NodesAre, NamesAssumption
    <2>4. saved \in Seq(Node) /\ Loses(saved, nodes, lost)
        <3> HIDE DEF nodes
        <3>1. CASE e.mode = "edit"
            BY <2>3, <3>1, UpdateHostIs, UpdateHostLoses
        <3>2. CASE e.mode # "edit"
            BY <2>3, <3>2, CreateHostIs, CreateHostLoses
        <3> QED
            BY <3>1, <3>2
    <2>5. Readable(e.file) /\ Loses(saved, files[e.file].nodes, lost)
        BY <1>3, <2>4
    <2> HIDE DEF nodes, results, goes, lost
    <2>6. Held(files) \ Held(files') \subseteq {<<e.file, n>> : n \in lost}
        BY <2>2, <2>3, <2>4, <2>5, CommittedLoses
    <2>7. dialog = {}
        BY DEF SaveEntry, Browsing
    <2> QED
        BY <2>6, <2>7, MeantIs DEF lost
<1> QED
    BY <1>2, <1>3

\* What is done to menus, dialogs and forms before an edit leaves the files alone.
LEMMA OthersStay ==
    ASSUME \/ KeyOnHost \/ KeyOnFolder \/ KeyOnNone \/ MenuAction
           \/ OpenHostMenu \/ OpenFolderMenu \/ CloseMenu
           \/ CancelDialog \/ PickParent \/ ParentPicked
           \/ AskDelete \/ AskFolder \/ FolderPicked \/ CloseEditor
    PROVE  files' = files
<1>1. ASSUME UNCHANGED inventoryVars PROVE files' = files
    BY <1>1 DEF inventoryVars
<1>2. ASSUME NEW d, Opens(d) PROVE files' = files
    BY <1>1, <1>2 DEF Opens
<1>3. ASSUME NEW made, OpensEditor(made) PROVE files' = files
    BY <1>1, <1>3 DEF OpensEditor
<1>4. ASSUME Nothing PROVE files' = files
    BY <1>1, <1>4 DEF Nothing
<1>5. ASSUME NEW d, NEW next, Leaves(d, next) PROVE files' = files
    BY <1>1, <1>5 DEF Leaves
<1>6. ASSUME NEW h, HostDo(h) PROVE files' = files
    BY <1>2, <1>3, <1>6, Zenon DEF HostDo
<1>7. ASSUME NEW file, NEW id, FolderDo(file, id) PROVE files' = files
    BY <1>2, <1>3, <1>4, <1>7, Zenon DEF FolderDo
<1>8. CASE KeyOnHost \/ KeyOnFolder \/ KeyOnNone \/ MenuAction
    BY <1>2, <1>3, <1>4, <1>6, <1>7, <1>8, Zenon DEF KeyOnHost, KeyOnFolder, KeyOnNone, MenuAction
<1>9. CASE OpenHostMenu \/ OpenFolderMenu \/ CloseMenu
    BY <1>4, <1>9, Zenon DEF OpenHostMenu, OpenFolderMenu, CloseMenu
<1>10. CASE CancelDialog \/ PickParent \/ ParentPicked
    BY <1>5, <1>10, Zenon DEF CancelDialog, PickParent, ParentPicked
<1>11. CASE AskDelete \/ AskFolder \/ FolderPicked \/ CloseEditor
    BY <1>1, <1>2, <1>11, Zenon DEF AskDelete, AskFolder, FolderPicked, CloseEditor
<1> QED
    BY <1>8, <1>9, <1>10, <1>11

LEMMA StepsKeepTheRest ==
    ASSUME BrowserInv, [BrowserNext]_browserVars, ByManager
    PROVE  Held(files) \ Held(files') \subseteq Meant
<1>0. BrowserTyped
    BY DEF BrowserInv
<1>1. commits' # commits
    BY DEF ByManager
<1>2. CASE UNCHANGED browserVars
    BY <1>1, <1>2 DEF browserVars
<1>3. CASE UNCHANGED dialogsVars
    BY <1>1, <1>3 DEF dialogsVars
<1>5. CASE \/ KeyOnHost \/ KeyOnFolder \/ KeyOnNone \/ MenuAction
           \/ OpenHostMenu \/ OpenFolderMenu \/ CloseMenu
           \/ CancelDialog \/ PickParent \/ ParentPicked
           \/ AskDelete \/ AskFolder \/ FolderPicked \/ CloseEditor
    <2>1. Held(files') = Held(files)
        BY <1>5, OthersStay
    <2> QED
        BY <2>1
<1>6. CASE SubmitMove \/ SubmitRename \/ SubmitCreate \/ ConfirmFolder \/ ConfirmHost
    BY <1>0, <1>6, SubmitsLose
<1>7. CASE \E name \in HostNames, refused \in BOOLEAN : SaveEntry(name, refused)
    BY <1>0, <1>7, SaveEntryLoses
<1> QED
    BY <1>2, <1>3, <1>5, <1>6, <1>7 DEF BrowserNext

\* Whatever a dialog or a form was opened on and whatever others saved before the edit reads the
\* document, it takes from what it reads no entry but the one it names or the ones in the folder it
\* names: what inventory/edit.rs takes out it puts in again, and all else stays, in files of any
\* content. A save by another between the reading and the renaming is lost, and not spoken of here.
THEOREM EditsAlwaysKeepTheRest == BrowserSpec => EditsKeepTheRest
<1>1. (BrowserInv /\ [BrowserNext]_browserVars)
      => [ByManager => Held(files) \ Held(files') \subseteq Meant]_browserVars
    BY StepsKeepTheRest
<1> QED
    BY <1>1, BrowserAlways, PTL DEF BrowserSpec, EditsKeepTheRest
=============================================================================
