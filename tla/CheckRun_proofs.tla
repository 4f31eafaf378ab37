---------------------------- MODULE CheckRun_proofs ----------------------------
(***************************************************************************)
(* What a report of the engine's checks says, for any building and any      *)
(* clauses.                                                                *)
(***************************************************************************)
EXTENDS CheckRun, FiniteSetTheorems, WellFoundedInduction, TLAPS

(***************************************************************************)
(* Lists, and the lists that loops make.                                   *)
(***************************************************************************)
LEMMA ListShape ==
  ASSUME NEW s, IsList(s)
  PROVE  /\ Len(s) \in Nat /\ DOMAIN s = 1 .. Len(s)
         /\ s = [i \in 1 .. Len(s) |-> s[i]]
         /\ \A i \in DOMAIN s : s[i] \in ToSet(s)
BY DEF IsList, ToSet

LEMMA MakesList ==
  ASSUME NEW n \in Nat, NEW s, s = [i \in 1 .. n |-> s[i]]
  PROVE  IsList(s) /\ Len(s) = n /\ DOMAIN s = 1 .. n
<1>1. DOMAIN s = 1 .. n
  OBVIOUS
<1>2. \A i \in 1 .. n : s[i] \in ToSet(s)
  BY <1>1 DEF ToSet
<1>3. s \in Seq(ToSet(s)) /\ Len(s) = n
  BY <1>2
<1> QED BY <1>1, <1>3 DEF IsList

LEMMA ListsJoin ==
  ASSUME NEW s, IsList(s), NEW t, IsList(t)
  PROVE  /\ IsList(s \o t) /\ ToSet(s \o t) = ToSet(s) \cup ToSet(t)
         /\ Len(s \o t) = Len(s) + Len(t)
         /\ \A i \in 1 .. Len(s) : (s \o t)[i] = s[i]
         /\ \A i \in 1 .. Len(t) : (s \o t)[Len(s) + i] = t[i]
<1> DEFINE T == ToSet(s) \cup ToSet(t)
<1>1. s \in Seq(T) /\ t \in Seq(T)
  <2>1. /\ \A i \in 1 .. Len(s) : s[i] \in T
        /\ \A i \in 1 .. Len(t) : t[i] \in T
    BY ListShape
  <2>2. /\ s = [i \in 1 .. Len(s) |-> s[i]] /\ Len(s) \in Nat
        /\ t = [i \in 1 .. Len(t) |-> t[i]] /\ Len(t) \in Nat
    BY ListShape
  <2> HIDE DEF T
  <2> QED BY <2>1, <2>2
<1> HIDE DEF T
<1>2. /\ s \o t \in Seq(T) /\ Len(s \o t) = Len(s) + Len(t)
      /\ Len(s) \in Nat /\ Len(t) \in Nat
      /\ DOMAIN s = 1 .. Len(s) /\ DOMAIN t = 1 .. Len(t)
      /\ DOMAIN (s \o t) = 1 .. (Len(s) + Len(t))
  BY <1>1
<1>3. \A i \in 1 .. Len(s) : (s \o t)[i] = s[i]
  BY <1>1
<1>4. \A i \in 1 .. Len(t) : (s \o t)[Len(s) + i] = t[i]
  BY <1>1
<1>5. \A i \in DOMAIN (s \o t) : (s \o t)[i] \in ToSet(s) \cup ToSet(t)
  <2> SUFFICES ASSUME NEW i \in 1 .. (Len(s) + Len(t))
               PROVE  (s \o t)[i] \in ToSet(s) \cup ToSet(t)
      BY <1>2
  <2>1. CASE i <= Len(s)
    BY <1>2, <1>3, <2>1 DEF ToSet
  <2>2. CASE ~(i <= Len(s))
    <3>1. i - Len(s) \in 1 .. Len(t) /\ i = Len(s) + (i - Len(s))
      BY <1>2, <2>2
    <3> QED BY <1>2, <1>4, <3>1 DEF ToSet
  <2> QED BY <2>1, <2>2
<1>6. ToSet(s) \cup ToSet(t) \subseteq ToSet(s \o t)
  <2>1. \A i \in DOMAIN s : i \in DOMAIN (s \o t) /\ (s \o t)[i] = s[i]
    BY <1>2, <1>3
  <2>2. \A i \in DOMAIN t : Len(s) + i \in DOMAIN (s \o t) /\ (s \o t)[Len(s) + i] = t[i]
    BY <1>2, <1>4
  <2> QED BY <2>1, <2>2 DEF ToSet
<1>7. ToSet(s \o t) = ToSet(s) \cup ToSet(t)
  BY <1>5, <1>6 DEF ToSet
<1>8. IsList(s \o t)
  BY <1>1, <1>2, <1>7 DEF IsList, T
<1> QED BY <1>2, <1>3, <1>4, <1>7, <1>8

LEMMA ShortLists ==
  ASSUME NEW x
  PROVE  /\ IsList(<<>>) /\ ToSet(<<>>) = {} /\ Len(<<>>) = 0
         /\ IsList(<<x>>) /\ ToSet(<<x>>) = {x} /\ Len(<<x>>) = 1 /\ <<x>>[1] = x
BY DEF IsList, ToSet

LEMMA AppendHolds ==
  ASSUME NEW s, IsList(s), NEW x
  PROVE  /\ IsList(Append(s, x)) /\ ToSet(Append(s, x)) = ToSet(s) \cup {x}
         /\ Len(Append(s, x)) = Len(s) + 1
         /\ \A i \in 1 .. Len(s) : Append(s, x)[i] = s[i]
<1>1. IsList(<<x>>) /\ ToSet(<<x>>) = {x} /\ Len(<<x>>) = 1
  BY ShortLists
<1>2. Append(s, x) = s \o <<x>>
  <2>1. s \in Seq(ToSet(s) \cup {x}) /\ x \in ToSet(s) \cup {x}
    <3> DEFINE T == ToSet(s) \cup {x}
    <3>1. /\ \A i \in 1 .. Len(s) : s[i] \in T
          /\ s = [i \in 1 .. Len(s) |-> s[i]] /\ Len(s) \in Nat
      BY ListShape
    <3> HIDE DEF T
    <3>2. s \in Seq(T)
      BY <3>1
    <3> QED BY <3>2 DEF T
  <2> DEFINE T == ToSet(s) \cup {x}
  <2> HIDE DEF T
  <2>2. s \in Seq(T) /\ x \in T
    BY <2>1 DEF T
  <2> QED BY <2>2
<1> QED BY <1>1, <1>2, ListsJoin

\* What holds of every number that it holds of all the smaller ones of, ...
LEMMA LeastNumber ==
  ASSUME NEW S \in SUBSET Nat, S # {}
  PROVE  \E n \in S : \A m \in S : n <= m
<1>1. PICK n \in S : \A m \in S : ~(<<m, n>> \in OpToRel(<, Nat))
  BY NatLessThanWellFounded, WFMin
<1>2. \A m \in S : ~(m < n)
  BY <1>1 DEF OpToRel
<1> QED BY <1>2

\* The functions that FlattenSeq builds its result with.
Joins(g, k, ss) ==
  g = [i \in 1 .. k |-> IF i = 1 THEN ss[i] ELSE g[i - 1] \o ss[i]]

LEMMA JoinsExist ==
  ASSUME NEW ss, NEW n \in Nat
  PROVE  \E g : Joins(g, n, ss)
<1> DEFINE Bad == {k \in Nat : ~\E g : Joins(g, k, ss)}
<1>1. SUFFICES ASSUME Bad # {} PROVE FALSE
  OBVIOUS
<1>2. PICK k \in Bad : \A m \in Bad : k <= m
  BY <1>1, LeastNumber
<1>3. k \in Nat /\ ~\E g : Joins(g, k, ss)
  BY <1>2
<1>4. CASE k = 0
  <2> DEFINE g == [i \in 1 .. 0 |-> ss[i]]
  <2>1. Joins(g, 0, ss)
    BY DEF Joins
  <2> QED BY <1>3, <1>4, <2>1
<1>5. CASE k # 0
  <2>1. k - 1 \in Nat /\ k - 1 \notin Bad
    BY <1>2, <1>5
  <2>2. PICK g : Joins(g, k - 1, ss)
    BY <2>1
  <2> DEFINE h == [i \in 1 .. k |-> IF i = 1 THEN ss[i] ELSE g[i - 1] \o ss[i]]
  <2>3. \A i \in 1 .. (k - 1) : h[i] = g[i]
    <3>1. \A i \in 1 .. (k - 1) : g[i] = IF i = 1 THEN ss[i] ELSE g[i - 1] \o ss[i]
      BY <2>2 DEF Joins
    <3>2. \A i \in 1 .. (k - 1) : i \in 1 .. k
      BY <1>3
    <3> QED BY <3>1, <3>2
  <2>4. \A i \in 1 .. k : i = 1 \/ i - 1 \in 1 .. (k - 1)
    BY <1>3
  <2>5. \A i \in 1 .. k : h[i] = IF i = 1 THEN ss[i] ELSE h[i - 1] \o ss[i]
    BY <2>3, <2>4
  <2>6. h = [i \in 1 .. k |-> h[i]]
    OBVIOUS
  <2> HIDE DEF h
  <2>7. h = [i \in 1 .. k |-> IF i = 1 THEN ss[i] ELSE h[i - 1] \o ss[i]]
    BY <2>5, <2>6
  <2> QED BY <1>3, <2>7 DEF Joins
<1> QED BY <1>4, <1>5

LEMMA Flattened ==
  ASSUME NEW n \in Nat, NEW ss, IsList(ss), Len(ss) = n,
         \A i \in 1 .. n : IsList(ss[i])
  PROVE  /\ IsList(FlattenSeq(ss))
         /\ ToSet(FlattenSeq(ss)) = UNION {ToSet(ss[i]) : i \in 1 .. n}
<1>1. CASE n = 0
  <2>1. FlattenSeq(ss) = ss
    BY <1>1 DEF FlattenSeq
  <2>2. 1 .. n = {} /\ DOMAIN ss = {}
    BY <1>1, ListShape
  <2>3. ToSet(ss) = {} /\ UNION {ToSet(ss[i]) : i \in 1 .. n} = {}
    BY <2>2 DEF ToSet
  <2> QED BY <2>1, <2>3
<1>2. CASE n # 0
  <2> DEFINE h == CHOOSE g : Joins(g, n, ss)
  <2>1. FlattenSeq(ss) = h[n]
    BY <1>2 DEF FlattenSeq, Joins
  <2>2. Joins(h, n, ss)
    BY JoinsExist
  <2> HIDE DEF h
  <2>3. /\ h[1] = ss[1]
        /\ \A i \in 2 .. n : h[i] = h[i - 1] \o ss[i]
    <3>1. \A i \in 1 .. n : h[i] = IF i = 1 THEN ss[i] ELSE h[i - 1] \o ss[i]
      BY <2>2 DEF Joins
    <3>2. 1 \in 1 .. n /\ \A i \in 2 .. n : i \in 1 .. n /\ i # 1
      BY <1>2
    <3> QED BY <3>1, <3>2
  <2> DEFINE Good(k) == IsList(h[k]) /\ ToSet(h[k]) = UNION {ToSet(ss[i]) : i \in 1 .. k}
             Bad == {k \in 1 .. n : ~Good(k)}
  <2>4. SUFFICES ASSUME Bad # {} PROVE FALSE
    <3>1. n \in 1 .. n
      BY <1>2
    <3> QED BY <2>1, <3>1
  <2>5. PICK k \in Bad : \A m \in Bad : k <= m
    <3>1. Bad \in SUBSET Nat
      OBVIOUS
    <3> HIDE DEF Bad
    <3> QED BY <2>4, <3>1, LeastNumber
  <2>6. k \in 1 .. n /\ ~Good(k)
    BY <2>5
  <2>7. CASE k = 1
    <3>1. 1 .. 1 = {1} /\ 1 \in 1 .. n
      BY <1>2
    <3>2. UNION {ToSet(ss[i]) : i \in 1 .. 1} = ToSet(ss[1])
      BY <3>1
    <3> QED BY <2>3, <2>6, <2>7, <3>1, <3>2
  <2>8. CASE k # 1
    <3>1. k - 1 \in 1 .. n /\ k \in 2 .. n /\ ~(k <= k - 1)
      BY <2>6, <2>8
    <3>2. Good(k - 1)
      <4>1. k - 1 \notin Bad
        BY <2>5, <3>1
      <4> QED BY <3>1, <4>1
    <3>3. IsList(h[k]) /\ ToSet(h[k]) = ToSet(h[k - 1]) \cup ToSet(ss[k])
      <4>1. h[k] = h[k - 1] \o ss[k]
        BY <2>3, <3>1
      <4>2. IsList(h[k - 1]) /\ IsList(ss[k])
        BY <2>6, <3>2
      <4> QED BY <4>1, <4>2, ListsJoin
    <3>4. 1 .. k = (1 .. (k - 1)) \cup {k}
      BY <3>1
    <3>5. UNION {ToSet(ss[i]) : i \in 1 .. k}
            = (UNION {ToSet(ss[i]) : i \in 1 .. (k - 1)}) \cup ToSet(ss[k])
      BY <3>4
    <3> QED BY <2>6, <3>2, <3>3, <3>5
  <2> QED BY <2>7, <2>8
<1> QED BY <1>1, <1>2

\* A filter is a loop over lists of at most one element.
LEMMA Filtered ==
  ASSUME NEW rows, IsList(rows), NEW K \in SUBSET DOMAIN rows,
         NEW ss, ss = [i \in DOMAIN rows |-> IF i \in K THEN <<rows[i]>> ELSE <<>>]
  PROVE  IsList(FlattenSeq(ss)) /\ ToSet(FlattenSeq(ss)) = {rows[i] : i \in K}
<1>1. Len(rows) \in Nat /\ DOMAIN rows = 1 .. Len(rows)
  BY ListShape
<1>2. IsList(ss) /\ Len(ss) = Len(rows)
  <2>1. ss = [i \in 1 .. Len(rows) |-> ss[i]]
    BY <1>1
  <2> QED BY <1>1, <2>1, MakesList
<1>3. \A i \in 1 .. Len(rows) : ss[i] = IF i \in K THEN <<rows[i]>> ELSE <<>>
  BY <1>1
<1>4. \A i \in 1 .. Len(rows) :
        IsList(ss[i]) /\ ToSet(ss[i]) = IF i \in K THEN {rows[i]} ELSE {}
  BY <1>3, ShortLists
<1>5. /\ IsList(FlattenSeq(ss))
      /\ ToSet(FlattenSeq(ss)) = UNION {ToSet(ss[i]) : i \in 1 .. Len(rows)}
  <2>1. \A i \in 1 .. Len(rows) : IsList(ss[i])
    BY <1>4
  <2>2. Len(rows) \in Nat /\ IsList(ss) /\ Len(ss) = Len(rows)
    BY <1>1, <1>2
  <2> QED BY ONLY <2>1, <2>2, Flattened
<1>6. UNION {ToSet(ss[i]) : i \in 1 .. Len(rows)} = {rows[i] : i \in K}
  BY <1>1, <1>4
<1> QED BY <1>5, <1>6

LEMMA OfHolds ==
  ASSUME NEW rows, IsList(rows), NEW kind
  PROVE  /\ IsList(Of(rows, kind))
         /\ ToSet(Of(rows, kind)) = {row \in ToSet(rows) : row.kind = kind}
<1> DEFINE K == {i \in DOMAIN rows : rows[i].kind = kind}
           ss == [i \in DOMAIN rows |-> IF i \in K THEN <<rows[i]>> ELSE <<>>]
<1>1. Of(rows, kind) = FlattenSeq(ss)
  <2>1. [i \in DOMAIN rows |-> IF rows[i].kind = kind THEN <<rows[i]>> ELSE <<>>] = ss
    OBVIOUS
  <2> HIDE DEF ss
  <2> QED BY <2>1 DEF Of, Where, ForEach, If
<1>2. IsList(FlattenSeq(ss)) /\ ToSet(FlattenSeq(ss)) = {rows[i] : i \in K}
  BY Filtered
<1>3. {rows[i] : i \in K} = {row \in ToSet(rows) : row.kind = kind}
  BY DEF ToSet
<1> QED BY <1>1, <1>2, <1>3

(***************************************************************************)
(* What a plugin says: findings of the quality stage that are not the one   *)
(* the stage makes of a plugin that raises.                                 *)
(***************************************************************************)
Fields ==
  {"stage", "code", "severity", "verdict", "clause", "id", "internal", "guid",
   "ordinal", "about", "measured"}
IsFinding(f) == f = [field \in Fields |-> f[field]]

QualityFinding(f) ==
  /\ IsFinding(f) /\ f.ordinal = 0
  /\ f.stage = "quality" /\ f.verdict = "NOT_EVALUATED" /\ f.clause = "none"

\* A finding about an element has the GlobalId of that element.
SpeaksOf(f, S) == f.about = 0 \/ \E row \in S : f.about = row.tag /\ f.guid = row.guid

Speaks(f, S) == QualityFinding(f) /\ f.code # "QC-INTERNAL-001" /\ SpeaksOf(f, S)
Says(s, S) == IsList(s) /\ \A f \in ToSet(s) : Speaks(f, S)

LEMMA Uttered ==
  ASSUME NEW code, code # "QC-INTERNAL-001", NEW S, NEW id
  PROVE  /\ Speaks(Alert(code), S) /\ Speaks(Fail(code), S)
         /\ Speaks(OnId(Alert(code), id), S)
         /\ \A row \in S \cup {Blank} :
               Speaks(On(Alert(code), row), S) /\ Speaks(On(Fail(code), row), S)
<1>1. Speaks(Alert(code), S) /\ Speaks(Fail(code), S)
  BY DEF Speaks, SpeaksOf, QualityFinding, IsFinding, Fields, Alert, Fail, Finding
<1>2. Speaks(OnId(Alert(code), id), S)
  BY DEF Speaks, SpeaksOf, QualityFinding, IsFinding, Fields, Alert, OnId, Finding
<1>3. ASSUME NEW row \in S \cup {Blank}
      PROVE  Speaks(On(Alert(code), row), S) /\ Speaks(On(Fail(code), row), S)
  <2> DEFINE f == On(Alert(code), row)
             g == On(Fail(code), row)
  <2>1. QualityFinding(f) /\ f.code = code /\ f.about = row.tag /\ f.guid = row.guid
    BY DEF QualityFinding, IsFinding, Fields, Alert, On, Finding
  <2>2. QualityFinding(g) /\ g.code = code /\ g.about = row.tag /\ g.guid = row.guid
    BY DEF QualityFinding, IsFinding, Fields, Fail, On, Finding
  <2> HIDE DEF f, g
  <2>3. Blank.tag = 0
    BY DEF Blank
  <2>4. SpeaksOf(f, S) /\ SpeaksOf(g, S)
    BY <2>1, <2>2, <2>3 DEF SpeaksOf
  <2>5. Speaks(f, S) /\ Speaks(g, S)
    BY <2>1, <2>2, <2>4 DEF Speaks
  <2> QED BY <2>5 DEF f, g
<1> QED BY <1>1, <1>2, <1>3

LEMMA UtteredOf ==
  ASSUME NEW code, NEW row
  PROVE  On(Alert(code), row).code = code /\ On(Alert(code), row).about = row.tag
BY DEF Alert, On, Finding

LEMMA SaysIf ==
  ASSUME NEW S, NEW condition, NEW f, Speaks(f, S)
  PROVE  Says(If(condition, f), S) /\ Says(<<f>>, S) /\ Says(<<>>, S)
BY ShortLists DEF If, Says

LEMMA SaysOne ==
  ASSUME NEW S, NEW f, Speaks(f, S)
  PROVE  Says(<<f>>, S) /\ Says(<<>>, S)
BY ShortLists DEF Says

LEMMA SaysBoth ==
  ASSUME NEW S, NEW s, Says(s, S), NEW t, Says(t, S)
  PROVE  Says(s \o t, S) /\ ToSet(s \o t) = ToSet(s) \cup ToSet(t)
<1>1. IsList(s) /\ IsList(t)
  BY DEF Says
<1>2. IsList(s \o t) /\ ToSet(s \o t) = ToSet(s) \cup ToSet(t)
  BY <1>1, ListsJoin
<1> QED BY <1>2 DEF Says

LEMMA SaysEach ==
  ASSUME NEW S, NEW rows, IsList(rows), NEW ss, ss = [i \in DOMAIN rows |-> ss[i]],
         \A i \in DOMAIN rows : Says(ss[i], S)
  PROVE  /\ Says(FlattenSeq(ss), S)
         /\ ToSet(FlattenSeq(ss)) = UNION {ToSet(ss[i]) : i \in DOMAIN rows}
<1>1. Len(rows) \in Nat /\ DOMAIN rows = 1 .. Len(rows)
  BY ListShape
<1>2. IsList(ss) /\ Len(ss) = Len(rows)
  BY <1>1, MakesList
<1>3. \A i \in 1 .. Len(rows) : IsList(ss[i])
  BY <1>1 DEF Says
<1>4. /\ IsList(FlattenSeq(ss))
      /\ ToSet(FlattenSeq(ss)) = UNION {ToSet(ss[i]) : i \in 1 .. Len(rows)}
  BY <1>1, <1>2, <1>3, Flattened
<1>5. \A f \in ToSet(FlattenSeq(ss)) : Speaks(f, S)
  BY <1>1, <1>4 DEF Says
<1> QED BY <1>1, <1>4, <1>5 DEF Says

LEMMA SaysSo ==
  ASSUME NEW S, NEW n \in Nat, NEW s, s = [i \in 1 .. n |-> s[i]],
         \A i \in 1 .. n : Speaks(s[i], S)
  PROVE  Says(s, S)
<1>1. IsList(s) /\ DOMAIN s = 1 .. n
  BY MakesList
<1> QED BY <1>1 DEF Says, ToSet

\* What the plugins need to know of a model.
IsRow(row) == DOMAIN row = DOMAIN Blank /\ row.misfits \in Nat
IsModel(m) ==
  IsList(m.rows) /\ IsList(m.regions) /\ \A i \in DOMAIN m.rows : IsRow(m.rows[i])

LEMMA IdentitySays ==
  ASSUME NEW m, NEW r, IsModel(m), NEW S, S = ToSet(m.rows)
  PROVE  Says(IdentityIntegrity(m, r), S)
<1> DEFINE ss == [i \in DOMAIN m.rows |->
                    If(m.rows[i].fallback, On(Alert("QC-IDENT-001"), m.rows[i]))]
<1>1. \A i \in DOMAIN m.rows : Says(ss[i], S)
  <2>1. \A i \in DOMAIN m.rows : m.rows[i] \in S
    BY DEF ToSet
  <2> QED BY <2>1, Uttered, SaysIf
<1>2. ss = [i \in DOMAIN m.rows |-> ss[i]]
  OBVIOUS
<1> HIDE DEF ss
<1>3. Says(FlattenSeq(ss), S)
  BY <1>1, <1>2, SaysEach DEF IsModel
<1> QED BY <1>3 DEF IdentityIntegrity, ForEach, ss

LEMMA SpaceSays ==
  ASSUME NEW m, NEW S, NEW room \in S
  PROVE  /\ Says(SpaceFindings(m, room), S) /\ Says(TagFindings(room), S)
         /\ ToSet(TagFindings(room)) \subseteq ToSet(SpaceFindings(m, room))
<1> DEFINE storeys == Of(m.rows, "storey")
           tags == TagFindings(room)
           s1 == If(m.source = "ifc" /\ room.guid = Nothing, On(Fail("QC-SPACE-002"), room))
           s2 == If(room.name = "none", On(Alert("QC-SPACE-003"), room))
           s3 == If(room.area <= 0, On(Alert("QC-SPACE-004"), room))
           s4 == If(room.polygon = Nothing, On(Fail("QC-SPACE-005"), room))
           s5 == If(room.polygon # Nothing /\ ~Sound(room.polygon),
                    On(Fail("QC-SPACE-006"), room))
           s6 == If(/\ room.polygon # Nothing /\ Sound(room.polygon) /\ room.area > 0
                    /\ Size(Area(room.polygon) - room.area) > AreaTol(room.area),
                    On(Alert("QC-SPACE-004"), room))
           s7 == If(\A i \in DOMAIN storeys : room.storey \notin ElementAliases(storeys[i]),
                    On(Alert("QC-SPACE-007"), room))
<1>1. Says(tags, S)
  BY Uttered, SaysIf, SaysBoth DEF TagFindings
<1>2. Says(s1, S) /\ Says(s2, S)
  BY Uttered, SaysIf
<1>3. Says(s3, S) /\ Says(s4, S) /\ Says(s5, S) /\ Says(s6, S) /\ Says(s7, S)
  BY Uttered, SaysIf
<1>4. SpaceFindings(m, room) = s1 \o s2 \o tags \o s3 \o s4 \o s5 \o s6 \o s7
  BY DEF SpaceFindings
<1> HIDE DEF tags, s1, s2, s3, s4, s5, s6, s7
<1> DEFINE t == s1 \o s2 \o tags
<1>5. Says(t, S) /\ ToSet(tags) \subseteq ToSet(t)
  <2>1. Says(s1 \o s2, S)
    BY <1>2, SaysBoth
  <2> QED BY <1>1, <2>1, SaysBoth
<1> HIDE DEF t
<1>6. Says(t \o s3 \o s4, S) /\ ToSet(t) \subseteq ToSet(t \o s3 \o s4)
  BY <1>3, <1>5, SaysBoth
<1> DEFINE u == t \o s3 \o s4
<1> HIDE DEF u
<1>7. Says(u \o s5 \o s6 \o s7, S) /\ ToSet(u) \subseteq ToSet(u \o s5 \o s6 \o s7)
  BY <1>3, <1>6, SaysBoth DEF u
<1> QED BY <1>1, <1>4, <1>5, <1>6, <1>7 DEF t, u, tags

\* Part of a list is one, and its rows are rows.
LEMMA RowsOfKind ==
  ASSUME NEW m, IsModel(m), NEW kind
  PROVE  /\ IsList(Of(m.rows, kind))
         /\ \A i \in DOMAIN Of(m.rows, kind) :
               /\ Of(m.rows, kind)[i] \in ToSet(m.rows)
               /\ Of(m.rows, kind)[i].kind = kind /\ IsRow(Of(m.rows, kind)[i])
<1> DEFINE s == Of(m.rows, kind)
<1>1. IsList(m.rows)
  BY DEF IsModel
<1>2. IsList(s) /\ ToSet(s) = {row \in ToSet(m.rows) : row.kind = kind}
  BY <1>1, OfHolds
<1> HIDE DEF s
<1>3. \A row \in ToSet(m.rows) : IsRow(row)
  BY DEF IsModel, ToSet
<1>4. \A i \in DOMAIN s : s[i] \in ToSet(s)
  BY <1>2, ListShape
<1> QED BY <1>2, <1>3, <1>4 DEF s

LEMMA OverlapsSay ==
  ASSUME NEW m, IsModel(m), NEW S, S = ToSet(m.rows)
  PROVE  Says(RoomOverlaps(m), S)
<1> DEFINE all == Of(m.rows, "room")
           K == {i \in DOMAIN all : Sound(all[i].polygon)}
           kept == [i \in DOMAIN all |-> IF i \in K THEN <<all[i]>> ELSE <<>>]
           rooms == Where(all, LAMBDA room : Sound(room.polygon))
           With(i, j) == If(i < j /\ OverlapMm2(rooms[i].polygon, rooms[j].polygon) > 10000,
                            On(Alert("QC-SPACE-010"), rooms[i]))
           per(i) == [j \in DOMAIN rooms |-> With(i, j)]
           ss == [i \in DOMAIN rooms |-> FlattenSeq(per(i))]
<1>1. IsList(all)
  BY RowsOfKind
<1>2. IsList(rooms) /\ ToSet(rooms) \subseteq S
  <2> HIDE DEF all
  <2>1. rooms = FlattenSeq([i \in DOMAIN all |->
                   IF Sound(all[i].polygon) THEN <<all[i]>> ELSE <<>>])
    BY DEF Where, ForEach, If
  <2>2. [i \in DOMAIN all |-> IF Sound(all[i].polygon) THEN <<all[i]>> ELSE <<>>] = kept
    OBVIOUS
  <2>3. IsList(FlattenSeq(kept)) /\ ToSet(FlattenSeq(kept)) = {all[i] : i \in K}
    BY <1>1, Filtered
  <2>4. \A i \in DOMAIN all : all[i] \in S
    BY RowsOfKind DEF all
  <2>5. {all[i] : i \in K} \subseteq S
    BY <2>4
  <2>6. rooms = FlattenSeq(kept)
    BY <2>1, <2>2
  <2> HIDE DEF rooms, kept, K
  <2> QED BY <2>3, <2>5, <2>6
<1>3. RoomOverlaps(m) = FlattenSeq(ss)
  BY DEF RoomOverlaps
<1> HIDE DEF rooms
<1>4. ASSUME NEW i \in DOMAIN rooms, NEW j PROVE Says(With(i, j), S)
  <2>1. Speaks(On(Alert("QC-SPACE-010"), rooms[i]), S)
    <3>1. rooms[i] \in ToSet(rooms)
      BY DEF ToSet
    <3> QED BY <1>2, <3>1, Uttered
  <2>2. Says(<<On(Alert("QC-SPACE-010"), rooms[i])>>, S) /\ Says(<<>>, S)
    BY <2>1, SaysIf
  <2> QED BY <2>2 DEF If
<1> HIDE DEF With
<1>5. ASSUME NEW i \in DOMAIN rooms PROVE Says(FlattenSeq(per(i)), S)
  <2>1. /\ per(i) = [j \in DOMAIN rooms |-> per(i)[j]]
        /\ \A j \in DOMAIN rooms : Says(per(i)[j], S)
    BY <1>4
  <2> HIDE DEF per
  <2> QED BY <1>2, <2>1, SaysEach
<1>6. /\ ss = [i \in DOMAIN rooms |-> ss[i]]
      /\ \A i \in DOMAIN rooms : Says(ss[i], S)
  BY <1>5
<1> HIDE DEF ss
<1> QED BY <1>2, <1>3, <1>6, SaysEach

LEMMA TaggingSays ==
  ASSUME NEW m, NEW r, IsModel(m), NEW S, S = ToSet(m.rows)
  PROVE  /\ Says(SpaceTagging(m, r), S)
         /\ \A room \in ToSet(m.rows) : room.kind = "room" =>
               ToSet(TagFindings(room)) \subseteq ToSet(SpaceTagging(m, r))
<1> DEFINE rooms == Of(m.rows, "room")
           doors == Of(m.rows, "door")
           s1 == [i \in DOMAIN rooms |-> SpaceFindings(m, rooms[i])]
           s2 == [i \in DOMAIN m.regions |->
                    If(Sound(m.regions[i].polygon) /\ ~Tagged(m, m.regions[i]),
                       OnId(Alert("QC-SPACE-008"), m.regions[i].id))]
           s3 == [i \in DOMAIN doors |->
                    If(~DoorConnects(m, doors[i]), On(Alert("QC-SPACE-009"), doors[i]))]
           first == If(rooms = <<>> /\ Of(m.rows, "wall") # <<>>, Fail("QC-SPACE-001"))
<1>1. SpaceTagging(m, r) = first \o FlattenSeq(s1) \o FlattenSeq(s2)
                             \o FlattenSeq(s3) \o RoomOverlaps(m)
  BY DEF SpaceTagging, ForEach
<1>2. Says(first, S)
  BY Uttered, SaysIf
<1>3. /\ IsList(rooms) /\ IsList(doors) /\ IsList(m.regions)
      /\ ToSet(rooms) = {room \in ToSet(m.rows) : room.kind = "room"}
      /\ \A i \in DOMAIN rooms : rooms[i] \in S
      /\ \A i \in DOMAIN doors : doors[i] \in S
  <2>1. ASSUME NEW kind
        PROVE  IsList(Of(m.rows, kind)) /\ \A i \in DOMAIN Of(m.rows, kind) :
                                             Of(m.rows, kind)[i] \in S
    BY RowsOfKind
  <2>2. IsList(m.regions) /\ ToSet(rooms) = {room \in ToSet(m.rows) : room.kind = "room"}
    BY OfHolds DEF IsModel
  <2> QED BY <2>1, <2>2
<1> HIDE DEF rooms, doors
<1>4. /\ Says(FlattenSeq(s1), S)
      /\ \A room \in ToSet(rooms) : ToSet(TagFindings(room)) \subseteq ToSet(FlattenSeq(s1))
  <2>1. /\ s1 = [i \in DOMAIN rooms |-> s1[i]]
        /\ \A i \in DOMAIN rooms :
              Says(s1[i], S) /\ ToSet(TagFindings(rooms[i])) \subseteq ToSet(s1[i])
    BY <1>3, SpaceSays
  <2> HIDE DEF s1
  <2>4. \A i \in DOMAIN rooms : Says(s1[i], S)
    BY <2>1
  <2>2. /\ Says(FlattenSeq(s1), S)
        /\ ToSet(FlattenSeq(s1)) = UNION {ToSet(s1[i]) : i \in DOMAIN rooms}
    BY <1>3, <2>1, <2>4, SaysEach
  <2>3. ASSUME NEW room \in ToSet(rooms)
        PROVE  ToSet(TagFindings(room)) \subseteq ToSet(FlattenSeq(s1))
    <3>1. PICK i \in DOMAIN rooms : room = rooms[i]
      BY DEF ToSet
    <3> QED BY <2>1, <2>2, <3>1
  <2> QED BY <2>2, <2>3
<1>5. Says(FlattenSeq(s2), S)
  <2>1. s2 = [i \in DOMAIN m.regions |-> s2[i]] /\ \A i \in DOMAIN m.regions : Says(s2[i], S)
    BY Uttered, SaysIf
  <2> HIDE DEF s2
  <2> QED BY <1>3, <2>1, SaysEach
<1>6. Says(FlattenSeq(s3), S)
  <2>1. s3 = [i \in DOMAIN doors |-> s3[i]] /\ \A i \in DOMAIN doors : Says(s3[i], S)
    BY <1>3, Uttered, SaysIf
  <2> HIDE DEF s3
  <2> QED BY <1>3, <2>1, SaysEach
<1> HIDE DEF first, s1, s2, s3
<1>7. Says(RoomOverlaps(m), S)
  BY OverlapsSay
<1> DEFINE t1 == first \o FlattenSeq(s1)
           t2 == t1 \o FlattenSeq(s2)
           t3 == t2 \o FlattenSeq(s3)
<1>8. Says(t1, S) /\ ToSet(FlattenSeq(s1)) \subseteq ToSet(t1)
  BY <1>2, <1>4, SaysBoth
<1> HIDE DEF t1
<1>9. Says(t2, S) /\ ToSet(t1) \subseteq ToSet(t2)
  BY <1>5, <1>8, SaysBoth
<1> HIDE DEF t2
<1>10. Says(t3, S) /\ ToSet(t2) \subseteq ToSet(t3)
  BY <1>6, <1>9, SaysBoth
<1> HIDE DEF t3
<1>11. Says(t3 \o RoomOverlaps(m), S) /\ ToSet(t3) \subseteq ToSet(t3 \o RoomOverlaps(m))
  BY <1>7, <1>10, SaysBoth
<1>12. SpaceTagging(m, r) = t3 \o RoomOverlaps(m)
  BY <1>1 DEF t1, t2, t3
<1> QED BY <1>3, <1>4, <1>8, <1>9, <1>10, <1>11, <1>12

LEMMA PropertiesSay ==
  ASSUME NEW m, NEW r, IsModel(m), NEW S, S = ToSet(m.rows)
  PROVE  Says(RequiredProperties(m, r), S)
<1> DEFINE rows == Of(m.rows, "wall") \o Of(m.rows, "door") \o Of(m.rows, "window")
                     \o Of(m.rows, "room")
           ss == [i \in DOMAIN rows |-> PropertyFindings(rows[i])]
           Fit(row) == /\ IsRow(row) /\ row.kind \in {"wall", "door", "window", "room"}
                       /\ row \in S
<1>1. IsList(rows) /\ \A row \in ToSet(rows) : Fit(row)
  <2> DEFINE Kind(k) == Of(m.rows, k)
  <2>1. \A k \in {"wall", "door", "window", "room"} :
          IsList(Kind(k)) /\ \A row \in ToSet(Kind(k)) : Fit(row)
    BY RowsOfKind DEF ToSet
  <2> HIDE DEF Fit, Kind
  <2>2. /\ IsList(Kind("wall") \o Kind("door"))
        /\ \A row \in ToSet(Kind("wall") \o Kind("door")) : Fit(row)
    BY <2>1, ListsJoin
  <2>3. /\ IsList(Kind("wall") \o Kind("door") \o Kind("window"))
        /\ \A row \in ToSet(Kind("wall") \o Kind("door") \o Kind("window")) : Fit(row)
    BY <2>1, <2>2, ListsJoin
  <2>4. /\ IsList(Kind("wall") \o Kind("door") \o Kind("window") \o Kind("room"))
        /\ \A row \in ToSet(Kind("wall") \o Kind("door") \o Kind("window") \o Kind("room")) :
              Fit(row)
    BY <2>1, <2>3, ListsJoin
  <2> QED BY <2>4 DEF Kind
<1>2. RequiredProperties(m, r) = FlattenSeq(ss)
  BY DEF RequiredProperties, ForEach
<1> HIDE DEF rows
<1>3. ASSUME NEW row, Fit(row) PROVE Says(PropertyFindings(row), S)
  <2> DEFINE needed == Required[row.kind]
             s1 == [i \in DOMAIN needed |->
                      If(row[needed[i][1]] < needed[i][2], On(Alert("QC-PROP-001"), row))]
             s2 == [i \in 1 .. row.misfits |-> On(Alert("QC-PROP-002"), row)]
             first == If(row.kind = "room" /\ row.label = "none", On(Alert("QC-PROP-001"), row))
  <2>1. PropertyFindings(row) = first \o FlattenSeq(s1) \o s2
    BY DEF PropertyFindings
  <2>2. IsList(needed)
    <3>1. \/ needed = <<<<"thickness", 1>>, <<"height", 1>>>>
          \/ needed = <<<<"width", 1>>, <<"height", 1>>>>
          \/ needed = <<<<"width", 1>>, <<"height", 1>>, <<"sill", 0>>>>
          \/ needed = <<<<"area", 1>>>>
      BY <1>3 DEF Required
    <3> HIDE DEF needed
    <3>2. DOMAIN needed \in {1 .. 1, 1 .. 2, 1 .. 3}
      BY <3>1
    <3>3. needed = [i \in DOMAIN needed |-> needed[i]]
      BY <3>1
    <3> QED BY <3>2, <3>3, MakesList
  <2> HIDE DEF needed
  <2>6. Speaks(On(Alert("QC-PROP-001"), row), S) /\ Speaks(On(Alert("QC-PROP-002"), row), S)
    BY <1>3, Uttered
  <2>3. Says(FlattenSeq(s1), S)
    <3>1. s1 = [i \in DOMAIN needed |-> s1[i]] /\ \A i \in DOMAIN needed : Says(s1[i], S)
      BY <2>6, SaysIf
    <3> HIDE DEF s1
    <3> QED BY <2>2, <3>1, SaysEach
  <2>4. Says(s2, S)
    <3>1. /\ row.misfits \in Nat /\ s2 = [i \in 1 .. row.misfits |-> s2[i]]
          /\ \A i \in 1 .. row.misfits : Speaks(s2[i], S)
      BY <1>3, <2>6 DEF IsRow
    <3> HIDE DEF s2
    <3> QED BY <3>1, SaysSo
  <2>5. Says(first, S)
    BY <2>6, SaysIf
  <2> HIDE DEF first, s1, s2
  <2> QED BY <2>1, <2>3, <2>4, <2>5, SaysBoth
<1>4. ss = [i \in DOMAIN rows |-> ss[i]] /\ \A i \in DOMAIN rows : Says(ss[i], S)
  <2>1. \A i \in DOMAIN rows : rows[i] \in ToSet(rows)
    BY DEF ToSet
  <2> QED BY <1>1, <1>3, <2>1
<1> HIDE DEF ss
<1> QED BY <1>1, <1>2, <1>4, SaysEach

LEMMA UnitsSay ==
  ASSUME NEW m, NEW r, NEW S
  PROVE  /\ Says(UnitConsistency(m, r), S) /\ Says(ContractRead(m, r), S)
         /\ Says(ScaleConfidence(m, r), S) /\ Says(ManualParameters(m, r), S)
<1>1. Says(ContractRead(m, r), S)
  BY Uttered, SaysIf DEF ContractRead
<1>2. Says(ScaleConfidence(m, r), S)
  BY Uttered, SaysIf DEF ScaleConfidence
<1>3. Says(ManualParameters(m, r), S)
  BY Uttered, SaysIf DEF ManualParameters
<1>4. Says(UnitConsistency(m, r), S)
  BY Uttered, SaysIf, SaysBoth DEF UnitConsistency
<1> QED BY <1>1, <1>2, <1>3, <1>4

LEMMA ListIsFinite ==
  ASSUME NEW s, IsList(s)
  PROVE  IsFiniteSet(ToSet(s)) /\ IsFiniteSet(DOMAIN s)
<1>1. DOMAIN s = 1 .. Len(s) /\ Len(s) \in Nat
  BY ListShape
<1>2. IsFiniteSet(DOMAIN s)
  BY <1>1, FS_Interval
<1>3. s \in Surjection(DOMAIN s, ToSet(s))
  <2>1. s = [i \in DOMAIN s |-> s[i]]
    BY <1>1, ListShape
  <2> QED BY <2>1 DEF Surjection, ToSet
<1> QED BY <1>2, <1>3, FS_Surjection

LEMMA StoreysSay ==
  ASSUME NEW m, NEW r, IsModel(m), NEW S, S = ToSet(m.rows)
  PROVE  Says(StoreyConsistency(m, r), S)
<1> DEFINE Kind(k) == Of(m.rows, k)
           storeys == Of(m.rows, "storey")
           names == {s.name : s \in ToSet(storeys)} \ {"none"}
           clashes == {name \in names : Cardinality(LevelsOf(m, name)) > 1}
           others == Of(m.rows, "wall") \o Of(m.rows, "door") \o Of(m.rows, "window")
                       \o Of(m.rows, "stair") \o Of(m.rows, "slab")
           About(row) ==
             If(row.storey = Nothing, On(Alert("QC-STOREY-001"), row)) \o
             If(row.storey \notin StoreyAliases(m) \cup {Nothing},
                On(Alert("QC-STOREY-002"), row))
           first == IF storeys = <<>> THEN <<Alert("QC-STOREY-001")>>
                    ELSE ForEach(others, About)
           second == [i \in 1 .. Cardinality(clashes) |-> Alert("QC-STOREY-003")]
           third == If(/\ Len(storeys) = 1 /\ m.level # Missing
                       /\ storeys[1].level # Missing
                       /\ Size(m.level - storeys[1].level) > 1,
                       On(Alert("QC-STOREY-003"), Head(storeys)))
<1>1. /\ IsList(others) /\ ToSet(others) \subseteq S
      /\ IsList(storeys) /\ ToSet(storeys) \subseteq S
  <2> DEFINE Part(s) == IsList(s) /\ ToSet(s) \subseteq S
  <2>1. ASSUME NEW k PROVE Part(Kind(k))
    BY OfHolds DEF IsModel
  <2>2. ASSUME NEW s, Part(s), NEW t, Part(t) PROVE Part(s \o t)
    BY <2>2, ListsJoin
  <2> HIDE DEF Kind, Part
  <2>3. Part(Kind("wall") \o Kind("door") \o Kind("window"))
    BY <2>1, <2>2
  <2>4. Part(Kind("wall") \o Kind("door") \o Kind("window") \o Kind("stair") \o Kind("slab"))
    BY <2>1, <2>2, <2>3
  <2> QED BY <2>1, <2>4 DEF Kind, Part
<1>2. Cardinality(clashes) \in Nat
  <2> DEFINE name == [s \in ToSet(storeys) |-> s.name]
             all == {s.name : s \in ToSet(storeys)}
  <2>1. IsFiniteSet(ToSet(storeys))
    BY <1>1, ListIsFinite
  <2>2. name \in Surjection(ToSet(storeys), all)
    BY DEF Surjection
  <2> HIDE DEF name, storeys, all
  <2>3. IsFiniteSet(all)
    BY <2>1, <2>2, FS_Surjection
  <2>4. clashes \in SUBSET all
    BY DEF all
  <2> HIDE DEF clashes
  <2> QED BY <2>3, <2>4, FS_Subset, FS_CardinalityType
<1>3. Says(second, S)
  <2> DEFINE n == Cardinality(clashes)
  <2>1. Speaks(Alert("QC-STOREY-003"), S)
    BY Uttered
  <2> HIDE DEF n
  <2>2. n \in Nat
    BY <1>2 DEF n
  <2>3. second = [i \in 1 .. n |-> second[i]] /\ \A i \in 1 .. n : Speaks(second[i], S)
    BY <2>1 DEF n
  <2> HIDE DEF second
  <2> QED BY <2>2, <2>3, SaysSo
<1>4. Says(first, S)
  <2> DEFINE ss == [i \in DOMAIN others |-> About(others[i])]
  <2> HIDE DEF others
  <2>1. ss = [i \in DOMAIN others |-> ss[i]] /\ \A i \in DOMAIN others : Says(ss[i], S)
    <3>1. \A i \in DOMAIN others : others[i] \in S
      BY <1>1 DEF ToSet
    <3> QED BY <3>1, Uttered, SaysIf, SaysBoth
  <2>2. ForEach(others, About) = FlattenSeq(ss)
    BY DEF ForEach
  <2> HIDE DEF ss, About
  <2>3. Says(ForEach(others, About), S)
    BY <1>1, <2>1, <2>2, SaysEach
  <2>4. Says(<<Alert("QC-STOREY-001")>>, S)
    BY Uttered, SaysIf
  <2> HIDE DEF storeys
  <2> QED BY <2>3, <2>4
<1>5. Says(third, S) /\ Says(<<>>, S)
  <2> DEFINE f == On(Alert("QC-STOREY-003"), Head(storeys))
  <2>1. Says(<<>>, S)
    BY ShortLists DEF Says
  <2>2. CASE Len(storeys) = 1
    <3>1. Head(storeys) \in S
      <4> HIDE DEF storeys
      <4>1. storeys \in Seq(ToSet(storeys)) /\ 1 \in 1 .. Len(storeys)
        BY <1>1, <2>2 DEF IsList
      <4>2. Head(storeys) \in ToSet(storeys)
        BY <2>2, <4>1
      <4> QED BY <1>1, <4>2
    <3> HIDE DEF storeys
    <3>2. Speaks(f, S)
      BY <3>1, Uttered
    <3> HIDE DEF f
    <3> QED BY <2>1, <3>2, SaysOne DEF If, f
  <2>3. CASE Len(storeys) # 1
    <3> HIDE DEF storeys
    <3>1. third = <<>>
      BY <2>3 DEF If
    <3> QED BY <2>1, <3>1
  <2> QED BY <2>1, <2>2, <2>3
<1>6. StoreyConsistency(m, r) = IF m.rows = <<>> THEN <<>> ELSE first \o second \o third
  BY DEF StoreyConsistency
<1> HIDE DEF first, second, third
<1> QED BY <1>3, <1>4, <1>5, <1>6, SaysBoth

\* The greatest of finitely many numbers is one of them.
LEMMA Greatest ==
  ASSUME NEW n \in Nat, NEW K \in SUBSET (1 .. n), K # {}
  PROVE  Max(K) \in K /\ \A k \in K : k <= Max(K)
<1> DEFINE gaps == {n - k : k \in K}
<1>1. gaps \in SUBSET Nat /\ gaps # {}
  <2>1. PICK k \in K : TRUE
    OBVIOUS
  <2>2. n - k \in gaps
    BY <2>1
  <2>3. \A j \in K : n - j \in Nat
    OBVIOUS
  <2> QED BY <2>2, <2>3
<1>2. PICK g \in gaps : \A h \in gaps : g <= h
  <2> HIDE DEF gaps
  <2> QED BY <1>1, LeastNumber
<1>3. PICK k \in K : g = n - k
  BY <1>2
<1>4. \A j \in K : k >= j
  <2> SUFFICES ASSUME NEW j \in K PROVE k >= j
    OBVIOUS
  <2>1. n - j \in gaps /\ n - k <= n - j
    BY <1>2, <1>3
  <2>2. j \in Int /\ k \in Int
    OBVIOUS
  <2> QED BY <2>1, <2>2
<1>5. \E x \in K : \A y \in K : x >= y
  BY <1>4
<1>6. Max(K) \in K /\ \A y \in K : Max(K) >= y
  BY <1>5 DEF Max
<1> QED BY <1>6

\* What an index by alias gives is one of the rows, or nothing.
LEMMA OnlyNamedIsRow ==
  ASSUME NEW rows, IsList(rows), NEW id
  PROVE  /\ OnlyNamed(rows, id) \in ToSet(rows) \cup {Blank}
         /\ LastNamed(rows, id) \in ToSet(rows) \cup {Blank}
<1> DEFINE named == {i \in DOMAIN rows : id \in ElementAliases(rows[i])}
<1>1. Len(rows) \in Nat /\ DOMAIN rows = 1 .. Len(rows)
  BY ListShape
<1>2. named \in SUBSET (1 .. Len(rows))
  BY <1>1
<1>3. OnlyNamed(rows, id) = IF Cardinality(named) = 1 THEN rows[Max(named)] ELSE Blank
  BY DEF OnlyNamed
<1>4. LastNamed(rows, id) = IF named = {} THEN Blank ELSE rows[Max(named)]
  BY DEF LastNamed
<1> HIDE DEF named
<1>5. named # {} => rows[Max(named)] \in ToSet(rows)
  BY <1>1, <1>2, Greatest DEF ToSet
<1>6. Cardinality(named) = 1 => named # {}
  BY FS_EmptySet
<1> QED BY <1>3, <1>4, <1>5, <1>6

LEMMA DoubtsSay ==
  ASSUME NEW m, NEW r, IsModel(m), IsList(r.flagged), NEW S, S = ToSet(m.rows)
  PROVE  Says(ElementConfidence(m, r), S)
<1> DEFINE Told(flag) == LET row == OnlyNamed(m.rows, flag.id)
                         IN  IF row = Blank THEN OnId(Alert("QC-ELEM-CONF-001"), flag.id)
                             ELSE On(Alert("QC-ELEM-CONF-001"), row)
           ss == [i \in DOMAIN r.flagged |->
                    If(~ToldElsewhere(m, r, r.flagged[i]), Told(r.flagged[i]))]
<1>1. ElementConfidence(m, r) = FlattenSeq(ss)
  BY DEF ElementConfidence, ForEach
<1>2. ASSUME NEW flag PROVE Speaks(Told(flag), S)
  <2> DEFINE row == OnlyNamed(m.rows, flag.id)
  <2>1. row \in S \cup {Blank}
    BY OnlyNamedIsRow DEF IsModel
  <2> HIDE DEF row
  <2>2. Speaks(OnId(Alert("QC-ELEM-CONF-001"), flag.id), S)
        /\ Speaks(On(Alert("QC-ELEM-CONF-001"), row), S)
    BY <2>1, Uttered
  <2> QED BY <2>2 DEF row
<1> HIDE DEF Told
<1>3. ss = [i \in DOMAIN r.flagged |-> ss[i]] /\ \A i \in DOMAIN r.flagged : Says(ss[i], S)
  BY <1>2, SaysIf
<1> HIDE DEF ss
<1> QED BY <1>1, <1>3, SaysEach

LEMMA PlaceSays ==
  ASSUME NEW m, NEW S, NEW opening \in S
  PROVE  Says(PlaceFindings(m, opening), S)
<1> DEFINE Told(code) == <<On(Alert(code), opening)>>
           wall == HostOf(m, opening)
<1>1. /\ Says(Told("QC-PLACE-001"), S) /\ Says(Told("QC-PLACE-002"), S)
      /\ Says(Told("QC-PLACE-003"), S) /\ Says(Told("QC-PLACE-004"), S)
      /\ Says(Told("QC-PLACE-007"), S) /\ Says(Told("QC-PLACE-008"), S)
      /\ Says(Told("QC-PLACE-009"), S) /\ Says(Told("QC-PLACE-010"), S)
      /\ Says(Told("QC-PLACE-011"), S) /\ Says(<<>>, S)
  <2>1. ASSUME NEW code, code # "QC-INTERNAL-001" PROVE Says(Told(code), S) /\ Says(<<>>, S)
    <3>1. Speaks(On(Alert(code), opening), S)
      BY <2>1, Uttered
    <3> QED BY <3>1, SaysOne
  <2> HIDE DEF Told
  <2> QED BY <2>1
<1> HIDE DEF wall
<1>2. Says(OnWall(opening, wall), S)
  <2>1. OnWall(opening, wall)
          \in {Told("QC-PLACE-008"), <<>>, Told("QC-PLACE-004") \o Told("QC-PLACE-007"),
               Told("QC-PLACE-004") \o <<>>, <<>> \o Told("QC-PLACE-007"), <<>> \o <<>>}
    BY DEF OnWall, If
  <2> HIDE DEF Told
  <2> QED BY <1>1, <2>1, SaysBoth
<1>3. Says(BetweenRooms(m, opening), S)
  <2>1. BetweenRooms(m, opening)
          \in {Told("QC-PLACE-009") \o Told("QC-PLACE-010"),
               Told("QC-PLACE-009") \o <<>>, <<>> \o Told("QC-PLACE-010"), <<>> \o <<>>}
    BY DEF BetweenRooms, If
  <2> HIDE DEF Told
  <2> QED BY <1>1, <2>1, SaysBoth
<1>4. Says(UnderTheWall(opening, wall), S)
  <2>1. UnderTheWall(opening, wall)
          \in {Told("QC-PLACE-011") \o Told("QC-PLACE-011"),
               Told("QC-PLACE-011") \o <<>>, <<>> \o Told("QC-PLACE-011"), <<>> \o <<>>}
    BY DEF UnderTheWall, If
  <2> HIDE DEF Told
  <2> QED BY <1>1, <2>1, SaysBoth
<1>5. PlaceFindings(m, opening)
        \in {Told("QC-PLACE-001"), Told("QC-PLACE-002")}
              \cup {t \o OnWall(opening, wall) \o BetweenRooms(m, opening)
                      \o UnderTheWall(opening, wall) :
                      t \in {Told("QC-PLACE-008"), Told("QC-PLACE-003"), <<>>}}
  BY DEF PlaceFindings, If, wall
<1> HIDE DEF Told
<1> QED BY <1>1, <1>2, <1>3, <1>4, <1>5, SaysBoth

LEMMA CollisionsAreFew ==
  ASSUME NEW m, IsModel(m), NEW wall
  PROVE  Cardinality(Colliding(m, wall)) \in Nat
<1>1. IsFiniteSet(DOMAIN m.rows)
  BY ListIsFinite DEF IsModel
<1>2. Spanned(m, wall) \in SUBSET DOMAIN m.rows
  BY DEF Spanned
<1>3. IsFiniteSet(Spanned(m, wall))
  BY <1>1, <1>2, FS_Subset
<1>4. IsFiniteSet(Spanned(m, wall) \X Spanned(m, wall))
  BY <1>3, FS_Product
<1>5. Colliding(m, wall) \in SUBSET (Spanned(m, wall) \X Spanned(m, wall))
  BY DEF Colliding
<1> QED BY <1>4, <1>5, FS_Subset, FS_CardinalityType

LEMMA PlacementSays ==
  ASSUME NEW m, NEW r, IsModel(m), NEW S, S = ToSet(m.rows)
  PROVE  Says(OpeningPlacement(m, r), S)
<1> DEFINE walls == Of(m.rows, "wall")
           openings == Of(m.rows, "door") \o Of(m.rows, "window")
           K == {i \in DOMAIN walls : walls[i] = LastNamed(walls, walls[i].internal)}
           kept == [i \in DOMAIN walls |-> IF i \in K THEN <<walls[i]>> ELSE <<>>]
           hosts == HostWalls(m)
           s1 == [i \in DOMAIN openings |-> PlaceFindings(m, openings[i])]
           s2 == [i \in DOMAIN hosts |-> Overlaps(m, hosts[i])]
           s3 == [i \in DOMAIN hosts |->
                    If(/\ Drawn(hosts[i])
                       /\ WidthsOn(m, hosts[i]) > Length(Axis(hosts[i])) + LenTol,
                       On(Alert("QC-PLACE-005"), hosts[i]))]
<1>1. OpeningPlacement(m, r) = FlattenSeq(s1) \o FlattenSeq(s2) \o FlattenSeq(s3)
  BY DEF OpeningPlacement, ForEach
<1>2. /\ IsList(walls) /\ ToSet(walls) \subseteq S
      /\ IsList(openings) /\ ToSet(openings) \subseteq S
  <2>1. ASSUME NEW kind PROVE IsList(Of(m.rows, kind)) /\ ToSet(Of(m.rows, kind)) \subseteq S
    BY OfHolds DEF IsModel
  <2> QED BY <2>1, ListsJoin
<1>3. IsList(hosts) /\ ToSet(hosts) \subseteq S
  <2> HIDE DEF walls
  <2>1. hosts = FlattenSeq([i \in DOMAIN walls |->
                  IF walls[i] = LastNamed(walls, walls[i].internal)
                  THEN <<walls[i]>> ELSE <<>>])
    BY DEF HostWalls, Where, ForEach, If, walls
  <2>2. [i \in DOMAIN walls |-> IF walls[i] = LastNamed(walls, walls[i].internal)
                                THEN <<walls[i]>> ELSE <<>>] = kept
    OBVIOUS
  <2>3. IsList(FlattenSeq(kept)) /\ ToSet(FlattenSeq(kept)) = {walls[i] : i \in K}
    BY <1>2, Filtered
  <2>4. \A i \in DOMAIN walls : walls[i] \in S
    BY <1>2 DEF ToSet
  <2> QED BY <2>1, <2>2, <2>3, <2>4
<1> HIDE DEF openings, hosts
<1>4. Says(FlattenSeq(s1), S)
  <2>1. s1 = [i \in DOMAIN openings |-> s1[i]] /\ \A i \in DOMAIN openings : Says(s1[i], S)
    <3>1. \A i \in DOMAIN openings : openings[i] \in S
      BY <1>2 DEF ToSet
    <3> QED BY <3>1, PlaceSays
  <2> HIDE DEF s1
  <2> QED BY <1>2, <2>1, SaysEach
<1>5. Says(FlattenSeq(s2), S)
  <2>1. ASSUME NEW wall \in S PROVE Says(Overlaps(m, wall), S)
    <3> DEFINE n == Cardinality(Colliding(m, wall))
               s == [k \in 1 .. n |-> On(Alert("QC-PLACE-006"), wall)]
    <3>1. n \in Nat
      BY CollisionsAreFew
    <3> HIDE DEF n
    <3>2. s = [k \in 1 .. n |-> s[k]] /\ \A k \in 1 .. n : Speaks(s[k], S)
      BY Uttered
    <3>3. Overlaps(m, wall) = s
      BY DEF Overlaps, n
    <3> HIDE DEF s
    <3> QED BY <3>1, <3>2, <3>3, SaysSo
  <2>2. s2 = [i \in DOMAIN hosts |-> s2[i]] /\ \A i \in DOMAIN hosts : Says(s2[i], S)
    <3>1. \A i \in DOMAIN hosts : hosts[i] \in S
      BY <1>3 DEF ToSet
    <3> QED BY <2>1, <3>1
  <2> HIDE DEF s2
  <2> QED BY <1>3, <2>2, SaysEach
<1>6. Says(FlattenSeq(s3), S)
  <2>1. ASSUME NEW i \in DOMAIN hosts PROVE Says(s3[i], S)
    <3>1. Says(<<On(Alert("QC-PLACE-005"), hosts[i])>>, S) /\ Says(<<>>, S)
      <4>1. Speaks(On(Alert("QC-PLACE-005"), hosts[i]), S)
        <5>1. hosts[i] \in S
          BY <1>3 DEF ToSet
        <5> QED BY <5>1, Uttered
      <4> QED BY <4>1, SaysOne
    <3>2. s3[i] \in {<<On(Alert("QC-PLACE-005"), hosts[i])>>, <<>>}
      BY DEF If
    <3> QED BY <3>1, <3>2
  <2>2. s3 = [i \in DOMAIN hosts |-> s3[i]]
    OBVIOUS
  <2> HIDE DEF s3
  <2> QED BY <1>3, <2>1, <2>2, SaysEach
<1> HIDE DEF s1, s2, s3
<1> QED BY <1>1, <1>4, <1>5, <1>6, SaysBoth

LEMMA PluginsSay ==
  ASSUME NEW m, NEW r, IsModel(m), IsList(r.flagged), NEW name
  PROVE  Says(RunPlugin(name, m, r), ToSet(m.rows))
BY UnitsSay, IdentitySays, TaggingSays, PropertiesSay, StoreysSay, DoubtsSay, PlacementSays
   DEF RunPlugin

LEMMA MergeSays ==
  ASSUME NEW m, IsModel(m), input.manual.lost \in Nat, NEW S, S = ToSet(m.rows)
  PROVE  Says(MergeFindings(m), S)
<1> DEFINE doors == Of(m.rows, "door")
           windows == Of(m.rows, "window")
           n == input.manual.lost
           s1 == [i \in 1 .. n |-> Alert("QC-MANUAL-OVERRIDE-001")]
           s2 == [i \in DOMAIN doors |->
                    If(TallerThanWall(m, doors[i]), On(Alert("QC-MANUAL-FIT-001"), doors[i]))]
           s3 == [i \in DOMAIN windows |->
                    If(TallerThanWall(m, windows[i]),
                       On(Alert("QC-MANUAL-FIT-002"), windows[i]))]
<1>1. MergeFindings(m) = s1 \o FlattenSeq(s2) \o FlattenSeq(s3)
  BY DEF MergeFindings, ForEach
<1>2. /\ IsList(doors) /\ IsList(windows) /\ n \in Nat
      /\ \A i \in DOMAIN doors : doors[i] \in S
      /\ \A i \in DOMAIN windows : windows[i] \in S
  BY RowsOfKind
<1> HIDE DEF doors, windows, n
<1>3. Says(s1, S)
  <2>1. s1 = [i \in 1 .. n |-> s1[i]] /\ \A i \in 1 .. n : Speaks(s1[i], S)
    BY Uttered
  <2> HIDE DEF s1
  <2> QED BY <1>2, <2>1, SaysSo
<1>4. Says(FlattenSeq(s2), S)
  <2>1. s2 = [i \in DOMAIN doors |-> s2[i]] /\ \A i \in DOMAIN doors : Says(s2[i], S)
    BY <1>2, Uttered, SaysIf
  <2> HIDE DEF s2
  <2> QED BY <1>2, <2>1, SaysEach
<1>5. Says(FlattenSeq(s3), S)
  <2>1. s3 = [i \in DOMAIN windows |-> s3[i]] /\ \A i \in DOMAIN windows : Says(s3[i], S)
    BY <1>2, Uttered, SaysIf
  <2> HIDE DEF s3
  <2> QED BY <1>2, <2>1, SaysEach
<1> HIDE DEF s1, s2, s3
<1> QED BY <1>1, <1>3, <1>4, <1>5, SaysBoth

(***************************************************************************)
(* What the adapters do to a row: every operator touches a few fields only. *)
(***************************************************************************)
Touches(row, out, S) ==
  DOMAIN out = DOMAIN row /\ \A f \in DOMAIN row \ S : out[f] = row[f]

LEMMA TouchesBoth ==
  ASSUME NEW row, NEW mid, NEW out, NEW S, NEW T,
         Touches(row, mid, S), Touches(mid, out, T)
  PROVE  Touches(row, out, S \cup T)
BY DEF Touches

LEMMA TouchesMore ==
  ASSUME NEW row, NEW out, NEW S, NEW T, Touches(row, out, S), S \subseteq T
  PROVE  Touches(row, out, T)
BY DEF Touches

LEMMA TouchesNone ==
  ASSUME NEW row, NEW S
  PROVE  Touches(row, row, S)
BY DEF Touches

ScaledFields ==
  {"at", "start", "end", "polygon", "thickness", "height", "width", "sill", "level"}
AdaptedFields == {"fallback", "internal", "centre", "storey"}
ReadFields ==
  {"thickness", "height", "start", "end", "width", "at", "sill", "host", "storey", "area",
   "polygon", "name", "label", "level", "proven"}

LEMMA ScaleTouches ==
  ASSUME NEW row, NEW k
  PROVE  Touches(row, ScaleRow(row, k), ScaledFields)
BY DEF Touches, ScaleRow, ScaledFields

LEMMA IdentifiedTouches ==
  ASSUME NEW row
  PROVE  Touches(row, Identified(row), {"fallback", "internal"})
<1>1. CASE row.internal # Nothing
  BY <1>1 DEF Touches, Identified
<1>2. CASE row.internal = Nothing
  <2> DEFINE new == IF row.guid # Nothing THEN <<"guid">> \o row.guid
                    ELSE IF row.sid # Nothing THEN <<"source">> \o row.sid
                    ELSE GeometryKey(row)
             unnamed == row.guid = Nothing /\ row.sid = Nothing
  <2>1. Identified(row) = [row EXCEPT !.internal = new, !.fallback = unnamed]
    BY <1>2 DEF Identified
  <2> HIDE DEF new, unnamed
  <2> QED BY <2>1 DEF Touches
<1> QED BY <1>1, <1>2

LEMMA AdapterTouches ==
  ASSUME NEW row
  PROVE  Touches(row, RowFromBimData(row), AdaptedFields)
<1>1. Touches(row, Identified(row), AdaptedFields)
  BY IdentifiedTouches, TouchesMore DEF AdaptedFields
<1>2. ASSUME NEW known
      PROVE  /\ Touches(known, OpeningFromBimData(known), AdaptedFields)
             /\ Touches(known, StoreyFromBimData(known), AdaptedFields)
  BY DEF Touches, OpeningFromBimData, StoreyFromBimData, AdaptedFields
<1>3. AdaptedFields \cup AdaptedFields = AdaptedFields
  OBVIOUS
<1>4. RowFromBimData(row) \in {OpeningFromBimData(Identified(row)),
                               StoreyFromBimData(Identified(row)), Identified(row)}
  BY DEF RowFromBimData
<1> QED BY <1>1, <1>2, <1>3, <1>4, TouchesBoth

LEMMA RowsGoBack ==
  ASSUME NEW row
  PROVE  Touches(row, [row EXCEPT !.offset = Missing, !.convention = "center",
                                  !.fallback = FALSE],
                 {"offset", "convention", "fallback"})
BY DEF Touches

LEMMA FilledTouches ==
  ASSUME NEW row
  PROVE  Touches(row, Filled(row), {"height"})
BY DEF Touches, Filled

RoomFields == {"typeSource", "typeConf", "label", "needs"}

LEMMA NormaliseTouches ==
  ASSUME NEW row
  PROVE  Touches(row, Normalise(row), RoomFields)
BY DEF Touches, Normalise, RoomFields

LEMMA StoreyTouches ==
  ASSUME NEW row, NEW rows
  PROVE  Touches(row, InStorey(row, rows), {"storey"})
BY DEF Touches, InStorey

LEMMA ReaderTouches ==
  ASSUME NEW row, NEW walls
  PROVE  Touches(row, ReadRow(row, walls), ReadFields)
<1>1. Touches(row, ReadKind(row, walls), ReadFields)
  <2>1. Touches(row, ReadWall(row), ReadFields)
    <3> DEFINE start == IF row.start = Nothing THEN <<0, 0>> ELSE row.start
               end == IF row.end = Nothing THEN start ELSE row.end
               thick == OrElse(row.thickness, 200)
               high == OrElse(row.height, 2800)
               out == [row EXCEPT !.thickness = thick, !.height = high,
                                  !.start = start, !.end = end]
    <3>1. ReadWall(row) = out
      BY DEF ReadWall
    <3> HIDE DEF start, end, thick, high
    <3>2. Touches(row, out, ReadFields)
      BY DEF Touches, ReadFields
    <3> HIDE DEF out
    <3> QED BY <3>1, <3>2
  <2>2. Touches(row, ReadOpening(row, walls), ReadFields)
    BY DEF Touches, ReadOpening, ReadFields
  <2>3. Touches(row, ReadSpace(row), ReadFields)
    BY DEF Touches, ReadSpace, ReadFields
  <2>4. Touches(row, ReadStorey(row), ReadFields)
    BY DEF Touches, ReadStorey, ReadFields
  <2> QED BY <2>1, <2>2, <2>3, <2>4, TouchesNone DEF ReadKind
<1>2. ASSUME NEW kept PROVE Touches(kept, [kept EXCEPT !.proven = TRUE], ReadFields)
  BY DEF Touches, ReadFields
<1>3. ReadFields \cup ReadFields = ReadFields
  OBVIOUS
<1> QED BY <1>1, <1>2, <1>3, TouchesBoth DEF ReadRow

(***************************************************************************)
(* A row of a model and the row of the source that it comes from: what it   *)
(* keeps, and its lengths in a unit k times smaller.                       *)
(***************************************************************************)
KeptFields == {"kind", "tag", "guid", "sid", "misfits", "conf", "reason"}
PlaceFields == {"at", "start", "end", "polygon"}
MeasuredFields == Lengths \cup {"at", "start", "end", "polygon"}

Keeps(said, row) ==
  /\ DOMAIN row = DOMAIN Blank
  /\ \A f \in KeptFields : row[f] = said[f]
  /\ said.needs => row.needs

MeasuresLength(said, k, row, field) ==
  row[field] \in Int /\ (said[field] # Missing => row[field] = said[field] * k)

MeasuresPoint(said, k, row) ==
  said.at # Nothing => row.at \in [1 .. 2 -> Int] /\ \A c \in 1 .. 2 : row.at[c] = said.at[c] * k

Measures(said, k, row) ==
  (\A field \in Lengths : MeasuresLength(said, k, row, field)) /\ MeasuresPoint(said, k, row)

\* A point is two numbers, where it is there at all.
Points == [1 .. 2 -> Int]
Placed(row) ==
  /\ row.at # Nothing => row.at \in Points
  /\ row.start # Nothing => row.start \in Points
  /\ row.end # Nothing => row.end \in Points
  /\ row.polygon \in Seq(Points)

RowFrom(said, k, row) ==
  SourceRow(said) /\ Keeps(said, row) /\ Measures(said, k, row) /\ Placed(row)

\* The fields that the definitions above speak of are fields.
LEMMA FieldsOfRows ==
  /\ KeptFields \subseteq DOMAIN Blank /\ MeasuredFields \subseteq DOMAIN Blank
  /\ "needs" \in DOMAIN Blank /\ "at" \in DOMAIN Blank /\ "kind" \in DOMAIN Blank
  /\ Lengths \subseteq DOMAIN Blank
BY DEF KeptFields, MeasuredFields, Lengths, Blank

LEMMA RowFromItself ==
  ASSUME NEW row, SourceRow(row)
  PROVE  RowFrom(row, 1, row)
<1>1. Keeps(row, row)
  BY DEF Keeps, SourceRow
<1>2. \A field \in Lengths : MeasuresLength(row, 1, row, field)
  BY DEF SourceRow, MeasuresLength
<1>3. MeasuresPoint(row, 1, row)
  <2> SUFFICES ASSUME row.at # Nothing
               PROVE  row.at \in [1 .. 2 -> Int] /\ \A c \in 1 .. 2 : row.at[c] = row.at[c] * 1
    BY DEF MeasuresPoint
  <2>1. row.at \in [1 .. 2 -> Int]
    BY DEF SourceRow
  <2> QED BY <2>1
<1>4. Placed(row)
  <2>1. row["at"] # Nothing => row["at"] \in Points
    BY DEF SourceRow, Points
  <2>2. row["start"] # Nothing => row["start"] \in Points
    BY DEF SourceRow, Points
  <2>3. row["end"] # Nothing => row["end"] \in Points
    BY DEF SourceRow, Points
  <2>4. row.polygon \in Seq(Points)
    BY DEF SourceRow, Points
  <2> QED BY <2>1, <2>2, <2>3, <2>4 DEF Placed
<1> QED BY <1>1, <1>2, <1>3, <1>4 DEF RowFrom, Measures

LEMMA PlacedTouched ==
  ASSUME NEW row, Placed(row), NEW out, \A field \in PlaceFields : out[field] = row[field]
  PROVE  Placed(out)
<1>1. /\ out["at"] = row["at"] /\ out["start"] = row["start"] /\ out["end"] = row["end"]
      /\ out["polygon"] = row["polygon"]
  BY DEF PlaceFields
<1> QED BY <1>1 DEF Placed

\* An operator that touches none of them changes nothing about it.
LEMMA FromTouched ==
  ASSUME NEW said, NEW k, NEW row, NEW out, NEW S, RowFrom(said, k, row),
         Touches(row, out, S), S \cap (KeptFields \cup MeasuredFields \cup {"needs"}) = {}
  PROVE  RowFrom(said, k, out)
<1>1. DOMAIN row = DOMAIN Blank /\ DOMAIN out = DOMAIN Blank
  BY DEF RowFrom, Keeps, Touches
<1>2. \A f \in KeptFields \cup MeasuredFields \cup {"needs"} : out[f] = row[f]
  BY <1>1, FieldsOfRows DEF Touches
<1>3. Keeps(said, out)
  BY <1>1, <1>2 DEF RowFrom, Keeps
<1>4. \A field \in Lengths : MeasuresLength(said, k, out, field)
  BY <1>2 DEF RowFrom, Measures, MeasuresLength, MeasuredFields
<1>5. MeasuresPoint(said, k, out)
  <2>1. out.at = row.at
    BY <1>2 DEF MeasuredFields
  <2> QED BY <2>1 DEF RowFrom, Measures, MeasuresPoint
<1>6. Placed(out)
  <2>1. PlaceFields \subseteq MeasuredFields
    BY DEF PlaceFields, MeasuredFields
  <2> QED BY <1>2, <2>1, PlacedTouched DEF RowFrom
<1> QED BY <1>3, <1>4, <1>5, <1>6 DEF RowFrom, Measures

\* A scaled point is a point, and one that is not there stays so.
LEMMA PointsScaled ==
  ASSUME NEW k \in Int
  PROVE  /\ \A p \in Points : ScalePoint(p, k) \in Points
         /\ ScalePoint(Nothing, k) = Nothing
<1>1. ASSUME NEW p \in Points PROVE ScalePoint(p, k) \in Points
  <2>1. DOMAIN p = 1 .. 2 /\ \A i \in 1 .. 2 : p[i] \in Int
    BY DEF Points
  <2>2. \A i \in 1 .. 2 : p[i] * k \in Int
    BY <2>1
  <2> QED BY <2>1, <2>2 DEF ScalePoint, Points
<1>2. ScalePoint(Nothing, k) = Nothing
  <2>1. DOMAIN <<>> = {}
    OBVIOUS
  <2> QED BY <2>1 DEF ScalePoint, Nothing
<1> QED BY <1>1, <1>2

LEMMA LinesScaled ==
  ASSUME NEW k \in Int, NEW line \in Seq(Points)
  PROVE  ScaleLine(line, k) \in Seq(Points)
<1>1. Len(line) \in Nat /\ DOMAIN line = 1 .. Len(line) /\ \A i \in 1 .. Len(line) : line[i] \in Points
  OBVIOUS
<1> DEFINE n == Len(line)
           out == [i \in 1 .. n |-> ScalePoint(line[i], k)]
<1>2. ScaleLine(line, k) = out
  BY <1>1 DEF ScaleLine
<1>3. \A i \in 1 .. n : ScalePoint(line[i], k) \in Points
  BY <1>1, PointsScaled
<1> HIDE DEF n
<1>4. n \in Nat
  BY <1>1 DEF n
<1>5. out \in Seq(Points)
  BY <1>3, <1>4
<1> QED BY <1>2, <1>5

LEMMA PlacedScaled ==
  ASSUME NEW row, DOMAIN row = DOMAIN Blank, Placed(row), NEW k \in Int
  PROVE  Placed(ScaleRow(row, k))
<1> DEFINE out == ScaleRow(row, k)
<1>1. {"at", "start", "end", "polygon"} \subseteq DOMAIN row
  BY DEF Blank
<1>2. /\ out.at = ScalePoint(row.at, k) /\ out.start = ScalePoint(row.start, k)
      /\ out.end = ScalePoint(row.end, k) /\ out.polygon = ScaleLine(row.polygon, k)
  BY <1>1 DEF ScaleRow
<1> HIDE DEF out
<1>3. ASSUME NEW p, p # Nothing => p \in Points
      PROVE  ScalePoint(p, k) # Nothing => ScalePoint(p, k) \in Points
  BY <1>3, PointsScaled
<1>4. out.polygon \in Seq(Points)
  BY <1>2, LinesScaled DEF Placed
<1>5. /\ out.at # Nothing => out.at \in Points
      /\ out.start # Nothing => out.start \in Points
      /\ out.end # Nothing => out.end \in Points
  BY <1>2, <1>3 DEF Placed
<1> QED BY <1>4, <1>5 DEF Placed, out

LEMMA ScaledRow ==
  ASSUME NEW row, DOMAIN row = DOMAIN Blank, NEW k
  PROVE  /\ \A field \in Lengths : ScaleRow(row, k)[field] = Times(row[field], k)
         /\ ScaleRow(row, k).at = ScalePoint(row.at, k)
<1>1. {"at", "start", "end", "polygon", "thickness", "height", "width", "sill", "level"}
        \subseteq DOMAIN row
  BY DEF Blank
<1>2. ScaleRow(row, k).at = ScalePoint(row.at, k)
  BY <1>1 DEF ScaleRow
<1>3. /\ ScaleRow(row, k).thickness = Times(row.thickness, k)
      /\ ScaleRow(row, k).height = Times(row.height, k)
      /\ ScaleRow(row, k).width = Times(row.width, k)
      /\ ScaleRow(row, k).sill = Times(row.sill, k)
      /\ ScaleRow(row, k).level = Times(row.level, k)
  BY <1>1 DEF ScaleRow
<1> QED BY <1>2, <1>3 DEF Lengths

LEMMA KeepsTouched ==
  ASSUME NEW said, NEW row, NEW out, NEW S, Keeps(said, row),
         Touches(row, out, S), S \cap (KeptFields \cup {"needs"}) = {}
  PROVE  Keeps(said, out)
BY FieldsOfRows DEF Keeps, Touches

\* A length is converted when it is in the unit of the source, and only then.
LEMMA FromScaled ==
  ASSUME NEW said, NEW j \in Nat, NEW k \in Nat, j = 1 \/ k = 1, NEW row,
         RowFrom(said, j, row)
  PROVE  RowFrom(said, j * k, ScaleRow(row, k))
<1> DEFINE out == ScaleRow(row, k)
<1>1. DOMAIN row = DOMAIN Blank
  BY DEF RowFrom, Keeps
<1>2. /\ \A field \in Lengths : out[field] = Times(row[field], k)
      /\ out.at = ScalePoint(row.at, k)
  BY <1>1, ScaledRow
<1>3. Keeps(said, out)
  <2>1. Touches(row, out, ScaledFields)
    BY ScaleTouches
  <2>2. ScaledFields \cap (KeptFields \cup {"needs"}) = {}
    BY DEF ScaledFields, KeptFields
  <2> HIDE DEF out
  <2> QED BY <2>1, <2>2, KeepsTouched DEF RowFrom
<1> HIDE DEF out
<1>4. ASSUME NEW field \in Lengths PROVE MeasuresLength(said, j * k, out, field)
  <2>1. row[field] \in Int /\ said[field] \in Int
    BY DEF RowFrom, Measures, MeasuresLength, SourceRow
  <2>2. said[field] # Missing => row[field] = said[field] * j
    BY DEF RowFrom, Measures, MeasuresLength
  <2>3. out[field] = IF row[field] = Missing THEN Missing ELSE row[field] * k
    BY <1>2 DEF Times
  <2>4. CASE j = 1
    BY <2>1, <2>2, <2>3, <2>4 DEF MeasuresLength, Missing
  <2>5. CASE k = 1
    <3>1. j * k = j /\ out[field] = row[field]
      BY <2>1, <2>3, <2>5 DEF Missing
    <3> QED BY <2>1, <2>2, <3>1 DEF MeasuresLength
  <2> QED BY <2>4, <2>5
<1>5. MeasuresPoint(said, j * k, out)
  <2> SUFFICES ASSUME said.at # Nothing
               PROVE  /\ out.at \in [1 .. 2 -> Int]
                      /\ \A c \in 1 .. 2 : out.at[c] = said.at[c] * (j * k)
    BY DEF MeasuresPoint
  <2>1. /\ row.at \in [1 .. 2 -> Int] /\ said.at \in [1 .. 2 -> Int]
        /\ \A c \in 1 .. 2 : row.at[c] = said.at[c] * j
    BY DEF RowFrom, Measures, MeasuresPoint, SourceRow
  <2>2. out.at = [c \in 1 .. 2 |-> row.at[c] * k]
    BY <1>2, <2>1 DEF ScalePoint
  <2>3. out.at \in [1 .. 2 -> Int]
    BY <2>1, <2>2
  <2>4. ASSUME NEW c \in 1 .. 2 PROVE out.at[c] = said.at[c] * (j * k)
    <3>1. out.at[c] = (said.at[c] * j) * k /\ said.at[c] \in Int
      BY <2>1, <2>2
    <3> QED BY <3>1
  <2> QED BY <2>3, <2>4
<1>6. Placed(out)
  <2>1. k \in Int
    OBVIOUS
  <2> QED BY <1>1, <2>1, PlacedScaled DEF RowFrom, out
<1> QED BY <1>3, <1>4, <1>5, <1>6 DEF RowFrom, Measures, out

Factors == {1, 10, 100, 1000}

LEMMA FromFilled ==
  ASSUME input.manual.door \in Int, NEW said, NEW k \in Factors, NEW row,
         RowFrom(said, k, row)
  PROVE  RowFrom(said, k, Filled(row))
<1> DEFINE out == Filled(row)
<1>1. Touches(row, out, {"height"})
  BY FilledTouches
<1>2. out.height = row.height \/ (row.height = Missing /\ out.height = input.manual.door)
  <2>1. "height" \in DOMAIN row
    BY DEF RowFrom, Keeps, Blank
  <2> QED BY <2>1 DEF Filled, OrElse
<1> HIDE DEF out
<1>3. Keeps(said, out)
  <2>1. {"height"} \cap (KeptFields \cup {"needs"}) = {}
    BY DEF KeptFields
  <2> QED BY <1>1, <2>1, KeepsTouched DEF RowFrom
<1>4. \A field \in MeasuredFields \ {"height"} : out[field] = row[field]
  <2>1. DOMAIN row = DOMAIN Blank
    BY DEF RowFrom, Keeps
  <2> QED BY <1>1, <2>1, FieldsOfRows DEF Touches
<1>5. MeasuresLength(said, k, out, "height")
  <2>1. "height" \in Lengths
    BY DEF Lengths
  <2>2. row["height"] \in Int /\ said["height"] \in Int
    BY <2>1 DEF RowFrom, Measures, MeasuresLength, SourceRow
  <2>3. said["height"] # Missing => row["height"] = said["height"] * k
    BY <2>1 DEF RowFrom, Measures, MeasuresLength
  <2>4. said["height"] # Missing => row["height"] # Missing
    BY <2>2, <2>3 DEF Factors, Missing
  <2> QED BY <1>2, <2>2, <2>3, <2>4 DEF MeasuresLength
<1>6. \A field \in Lengths : MeasuresLength(said, k, out, field)
  BY <1>4, <1>5 DEF RowFrom, Measures, MeasuresLength, MeasuredFields
<1>7. MeasuresPoint(said, k, out)
  <2>1. out.at = row.at
    BY <1>4 DEF MeasuredFields
  <2> QED BY <2>1 DEF RowFrom, Measures, MeasuresPoint
<1>8. Placed(out)
  <2>1. PlaceFields \subseteq MeasuredFields \ {"height"}
    BY DEF PlaceFields, MeasuredFields
  <2> QED BY <1>4, <2>1, PlacedTouched DEF RowFrom
<1> QED BY <1>3, <1>6, <1>7, <1>8 DEF RowFrom, Measures, out

LEMMA FromNormalised ==
  ASSUME NEW said, NEW k, NEW row, RowFrom(said, k, row)
  PROVE  RowFrom(said, k, Normalise(row))
<1> DEFINE out == Normalise(row)
<1>1. Touches(row, out, RoomFields) /\ DOMAIN row = DOMAIN Blank
  BY NormaliseTouches DEF RowFrom, Keeps
<1>2. row.needs => out.needs
  <2>1. {"needs", "typeSource", "typeConf", "label"} \subseteq DOMAIN row
    BY <1>1 DEF Blank
  <2> QED BY <2>1 DEF Normalise
<1> HIDE DEF out
<1>3. \A f \in KeptFields \cup MeasuredFields : out[f] = row[f]
  <2>1. (KeptFields \cup MeasuredFields) \cap RoomFields = {}
    BY DEF KeptFields, MeasuredFields, Lengths, RoomFields
  <2> QED BY <1>1, <2>1, FieldsOfRows DEF Touches
<1>4. Keeps(said, out)
  BY <1>1, <1>2, <1>3 DEF RowFrom, Keeps, Touches
<1>5. \A field \in Lengths : MeasuresLength(said, k, out, field)
  BY <1>3 DEF RowFrom, Measures, MeasuresLength, MeasuredFields
<1>6. MeasuresPoint(said, k, out)
  <2>1. out.at = row.at
    BY <1>3 DEF MeasuredFields
  <2> QED BY <2>1 DEF RowFrom, Measures, MeasuresPoint
<1>7. Placed(out)
  <2>1. PlaceFields \subseteq MeasuredFields
    BY DEF PlaceFields, MeasuredFields
  <2> QED BY <1>3, <2>1, PlacedTouched DEF RowFrom
<1> QED BY <1>4, <1>5, <1>6, <1>7 DEF RowFrom, Measures, out

\* The origin is a point, and an outline stays one when it is closed.
LEMMA OutlinesClose ==
  /\ <<0, 0>> \in Points
  /\ \A line \in Seq(Points) : line # Nothing => Append(line, Head(line)) \in Seq(Points)
<1>1. <<0, 0>> \in Points
  BY DEF Points
<1>2. ASSUME NEW line \in Seq(Points), line # Nothing
      PROVE  Append(line, Head(line)) \in Seq(Points)
  <2> DEFINE P == Points
  <2> HIDE DEF P
  <2>1. line \in Seq(P) /\ line # <<>>
    BY <1>2 DEF P, Nothing
  <2>2. Append(line, Head(line)) \in Seq(P)
    BY <2>1
  <2> QED BY <2>2 DEF P
<1> QED BY <1>1, <1>2

LEMMA PlacedRead ==
  ASSUME NEW row, DOMAIN row = DOMAIN Blank, Placed(row), NEW walls
  PROVE  Placed(ReadKind(row, walls))
<1>1. {"thickness", "height", "start", "end", "width", "at", "sill", "host", "storey", "area",
       "polygon", "name", "label", "level", "proven"} \subseteq DOMAIN row
  BY DEF Blank
<1>2. Placed(ReadWall(row))
  <2> DEFINE start == IF row.start = Nothing THEN <<0, 0>> ELSE row.start
             end == IF row.end = Nothing THEN start ELSE row.end
             out == ReadWall(row)
  <2>1. out.start = start /\ out.end = end /\ out.at = row.at /\ out.polygon = row.polygon
    BY <1>1 DEF ReadWall
  <2> HIDE DEF out
  <2>2. start \in Points
    BY OutlinesClose DEF Placed
  <2> HIDE DEF start
  <2>3. end \in Points
    BY <2>2 DEF Placed
  <2> HIDE DEF end
  <2> QED BY <2>1, <2>2, <2>3 DEF Placed, out
<1>3. Placed(ReadOpening(row, walls))
  <2> DEFINE out == ReadOpening(row, walls)
  <2>1. /\ out.at = IF row.at = Nothing THEN <<0, 0>> ELSE row.at
        /\ out.start = row.start /\ out.end = row.end /\ out.polygon = row.polygon
    BY <1>1 DEF ReadOpening
  <2> HIDE DEF out
  <2> QED BY <2>1, OutlinesClose DEF Placed, out
<1>4. Placed(ReadSpace(row))
  <2> DEFINE out == ReadSpace(row)
             closed == Append(row.polygon, Head(row.polygon))
  <2>1. /\ out.at = row.at /\ out.start = row.start /\ out.end = row.end
        /\ out.polygon = IF row.polygon = Nothing \/ Closed(row.polygon)
                         THEN row.polygon ELSE closed
    BY <1>1 DEF ReadSpace
  <2>2. row.polygon # Nothing => closed \in Seq(Points)
    BY OutlinesClose DEF Placed
  <2> HIDE DEF out, closed
  <2>3. out.polygon \in Seq(Points)
    BY <2>1, <2>2 DEF Placed
  <2> QED BY <2>1, <2>3 DEF Placed, out
<1>5. Placed(ReadStorey(row))
  <2>1. \A field \in PlaceFields : ReadStorey(row)[field] = row[field]
    <3>1. PlaceFields \subseteq DOMAIN row
      BY <1>1 DEF PlaceFields
    <3>2. Touches(row, ReadStorey(row), {"level", "storey"})
      BY DEF Touches, ReadStorey
    <3>3. {"level", "storey"} \cap PlaceFields = {}
      BY DEF PlaceFields
    <3> QED BY <3>1, <3>2, <3>3 DEF Touches
  <2> QED BY <2>1, PlacedTouched
<1> QED BY <1>2, <1>3, <1>4, <1>5 DEF ReadKind

\* What the reader gives a row, it gives where the file has nothing.
LEMMA FromRead ==
  ASSUME NEW said, NEW row, RowFrom(said, 1, row), NEW walls
  PROVE  RowFrom(said, 1, ReadRow(row, walls))
<1> DEFINE out == ReadRow(row, walls)
           Given(field) == out[field] = row[field]
                             \/ (row[field] = Missing /\ out[field] \in Int)
<1>1. Touches(row, out, ReadFields) /\ DOMAIN row = DOMAIN Blank
  BY ReaderTouches DEF RowFrom, Keeps
<1>2. {"thickness", "height", "start", "end", "width", "at", "sill", "host", "storey", "area",
       "polygon", "name", "label", "level", "proven"} \subseteq DOMAIN row
  BY <1>1 DEF Blank
<1>3. /\ out["thickness"] = row["thickness"] \/ out["thickness"] = OrElse(row["thickness"], 200)
      /\ \/ out["height"] = row["height"]
         \/ out["height"] = OrElse(row["height"], 2800)
         \/ out["height"] = OrElse(row["height"], 0)
      /\ out["width"] = row["width"] \/ out["width"] = OrElse(row["width"], 0)
      /\ out["level"] = row["level"] \/ out["level"] = OrElse(row["level"], 0)
      /\ \/ out["sill"] = row["sill"] \/ out["sill"] = OrElse(row["sill"], 0)
         \/ out["sill"] = Missing /\ row.kind = "door"
      /\ out.at = row.at \/ (row.at = Nothing /\ out.at = <<0, 0>>)
  <2>1. CASE row.kind = "wall"
    <3>1. out = [ReadWall(row) EXCEPT !.proven = TRUE]
      BY <2>1 DEF ReadRow, ReadKind
    <3>2. /\ ReadWall(row).thickness = OrElse(row.thickness, 200)
          /\ ReadWall(row).height = OrElse(row.height, 2800)
          /\ ReadWall(row).width = row.width /\ ReadWall(row).level = row.level
          /\ ReadWall(row).sill = row.sill /\ ReadWall(row).at = row.at
          /\ DOMAIN ReadWall(row) = DOMAIN row
      BY <1>2 DEF ReadWall
    <3> QED BY <1>2, <3>1, <3>2
  <2>2. CASE row.kind \in {"door", "window"}
    <3>1. out = [ReadOpening(row, walls) EXCEPT !.proven = TRUE]
      BY <2>2 DEF ReadRow, ReadKind
    <3>2. /\ ReadOpening(row, walls).thickness = row.thickness
          /\ ReadOpening(row, walls).height = OrElse(row.height, 0)
          /\ ReadOpening(row, walls).width = OrElse(row.width, 0)
          /\ ReadOpening(row, walls).level = row.level
          /\ ReadOpening(row, walls).sill
               = IF row.kind = "window" THEN OrElse(row.sill, 0) ELSE Missing
          /\ ReadOpening(row, walls).at = IF row.at = Nothing THEN <<0, 0>> ELSE row.at
          /\ DOMAIN ReadOpening(row, walls) = DOMAIN row
      BY <1>2 DEF ReadOpening
    <3> QED BY <1>2, <2>2, <3>1, <3>2
  <2>3. CASE row.kind = "room"
    <3>1. out = [ReadSpace(row) EXCEPT !.proven = TRUE]
      BY <2>3 DEF ReadRow, ReadKind
    <3>2. Touches(row, ReadSpace(row), {"area", "polygon", "name", "label"})
      BY DEF Touches, ReadSpace
    <3> QED BY <1>2, <3>1, <3>2 DEF Touches
  <2>4. CASE row.kind = "storey"
    <3>1. out = [ReadStorey(row) EXCEPT !.proven = TRUE]
      BY <2>4 DEF ReadRow, ReadKind
    <3>2. /\ Touches(row, ReadStorey(row), {"level", "storey"})
          /\ ReadStorey(row).level = OrElse(row.level, 0)
      BY <1>2 DEF Touches, ReadStorey
    <3> QED BY <1>2, <3>1, <3>2 DEF Touches
  <2>5. CASE row.kind \notin {"wall", "door", "window", "room", "storey"}
    <3>1. out = [row EXCEPT !.proven = TRUE]
      BY <2>5 DEF ReadRow, ReadKind
    <3> QED BY <1>2, <3>1
  <2> QED BY <2>1, <2>2, <2>3, <2>4, <2>5
<1> HIDE DEF out
<1>4. Keeps(said, out)
  <2>1. ReadFields \cap (KeptFields \cup {"needs"}) = {}
    BY DEF ReadFields, KeptFields
  <2> QED BY <1>1, <2>1, KeepsTouched DEF RowFrom
<1>5. \A field \in Lengths : row[field] \in Int
  BY DEF RowFrom, Measures, MeasuresLength
<1>6. /\ \A field \in {"thickness", "height", "width", "level"} : Given(field)
      /\ Given("sill") \/ (out["sill"] = Missing /\ row.kind = "door")
  BY <1>3 DEF OrElse
<1>7. ASSUME NEW field \in Lengths, Given(field) PROVE MeasuresLength(said, 1, out, field)
  <2>1. row[field] \in Int /\ said[field] \in Int
        /\ (said[field] # Missing => row[field] = said[field] * 1)
    BY DEF RowFrom, Measures, MeasuresLength, SourceRow
  <2> QED BY <1>7, <2>1 DEF MeasuresLength
<1>8. ASSUME out["sill"] = Missing, row.kind = "door"
      PROVE  MeasuresLength(said, 1, out, "sill")
  <2>1. said.kind = "door"
    BY <1>8 DEF RowFrom, Keeps, KeptFields
  <2>2. said["sill"] = Missing
    BY <2>1 DEF RowFrom, SourceRow
  <2> QED BY <1>8, <2>2 DEF MeasuresLength, Missing
<1>9. \A field \in Lengths : MeasuresLength(said, 1, out, field)
  <2> HIDE DEF Given
  <2> QED BY <1>6, <1>7, <1>8 DEF Lengths
<1>10. MeasuresPoint(said, 1, out)
  <2>1. said.at # Nothing => out.at = row.at
    <3>1. said.at # Nothing => row.at # Nothing
      BY DEF RowFrom, Measures, MeasuresPoint, Nothing
    <3> QED BY <1>3, <3>1
  <2> QED BY <2>1 DEF RowFrom, Measures, MeasuresPoint
<1>11. Placed(out)
  <2>1. Placed(row)
    BY DEF RowFrom
  <2>2. \A field \in PlaceFields : out[field] = ReadKind(row, walls)[field]
    <3> DEFINE kept == ReadKind(row, walls)
    <3>1. "proven" \notin PlaceFields /\ PlaceFields \subseteq DOMAIN out
      BY <1>1 DEF PlaceFields, Touches, Blank
    <3>2. out = [kept EXCEPT !.proven = TRUE]
      BY DEF ReadRow, out
    <3> HIDE DEF kept
    <3>3. Touches(kept, out, {"proven"})
      BY <3>2 DEF Touches
    <3>4. \A field \in PlaceFields : out[field] = kept[field]
      BY <3>1, <3>3 DEF Touches
    <3> QED BY <3>4 DEF kept
  <2>3. Placed(ReadKind(row, walls))
    BY <1>1, <2>1, PlacedRead
  <2> QED BY <2>2, <2>3, PlacedTouched
<1> QED BY <1>4, <1>9, <1>10, <1>11 DEF RowFrom, Measures, out

(***************************************************************************)
(* A building at some stage of the run and the source it comes from.        *)
(***************************************************************************)
Parts == {"source", "rows", "units", "contract", "params", "scaleConf", "regions"}

Holds(b, k, m) ==
  /\ Parts \subseteq DOMAIN m
  /\ IsList(m.rows) /\ IsList(m.regions) /\ DOMAIN m.rows = DOMAIN b.rows
  /\ \A i \in DOMAIN b.rows : RowFrom(b.rows[i], k, m.rows[i])
  /\ m.scaleConf = b.scaleConf

\* By how much the adapter multiplies a length.
Conversion(d) ==
  LET length == OrDefault(d.units.length, "mm")
  IN  IF SupportedLengthUnit(length) THEN LengthToMm[length] ELSE 1
Converted(d) == d.units.length \notin {"cm", "m"}

LEMMA Conversions ==
  ASSUME NEW d
  PROVE  /\ Conversion(d) \in {1, 10, 1000}
         /\ Converted(d) => Conversion(d) = 1
<1>1. /\ DOMAIN LengthToMm = {"mm", "cm", "m"}
      /\ LengthToMm["mm"] = 1 /\ LengthToMm["cm"] = 10 /\ LengthToMm["m"] = 1000
  BY DEF LengthToMm
<1> QED BY <1>1 DEF Conversion, Converted, SupportedLengthUnit, OrDefault

LEMMA RowsMapped ==
  ASSUME NEW rows, IsList(rows), NEW out, out = [i \in DOMAIN rows |-> out[i]]
  PROVE  IsList(out) /\ DOMAIN out = DOMAIN rows
<1>1. Len(rows) \in Nat /\ DOMAIN rows = 1 .. Len(rows)
  BY ListShape
<1> QED BY <1>1, MakesList

LEMMA HoldsMapped ==
  ASSUME NEW b, NEW k, NEW m, Holds(b, k, m), NEW j, NEW out,
         out = [i \in DOMAIN m.rows |-> out[i]],
         \A i \in DOMAIN b.rows : RowFrom(b.rows[i], j, out[i])
  PROVE  /\ Holds(b, j, [m EXCEPT !.rows = out])
         /\ [m EXCEPT !.rows = out].units = m.units /\ [m EXCEPT !.rows = out].rows = out
<1> DEFINE new == [m EXCEPT !.rows = out]
<1>1. Parts \subseteq DOMAIN m /\ DOMAIN new = DOMAIN m
  BY DEF Holds
<1>2. /\ new.rows = out /\ new.units = m.units /\ new.regions = m.regions
      /\ new.scaleConf = m.scaleConf
  BY <1>1 DEF Parts
<1> HIDE DEF new
<1>3. IsList(out) /\ DOMAIN out = DOMAIN b.rows
  BY RowsMapped DEF Holds
<1>4. Holds(b, j, new)
  BY <1>1, <1>2, <1>3 DEF Holds
<1> QED BY <1>2, <1>4 DEF new

LEMMA NormalUnits ==
  ASSUME NEW d, Parts \subseteq DOMAIN d
  PROVE  LET n == NormaliseUnits(d)
         IN  /\ DOMAIN n = DOMAIN d /\ n.regions = d.regions /\ n.scaleConf = d.scaleConf
             /\ Converted(n)
             /\ DOMAIN n.rows = DOMAIN d.rows /\ n.rows = [i \in DOMAIN d.rows |-> n.rows[i]]
             /\ \A i \in DOMAIN d.rows :
                   Touches(ScaleRow(d.rows[i], Conversion(d)), n.rows[i], {"area"})
<1> DEFINE length == OrDefault(d.units.length, "mm")
           area == OrDefault(d.units.area, "m2")
           k == IF SupportedLengthUnit(length) THEN LengthToMm[length] ELSE 1
           a == IF SupportedAreaUnit(area) THEN AreaToM2[area] ELSE 1
           Normal(row) ==
             LET scaled == ScaleRow(row, k)
             IN  IF row.kind = "room" /\ row.area # Missing
                 THEN [scaled EXCEPT !.area = @ \div a] ELSE scaled
           rows == [i \in DOMAIN d.rows |-> Normal(d.rows[i])]
           units == [length |-> IF SupportedLengthUnit(length) THEN "mm" ELSE length,
                     area |-> IF SupportedAreaUnit(area) THEN "m2" ELSE area]
           value == Times(d.params.value, k)
           contract == IF d.contract.kept THEN d.contract
                       ELSE [kept |-> TRUE, declared |-> Declared(d.units), input |-> d.units]
           new == [d EXCEPT !.rows = rows, !.units = units, !.params.value = value,
                            !.contract = contract]
<1>1. NormaliseUnits(d) = new
  BY DEF NormaliseUnits
<1>2. k = Conversion(d)
  BY DEF Conversion
<1>3. ASSUME NEW row PROVE Touches(ScaleRow(row, k), Normal(row), {"area"})
  <2> DEFINE scaled == ScaleRow(row, k)
             share == scaled.area \div a
  <2>1. Normal(row) \in {scaled, [scaled EXCEPT !.area = share]}
    OBVIOUS
  <2> HIDE DEF scaled, share, Normal
  <2> QED BY <2>1 DEF Touches, scaled
<1>4. units.length \notin {"cm", "m"}
  <2>1. DOMAIN LengthToMm = {"mm", "cm", "m"}
    BY DEF LengthToMm
  <2> QED BY <2>1 DEF SupportedLengthUnit
<1> HIDE DEF Normal, k, units, value, contract
<1>5. /\ DOMAIN rows = DOMAIN d.rows /\ rows = [i \in DOMAIN d.rows |-> rows[i]]
      /\ \A i \in DOMAIN d.rows : Touches(ScaleRow(d.rows[i], k), rows[i], {"area"})
  BY <1>3
<1> HIDE DEF rows
<1>6. /\ DOMAIN new = DOMAIN d /\ new.rows = rows /\ new.units = units
      /\ new.regions = d.regions /\ new.scaleConf = d.scaleConf
  BY DEF Parts
<1> HIDE DEF new
<1> QED BY <1>1, <1>2, <1>4, <1>5, <1>6 DEF Converted

LEMMA HoldsAdapted ==
  ASSUME NEW b, NEW j \in Nat, NEW d, Holds(b, j, d), j = 1 \/ Conversion(d) = 1
  PROVE  /\ Holds(b, j * Conversion(d), BuildingModel(d)) /\ Converted(BuildingModel(d))
         /\ \A i \in DOMAIN b.rows : \E row :
               /\ BuildingModel(d).rows[i] = RowFromBimData(row)
               /\ Touches(d.rows[i], row, ScaledFields \cup {"area"})
<1> DEFINE n == NormaliseUnits(d)
           k == Conversion(d)
           out == [i \in DOMAIN n.rows |-> RowFromBimData(n.rows[i])]
<1>1. /\ DOMAIN n = DOMAIN d /\ n.regions = d.regions /\ n.scaleConf = d.scaleConf
      /\ Converted(n)
      /\ DOMAIN n.rows = DOMAIN d.rows /\ n.rows = [i \in DOMAIN d.rows |-> n.rows[i]]
      /\ \A i \in DOMAIN d.rows :
            Touches(ScaleRow(d.rows[i], k), n.rows[i], {"area"})
  <2>1. Parts \subseteq DOMAIN d
    BY DEF Holds
  <2> QED BY <2>1, NormalUnits
<1>2. BuildingModel(d) = [n EXCEPT !.rows = out]
  BY DEF BuildingModel
<1> HIDE DEF n
<1>3. k \in Nat /\ j * k \in Nat
  BY Conversions
<1>4. ASSUME NEW i \in DOMAIN b.rows PROVE RowFrom(b.rows[i], j * k, n.rows[i])
  <2>1. RowFrom(b.rows[i], j, d.rows[i]) /\ i \in DOMAIN d.rows
    BY DEF Holds
  <2>2. RowFrom(b.rows[i], j * k, ScaleRow(d.rows[i], k))
    BY <1>3, <2>1, FromScaled
  <2>3. Touches(ScaleRow(d.rows[i], k), n.rows[i], {"area"})
    BY <1>1, <2>1
  <2>4. {"area"} \cap (KeptFields \cup MeasuredFields \cup {"needs"}) = {}
    BY DEF KeptFields, MeasuredFields, Lengths
  <2> HIDE DEF k
  <2> QED BY <2>2, <2>3, <2>4, FromTouched
<1>5. Holds(b, j * k, n)
  <2>1. IsList(n.rows)
    BY <1>1, RowsMapped DEF Holds
  <2> QED BY <1>1, <1>4, <2>1 DEF Holds
<1>6. ASSUME NEW i \in DOMAIN b.rows PROVE RowFrom(b.rows[i], j * k, out[i])
  <2>1. Touches(n.rows[i], RowFromBimData(n.rows[i]), AdaptedFields)
    BY AdapterTouches
  <2>2. AdaptedFields \cap (KeptFields \cup MeasuredFields \cup {"needs"}) = {}
    BY DEF AdaptedFields, KeptFields, MeasuredFields, Lengths
  <2>3. out[i] = RowFromBimData(n.rows[i])
    BY <1>5 DEF Holds
  <2> HIDE DEF k, out
  <2> QED BY <1>4, <2>1, <2>2, <2>3, FromTouched
<1>7. out = [i \in DOMAIN n.rows |-> out[i]]
  OBVIOUS
<1>8. ASSUME NEW i \in DOMAIN b.rows
      PROVE  \E row : /\ out[i] = RowFromBimData(row)
                      /\ Touches(d.rows[i], row, ScaledFields \cup {"area"})
  <2>1. out[i] = RowFromBimData(n.rows[i]) /\ i \in DOMAIN d.rows
    BY <1>5 DEF Holds
  <2>2. Touches(d.rows[i], n.rows[i], ScaledFields \cup {"area"})
    BY <1>1, <2>1, ScaleTouches, TouchesBoth
  <2> QED BY <2>1, <2>2
<1> HIDE DEF out, k
<1>9. /\ Holds(b, j * k, [n EXCEPT !.rows = out])
      /\ [n EXCEPT !.rows = out].units = n.units /\ [n EXCEPT !.rows = out].rows = out
  BY <1>5, <1>6, <1>7, HoldsMapped
<1> QED BY <1>1, <1>2, <1>8, <1>9 DEF Converted, k

LEMMA HoldsIsModel ==
  ASSUME NEW b, NEW k, NEW m, Holds(b, k, m)
  PROVE  IsModel(m)
<1>1. ASSUME NEW i \in DOMAIN m.rows PROVE IsRow(m.rows[i])
  <2>1. RowFrom(b.rows[i], k, m.rows[i])
    BY DEF Holds
  <2>2. m.rows[i]["misfits"] = b.rows[i]["misfits"]
    BY <2>1 DEF RowFrom, Keeps, KeptFields
  <2> QED BY <2>1, <2>2 DEF RowFrom, Keeps, SourceRow, IsRow
<1> QED BY <1>1 DEF Holds, IsModel

LEMMA HoldsBack ==
  ASSUME NEW b, NEW k, NEW m, Holds(b, k, m)
  PROVE  /\ Holds(b, k, ToBimData(m)) /\ ToBimData(m).units = m.units
         /\ \A i \in DOMAIN b.rows :
               Touches(m.rows[i], ToBimData(m).rows[i], {"offset", "convention", "fallback"})
<1> DEFINE out == [i \in DOMAIN m.rows |->
                     [m.rows[i] EXCEPT !.offset = Missing, !.convention = "center",
                                       !.fallback = FALSE]]
<1>1. ASSUME NEW i \in DOMAIN b.rows
      PROVE  /\ RowFrom(b.rows[i], k, out[i])
             /\ Touches(m.rows[i], out[i], {"offset", "convention", "fallback"})
  <2>1. RowFrom(b.rows[i], k, m.rows[i]) /\ i \in DOMAIN m.rows
    BY DEF Holds
  <2>2. Touches(m.rows[i], out[i], {"offset", "convention", "fallback"})
    BY <2>1, RowsGoBack
  <2>3. {"offset", "convention", "fallback"}
          \cap (KeptFields \cup MeasuredFields \cup {"needs"}) = {}
    BY DEF KeptFields, MeasuredFields, Lengths
  <2> HIDE DEF out
  <2> QED BY <2>1, <2>2, <2>3, FromTouched
<1>2. out = [i \in DOMAIN m.rows |-> out[i]]
  OBVIOUS
<1>3. ToBimData(m) = [m EXCEPT !.rows = out]
  BY DEF ToBimData
<1> HIDE DEF out
<1> QED BY <1>1, <1>2, <1>3, HoldsMapped

LEMMA HoldsNormalised ==
  ASSUME NEW b, NEW k, NEW d, Holds(b, k, d)
  PROVE  /\ Holds(b, k, NormaliseRooms(d)) /\ NormaliseRooms(d).units = d.units
         /\ \A i \in DOMAIN b.rows : NormaliseRooms(d).rows[i] = Normalise(d.rows[i])
<1> DEFINE out == [i \in DOMAIN d.rows |-> Normalise(d.rows[i])]
<1>1. ASSUME NEW i \in DOMAIN b.rows
      PROVE  RowFrom(b.rows[i], k, out[i]) /\ out[i] = Normalise(d.rows[i])
  <2>1. RowFrom(b.rows[i], k, d.rows[i]) /\ i \in DOMAIN d.rows
    BY DEF Holds
  <2> QED BY <2>1, FromNormalised
<1>2. out = [i \in DOMAIN d.rows |-> out[i]]
  OBVIOUS
<1>3. NormaliseRooms(d) = [d EXCEPT !.rows = out]
  BY DEF NormaliseRooms
<1> HIDE DEF out
<1> QED BY <1>1, <1>2, <1>3, HoldsMapped

LEMMA HoldsFilled ==
  ASSUME input.manual.door \in Int, NEW b, NEW k \in Factors, NEW m, Holds(b, k, m),
         NEW out, out = [i \in DOMAIN m.rows |-> Filled(m.rows[i])]
  PROVE  /\ Holds(b, k, [m EXCEPT !.rows = out]) /\ [m EXCEPT !.rows = out].units = m.units
         /\ \A i \in DOMAIN b.rows : [m EXCEPT !.rows = out].rows[i] = Filled(m.rows[i])
<1>1. ASSUME NEW i \in DOMAIN b.rows
      PROVE  RowFrom(b.rows[i], k, out[i]) /\ out[i] = Filled(m.rows[i])
  <2>1. RowFrom(b.rows[i], k, m.rows[i]) /\ i \in DOMAIN m.rows
    BY DEF Holds
  <2>2. out[i] = Filled(m.rows[i])
    BY <2>1
  <2> QED BY <2>1, <2>2, FromFilled
<1>2. out = [i \in DOMAIN m.rows |-> out[i]]
  OBVIOUS
<1> QED BY <1>1, <1>2, HoldsMapped

LEMMA HoldsSource ==
  ASSUME NEW b, SourceBuilding(b)
  PROVE  Holds(b, 1, b)
<1>1. \A i \in DOMAIN b.rows : RowFrom(b.rows[i], 1, b.rows[i])
  BY RowFromItself DEF SourceBuilding
<1> QED BY <1>1 DEF SourceBuilding, Holds, Parts

\* What is said of a row of a model is said of the row it comes from.
LEMMA SaysOfSource ==
  ASSUME NEW b, NEW k, NEW m, Holds(b, k, m), NEW s, Says(s, ToSet(m.rows))
  PROVE  Says(s, ToSet(b.rows))
<1>1. ASSUME NEW f, SpeaksOf(f, ToSet(m.rows)) PROVE SpeaksOf(f, ToSet(b.rows))
  <2>1. CASE f.about = 0
    BY <2>1 DEF SpeaksOf
  <2>2. CASE \E row \in ToSet(m.rows) : f.about = row.tag /\ f.guid = row.guid
    <3>1. PICK i \in DOMAIN m.rows : f.about = m.rows[i].tag /\ f.guid = m.rows[i].guid
      BY <2>2 DEF ToSet
    <3>2. /\ i \in DOMAIN b.rows
          /\ m.rows[i].tag = b.rows[i].tag /\ m.rows[i].guid = b.rows[i].guid
      BY DEF Holds, RowFrom, Keeps, KeptFields
    <3>3. b.rows[i] \in ToSet(b.rows)
      BY <3>2 DEF ToSet
    <3> QED BY <3>1, <3>2, <3>3 DEF SpeaksOf
  <2> QED BY <1>1, <2>1, <2>2 DEF SpeaksOf
<1> QED BY <1>1 DEF Says, Speaks

LEMMA FileFactors ==
  ASSUME NEW unit
  PROVE  LengthToMmFactor(unit) \in Factors
<1>1. /\ DOMAIN SiToMm = {"METRE", "DECIMETRE", "CENTIMETRE", "MILLIMETRE"}
      /\ SiToMm["METRE"] = 1000 /\ SiToMm["DECIMETRE"] = 100
      /\ SiToMm["CENTIMETRE"] = 10 /\ SiToMm["MILLIMETRE"] = 1
  BY DEF SiToMm
<1> QED BY <1>1 DEF LengthToMmFactor, Factors

\* A file leaves out the regions, and tells its scale.
LEMMA HoldsRead ==
  ASSUME NEW b, SourceBuilding(b), b.source = "ifc"
  PROVE  Holds(b, LengthToMmFactor(b.unit), ReadIfc(b)) /\ Converted(ReadIfc(b))
<1> DEFINE f == LengthToMmFactor(b.unit)
           placed == [i \in DOMAIN b.rows |-> InStorey(b.rows[i], b.rows)]
           walls == Of(placed, "wall")
           out == [i \in DOMAIN placed |-> ScaleRow(ReadRow(placed[i], walls), f)]
           m == ReadIfc(b)
<1>1. /\ m.rows = out /\ Parts \subseteq DOMAIN m /\ m.regions = <<>>
      /\ m.scaleConf = b.scaleConf /\ m.units.length = "mm"
  BY DEF ReadIfc, Parts, Nothing
<1>2. ASSUME NEW i \in DOMAIN b.rows PROVE RowFrom(b.rows[i], f, out[i])
  <2> DEFINE row == b.rows[i]
             at == InStorey(row, b.rows)
             read == ReadRow(at, walls)
  <2>1. out[i] = ScaleRow(read, f)
    OBVIOUS
  <2> HIDE DEF out, walls, placed
  <2>2. RowFrom(row, 1, row)
    BY RowFromItself DEF SourceBuilding
  <2>3. Touches(row, at, {"storey"})
    BY StoreyTouches
  <2>4. {"storey"} \cap (KeptFields \cup MeasuredFields \cup {"needs"}) = {}
    BY DEF KeptFields, MeasuredFields, Lengths
  <2> HIDE DEF row, at
  <2>5. RowFrom(row, 1, at)
    BY <2>2, <2>3, <2>4, FromTouched
  <2>6. RowFrom(row, 1, read)
    BY <2>5, FromRead
  <2>7. f \in Nat /\ 1 * f = f
    BY FileFactors DEF Factors
  <2> HIDE DEF read, f
  <2>8. RowFrom(row, 1 * f, ScaleRow(read, f))
    BY <2>6, <2>7, FromScaled
  <2> QED BY <2>1, <2>7, <2>8 DEF row
<1>3. DOMAIN out = DOMAIN b.rows /\ out = [i \in DOMAIN b.rows |-> out[i]]
  OBVIOUS
<1> HIDE DEF out
<1>4. IsList(out)
  BY <1>3, RowsMapped DEF SourceBuilding
<1>5. IsList(<<>>)
  BY ShortLists
<1> HIDE DEF m
<1> QED BY <1>1, <1>2, <1>3, <1>4, <1>5 DEF Holds, Converted, m

(***************************************************************************)
(* The ids of findings.                                                    *)
(***************************************************************************)
Numbered(s) == \A i, j \in DOMAIN s : FindingId(s[i]) = FindingId(s[j]) => i = j

LEMMA SameBasis ==
  ASSUME NEW f, NEW g, Touches(f, g, {"ordinal", "verdict", "measured", "severity", "about"}),
         DOMAIN f = Fields
  PROVE  Basis(g) = Basis(f)
<1>1. /\ g.stage = f.stage /\ g.code = f.code /\ g.clause = f.clause
      /\ g.guid = f.guid /\ g.internal = f.internal /\ g.id = f.id
  BY DEF Touches, Fields
<1> QED BY <1>1 DEF Basis

LEMMA FindingTouched ==
  ASSUME NEW f, IsFinding(f), NEW v
  PROVE  /\ DOMAIN f = Fields
         /\ LET g == [f EXCEPT !.ordinal = v]
            IN  IsFinding(g) /\ Touches(f, g, {"ordinal"}) /\ g.ordinal = v
         /\ LET g == [f EXCEPT !.verdict = v]
            IN  IsFinding(g) /\ Touches(f, g, {"verdict"})
<1>1. DOMAIN f = Fields
  BY DEF IsFinding
<1>2. LET g == [f EXCEPT !.ordinal = v]
      IN  IsFinding(g) /\ Touches(f, g, {"ordinal"}) /\ g.ordinal = v
  BY <1>1 DEF IsFinding, Touches, Fields
<1>3. LET g == [f EXCEPT !.verdict = v]
      IN  IsFinding(g) /\ Touches(f, g, {"verdict"})
  BY <1>1 DEF IsFinding, Touches, Fields
<1> QED BY <1>1, <1>2, <1>3

\* The findings of one basis are numbered apart.
LEMMA OrdinalsTellApart ==
  ASSUME NEW s, IsList(s), \A i \in DOMAIN s : IsFinding(s[i])
  PROVE  LET t == AssignOrdinals(s)
         IN  /\ IsList(t) /\ DOMAIN t = DOMAIN s /\ Numbered(t)
             /\ \A i \in DOMAIN s : IsFinding(t[i]) /\ Touches(s[i], t[i], {"ordinal"})
<1> DEFINE Before(i) == {j \in 1 .. (i - 1) : Basis(s[j]) = Basis(s[i])}
           t == [i \in DOMAIN s |-> [s[i] EXCEPT !.ordinal = Cardinality(Before(i))]]
<1>1. AssignOrdinals(s) = t
  BY DEF AssignOrdinals
<1>2. Len(s) \in Nat /\ DOMAIN s = 1 .. Len(s)
  BY ListShape
<1>3. ASSUME NEW i \in DOMAIN s
      PROVE  /\ IsFinding(t[i]) /\ Touches(s[i], t[i], {"ordinal"})
             /\ t[i].ordinal = Cardinality(Before(i)) /\ Basis(t[i]) = Basis(s[i])
  <2> DEFINE n == Cardinality(Before(i))
             g == [s[i] EXCEPT !.ordinal = n]
  <2>1. t[i] = g
    OBVIOUS
  <2> HIDE DEF n
  <2>2. DOMAIN s[i] = Fields /\ IsFinding(g) /\ Touches(s[i], g, {"ordinal"}) /\ g.ordinal = n
    BY FindingTouched
  <2> HIDE DEF g, t
  <2>3. Basis(g) = Basis(s[i])
    BY <2>2, TouchesMore, SameBasis
  <2> QED BY <2>1, <2>2, <2>3 DEF n
<1>4. t = [i \in DOMAIN s |-> t[i]]
  OBVIOUS
<1> HIDE DEF t
<1>5. IsList(t) /\ DOMAIN t = DOMAIN s
  BY <1>4, RowsMapped
<1>6. ASSUME NEW i \in DOMAIN s, NEW j \in DOMAIN s, i < j, FindingId(t[i]) = FindingId(t[j])
      PROVE  FALSE
  <2>1. i \in Nat /\ j \in Nat /\ i \in 1 .. (j - 1) /\ i \notin 1 .. (i - 1)
    BY <1>2, <1>6
  <2>2. Basis(s[i]) = Basis(s[j]) /\ Cardinality(Before(i)) = Cardinality(Before(j))
    <3>1. Basis(t[i]) = Basis(t[j]) /\ t[i].ordinal = t[j].ordinal
      BY <1>6 DEF FindingId
    <3> QED BY <1>3, <3>1
  <2>3. Before(i) \in SUBSET Before(j) /\ i \in Before(j) /\ i \notin Before(i)
    BY <2>1, <2>2
  <2>4. IsFiniteSet(Before(j))
    <3>1. Before(j) \in SUBSET (1 .. (j - 1)) /\ IsFiniteSet(1 .. (j - 1))
      BY <2>1, FS_Interval
    <3> QED BY <3>1, FS_Subset
  <2> HIDE DEF Before
  <2> QED BY <2>2, <2>3, <2>4, FS_Subset
<1>7. Numbered(t)
  <2>1. \A i, j \in DOMAIN s : i \in Nat /\ j \in Nat /\ (i = j \/ i < j \/ j < i)
    BY <1>2
  <2>2. ASSUME NEW i \in DOMAIN s, NEW j \in DOMAIN s, FindingId(t[i]) = FindingId(t[j])
        PROVE  i = j
    BY <1>6, <2>1, <2>2
  <2> QED BY <1>5, <2>2 DEF Numbered
<1> QED BY <1>1, <1>3, <1>5, <1>7

\* A list of findings of one stage, and what the report makes of it.
OfStage(s, stage) == IsList(s) /\ \A i \in DOMAIN s : IsFinding(s[i]) /\ s[i].stage = stage

LEMMA StagesTellApart ==
  ASSUME NEW s, NEW t, NEW p, NEW q, p # q, OfStage(s, p), OfStage(t, q)
  PROVE  \A i \in DOMAIN s, j \in DOMAIN t : FindingId(s[i]) # FindingId(t[j])
<1> SUFFICES ASSUME NEW i \in DOMAIN s, NEW j \in DOMAIN t, FindingId(s[i]) = FindingId(t[j])
             PROVE  FALSE
  OBVIOUS
<1>1. Basis(s[i]) = Basis(t[j])
  BY DEF FindingId
<1>2. s[i].stage = t[j].stage
  BY <1>1 DEF Basis
<1> QED BY <1>2 DEF OfStage

\* The ids of a list of reported findings.
Distinct(s) == \A i, j \in DOMAIN s : s[i].fid = s[j].fid => i = j
Ids(s) == {s[i].fid : i \in DOMAIN s}

LEMMA DistinctBoth ==
  ASSUME NEW s, IsList(s), Distinct(s), NEW t, IsList(t), Distinct(t), Ids(s) \cap Ids(t) = {}
  PROVE  IsList(s \o t) /\ Distinct(s \o t) /\ Ids(s \o t) = Ids(s) \cup Ids(t)
<1> DEFINE st == s \o t
<1>1. /\ IsList(st) /\ Len(st) = Len(s) + Len(t)
      /\ \A i \in 1 .. Len(s) : st[i] = s[i]
      /\ \A i \in 1 .. Len(t) : st[Len(s) + i] = t[i]
  BY ListsJoin
<1>2. /\ Len(s) \in Nat /\ DOMAIN s = 1 .. Len(s) /\ Len(t) \in Nat /\ DOMAIN t = 1 .. Len(t)
      /\ DOMAIN st = 1 .. Len(st)
  BY <1>1, ListShape
<1> HIDE DEF st
<1>3. \A i \in DOMAIN st :
        \/ i \in DOMAIN s /\ st[i] = s[i]
        \/ i - Len(s) \in DOMAIN t /\ st[i] = t[i - Len(s)] /\ i \in Int /\ i > Len(s)
  <2> SUFFICES ASSUME NEW i \in DOMAIN st, i \notin DOMAIN s
               PROVE  /\ i - Len(s) \in DOMAIN t /\ st[i] = t[i - Len(s)]
                      /\ i \in Int /\ i > Len(s)
    BY <1>1, <1>2
  <2>1. i \in Int /\ i > Len(s) /\ i <= Len(s) + Len(t)
    BY <1>1, <1>2
  <2>2. i - Len(s) \in 1 .. Len(t) /\ i = Len(s) + (i - Len(s))
    BY <1>2, <2>1
  <2> QED BY <1>1, <1>2, <2>1, <2>2
<1>4. ASSUME NEW i \in DOMAIN st, NEW j \in DOMAIN st, st[i].fid = st[j].fid PROVE i = j
  <2>1. CASE i \in DOMAIN s /\ st[i] = s[i] /\ j \in DOMAIN s /\ st[j] = s[j]
    BY <1>4, <2>1 DEF Distinct
  <2>2. CASE /\ i - Len(s) \in DOMAIN t /\ st[i] = t[i - Len(s)] /\ i \in Int
             /\ j - Len(s) \in DOMAIN t /\ st[j] = t[j - Len(s)] /\ j \in Int
    <3>1. i - Len(s) = j - Len(s)
      BY <1>4, <2>2 DEF Distinct
    <3> QED BY <1>2, <2>2, <3>1
  <2>3. CASE i \in DOMAIN s /\ st[i] = s[i] /\ j - Len(s) \in DOMAIN t /\ st[j] = t[j - Len(s)]
    BY <1>4, <2>3 DEF Ids
  <2>4. CASE j \in DOMAIN s /\ st[j] = s[j] /\ i - Len(s) \in DOMAIN t /\ st[i] = t[i - Len(s)]
    BY <1>4, <2>4 DEF Ids
  <2> QED BY <1>3, <2>1, <2>2, <2>3, <2>4
<1>5. Ids(st) = Ids(s) \cup Ids(t)
  <2>1. Ids(st) \subseteq Ids(s) \cup Ids(t)
    BY <1>3 DEF Ids
  <2>2. \A i \in DOMAIN s : i \in DOMAIN st /\ st[i] = s[i]
    BY <1>1, <1>2
  <2>3. \A i \in DOMAIN t : Len(s) + i \in DOMAIN st /\ st[Len(s) + i] = t[i]
    BY <1>1, <1>2
  <2>4. Ids(s) \cup Ids(t) \subseteq Ids(st)
    BY <2>2, <2>3 DEF Ids
  <2> QED BY <2>1, <2>4
<1> QED BY <1>1, <1>4, <1>5 DEF Distinct, st

LEMMA StageReported ==
  ASSUME NEW s, IsList(s), Numbered(s)
  PROVE  /\ IsList(NormaliseStage(s)) /\ Distinct(NormaliseStage(s))
         /\ Ids(NormaliseStage(s)) = {FindingId(s[i]) : i \in DOMAIN s}
<1> DEFINE t == NormaliseStage(s)
<1>1. DOMAIN t = DOMAIN s /\ t = [i \in DOMAIN s |-> t[i]]
  BY DEF NormaliseStage
<1>2. \A i \in DOMAIN s : t[i].fid = FindingId(s[i])
  BY DEF NormaliseStage, ReportFinding
<1> HIDE DEF t
<1>3. IsList(t)
  BY <1>1, RowsMapped
<1>4. Distinct(t)
  BY <1>1, <1>2 DEF Distinct, Numbered
<1>5. Ids(t) = {FindingId(s[i]) : i \in DOMAIN s}
  BY <1>1, <1>2 DEF Ids
<1> QED BY <1>3, <1>4, <1>5 DEF t

\* No two findings of the three stages have the same id in the report.
LEMMA ReportTellsApart ==
  ASSUME OfStage(schema, "schema"), Numbered(schema),
         OfStage(quality, "quality"), Numbered(quality),
         OfStage(compliance, "compliance"), Numbered(compliance)
  PROVE  Distinct(Findings)
<1> DEFINE s == NormaliseStage(schema)
           q == NormaliseStage(quality)
           c == NormaliseStage(compliance)
<1>1. /\ IsList(s) /\ Distinct(s) /\ Ids(s) = {FindingId(schema[i]) : i \in DOMAIN schema}
      /\ IsList(q) /\ Distinct(q) /\ Ids(q) = {FindingId(quality[i]) : i \in DOMAIN quality}
      /\ IsList(c) /\ Distinct(c)
      /\ Ids(c) = {FindingId(compliance[i]) : i \in DOMAIN compliance}
  BY StageReported DEF OfStage
<1>2. Ids(s) \cap Ids(q) = {} /\ Ids(s) \cap Ids(c) = {} /\ Ids(q) \cap Ids(c) = {}
  <2>1. /\ \A i \in DOMAIN schema, j \in DOMAIN quality :
              FindingId(schema[i]) # FindingId(quality[j])
        /\ \A i \in DOMAIN schema, j \in DOMAIN compliance :
              FindingId(schema[i]) # FindingId(compliance[j])
        /\ \A i \in DOMAIN quality, j \in DOMAIN compliance :
              FindingId(quality[i]) # FindingId(compliance[j])
    BY StagesTellApart
  <2> HIDE DEF s, q, c
  <2> QED BY <1>1, <2>1
<1> HIDE DEF s, q, c
<1>3. IsList(s \o q) /\ Distinct(s \o q) /\ Ids(s \o q) = Ids(s) \cup Ids(q)
  BY <1>1, <1>2, DistinctBoth
<1>4. Ids(s \o q) \cap Ids(c) = {}
  BY <1>2, <1>3
<1>5. Distinct(s \o q \o c)
  BY <1>1, <1>3, <1>4, DistinctBoth
<1> QED BY <1>5 DEF Findings, s, q, c

(***************************************************************************)
(* The schema checks.                                                      *)
(***************************************************************************)
IsFailure(f) == IsFinding(f) /\ f.stage = "schema" /\ f.severity = "fail" /\ f.about = 0
Fails(s) == IsList(s) /\ \A f \in ToSet(s) : IsFailure(f)

LEMMA SchemaFailFails ==
  ASSUME NEW code, NEW guid
  PROVE  IsFailure(SchemaFail(code, guid))
BY DEF IsFailure, IsFinding, Fields, SchemaFail, Finding

LEMMA FailsOne ==
  ASSUME NEW code, NEW guid
  PROVE  Fails(<<SchemaFail(code, guid)>>) /\ Fails(<<>>)
<1>1. IsFailure(SchemaFail(code, guid))
  BY SchemaFailFails
<1> QED BY <1>1, ShortLists DEF Fails

LEMMA FailsBoth ==
  ASSUME NEW s, Fails(s), NEW t, Fails(t)
  PROVE  Fails(s \o t)
<1>1. IsList(s \o t) /\ ToSet(s \o t) = ToSet(s) \cup ToSet(t)
  BY ListsJoin DEF Fails
<1> QED BY <1>1 DEF Fails

LEMMA FailsEach ==
  ASSUME NEW rows, IsList(rows), NEW s, s = [i \in DOMAIN rows |-> s[i]],
         \A i \in DOMAIN rows : IsFailure(s[i])
  PROVE  Fails(s)
<1>1. IsList(s) /\ DOMAIN s = DOMAIN rows
  BY RowsMapped
<1> QED BY <1>1 DEF Fails, ToSet

LEMMA FailsForEach ==
  ASSUME NEW rows, IsList(rows), NEW ss, ss = [i \in DOMAIN rows |-> ss[i]],
         \A i \in DOMAIN rows : Fails(ss[i])
  PROVE  Fails(FlattenSeq(ss))
<1>1. Len(rows) \in Nat /\ DOMAIN rows = 1 .. Len(rows)
  BY ListShape
<1>2. IsList(ss) /\ Len(ss) = Len(rows)
  BY <1>1, MakesList
<1>3. \A i \in 1 .. Len(rows) : IsList(ss[i])
  BY <1>1 DEF Fails
<1>4. /\ IsList(FlattenSeq(ss))
      /\ ToSet(FlattenSeq(ss)) = UNION {ToSet(ss[i]) : i \in 1 .. Len(rows)}
  BY <1>1, <1>2, <1>3, Flattened
<1> QED BY <1>1, <1>4 DEF Fails

LEMMA SpatialFails ==
  ASSUME NEW b
  PROVE  Fails(SpatialFindings(b))
<1> DEFINE One(code) == <<SchemaFail(code, Nothing)>>
<1>1. \A code : Fails(One(code)) /\ Fails(<<>>)
  BY FailsOne
<1>2. \E s \in {One("IFC-SCHEMA-003"), <<>>}, t \in {One("IFC-SCHEMA-004"), <<>>},
         u \in {One("IFC-SCHEMA-005"), <<>>}, v \in {One("IFC-SCHEMA-006"), <<>>} :
        SpatialFindings(b) = s \o t \o u \o v
  BY DEF SpatialFindings, If
<1> HIDE DEF One
<1> QED BY <1>1, <1>2, FailsBoth

LEMMA ListOfSet ==
  ASSUME NEW S, IsFiniteSet(S)
  PROVE  IsList(SetToSeq(S))
<1> DEFINE n == Cardinality(S)
           P(f) == f \in [1 .. n -> S] /\ IsInjective(f)
<1>1. n \in Nat /\ ExistsBijection(1 .. n, S)
  BY FS_CardinalityType
<1>2. \E f \in [1 .. n -> S] : IsInjective(f)
  BY <1>1 DEF ExistsBijection, Bijection, Injection, IsInjective
<1>3. SetToSeq(S) \in [1 .. n -> S]
  BY <1>2 DEF SetToSeq
<1> HIDE DEF n
<1> QED BY <1>1, <1>3, MakesList

\* The parts of a file that the checks after the first ones look at.
LEMMA FileLists ==
  ASSUME NEW b, SourceBuilding(b), b.source = "ifc"
  PROVE  /\ IsList(b.spatial) /\ IsList(b.incomplete)
         /\ IsList(b.spatial \o Products(b))
         /\ IsList(GuidsOf(b.spatial \o Products(b)))
<1>1. IsList(b.spatial) /\ IsList(b.incomplete) /\ IsList(b.rows)
  BY DEF SourceBuilding
<1>2. IsList(Products(b))
  <2> DEFINE rows == b.rows
             K == {i \in DOMAIN rows : rows[i].kind # "storey"}
             kept == [i \in DOMAIN rows |-> IF i \in K THEN <<rows[i]>> ELSE <<>>]
  <2>1. Products(b) = FlattenSeq([i \in DOMAIN rows |->
                        IF rows[i].kind # "storey" THEN <<rows[i]>> ELSE <<>>])
    BY DEF Products, Where, ForEach, If
  <2>2. [i \in DOMAIN rows |-> IF rows[i].kind # "storey" THEN <<rows[i]>> ELSE <<>>] = kept
    OBVIOUS
  <2>3. IsList(FlattenSeq(kept))
    BY <1>1, Filtered
  <2> QED BY <2>1, <2>2, <2>3
<1>3. IsList(b.spatial \o Products(b))
  BY <1>1, <1>2, ListsJoin
<1>4. IsList(GuidsOf(b.spatial \o Products(b)))
  <2> DEFINE all == b.spatial \o Products(b)
             out == [i \in DOMAIN all |-> all[i].guid]
  <2> HIDE DEF all
  <2>1. out = [i \in DOMAIN all |-> out[i]]
    OBVIOUS
  <2>2. GuidsOf(all) = out
    BY DEF GuidsOf
  <2> HIDE DEF out
  <2>3. IsList(out)
    BY <1>3, <2>1, RowsMapped DEF all
  <2> QED BY <2>2, <2>3 DEF all
<1> QED BY <1>1, <1>3, <1>4

LEMMA GlobalIdsFail ==
  ASSUME NEW b, SourceBuilding(b), b.source = "ifc"
  PROVE  Fails(GlobalIdFindings(b))
<1> DEFINE core == GuidsOf(b.spatial \o CoreProducts(b))
           all == GuidsOf(b.spatial \o Products(b))
           Shared == {g \in ToSet(all) \ {Nothing} :
                        Cardinality({i \in DOMAIN all : all[i] = g}) > 1}
           shared == SetToSeq(Shared)
           first == If(Nothing \in ToSet(core), SchemaFail("IFC-SCHEMA-007", Nothing))
           second == [i \in DOMAIN shared |-> SchemaFail("IFC-SCHEMA-010", shared[i])]
<1>1. GlobalIdFindings(b) = first \o second
  BY DEF GlobalIdFindings
<1>2. Fails(first)
  BY FailsOne DEF If
<1>3. IsList(shared)
  <2>1. IsFiniteSet(ToSet(all))
    BY FileLists, ListIsFinite
  <2>2. Shared \in SUBSET ToSet(all)
    OBVIOUS
  <2> HIDE DEF Shared, all
  <2> QED BY <2>1, <2>2, FS_Subset, ListOfSet
<1> HIDE DEF shared, first
<1>4. second = [i \in DOMAIN shared |-> second[i]] /\ \A i \in DOMAIN shared : IsFailure(second[i])
  BY SchemaFailFails
<1> HIDE DEF second
<1>5. Fails(second)
  BY <1>3, <1>4, FailsEach
<1> QED BY <1>1, <1>2, <1>5, FailsBoth

LEMMA HierarchyFails ==
  ASSUME NEW b, SourceBuilding(b), b.source = "ifc"
  PROVE  Fails(HierarchyFindings(b))
<1> DEFINE all == b.spatial
           K == {i \in DOMAIN all : all[i].class \in DOMAIN ParentOf}
           kept == [i \in DOMAIN all |-> IF i \in K THEN <<all[i]>> ELSE <<>>]
           placed == FlattenSeq(kept)
           Right(e) == {i \in DOMAIN e.under : e.under[i] = ParentOf[e.class]}
           ss == [i \in DOMAIN placed |->
                    If(Cardinality(Right(placed[i])) # 1,
                       SchemaFail("IFC-SCHEMA-008", placed[i].guid))]
<1>1. Where(b.spatial, LAMBDA e : e.class \in DOMAIN ParentOf) = placed
  <2>1. [i \in DOMAIN all |->
           IF all[i].class \in DOMAIN ParentOf THEN <<all[i]>> ELSE <<>>] = kept
    OBVIOUS
  <2>2. Where(b.spatial, LAMBDA e : e.class \in DOMAIN ParentOf)
          = FlattenSeq([i \in DOMAIN all |->
              IF all[i].class \in DOMAIN ParentOf THEN <<all[i]>> ELSE <<>>])
    BY DEF Where, ForEach, If
  <2> QED BY <2>1, <2>2
<1>2. IsList(placed)
  BY FileLists, Filtered
<1>3. HierarchyFindings(b) \in {<<>>, FlattenSeq(ss)}
  BY <1>1 DEF HierarchyFindings, ForEach
<1> HIDE DEF placed
<1>4. ss = [i \in DOMAIN placed |-> ss[i]] /\ \A i \in DOMAIN placed : Fails(ss[i])
  BY FailsOne DEF If
<1> HIDE DEF ss
<1>5. Fails(FlattenSeq(ss)) /\ Fails(<<>>)
  BY <1>2, <1>4, FailsForEach, FailsOne
<1> QED BY <1>3, <1>5

LEMMA MandatoryFails ==
  ASSUME NEW b, SourceBuilding(b), b.source = "ifc"
  PROVE  Fails(MandatoryFindings(b))
<1> DEFINE all == GuidsOf(b.spatial \o Products(b))
           K == {i \in DOMAIN all : all[i] = Nothing}
           kept == [i \in DOMAIN all |-> IF i \in K THEN <<all[i]>> ELSE <<>>]
           lacking == FlattenSeq(kept) \o b.incomplete
           out == [i \in DOMAIN lacking |-> SchemaFail("IFC-SCHEMA-011", lacking[i])]
<1>1. Where(all, LAMBDA g : g = Nothing) = FlattenSeq(kept)
  <2> HIDE DEF all
  <2>1. [i \in DOMAIN all |-> IF all[i] = Nothing THEN <<all[i]>> ELSE <<>>] = kept
    OBVIOUS
  <2>2. Where(all, LAMBDA g : g = Nothing)
          = FlattenSeq([i \in DOMAIN all |-> IF all[i] = Nothing THEN <<all[i]>> ELSE <<>>])
    BY DEF Where, ForEach, If
  <2> QED BY <2>1, <2>2
<1>2. IsList(lacking)
  <2>1. IsList(all) /\ IsList(b.incomplete)
    BY FileLists
  <2> HIDE DEF all
  <2>2. IsList(FlattenSeq(kept))
    BY <2>1, Filtered
  <2> HIDE DEF kept
  <2> QED BY <2>1, <2>2, ListsJoin
<1>3. MandatoryFindings(b) = out
  BY <1>1 DEF MandatoryFindings
<1> HIDE DEF lacking
<1>4. out = [i \in DOMAIN lacking |-> out[i]] /\ \A i \in DOMAIN lacking : IsFailure(out[i])
  BY SchemaFailFails
<1> HIDE DEF out
<1> QED BY <1>2, <1>3, <1>4, FailsEach

\* What a file is let through with is no failure, and so at most the alert that it
\* has nothing to check.
OfNone(s) == \A i \in DOMAIN s : s[i].about = 0
SchemaSays(s) == OfStage(s, "schema") /\ OfNone(s) /\ (Blocking(s) \/ Len(s) <= 1)

LEMMA FailureBlocks ==
  ASSUME NEW s, Fails(s), NEW t, OfStage(t, "schema"), OfNone(t), Len(t) <= 1
  PROVE  SchemaSays(s \o t)
<1>1. IsList(s) /\ IsList(t)
  BY DEF Fails, OfStage
<1> DEFINE st == s \o t
<1>2. /\ IsList(st) /\ ToSet(st) = ToSet(s) \cup ToSet(t) /\ Len(st) = Len(s) + Len(t)
      /\ \A i \in 1 .. Len(s) : st[i] = s[i]
  BY <1>1, ListsJoin
<1>3. /\ Len(s) \in Nat /\ Len(t) \in Nat /\ Len(st) \in Nat /\ DOMAIN s = 1 .. Len(s)
      /\ DOMAIN st = 1 .. Len(st) /\ \A i \in DOMAIN s : s[i] \in ToSet(s)
      /\ \A i \in DOMAIN st : st[i] \in ToSet(st)
  BY <1>1, <1>2, ListShape
<1> HIDE DEF st
<1>4. \A f \in ToSet(st) : IsFinding(f) /\ f.stage = "schema" /\ f.about = 0
  BY <1>2 DEF Fails, IsFailure, OfStage, OfNone, ToSet
<1>5. OfStage(st, "schema") /\ OfNone(st)
  BY <1>2, <1>3, <1>4 DEF OfStage, OfNone
<1>6. CASE Len(s) = 0
  BY <1>2, <1>3, <1>5, <1>6 DEF SchemaSays, st
<1>7. CASE Len(s) # 0
  <2>1. 1 \in DOMAIN s /\ 1 \in DOMAIN st /\ st[1] = s[1]
    BY <1>2, <1>3, <1>7
  <2>2. st[1].severity = "fail"
    BY <1>3, <2>1 DEF Fails, IsFailure
  <2> QED BY <1>5, <2>1, <2>2 DEF SchemaSays, Blocking, st
<1> QED BY <1>6, <1>7

LEMMA SchemaChecksSay ==
  ASSUME NEW b, SourceBuilding(b), b.source = "ifc"
  PROVE  SchemaSays(ValidateIfc(b))
<1> DEFINE none == Finding("schema", "IFC-SCHEMA-009", "alert", "NOT_EVALUATED")
           s == SpatialFindings(b) \o GlobalIdFindings(b) \o HierarchyFindings(b)
                  \o MandatoryFindings(b)
           t == If(CoreProducts(b) = <<>>, none)
<1>1. /\ OfStage(<<none>>, "schema") /\ OfNone(<<none>>) /\ Len(<<none>>) <= 1
      /\ OfStage(<<>>, "schema") /\ OfNone(<<>>) /\ Len(<<>>) <= 1
  <2>1. IsFinding(none) /\ none.stage = "schema" /\ none.about = 0
    BY DEF IsFinding, Fields, Finding
  <2> HIDE DEF none
  <2>2. IsList(<<none>>) /\ IsList(<<>>) /\ Len(<<none>>) = 1 /\ Len(<<>>) = 0
    BY ShortLists
  <2>3. <<none>>[1] = none /\ DOMAIN <<none>> = {1} /\ DOMAIN <<>> = {}
    OBVIOUS
  <2> QED BY <2>1, <2>2, <2>3 DEF OfStage, OfNone
<1> HIDE DEF none
<1>2. OfStage(t, "schema") /\ OfNone(t) /\ Len(t) <= 1
  BY <1>1 DEF If
<1>3. Fails(s)
  <2>1. /\ Fails(SpatialFindings(b)) /\ Fails(GlobalIdFindings(b))
        /\ Fails(HierarchyFindings(b)) /\ Fails(MandatoryFindings(b))
    BY SpatialFails, GlobalIdsFail, HierarchyFails, MandatoryFails
  <2> QED BY <2>1, FailsBoth
<1> HIDE DEF s, t
<1>4. SchemaSays(s \o t)
  BY <1>2, <1>3, FailureBlocks
<1>5. ASSUME NEW code PROVE SchemaSays(<<SchemaFail(code, Nothing)>>)
  <2> DEFINE f == <<SchemaFail(code, Nothing)>>
  <2>1. Fails(f)
    BY FailsOne
  <2>2. IsList(f) /\ ToSet(f) = {SchemaFail(code, Nothing)} /\ Len(f) = 1
    BY ShortLists
  <2>3. IsFailure(SchemaFail(code, Nothing))
    BY SchemaFailFails
  <2>4. DOMAIN f = {1} /\ f[1] = SchemaFail(code, Nothing)
    OBVIOUS
  <2> HIDE DEF f
  <2>5. OfStage(f, "schema") /\ OfNone(f)
    BY <2>2, <2>3, <2>4 DEF OfStage, OfNone, IsFailure
  <2>6. Len(f) <= 1
    BY <2>2
  <2> QED BY <2>5, <2>6 DEF SchemaSays, f
<1>6. ValidateIfc(b) \in {<<SchemaFail("IFC-SCHEMA-001", Nothing)>>,
                          <<SchemaFail("IFC-SCHEMA-002", Nothing)>>, s \o t}
  BY DEF ValidateIfc, s, t, none
<1> QED BY <1>4, <1>5, <1>6

(***************************************************************************)
(* The compliance stage.                                                   *)
(***************************************************************************)
\* A judgement of a clause is about no element, or about one whose length it says
\* and whose id it has.
Judges(f, d) ==
  \E c \in ToSet(Clauses) :
     /\ f.clause = c.id
     /\ \/ f.about = 0
        \/ \E i \in DOMAIN d.rows :
              /\ f.about = d.rows[i].tag /\ f.id = EngineId(d.rows[i])
              /\ f.measured = d.rows[i][c.field]

IsJudgement(f, d) == IsFinding(f) /\ f.stage = "compliance" /\ Judges(f, d)
AreJudgements(s, d) == IsList(s) /\ \A i \in DOMAIN s : IsJudgement(s[i], d)

\* It has the GlobalId of the row that its id is looked up to, if there is one.
Enriched(f, d) ==
  LET row == LastNamed(d.rows, f.id) IN row # Blank => f.guid = row.guid
AreEnriched(s, d) == \A i \in DOMAIN s : Enriched(s[i], d)

LEMMA JudgementTouched ==
  ASSUME NEW f, NEW g, NEW d, IsJudgement(f, d), IsFinding(g),
         Touches(f, g, {"internal", "guid", "ordinal", "verdict"})
  PROVE  IsJudgement(g, d)
<1>1. DOMAIN f = Fields
  BY DEF IsJudgement, IsFinding
<1>2. /\ g.stage = f.stage /\ g.clause = f.clause /\ g.about = f.about
      /\ g.measured = f.measured /\ g.id = f.id
  BY <1>1 DEF Touches, Fields
<1> QED BY <1>2 DEF IsJudgement, Judges

LEMMA ClauseJudges ==
  ASSUME NEW d, IsList(d.rows), NEW c \in ToSet(Clauses)
  PROVE  AreJudgements(JudgeClause(c, d), d)
<1>1. CASE c.kind = "judgement"
  <2> DEFINE f == Judgement(c, "NEEDS_REVIEW")
             s == <<f, f>>
  <2>1. IsFinding(f) /\ f.stage = "compliance" /\ f.clause = c.id /\ f.about = 0
    BY DEF IsFinding, Fields, Judgement, Finding
  <2>2. IsJudgement(f, d)
    BY <2>1 DEF IsJudgement, Judges
  <2>3. JudgeClause(c, d) = s
    BY <1>1 DEF JudgeClause
  <2> HIDE DEF f
  <2>4. s = [i \in 1 .. 2 |-> s[i]] /\ \A i \in 1 .. 2 : s[i] = f
    OBVIOUS
  <2> HIDE DEF s
  <2>5. IsList(s) /\ DOMAIN s = 1 .. 2
    BY <2>4, MakesList
  <2> QED BY <2>2, <2>3, <2>4, <2>5 DEF AreJudgements
<1>2. CASE c.kind # "judgement"
  <2> DEFINE rows == Of(d.rows, c.kind)
             s == [i \in DOMAIN rows |-> JudgeRow(c, rows[i])]
  <2>1. JudgeClause(c, d) = s
    BY <1>2 DEF JudgeClause
  <2>2. IsList(rows) /\ \A i \in DOMAIN rows : rows[i] \in ToSet(d.rows)
    <3>1. IsList(rows) /\ ToSet(rows) = {row \in ToSet(d.rows) : row.kind = c.kind}
      BY OfHolds
    <3> HIDE DEF rows
    <3> QED BY <3>1, ListShape
  <2> HIDE DEF rows
  <2>3. ASSUME NEW row \in ToSet(d.rows) PROVE IsJudgement(JudgeRow(c, row), d)
    <3> DEFINE verdict == IF row[c.field] <= 0 THEN "NOT_EVALUATED"
                          ELSE IF row[c.field] < c.least THEN "FAIL" ELSE "PASS"
               id == EngineId(row)
               tag == row.tag
               length == row[c.field]
               f == [Judgement(c, verdict) EXCEPT !.id = id, !.about = tag, !.measured = length]
    <3>1. JudgeRow(c, row) = f
      BY DEF JudgeRow
    <3> HIDE DEF verdict, id, tag, length
    <3>2. IsFinding(f) /\ f.stage = "compliance" /\ f.clause = c.id
      BY DEF IsFinding, Fields, Judgement, Finding
    <3>3. f.about = tag /\ f.measured = length /\ f.id = id
      BY DEF IsFinding, Fields, Judgement, Finding
    <3> HIDE DEF f
    <3>4. \E i \in DOMAIN d.rows : row = d.rows[i]
      BY DEF ToSet
    <3>5. Judges(f, d)
      BY <3>2, <3>3, <3>4 DEF Judges, tag, length, id
    <3> QED BY <3>1, <3>2, <3>5 DEF IsJudgement
  <2>4. s = [i \in DOMAIN rows |-> s[i]] /\ \A i \in DOMAIN rows : IsJudgement(s[i], d)
    BY <2>2, <2>3
  <2> HIDE DEF s
  <2>5. IsList(s) /\ DOMAIN s = DOMAIN rows
    BY <2>2, <2>4, RowsMapped
  <2> QED BY <2>1, <2>4, <2>5 DEF AreJudgements
<1> QED BY <1>1, <1>2

LEMMA EnrichTouches ==
  ASSUME NEW f, IsFinding(f), NEW rows
  PROVE  IsFinding(Enrich(f, rows)) /\ Touches(f, Enrich(f, rows), {"internal", "guid"})
<1> DEFINE row == LastNamed(rows, f.id)
           a == row.internal
           b == row.guid
           g == [f EXCEPT !.internal = a, !.guid = b]
<1>1. Enrich(f, rows) \in {f, g}
  BY DEF Enrich
<1> HIDE DEF a, b
<1>2. IsFinding(g) /\ Touches(f, g, {"internal", "guid"})
  BY DEF IsFinding, Touches, Fields
<1>3. Touches(f, f, {"internal", "guid"})
  BY TouchesNone
<1> HIDE DEF g
<1> QED BY <1>1, <1>2, <1>3

LEMMA EnrichNames ==
  ASSUME NEW f, IsFinding(f), NEW d
  PROVE  Enriched(Enrich(f, d.rows), d)
<1> DEFINE row == LastNamed(d.rows, f.id)
           g == Enrich(f, d.rows)
           a == row.internal
           b == row.guid
<1>1. g = IF row = Blank THEN f ELSE [f EXCEPT !.internal = a, !.guid = b]
  BY DEF Enrich
<1>2. DOMAIN f = Fields
  BY DEF IsFinding
<1> HIDE DEF g, a, b
<1>3. g.id = f.id /\ (row # Blank => g.guid = b)
  BY <1>1, <1>2 DEF Fields
<1>4. Enriched(g, d)
  BY <1>3 DEF Enriched, b
<1> QED BY <1>4 DEF g

LEMMA EnrichedTouched ==
  ASSUME NEW f, IsFinding(f), NEW d, Enriched(f, d), NEW g,
         Touches(f, g, {"ordinal", "verdict"})
  PROVE  Enriched(g, d)
<1>1. DOMAIN f = Fields
  BY DEF IsFinding
<1>2. g.id = f.id /\ g.guid = f.guid
  BY <1>1 DEF Touches, Fields
<1> QED BY <1>2 DEF Enriched

LEMMA JudgementsAre ==
  ASSUME NEW d, IsList(d.rows)
  PROVE  LET judged == FlattenSeq([i \in DOMAIN Clauses |-> JudgeClause(Clauses[i], d)])
             all == Downgrade(AssignOrdinals(EnrichAll(judged, d)))
         IN  AreJudgements(all, d) /\ Numbered(all) /\ AreEnriched(all, d)
<1> DEFINE ss == [i \in DOMAIN Clauses |-> JudgeClause(Clauses[i], d)]
           judged == FlattenSeq(ss)
           enriched == EnrichAll(judged, d)
           numbered == AssignOrdinals(enriched)
           all == Downgrade(numbered)
<1>1. IsList(Clauses)
  BY ClausesAssumption DEF ClausesAssumption
<1>2. AreJudgements(judged, d)
  <2>1. Len(Clauses) \in Nat /\ DOMAIN Clauses = 1 .. Len(Clauses)
        /\ \A i \in DOMAIN Clauses : Clauses[i] \in ToSet(Clauses)
    BY <1>1, ListShape
  <2>2. ss = [i \in 1 .. Len(Clauses) |-> ss[i]]
        /\ \A i \in 1 .. Len(Clauses) : AreJudgements(ss[i], d)
    BY <2>1, ClauseJudges
  <2> HIDE DEF ss
  <2>3. IsList(ss) /\ Len(ss) = Len(Clauses)
    BY <2>1, <2>2, MakesList
  <2>4. \A i \in 1 .. Len(Clauses) : IsList(ss[i])
    BY <2>2 DEF AreJudgements
  <2>5. /\ IsList(judged)
        /\ ToSet(judged) = UNION {ToSet(ss[i]) : i \in 1 .. Len(Clauses)}
    BY <2>1, <2>3, <2>4, Flattened
  <2>6. ASSUME NEW f \in ToSet(judged) PROVE IsJudgement(f, d)
    <3>1. PICK i \in 1 .. Len(Clauses) : f \in ToSet(ss[i])
      BY <2>5
    <3>2. PICK k \in DOMAIN ss[i] : f = ss[i][k]
      BY <3>1 DEF ToSet
    <3> QED BY <2>2, <3>2 DEF AreJudgements
  <2> HIDE DEF judged
  <2>7. \A i \in DOMAIN judged : judged[i] \in ToSet(judged)
    BY <2>5, ListShape
  <2> QED BY <2>5, <2>6, <2>7 DEF AreJudgements
<1> HIDE DEF judged
<1>3. AreJudgements(enriched, d) /\ AreEnriched(enriched, d)
  <2>1. ASSUME NEW i \in DOMAIN judged PROVE IsJudgement(Enrich(judged[i], d.rows), d)
    <3> DEFINE f == judged[i]
               g == Enrich(f, d.rows)
    <3>1. IsJudgement(f, d) /\ IsFinding(f)
      BY <1>2 DEF AreJudgements, IsJudgement
    <3> HIDE DEF f
    <3>2. IsFinding(g) /\ Touches(f, g, {"internal", "guid"})
      BY <3>1, EnrichTouches
    <3> HIDE DEF g
    <3>3. Touches(f, g, {"internal", "guid", "ordinal", "verdict"})
      BY <3>2, TouchesMore
    <3>4. IsJudgement(g, d)
      BY <3>1, <3>2, <3>3, JudgementTouched
    <3> QED BY <3>4 DEF f, g
  <2>2. enriched = [i \in DOMAIN judged |-> Enrich(judged[i], d.rows)]
    BY DEF EnrichAll
  <2> HIDE DEF enriched
  <2>3. enriched = [i \in DOMAIN judged |-> enriched[i]]
    BY <2>2
  <2>4. IsList(enriched) /\ DOMAIN enriched = DOMAIN judged
    BY <1>2, <2>3, RowsMapped DEF AreJudgements
  <2>5. \A i \in DOMAIN judged : enriched[i] = Enrich(judged[i], d.rows)
    BY <2>2
  <2>6. \A i \in DOMAIN judged : Enriched(enriched[i], d)
    BY <1>2, <2>5, EnrichNames DEF AreJudgements, IsJudgement
  <2> QED BY <2>1, <2>4, <2>5, <2>6 DEF AreJudgements, AreEnriched
<1> HIDE DEF enriched
<1>4. AreJudgements(numbered, d) /\ Numbered(numbered) /\ AreEnriched(numbered, d)
  <2>1. IsList(enriched) /\ \A i \in DOMAIN enriched : IsFinding(enriched[i])
    BY <1>3 DEF AreJudgements, IsJudgement
  <2>2. /\ IsList(numbered) /\ DOMAIN numbered = DOMAIN enriched /\ Numbered(numbered)
        /\ \A i \in DOMAIN enriched :
              IsFinding(numbered[i]) /\ Touches(enriched[i], numbered[i], {"ordinal"})
    BY <2>1, OrdinalsTellApart
  <2> HIDE DEF numbered
  <2>3. ASSUME NEW i \in DOMAIN enriched PROVE IsJudgement(numbered[i], d)
    <3>1. Touches(enriched[i], numbered[i], {"internal", "guid", "ordinal", "verdict"})
      BY <2>2, TouchesMore
    <3>2. IsJudgement(enriched[i], d) /\ IsFinding(numbered[i])
      BY <1>3, <2>2 DEF AreJudgements
    <3> QED BY <3>1, <3>2, JudgementTouched
  <2>4. ASSUME NEW i \in DOMAIN enriched PROVE Enriched(numbered[i], d)
    <3>1. Touches(enriched[i], numbered[i], {"ordinal", "verdict"})
      BY <2>2, TouchesMore
    <3> QED BY <1>3, <2>1, <3>1, EnrichedTouched DEF AreEnriched
  <2> QED BY <2>2, <2>3, <2>4 DEF AreJudgements, AreEnriched
<1> HIDE DEF numbered
<1>5. ASSUME NEW i \in DOMAIN numbered
      PROVE  /\ IsJudgement(all[i], d) /\ FindingId(all[i]) = FindingId(numbered[i])
             /\ Enriched(all[i], d)
  <2> DEFINE f == numbered[i]
             g == [f EXCEPT !.verdict = "NOT_EVALUATED"]
  <2>1. all[i] \in {f, g}
    BY DEF Downgrade
  <2>2. IsJudgement(f, d) /\ IsFinding(f)
    BY <1>4 DEF AreJudgements, IsJudgement
  <2> HIDE DEF f, all
  <2>3. DOMAIN f = Fields /\ IsFinding(g) /\ Touches(f, g, {"verdict"})
    BY <2>2, FindingTouched
  <2> HIDE DEF g
  <2>4. /\ Touches(f, g, {"internal", "guid", "ordinal", "verdict"})
        /\ Touches(f, g, {"ordinal", "verdict", "measured", "severity", "about"})
    BY <2>3, TouchesMore
  <2>5. IsJudgement(g, d)
    BY <2>2, <2>3, <2>4, JudgementTouched
  <2>6. Basis(g) = Basis(f) /\ g.ordinal = f.ordinal
    <3>1. g.ordinal = f.ordinal
      BY <2>3 DEF Touches, Fields
    <3> QED BY <2>3, <2>4, <3>1, SameBasis
  <2>7. Enriched(f, d) /\ Enriched(g, d)
    <3>1. Enriched(f, d)
      BY <1>4 DEF AreEnriched, f
    <3>2. Touches(f, g, {"ordinal", "verdict"})
      BY <2>3, TouchesMore
    <3> QED BY <2>2, <3>1, <3>2, EnrichedTouched
  <2> QED BY <2>1, <2>2, <2>5, <2>6, <2>7 DEF FindingId, f
<1>6. all = [i \in DOMAIN numbered |-> all[i]]
  BY DEF Downgrade
<1> HIDE DEF all
<1>7. IsList(all) /\ DOMAIN all = DOMAIN numbered
  BY <1>4, <1>6, RowsMapped DEF AreJudgements
<1>8. AreJudgements(all, d) /\ Numbered(all) /\ AreEnriched(all, d)
  BY <1>4, <1>5, <1>7 DEF AreJudgements, Numbered, AreEnriched
<1> QED BY <1>8 DEF all, numbered, enriched, judged

(***************************************************************************)
(* The quality stage, plugin by plugin.                                    *)
(***************************************************************************)
Crashes(q) == {i \in DOMAIN q : q[i].code = "QC-INTERNAL-001"}
OnlyOnce(l) == \A i, j \in DOMAIN l : l[i] = l[j] => i = j

Running(q, l, c, m, r) ==
  /\ IsList(q) /\ \A f \in ToSet(q) : QualityFinding(f)
  /\ IsList(l) /\ OnlyOnce(l)
  /\ c \subseteq ToSet(Registry) /\ ToSet(l) \cap c = {}
  /\ \A p \in ToSet(Registry) \ (c \cup ToSet(l)) :
        ToSet(RunPlugin(p, m, r)) \subseteq ToSet(q)
  /\ IsFiniteSet(Crashes(q)) /\ Cardinality(Crashes(q)) = Cardinality(c)

Told(q, c, m, r) ==
  /\ \A p \in ToSet(Registry) \ c :
        \A f \in ToSet(RunPlugin(p, m, r)) : \E g \in ToSet(q) : [g EXCEPT !.ordinal = 0] = f
  /\ Cardinality(Crashes(q)) = Cardinality(c)

LEMMA RegistryIsList == IsList(Registry) /\ OnlyOnce(Registry)
<1>1. Registry = [i \in 1 .. 10 |-> Registry[i]] /\ DOMAIN Registry = 1 .. 10
  BY DEF Registry
<1>2. IsList(Registry)
  BY <1>1, MakesList
<1>3. OnlyOnce(Registry)
  BY DEF OnlyOnce, Registry
<1> QED BY <1>2, <1>3

LEMMA SeqShape ==
  ASSUME NEW S, NEW s \in Seq(S)
  PROVE  s = [i \in 1 .. Len(s) |-> s[i]]
OBVIOUS

LEMMA ListTail ==
  ASSUME NEW l, IsList(l), l # <<>>
  PROVE  /\ IsList(Tail(l)) /\ ToSet(l) = {Head(l)} \cup ToSet(Tail(l))
         /\ OnlyOnce(l) => OnlyOnce(Tail(l)) /\ Head(l) \notin ToSet(Tail(l))
<1> DEFINE t == Tail(l)
           n == Len(l) - 1
<1>1. /\ l \in Seq(ToSet(l)) /\ Len(l) \in Nat /\ Len(l) # 0 /\ DOMAIN l = 1 .. Len(l)
  BY DEF IsList
<1>2. /\ Head(l) = l[1] /\ t \in Seq(ToSet(l)) /\ Len(t) = n /\ n \in Nat
      /\ DOMAIN t = 1 .. n
  BY <1>1
<1>3. \A i \in 1 .. n : t[i] = l[i + 1] /\ i + 1 \in DOMAIN l
  BY <1>1, <1>2
<1> HIDE DEF t
<1>4. t = [i \in 1 .. n |-> t[i]]
  <2>1. t = [i \in 1 .. Len(t) |-> t[i]]
    BY <1>2, SeqShape
  <2> QED BY <1>2, <2>1
<1>5. IsList(t)
  BY <1>2, <1>4, MakesList
<1>6. ToSet(l) = {Head(l)} \cup ToSet(t)
  <2>1. ASSUME NEW i \in DOMAIN l PROVE l[i] \in {Head(l)} \cup ToSet(t)
    <3>1. CASE i = 1
      BY <1>2, <3>1
    <3>2. CASE i # 1
      <4>1. i - 1 \in 1 .. n /\ i = (i - 1) + 1
        BY <1>1, <3>2
      <4>2. t[i - 1] = l[i]
        BY <1>3, <4>1
      <4> QED BY <1>2, <4>1, <4>2 DEF ToSet
    <3> QED BY <3>1, <3>2
  <2>2. Head(l) \in ToSet(l)
    BY <1>1, <1>2 DEF ToSet
  <2>3. \A i \in DOMAIN t : t[i] \in ToSet(l)
    BY <1>2, <1>3 DEF ToSet
  <2> QED BY <2>1, <2>2, <2>3 DEF ToSet
<1>7. ASSUME OnlyOnce(l) PROVE OnlyOnce(t) /\ Head(l) \notin ToSet(t)
  <2>1. ASSUME NEW i \in DOMAIN t, NEW j \in DOMAIN t, t[i] = t[j] PROVE i = j
    <3>1. l[i + 1] = l[j + 1] /\ i + 1 \in DOMAIN l /\ j + 1 \in DOMAIN l
      BY <1>2, <1>3, <2>1
    <3>2. i + 1 = j + 1
      BY <1>7, <3>1 DEF OnlyOnce
    <3>3. i \in Nat /\ j \in Nat
      BY <1>2
    <3> QED BY <3>2, <3>3
  <2>2. ASSUME NEW i \in DOMAIN t PROVE t[i] # Head(l)
    <3>1. i + 1 # 1 /\ i + 1 \in DOMAIN l /\ 1 \in DOMAIN l /\ t[i] = l[i + 1]
      BY <1>1, <1>2, <1>3
    <3> QED BY <1>2, <1>7, <3>1 DEF OnlyOnce
  <2> QED BY <2>1, <2>2 DEF OnlyOnce, ToSet
<1> QED BY <1>5, <1>6, <1>7 DEF t

\* Only the stage itself tells of a plugin that raised.
LEMMA CrashesOfBoth ==
  ASSUME NEW q, IsList(q), NEW S, NEW s, Says(s, S)
  PROVE  Crashes(q \o s) = Crashes(q)
<1>1. /\ Len(q \o s) = Len(q) + Len(s) /\ IsList(q \o s)
      /\ \A i \in 1 .. Len(q) : (q \o s)[i] = q[i]
      /\ \A i \in 1 .. Len(s) : (q \o s)[Len(q) + i] = s[i]
  BY ListsJoin DEF Says
<1> DEFINE qs == q \o s
<1>2. /\ Len(q) \in Nat /\ Len(s) \in Nat /\ DOMAIN q = 1 .. Len(q) /\ DOMAIN s = 1 .. Len(s)
      /\ DOMAIN qs = 1 .. Len(qs)
  BY <1>1, ListShape DEF Says
<1> HIDE DEF qs
<1>3. \A i \in DOMAIN q : i \in DOMAIN qs /\ qs[i] = q[i]
  BY <1>1, <1>2 DEF qs
<1>4. ASSUME NEW i \in DOMAIN qs, i \notin DOMAIN q PROVE qs[i].code # "QC-INTERNAL-001"
  <2>1. i - Len(q) \in 1 .. Len(s) /\ i = Len(q) + (i - Len(q))
    BY <1>1, <1>2, <1>4 DEF qs
  <2>2. qs[i] = s[i - Len(q)]
    BY <1>1, <2>1 DEF qs
  <2>3. s[i - Len(q)] \in ToSet(s)
    BY <1>2, <2>1 DEF ToSet
  <2> QED BY <2>2, <2>3 DEF Says, Speaks
<1> QED BY <1>3, <1>4 DEF Crashes, qs

LEMMA StageBegins ==
  ASSUME NEW S, NEW q, Says(q, S), NEW m, NEW r
  PROVE  Running(q, Registry, {}, m, r)
<1>1. IsList(q) /\ \A i \in DOMAIN q : q[i] \in ToSet(q)
  BY DEF Says, ToSet
<1>2. Crashes(q) = {}
  BY <1>1 DEF Crashes, Says, Speaks
<1>3. IsFiniteSet(Crashes(q)) /\ Cardinality(Crashes(q)) = Cardinality({})
  BY <1>2, FS_EmptySet
<1> QED BY <1>1, <1>3, RegistryIsList DEF Running, Says, Speaks

LEMMA PluginRan ==
  ASSUME NEW q, NEW l, NEW c, NEW m, NEW r, Running(q, l, c, m, r), l # <<>>,
         IsModel(m), IsList(r.flagged)
  PROVE  Running(q \o RunPlugin(Head(l), m, r), Tail(l), c, m, r)
<1> DEFINE s == RunPlugin(Head(l), m, r)
           qs == q \o s
           t == Tail(l)
           S == ToSet(m.rows)
<1>1. Says(s, S)
  BY PluginsSay
<1>2. IsList(q) /\ IsList(l) /\ OnlyOnce(l)
  BY DEF Running
<1>3. IsList(t) /\ ToSet(l) = {Head(l)} \cup ToSet(t) /\ OnlyOnce(t)
  BY <1>2, ListTail
<1>4. IsList(qs) /\ ToSet(qs) = ToSet(q) \cup ToSet(s) /\ Crashes(qs) = Crashes(q)
  <2>1. IsList(s)
    BY <1>1 DEF Says
  <2> HIDE DEF s
  <2> QED BY <1>1, <1>2, <2>1, ListsJoin, CrashesOfBoth
<1>5. \A p \in ToSet(Registry) \ (c \cup ToSet(t)) :
        ToSet(RunPlugin(p, m, r)) \subseteq ToSet(qs)
  <2> SUFFICES ASSUME NEW p \in ToSet(Registry) \ (c \cup ToSet(t))
               PROVE  ToSet(RunPlugin(p, m, r)) \subseteq ToSet(qs)
    OBVIOUS
  <2>1. CASE p = Head(l)
    BY <1>4, <2>1
  <2>2. CASE p # Head(l)
    BY <1>3, <1>4, <2>2 DEF Running
  <2> QED BY <2>1, <2>2
<1>6. \A f \in ToSet(qs) : QualityFinding(f)
  BY <1>1, <1>4 DEF Running, Says, Speaks
<1> HIDE DEF qs, t
<1>7. ToSet(t) \cap c = {}
  BY <1>3 DEF Running
<1>8. IsFiniteSet(Crashes(qs)) /\ Cardinality(Crashes(qs)) = Cardinality(c)
  BY <1>4 DEF Running
<1>9. c \subseteq ToSet(Registry)
  BY DEF Running
<1> QED BY <1>3, <1>4, <1>5, <1>6, <1>7, <1>8, <1>9 DEF Running, qs, t

LEMMA PluginRaised ==
  ASSUME NEW q, NEW l, NEW c, NEW m, NEW r, Running(q, l, c, m, r), l # <<>>,
         ToSet(l) \subseteq ToSet(Registry)
  PROVE  Running(Append(q, Alert("QC-INTERNAL-001")), Tail(l), c \cup {Head(l)}, m, r)
<1> DEFINE a == Alert("QC-INTERNAL-001")
           qs == Append(q, a)
           t == Tail(l)
           d == c \cup {Head(l)}
           n == Len(q)
<1>1. IsList(q) /\ IsList(l) /\ OnlyOnce(l)
  BY DEF Running
<1>2. /\ IsList(t) /\ ToSet(l) = {Head(l)} \cup ToSet(t) /\ OnlyOnce(t)
      /\ Head(l) \notin ToSet(t)
  BY <1>1, ListTail
<1>3. QualityFinding(a) /\ a.code = "QC-INTERNAL-001"
  BY DEF QualityFinding, IsFinding, Fields, Alert, Finding
<1> HIDE DEF a
<1>4. n \in Nat /\ DOMAIN q = 1 .. n /\ q \in Seq(ToSet(q))
  BY <1>1, ListShape DEF IsList
<1>5. /\ Len(qs) = n + 1 /\ DOMAIN qs = 1 .. (n + 1) /\ qs[n + 1] = a
      /\ \A i \in 1 .. n : qs[i] = q[i]
      /\ qs = [i \in 1 .. (n + 1) |-> qs[i]]
  <2> DEFINE S == ToSet(q) \cup {a}
  <2>1. q \in Seq(S)
    BY <1>4
  <2> HIDE DEF S
  <2>2. qs \in Seq(S) /\ Len(qs) = n + 1 /\ DOMAIN qs = 1 .. (n + 1)
    BY <1>4, <2>1, a \in S DEF S
  <2>3. qs[n + 1] = a /\ \A i \in 1 .. n : qs[i] = q[i]
    BY <1>4, <2>1
  <2> HIDE DEF qs
  <2>4. qs = [i \in 1 .. (n + 1) |-> qs[i]]
    <3>1. qs = [i \in 1 .. Len(qs) |-> qs[i]]
      BY <2>2, SeqShape
    <3> QED BY <2>2, <3>1
  <2> QED BY <2>2, <2>3, <2>4
<1> HIDE DEF qs, n
<1>6. DOMAIN qs = DOMAIN q \cup {n + 1} /\ n + 1 \notin DOMAIN q
  BY <1>4, <1>5
<1>7. IsList(qs)
  BY <1>4, <1>5, MakesList
<1>8. ToSet(qs) = ToSet(q) \cup {a}
  <2>1. \A i \in DOMAIN q : i \in DOMAIN qs /\ qs[i] = q[i]
    BY <1>4, <1>5, <1>6
  <2>2. n + 1 \in DOMAIN qs /\ qs[n + 1] = a
    BY <1>5, <1>6
  <2> QED BY <1>6, <2>1, <2>2 DEF ToSet
<1>9. Crashes(qs) = Crashes(q) \cup {n + 1} /\ n + 1 \notin Crashes(q)
  BY <1>3, <1>4, <1>5, <1>6 DEF Crashes
<1>10. IsFiniteSet(Crashes(qs)) /\ Cardinality(Crashes(qs)) = Cardinality(d)
  <2>1. IsFiniteSet(Crashes(q)) /\ Cardinality(Crashes(q)) = Cardinality(c)
    BY DEF Running
  <2>2. IsFiniteSet(c)
    <3>1. IsFiniteSet(ToSet(Registry)) /\ c \in SUBSET ToSet(Registry)
      BY RegistryIsList, ListIsFinite DEF Running
    <3> QED BY <3>1, FS_Subset
  <2>3. Head(l) \notin c
    BY <1>2 DEF Running
  <2>4. Cardinality(d) = Cardinality(c) + 1
    BY <2>2, <2>3, FS_AddElement
  <2>5. IsFiniteSet(Crashes(qs)) /\ Cardinality(Crashes(qs)) = Cardinality(Crashes(q)) + 1
    BY <1>9, <2>1, FS_AddElement
  <2> QED BY <2>1, <2>4, <2>5
<1>11. \A p \in ToSet(Registry) \ (d \cup ToSet(t)) :
         ToSet(RunPlugin(p, m, r)) \subseteq ToSet(qs)
  BY <1>2, <1>8 DEF Running
<1>12. d \subseteq ToSet(Registry) /\ ToSet(t) \cap d = {}
  BY <1>2 DEF Running
<1>13. \A f \in ToSet(qs) : QualityFinding(f)
  BY <1>3, <1>8 DEF Running
<1> HIDE DEF t, d
<1> QED BY <1>2, <1>7, <1>10, <1>11, <1>12, <1>13 DEF Running, qs, t, d, a

LEMMA StageEnds ==
  ASSUME NEW q, NEW c, NEW m, NEW r, Running(q, <<>>, c, m, r)
  PROVE  LET n == AssignOrdinals(q)
         IN  OfStage(n, "quality") /\ Numbered(n) /\ Told(n, c, m, r)
<1> DEFINE n == AssignOrdinals(q)
<1>1. IsList(q) /\ \A i \in DOMAIN q : q[i] \in ToSet(q) /\ QualityFinding(q[i])
  BY DEF Running, ToSet
<1>2. /\ IsList(n) /\ DOMAIN n = DOMAIN q /\ Numbered(n)
      /\ \A i \in DOMAIN q : IsFinding(n[i]) /\ Touches(q[i], n[i], {"ordinal"})
  <2>1. \A i \in DOMAIN q : IsFinding(q[i])
    BY <1>1 DEF QualityFinding
  <2> QED BY <1>1, <2>1, OrdinalsTellApart
<1> HIDE DEF n
<1>3. ASSUME NEW i \in DOMAIN q
      PROVE  /\ n[i].stage = "quality" /\ n[i].code = q[i].code
             /\ [n[i] EXCEPT !.ordinal = 0] = q[i]
  <2>1. DOMAIN q[i] = Fields /\ q[i] = [f \in Fields |-> q[i][f]] /\ q[i]["ordinal"] = 0
    BY <1>1 DEF QualityFinding, IsFinding
  <2>2. DOMAIN n[i] = Fields /\ \A f \in Fields \ {"ordinal"} : n[i][f] = q[i][f]
    BY <1>2, <2>1 DEF Touches
  <2>3. n[i].stage = "quality" /\ n[i].code = q[i].code
    BY <1>1, <2>2 DEF QualityFinding, Fields
  <2> DEFINE g == [n[i] EXCEPT !.ordinal = 0]
  <2>4. g = [f \in Fields |-> g[f]] /\ \A f \in Fields : g[f] = q[i][f]
    BY <2>1, <2>2
  <2> HIDE DEF g
  <2>5. [f \in Fields |-> g[f]] = [f \in Fields |-> q[i][f]]
    BY <2>4
  <2>6. g = q[i]
    BY <2>1, <2>4, <2>5
  <2> QED BY <2>3, <2>6 DEF g
<1>4. OfStage(n, "quality")
  BY <1>2, <1>3 DEF OfStage
<1>5. Crashes(n) = Crashes(q)
  BY <1>2, <1>3 DEF Crashes
<1>6. ASSUME NEW p \in ToSet(Registry) \ c, NEW f \in ToSet(RunPlugin(p, m, r))
      PROVE  \E g \in ToSet(n) : [g EXCEPT !.ordinal = 0] = f
  <2>1. ToSet(<<>>) = {}
    BY ShortLists
  <2>2. f \in ToSet(q)
    BY <2>1 DEF Running
  <2>3. PICK i \in DOMAIN q : f = q[i]
    BY <2>2 DEF ToSet
  <2>4. n[i] \in ToSet(n) /\ [n[i] EXCEPT !.ordinal = 0] = f
    BY <1>2, <1>3, <2>3 DEF ToSet
  <2> QED BY <2>4
<1> QED BY <1>2, <1>4, <1>5, <1>6 DEF Running, Told, n

(***************************************************************************)
(* The ids by which the agents know the elements: every element of a model  *)
(* has one, and keeps it.                                                  *)
(***************************************************************************)
IdFields == {"sid", "guid", "internal"}
Known(m) == \A i \in DOMAIN m.rows : m.rows[i].internal # Nothing
SameIds(d, m) == \A i \in DOMAIN d.rows : d.rows[i].internal = m.rows[i].internal

LEMMA IdKept ==
  ASSUME NEW row, DOMAIN row = DOMAIN Blank, NEW out, NEW S, Touches(row, out, S),
         S \cap IdFields = {}
  PROVE  out.internal = row.internal /\ out.sid = row.sid /\ out.guid = row.guid
<1>1. IdFields \subseteq DOMAIN row
  BY DEF IdFields, Blank
<1> QED BY <1>1 DEF Touches, IdFields

LEMMA AdapterKeepsId ==
  ASSUME NEW row, DOMAIN Identified(row) = DOMAIN Blank
  PROVE  RowFromBimData(row).internal = Identified(row).internal
<1> DEFINE known == Identified(row)
<1>1. RowFromBimData(row)
        \in {OpeningFromBimData(known), StoreyFromBimData(known), known}
  BY DEF RowFromBimData
<1>2. /\ Touches(known, OpeningFromBimData(known), {"centre", "storey"})
      /\ Touches(known, StoreyFromBimData(known), {"centre", "storey"})
      /\ Touches(known, known, {"centre", "storey"})
  BY DEF Touches, OpeningFromBimData, StoreyFromBimData
<1>3. {"centre", "storey"} \cap IdFields = {}
  BY DEF IdFields
<1> HIDE DEF known
<1>4. DOMAIN known = DOMAIN Blank
  BY DEF known
<1>5. Touches(known, RowFromBimData(row), {"centre", "storey"})
  BY <1>1, <1>2
<1> QED BY <1>3, <1>4, <1>5, IdKept DEF known

\* An id made of another one is not empty.
LEMMA PrefixedIsNotNothing ==
  ASSUME NEW word, NEW id, IsList(id)
  PROVE  <<word>> \o id # Nothing
<1>1. IsList(<<word>>) /\ Len(<<word>>) = 1
  BY ShortLists
<1>2. Len(<<word>> \o id) = 1 + Len(id) /\ Len(id) \in Nat
  <2> DEFINE w == <<word>>
  <2> HIDE DEF w
  <2>1. IsList(w) /\ Len(w) = 1
    BY <1>1 DEF w
  <2>2. Len(w \o id) = Len(w) + Len(id) /\ Len(id) \in Nat
    BY <2>1, ListsJoin, ListShape
  <2> QED BY <2>1, <2>2 DEF w
<1>3. Len(<<>>) = 0
  OBVIOUS
<1> QED BY <1>2, <1>3 DEF Nothing

LEMMA AdapterNames ==
  ASSUME NEW row, DOMAIN row = DOMAIN Blank, IsList(row.guid), IsList(row.sid)
  PROVE  /\ RowFromBimData(row).internal # Nothing
         /\ row.internal # Nothing => RowFromBimData(row).internal = row.internal
<1> DEFINE known == Identified(row)
<1>1. DOMAIN known = DOMAIN Blank
  BY IdentifiedTouches DEF Touches
<1>2. CASE row.internal # Nothing
  <2>1. known = [row EXCEPT !.fallback = FALSE]
    BY <1>2 DEF Identified
  <2>2. known.internal = row.internal
    BY <2>1 DEF Blank
  <2> QED BY <1>1, <1>2, <2>2, AdapterKeepsId
<1>3. CASE row.internal = Nothing
  <2> DEFINE new == IF row.guid # Nothing THEN <<"guid">> \o row.guid
                    ELSE IF row.sid # Nothing THEN <<"source">> \o row.sid
                    ELSE GeometryKey(row)
             fallback == row.guid = Nothing /\ row.sid = Nothing
  <2>1. known = [row EXCEPT !.internal = new, !.fallback = fallback]
    BY <1>3 DEF Identified
  <2>2. GeometryKey(row) # Nothing
    BY DEF GeometryKey, Nothing
  <2>3. <<"guid">> \o row.guid # Nothing /\ <<"source">> \o row.sid # Nothing
    BY PrefixedIsNotNothing
  <2>4. new # Nothing
    BY <2>2, <2>3
  <2> HIDE DEF new, fallback
  <2>5. known.internal = new
    BY <2>1 DEF Blank
  <2> HIDE DEF known
  <2> QED BY <1>1, <1>3, <2>4, <2>5, AdapterKeepsId DEF known
<1> QED BY <1>2, <1>3

LEMMA KnownTouched ==
  ASSUME NEW b, NEW k, NEW m, Holds(b, k, m), NEW d, NEW j, Holds(b, j, d), Known(m),
         NEW S, S \cap IdFields = {},
         \A i \in DOMAIN b.rows : Touches(m.rows[i], d.rows[i], S)
  PROVE  Known(d)
<1>1. ASSUME NEW i \in DOMAIN d.rows PROVE d.rows[i].internal # Nothing
  <2>1. i \in DOMAIN b.rows /\ i \in DOMAIN m.rows
    BY DEF Holds
  <2>2. DOMAIN m.rows[i] = DOMAIN Blank
    BY <2>1 DEF Holds, RowFrom, Keeps
  <2>3. d.rows[i].internal = m.rows[i].internal
    BY <2>1, <2>2, IdKept
  <2> QED BY <2>1, <2>3 DEF Known
<1> QED BY <1>1 DEF Known

LEMMA KnownAdapted ==
  ASSUME NEW b, NEW j \in Nat, NEW d, Holds(b, j, d), j = 1 \/ Conversion(d) = 1
  PROVE  Known(BuildingModel(d)) /\ (Known(d) => SameIds(d, BuildingModel(d)))
<1> DEFINE m == BuildingModel(d)
<1>1. /\ Holds(b, j * Conversion(d), m)
      /\ \A i \in DOMAIN b.rows : \E row :
            /\ m.rows[i] = RowFromBimData(row)
            /\ Touches(d.rows[i], row, ScaledFields \cup {"area"})
  BY HoldsAdapted
<1> HIDE DEF m
<1>2. DOMAIN m.rows = DOMAIN b.rows /\ DOMAIN d.rows = DOMAIN b.rows
  BY <1>1 DEF Holds
<1>3. ASSUME NEW i \in DOMAIN b.rows
      PROVE  /\ m.rows[i].internal # Nothing
             /\ d.rows[i].internal # Nothing => m.rows[i].internal = d.rows[i].internal
  <2>1. PICK row : /\ m.rows[i] = RowFromBimData(row)
                   /\ Touches(d.rows[i], row, ScaledFields \cup {"area"})
    BY <1>1
  <2>2. DOMAIN d.rows[i] = DOMAIN Blank /\ DOMAIN row = DOMAIN Blank
    BY <2>1 DEF Holds, RowFrom, Keeps, Touches
  <2>3. (ScaledFields \cup {"area"}) \cap IdFields = {}
    BY DEF ScaledFields, IdFields
  <2>4. /\ row.internal = d.rows[i].internal /\ row.sid = d.rows[i].sid
        /\ row.guid = d.rows[i].guid
    BY <2>1, <2>2, <2>3, IdKept
  <2>5. IsList(d.rows[i].guid) /\ IsList(d.rows[i].sid)
    <3>1. SourceRow(b.rows[i]) /\ Keeps(b.rows[i], d.rows[i])
      BY DEF Holds, RowFrom
    <3>2. d.rows[i]["guid"] = b.rows[i]["guid"] /\ d.rows[i]["sid"] = b.rows[i]["sid"]
      BY <3>1 DEF Keeps, KeptFields
    <3> QED BY <3>1, <3>2 DEF SourceRow
  <2> QED BY <2>1, <2>2, <2>4, <2>5, AdapterNames
<1>4. Known(m) /\ (Known(d) => SameIds(d, m))
  BY <1>2, <1>3 DEF Known, SameIds
<1> QED BY <1>4 DEF m

\* A row of the model and the row of the payload made of it have the same names.
LEMMA SameNames ==
  ASSUME NEW b, NEW k, NEW d, Holds(b, k, d), NEW j, NEW m, Holds(b, j, m),
         SameIds(d, m), NEW i \in DOMAIN b.rows
  PROVE  /\ ElementAliases(d.rows[i]) = ElementAliases(m.rows[i])
         /\ EngineId(d.rows[i]) = EngineId(m.rows[i])
         /\ Known(m) => EngineId(m.rows[i]) # Nothing
<1>1. i \in DOMAIN d.rows /\ i \in DOMAIN m.rows
  BY DEF Holds
<1>2. d.rows[i].sid = m.rows[i].sid /\ d.rows[i].guid = m.rows[i].guid
  BY DEF Holds, RowFrom, Keeps, KeptFields
<1>3. d.rows[i].internal = m.rows[i].internal
  BY <1>1 DEF SameIds
<1>4. Known(m) => m.rows[i].internal # Nothing
  BY <1>1 DEF Known
<1> QED BY <1>2, <1>3, <1>4 DEF ElementAliases, EngineId

(***************************************************************************)
(* The inductive invariant: what each stage leaves for the next.            *)
(***************************************************************************)
Stages == {"load", "merge", "prepare", "quality", "judge", "report", "done", "raised"}

\* The stages that a building goes through once it has been read.
Past(p, s) ==
  p \in {"merge", "prepare", "quality", "judge"} \/ (p \in {"report", "done"} /\ ~Blocking(s))
PastQuality(p, s) == p = "judge" \/ (p \in {"report", "done"} /\ ~Blocking(s))
PastPreparation(p, s) == p = "quality" \/ PastQuality(p, s)

\* How many millimetres, or millimetres assumed, a unit of the source is.
Factor(b) ==
  IF b.source = "ifc" THEN LengthToMmFactor(b.unit) ELSE Conversion(b)

Shaped == pc \in Stages /\ input \in Inputs /\ IsList(review.flagged)
SchemaChecked ==
  /\ SchemaSays(schema)
  /\ pc \in {"merge", "prepare", "quality", "judge"} => ~Blocking(schema)
NotBegun ==
  /\ pc = "load" => schema = <<>>
  /\ pc \in {"load", "merge"} => quality = <<>>
  /\ pc = "prepare" => Says(quality, ToSet(input.rows))
  /\ pc \in {"load", "merge", "prepare"} => left = Registry /\ crashed = {}
\* A finding about an element has the GlobalId that the source gives it.
ElementsAreNamed == \A f \in ToSet(quality) : SpeaksOf(f, ToSet(input.rows))
ModelIsOfInput ==
  /\ pc = "load" \/ Blocking(schema) => model = Unread
  /\ Past(pc, schema) =>
        Holds(input, Factor(input), model) /\ Converted(model) /\ Known(model)
DataIsOfInput ==
  PastPreparation(pc, schema) =>
    Holds(input, Factor(input), data) /\ SameIds(data, model) /\ review = Prepass(data)
StageRuns ==
  pc = "quality" =>
    Running(quality, left, crashed, model, review) /\ ToSet(left) \subseteq ToSet(Registry)
StageRan ==
  PastQuality(pc, schema) =>
    OfStage(quality, "quality") /\ Numbered(quality) /\ Told(quality, crashed, model, review)
ClausesJudged ==
  /\ AreJudgements(compliance, data) /\ Numbered(compliance) /\ AreEnriched(compliance, data)
  /\ pc \in {"load", "merge", "prepare", "quality", "judge"} => compliance = <<>>

\* The topics are those of the findings once the fourth file is written.
Early == {"load", "merge", "prepare", "quality", "judge"}
TopicsMade == topics = ForEach(Findings, Topic)
Writing ==
  /\ pc \in Early => written = <<>>
  /\ pc = "report" =>
        IsList(written) /\ Len(written) < 5 /\ (Len(written) = 4 => TopicsMade)
  /\ pc = "done" => TopicsMade

Inv ==
  /\ Shaped /\ SchemaChecked /\ NotBegun /\ ElementsAreNamed
  /\ ModelIsOfInput /\ DataIsOfInput
  /\ StageRuns /\ StageRan /\ ClausesJudged /\ Writing

LEMMA Factored ==
  ASSUME NEW b
  PROVE  Factor(b) \in Factors
BY FileFactors, Conversions DEF Factor, Factors

LEMMA NothingJudged ==
  ASSUME NEW d
  PROVE  AreJudgements(<<>>, d) /\ Numbered(<<>>) /\ AreEnriched(<<>>, d)
<1>1. IsList(<<>>)
  BY ShortLists
<1>2. DOMAIN <<>> = {}
  OBVIOUS
<1> QED BY <1>1, <1>2 DEF AreJudgements, Numbered, AreEnriched

LEMMA NothingWritten ==
  ASSUME Writing, pc \in Early, pc' \in Early \cup {"report", "raised"}, written' = written
  PROVE  Writing'
<1>1. written' = <<>>
  BY DEF Writing
<1>2. IsList(<<>>) /\ Len(<<>>) = 0
  BY ShortLists
<1>3. IsList(written') /\ Len(written') = 0
  BY <1>1, <1>2
<1>4. pc' # "done"
  BY DEF Early
<1> QED BY <1>1, <1>3, <1>4 DEF Writing

\* The topics are made of what no longer changes.
LEMMA TopicsStay ==
  ASSUME UNCHANGED <<model, schema, quality, compliance>>
  PROVE  ForEach(Findings, Topic)' = ForEach(Findings, Topic)
<1>1. Findings' = Findings
  BY DEF Findings, NormaliseStage
<1>2. ASSUME NEW guid PROVE Element(guid)' = Element(guid)
  BY DEF Element, Indexed
<1>3. ASSUME NEW row PROVE Camera(row)' = Camera(row) /\ Lit(row)' = Lit(row)
  BY DEF Camera, LevelOf, Lit
<1>4. ASSUME NEW f PROVE Topic(f)' = Topic(f)
  BY <1>2, <1>3 DEF Topic
<1> QED BY <1>1, <1>4 DEF ForEach

LEMMA FileWritten == Writing /\ WriteFile => Writing'
<1> SUFFICES ASSUME Writing, WriteFile PROVE Writing'
  OBVIOUS
<1> DEFINE n == Len(written)
<1>1. /\ pc = "report" /\ IsList(written) /\ n < 5 /\ (n = 4 => TopicsMade)
      /\ \/ written' = Append(written, Files[n + 1])
         \/ written' = Append(written, "no pdf")
      /\ topics' = IF Files[n + 1] = "bcf" THEN ForEach(Findings, Topic) ELSE topics
      /\ pc' = IF Len(written') = Len(Files) THEN "done" ELSE "report"
      /\ UNCHANGED <<model, schema, quality, compliance>>
  BY DEF Writing, WriteFile
<1>2. n \in Nat
  BY <1>1, ListShape
<1>3. IsList(written') /\ Len(written') = n + 1
  BY <1>1, AppendHolds
<1>4. Len(Files) = 5 /\ Files[4] = "bcf" /\ Files[5] # "bcf"
  BY DEF Files
<1>5. ForEach(Findings, Topic)' = ForEach(Findings, Topic)
  BY <1>1, TopicsStay
<1> DEFINE made == ForEach(Findings, Topic)
           made1 == ForEach(Findings, Topic)'
<1>6. (TopicsMade <=> topics = made) /\ (TopicsMade' <=> topics' = made1) /\ made1 = made
  BY <1>5 DEF TopicsMade
<1> HIDE DEF n, made, made1
<1>10. Len(written') = Len(Files) <=> n = 4
  BY <1>2, <1>3, <1>4
<1>11. n = 3 => topics' = made
  <2>1. topics' = IF Files[n + 1] = "bcf" THEN made ELSE topics
    BY <1>1 DEF made, n
  <2>2. n = 3 => Files[n + 1] = "bcf"
    BY <1>4
  <2> QED BY <2>1, <2>2
<1>12. n = 4 => topics' = made
  <2>1. n = 4 => topics = made
    BY <1>1, <1>6
  <2>2. n = 4 => Files[n + 1] # "bcf"
    BY <1>4
  <2>3. topics' = IF Files[n + 1] = "bcf" THEN made ELSE topics
    BY <1>1 DEF made
  <2> QED BY <2>1, <2>2, <2>3
<1>13. (n = 3 => TopicsMade') /\ (n = 4 => TopicsMade')
  BY <1>6, <1>11, <1>12
<1>17. Len(written') = n + 1
  BY <1>3
<1>14. Len(written') = 4 => n = 3
  <2>1. \A k, l \in Nat : l = k + 1 /\ l = 4 => k = 3
    OBVIOUS
  <2>2. Len(written') \in Nat
    BY <1>2, <1>17
  <2> QED BY <1>2, <1>17, <2>1, <2>2
<1>18. n < 5
  BY <1>1 DEF n
<1>19. pc' = IF n = 4 THEN "done" ELSE "report"
  BY <1>1, <1>10
<1>15. pc' = "report" => Len(written') < 5
  BY <1>2, <1>17, <1>18, <1>19
<1>16. pc' = "done" => n = 4
  BY <1>19
<1>7. pc' = "report" => IsList(written') /\ Len(written') < 5 /\ (Len(written') = 4 => TopicsMade')
  <2>1. Len(written') = 4 => TopicsMade'
    BY <1>13, <1>14, Zenon
  <2> QED BY <1>3, <1>15, <2>1, Zenon
<1>8. pc' = "done" => TopicsMade'
  BY <1>13, <1>16, Zenon
<1>9. pc' \notin Early
  BY <1>1 DEF Early
<1> QED BY <1>7, <1>8, <1>9 DEF Writing

LEMMA InitInv == Init => Inv
<1> SUFFICES ASSUME Init PROVE Inv
  OBVIOUS
<1>1. Shaped
  BY ShortLists DEF Init, Shaped, Stages, NoReview, Nothing
<1>2. SchemaChecked
  <2>1. schema = <<>> /\ pc = "load"
    BY DEF Init, Nothing
  <2>2. IsList(<<>>)
    BY ShortLists
  <2>3. DOMAIN <<>> = {} /\ Len(<<>>) = 0
    OBVIOUS
  <2> QED BY <2>1, <2>2, <2>3 DEF SchemaChecked, SchemaSays, OfStage, OfNone
<1>3. NotBegun
  BY ShortLists DEF Init, NotBegun, Nothing
<1>6. ElementsAreNamed
  BY ShortLists DEF Init, ElementsAreNamed, Nothing
<1>4. ModelIsOfInput /\ DataIsOfInput /\ StageRuns /\ StageRan
  BY DEF Init, ModelIsOfInput, DataIsOfInput, StageRuns, StageRan, Past, PastQuality,
         PastPreparation
<1>5. ClausesJudged
  <2>1. compliance = <<>>
    BY DEF Init, Nothing
  <2> QED BY <2>1, NothingJudged DEF ClausesJudged
<1>7. Writing
  BY DEF Init, Writing, Early, Nothing
<1> QED BY <1>1, <1>2, <1>3, <1>4, <1>5, <1>6, <1>7 DEF Inv

LEMMA LoadIfcInv == Inv /\ LoadIfc => Inv'
<1> SUFFICES ASSUME Inv, LoadIfc PROVE Inv'
  OBVIOUS
<1>1. /\ pc = "load" /\ input.source = "ifc" /\ schema' = ValidateIfc(input)
      /\ UNCHANGED <<input, data, review, quality, compliance, left, crashed, written>>
      /\ \/ Blocking(schema') /\ pc' = "report" /\ UNCHANGED model
         \/ ~Blocking(schema') /\ pc' = "merge" /\ model' = BuildingModel(ReadIfc(input))
  BY DEF LoadIfc
<1>2. SourceBuilding(input)
  BY InputsAssumption DEF InputsAssumption, Inv, Shaped
<1>3. SchemaSays(schema')
  BY <1>1, <1>2, SchemaChecksSay
<1>4. Shaped'
  BY <1>1 DEF Inv, Shaped, Stages
<1>5. SchemaChecked'
  BY <1>1, <1>3 DEF SchemaChecked
<1>6. NotBegun' /\ ElementsAreNamed'
  BY <1>1 DEF Inv, NotBegun, ElementsAreNamed
<1>7. ModelIsOfInput'
  <2>1. CASE Blocking(schema') /\ pc' = "report" /\ UNCHANGED model
    BY <1>1, <2>1 DEF Inv, ModelIsOfInput, Past
  <2>2. CASE ~Blocking(schema') /\ pc' = "merge" /\ model' = BuildingModel(ReadIfc(input))
    <3> DEFINE f == LengthToMmFactor(input.unit)
               read == ReadIfc(input)
    <3>1. Holds(input, f, read) /\ Converted(read)
      BY <1>1, <1>2, HoldsRead
    <3>2. Conversion(read) = 1 /\ f \in Nat /\ f * 1 = f
      BY <3>1, Conversions, FileFactors DEF Factors
    <3> HIDE DEF f, read
    <3>3. /\ Holds(input, f * Conversion(read), BuildingModel(read))
          /\ Converted(BuildingModel(read)) /\ Known(BuildingModel(read))
      BY <3>1, <3>2, HoldsAdapted, KnownAdapted
    <3>4. Factor(input) = f
      BY <1>1 DEF Factor, f
    <3>5. /\ Holds(input, Factor(input), BuildingModel(ReadIfc(input)))
          /\ Converted(BuildingModel(ReadIfc(input))) /\ Known(BuildingModel(ReadIfc(input)))
      BY <3>2, <3>3, <3>4 DEF read
    <3> QED BY <1>1, <2>2, <3>5 DEF ModelIsOfInput
  <2> QED BY <1>1, <2>1, <2>2
<1>8. DataIsOfInput' /\ StageRuns' /\ StageRan'
  BY <1>1 DEF DataIsOfInput, StageRuns, StageRan, PastQuality, PastPreparation
<1>9. ClausesJudged'
  BY <1>1 DEF Inv, ClausesJudged
<1>20. Writing'
  <2>1. pc \in Early /\ pc' \in Early \cup {"report", "raised"} /\ written' = written
    BY <1>1 DEF Early
  <2> QED BY <2>1, NothingWritten DEF Inv
<1> QED BY <1>4, <1>5, <1>6, <1>7, <1>8, <1>9, <1>20 DEF Inv

LEMMA LoadBimDataInv == Inv /\ LoadBimData => Inv'
<1> SUFFICES ASSUME Inv, LoadBimData PROVE Inv'
  OBVIOUS
<1>1. /\ pc = "load" /\ input.source = "bim_data"
      /\ UNCHANGED <<input, data, review, schema, quality, compliance, left, crashed, written>>
      /\ \/ pc' = "raised" /\ UNCHANGED model
         \/ pc' = "merge" /\ model' = BuildingModel(input)
  BY DEF LoadBimData
<1>2. SourceBuilding(input)
  BY InputsAssumption DEF InputsAssumption, Inv, Shaped
<1>3. Shaped'
  BY <1>1 DEF Inv, Shaped, Stages
<1>4. SchemaChecked' /\ ~Blocking(schema')
  <2>1. schema = <<>> /\ DOMAIN <<>> = {}
    BY <1>1 DEF Inv, NotBegun
  <2>2. ~Blocking(schema) /\ schema' = schema
    BY <1>1, <2>1 DEF Blocking
  <2> QED BY <1>1, <2>1, <2>2 DEF Inv, SchemaChecked
<1>5. NotBegun' /\ ElementsAreNamed'
  BY <1>1 DEF Inv, NotBegun, ElementsAreNamed
<1>6. ModelIsOfInput'
  <2>1. CASE pc' = "raised" /\ UNCHANGED model
    BY <1>1, <2>1 DEF Inv, ModelIsOfInput, Past
  <2>2. CASE pc' = "merge" /\ model' = BuildingModel(input)
    <3>1. Holds(input, 1, input)
      BY <1>2, HoldsSource
    <3>2. Conversion(input) \in Nat /\ 1 * Conversion(input) = Conversion(input)
      BY Conversions
    <3>3. /\ Holds(input, 1 * Conversion(input), BuildingModel(input))
          /\ Converted(BuildingModel(input)) /\ Known(BuildingModel(input))
      BY <3>1, HoldsAdapted, KnownAdapted
    <3>4. Factor(input) = Conversion(input)
      BY <1>1 DEF Factor
    <3>5. /\ Holds(input, Factor(input), BuildingModel(input))
          /\ Converted(BuildingModel(input)) /\ Known(BuildingModel(input))
      BY <3>2, <3>3, <3>4
    <3> QED BY <1>1, <1>4, <2>2, <3>5 DEF ModelIsOfInput
  <2> QED BY <1>1, <2>1, <2>2
<1>7. DataIsOfInput' /\ StageRuns' /\ StageRan'
  BY <1>1 DEF DataIsOfInput, StageRuns, StageRan, PastQuality, PastPreparation
<1>8. ClausesJudged'
  BY <1>1 DEF Inv, ClausesJudged
<1>20. Writing'
  <2>1. pc \in Early /\ pc' \in Early \cup {"report", "raised"} /\ written' = written
    BY <1>1 DEF Early
  <2> QED BY <2>1, NothingWritten DEF Inv
<1> QED BY <1>3, <1>4, <1>5, <1>6, <1>7, <1>8, <1>20 DEF Inv

LEMMA ListsEach ==
  ASSUME NEW rows, IsList(rows), NEW ss, ss = [i \in DOMAIN rows |-> ss[i]],
         \A i \in DOMAIN rows : IsList(ss[i])
  PROVE  /\ IsList(FlattenSeq(ss))
         /\ ToSet(FlattenSeq(ss)) = UNION {ToSet(ss[i]) : i \in DOMAIN rows}
<1>1. Len(rows) \in Nat /\ DOMAIN rows = 1 .. Len(rows)
  BY ListShape
<1>2. IsList(ss) /\ Len(ss) = Len(rows)
  BY <1>1, MakesList
<1>3. \A i \in 1 .. Len(rows) : IsList(ss[i])
  BY <1>1
<1>4. /\ IsList(FlattenSeq(ss))
      /\ ToSet(FlattenSeq(ss)) = UNION {ToSet(ss[i]) : i \in 1 .. Len(rows)}
  BY <1>1, <1>2, <1>3, Flattened
<1> QED BY <1>1, <1>4

\* The review flags what is in doubt, and nothing else.
LEMMA ReviewFlags ==
  ASSUME NEW d, IsList(d.rows)
  PROVE  LET flagged == Prepass(d).flagged
         IN  /\ IsList(flagged)
             /\ ToSet(flagged) = UNION {ToSet(Doubt(d, row)) :
                   row \in {r \in ToSet(d.rows) : r.kind \in ToSet(Reviewed)}}
<1> DEFINE rows(k) == Of(d.rows, Reviewed[k])
           each(k) == [i \in DOMAIN rows(k) |-> Doubt(d, rows(k)[i])]
           ss == [k \in DOMAIN Reviewed |-> FlattenSeq(each(k))]
<1>1. IsList(Reviewed)
  <2>1. Reviewed = [k \in 1 .. 6 |-> Reviewed[k]]
    BY DEF Reviewed
  <2> QED BY <2>1, MakesList
<1>2. Prepass(d).flagged = FlattenSeq(ss)
  BY DEF Prepass, ForEach
<1>3. ASSUME NEW row PROVE IsList(Doubt(d, row))
  <2> DEFINE reason == IF row.reason # "none" THEN row.reason
                       ELSE IF row.conf < Threshold THEN "detector"
                       ELSE IF ScaleLow(d) THEN "scale" ELSE "none"
             flag == [id |-> EngineId(row), reason |-> reason]
  <2>1. Doubt(d, row) \in {<<flag>>, <<>>}
    BY DEF Doubt, If
  <2> HIDE DEF flag
  <2> QED BY <2>1, ShortLists
<1>4. ASSUME NEW k \in DOMAIN Reviewed
      PROVE  /\ IsList(ss[k])
             /\ ToSet(ss[k]) = UNION {ToSet(Doubt(d, row)) :
                   row \in {r \in ToSet(d.rows) : r.kind = Reviewed[k]}}
  <2> DEFINE s == rows(k)
             doubts == [i \in DOMAIN s |-> Doubt(d, s[i])]
  <2>1. IsList(s) /\ ToSet(s) = {r \in ToSet(d.rows) : r.kind = Reviewed[k]}
    BY OfHolds
  <2>2. ss[k] = FlattenSeq(doubts)
    OBVIOUS
  <2> HIDE DEF ss, s
  <2>3. doubts = [i \in DOMAIN s |-> doubts[i]] /\ \A i \in DOMAIN s : IsList(doubts[i])
    BY <1>3
  <2>4. \A i \in DOMAIN s : doubts[i] = Doubt(d, s[i])
    OBVIOUS
  <2> HIDE DEF doubts
  <2>5. /\ IsList(FlattenSeq(doubts))
        /\ ToSet(FlattenSeq(doubts)) = UNION {ToSet(doubts[i]) : i \in DOMAIN s}
    BY <2>1, <2>3, ListsEach
  <2>6. {ToSet(doubts[i]) : i \in DOMAIN s} = {ToSet(Doubt(d, row)) : row \in ToSet(s)}
    BY <2>4 DEF ToSet
  <2> QED BY <2>1, <2>2, <2>5, <2>6
<1>5. ss = [k \in DOMAIN Reviewed |-> ss[k]]
  OBVIOUS
<1> HIDE DEF ss
<1>6. /\ IsList(FlattenSeq(ss))
      /\ ToSet(FlattenSeq(ss)) = UNION {ToSet(ss[k]) : k \in DOMAIN Reviewed}
  BY <1>1, <1>4, <1>5, ListsEach
<1>7. UNION {ToSet(ss[k]) : k \in DOMAIN Reviewed}
        = UNION {ToSet(Doubt(d, row)) :
                   row \in {r \in ToSet(d.rows) : r.kind \in ToSet(Reviewed)}}
  BY <1>4 DEF ToSet
<1> QED BY <1>2, <1>6, <1>7

LEMMA MergeInv == Inv /\ Merge => Inv'
<1> SUFFICES ASSUME Inv, Merge PROVE Inv'
  OBVIOUS
<1> DEFINE out == [i \in DOMAIN model.rows |-> Filled(model.rows[i])]
           new == [model EXCEPT !.rows = out]
<1>1. /\ pc = "merge"
      /\ UNCHANGED <<input, data, review, schema, compliance, left, crashed, written>>
      /\ \/ pc' = "raised" /\ UNCHANGED <<model, quality>>
         \/ pc' = "prepare" /\ model' = new /\ quality' = MergeFindings(new)
  BY DEF Merge
<1>2. SourceBuilding(input)
  BY InputsAssumption DEF InputsAssumption, Inv, Shaped
<1>3. input.manual.lost \in Nat /\ input.manual.door \in Int
  BY <1>2 DEF SourceBuilding
<1>4. Holds(input, Factor(input), new) /\ Converted(new) /\ Known(new)
  <2>1. Holds(input, Factor(input), model) /\ Converted(model) /\ Known(model)
    BY <1>1 DEF Inv, ModelIsOfInput, Past
  <2>2. out = [i \in DOMAIN model.rows |-> Filled(model.rows[i])]
    OBVIOUS
  <2> HIDE DEF out
  <2>3. /\ Holds(input, Factor(input), new) /\ new.units = model.units
        /\ \A i \in DOMAIN input.rows : new.rows[i] = Filled(model.rows[i])
    BY <1>3, <2>1, <2>2, Factored, HoldsFilled
  <2> HIDE DEF new
  <2>4. \A i \in DOMAIN input.rows : Touches(model.rows[i], new.rows[i], {"height"})
    BY <2>3, FilledTouches
  <2>5. {"height"} \cap IdFields = {}
    BY DEF IdFields
  <2>6. Known(new)
    BY <2>1, <2>3, <2>4, <2>5, KnownTouched
  <2> QED BY <2>1, <2>3, <2>6 DEF Converted
<1> HIDE DEF out, new
<1>5. Says(MergeFindings(new), ToSet(input.rows))
  <2>1. Says(MergeFindings(new), ToSet(new.rows))
    BY <1>3, <1>4, HoldsIsModel, MergeSays
  <2> QED BY <1>4, <2>1, SaysOfSource
<1>6. Shaped'
  BY <1>1 DEF Inv, Shaped, Stages
<1>7. SchemaChecked'
  BY <1>1 DEF Inv, SchemaChecked
<1>8. NotBegun' /\ ElementsAreNamed'
  BY <1>1, <1>5 DEF Inv, NotBegun, ElementsAreNamed, Says, Speaks
<1>9. ModelIsOfInput'
  <2>1. ~Blocking(schema) /\ schema' = schema
    BY <1>1 DEF Inv, SchemaChecked
  <2> QED BY <1>1, <1>4, <2>1 DEF ModelIsOfInput, Past
<1>10. DataIsOfInput' /\ StageRuns' /\ StageRan'
  BY <1>1 DEF DataIsOfInput, StageRuns, StageRan, PastQuality, PastPreparation
<1>11. ClausesJudged'
  BY <1>1 DEF Inv, ClausesJudged
<1>20. Writing'
  <2>1. pc \in Early /\ pc' \in Early \cup {"report", "raised"} /\ written' = written
    BY <1>1 DEF Early
  <2> QED BY <2>1, NothingWritten DEF Inv
<1> QED BY <1>6, <1>7, <1>8, <1>9, <1>10, <1>11, <1>20 DEF Inv

LEMMA PrepareInv == Inv /\ Prepare => Inv'
<1> SUFFICES ASSUME Inv, Prepare PROVE Inv'
  OBVIOUS
<1> DEFINE d == NormaliseRooms(ToBimData(model))
           k == Factor(input)
<1>1. /\ pc = "prepare" /\ pc' = "quality" /\ data' = d /\ review' = Prepass(d)
      /\ model' = BuildingModel(d)
      /\ UNCHANGED <<input, schema, quality, compliance, left, crashed, written>>
  BY DEF Prepare
<1>2. Holds(input, k, model) /\ Converted(model) /\ Known(model) /\ ~Blocking(schema)
  BY <1>1 DEF Inv, ModelIsOfInput, Past, SchemaChecked
<1>3. Holds(input, k, d) /\ Converted(d) /\ Known(d)
  <2> DEFINE back == ToBimData(model)
  <2> HIDE DEF k, back
  <2>1. /\ Holds(input, k, back) /\ back.units = model.units
        /\ \A i \in DOMAIN input.rows :
              Touches(model.rows[i], back.rows[i], {"offset", "convention", "fallback"})
    BY <1>2, HoldsBack DEF back
  <2>2. /\ Holds(input, k, d) /\ d.units = back.units
        /\ \A i \in DOMAIN input.rows : d.rows[i] = Normalise(back.rows[i])
    <3>1. d = NormaliseRooms(back)
      BY DEF back
    <3> HIDE DEF d
    <3> QED BY <2>1, <3>1, HoldsNormalised
  <2>3. /\ {"offset", "convention", "fallback"} \cap IdFields = {}
        /\ RoomFields \cap IdFields = {}
    BY DEF RoomFields, IdFields
  <2>4. Known(back)
    BY <1>2, <2>1, <2>3, KnownTouched
  <2> HIDE DEF d
  <2>5. \A i \in DOMAIN input.rows : Touches(back.rows[i], d.rows[i], RoomFields)
    BY <2>2, NormaliseTouches
  <2>6. Known(d)
    BY <2>1, <2>2, <2>3, <2>4, <2>5, KnownTouched
  <2> QED BY <1>2, <2>1, <2>2, <2>6 DEF Converted
<1> HIDE DEF d
<1>4. /\ Holds(input, k, BuildingModel(d)) /\ Converted(BuildingModel(d))
      /\ Known(BuildingModel(d)) /\ SameIds(d, BuildingModel(d))
  <2>1. Conversion(d) = 1 /\ k \in Nat /\ k * 1 = k
    BY <1>3, Conversions, Factored DEF Factors
  <2> HIDE DEF k
  <2>2. /\ Holds(input, k * Conversion(d), BuildingModel(d)) /\ Converted(BuildingModel(d))
        /\ Known(BuildingModel(d)) /\ SameIds(d, BuildingModel(d))
    BY <1>3, <2>1, HoldsAdapted, KnownAdapted
  <2> QED BY <2>1, <2>2
<1>5. IsList(Prepass(d).flagged)
  BY <1>3, ReviewFlags DEF Holds
<1>6. Shaped'
  BY <1>1, <1>5 DEF Inv, Shaped, Stages
<1>7. SchemaChecked'
  BY <1>1 DEF Inv, SchemaChecked
<1>8. NotBegun' /\ ElementsAreNamed'
  BY <1>1 DEF Inv, NotBegun, ElementsAreNamed
<1>9. ModelIsOfInput'
  BY <1>1, <1>2, <1>4 DEF ModelIsOfInput
<1>10. DataIsOfInput'
  BY <1>1, <1>3, <1>4 DEF DataIsOfInput
<1>11. StageRuns'
  <2>1. Says(quality, ToSet(input.rows)) /\ left = Registry /\ crashed = {}
    BY <1>1 DEF Inv, NotBegun
  <2>2. Running(quality, Registry, {}, BuildingModel(d), Prepass(d))
    BY <2>1, StageBegins
  <2> QED BY <1>1, <2>1, <2>2 DEF StageRuns
<1>12. StageRan'
  BY <1>1 DEF StageRan, PastQuality
<1>13. ClausesJudged'
  <2>1. compliance' = <<>>
    BY <1>1 DEF Inv, ClausesJudged
  <2>2. AreJudgements(<<>>, d) /\ Numbered(<<>>) /\ AreEnriched(<<>>, d)
    BY NothingJudged
  <2> QED BY <1>1, <2>1, <2>2 DEF ClausesJudged
<1>20. Writing'
  <2>1. pc \in Early /\ pc' \in Early \cup {"report", "raised"} /\ written' = written
    BY <1>1 DEF Early
  <2> QED BY <2>1, NothingWritten DEF Inv
<1> QED BY <1>6, <1>7, <1>8, <1>9, <1>10, <1>11, <1>12, <1>13, <1>20 DEF Inv

LEMMA PluginInv == Inv /\ Plugin => Inv'
<1> SUFFICES ASSUME Inv, Plugin PROVE Inv'
  OBVIOUS
<1> DEFINE said == RunPlugin(Head(left), model, review)
<1>1. /\ pc = "quality" /\ left # <<>> /\ quality' = quality \o said /\ left' = Tail(left)
      /\ UNCHANGED <<pc, input, data, model, review, schema, compliance, crashed, written>>
  BY DEF Plugin
<1>2. /\ Running(quality, left, crashed, model, review) /\ ToSet(left) \subseteq ToSet(Registry)
      /\ IsList(review.flagged) /\ Holds(input, Factor(input), model)
  BY <1>1 DEF Inv, StageRuns, Shaped, ModelIsOfInput, Past
<1>3. Running(quality \o said, Tail(left), crashed, model, review)
  BY <1>1, <1>2, HoldsIsModel, PluginRan
<1>4. ToSet(Tail(left)) \subseteq ToSet(left)
  BY <1>1, <1>2, ListTail DEF Running
<1>10. Says(said, ToSet(input.rows))
  <2>1. Says(said, ToSet(model.rows))
    BY <1>2, HoldsIsModel, PluginsSay
  <2> HIDE DEF said
  <2> QED BY <1>2, <2>1, SaysOfSource
<1> HIDE DEF said
<1>11. ElementsAreNamed'
  <2>1. IsList(quality) /\ IsList(said)
    BY <1>2, <1>10 DEF Running, Says
  <2>2. ToSet(quality \o said) = ToSet(quality) \cup ToSet(said)
    BY <2>1, ListsJoin
  <2> QED BY <1>1, <1>10, <2>2 DEF Inv, ElementsAreNamed, Says, Speaks
<1>5. StageRuns'
  BY <1>1, <1>2, <1>3, <1>4 DEF StageRuns
<1>6. Shaped' /\ SchemaChecked' /\ NotBegun'
  BY <1>1 DEF Inv, Shaped, SchemaChecked, NotBegun
<1>7. ModelIsOfInput' /\ DataIsOfInput'
  BY <1>1 DEF Inv, ModelIsOfInput, DataIsOfInput
<1>8. StageRan'
  BY <1>1 DEF StageRan, PastQuality
<1>9. ClausesJudged'
  BY <1>1 DEF Inv, ClausesJudged
<1>20. Writing'
  <2>1. pc \in Early /\ pc' \in Early \cup {"report", "raised"} /\ written' = written
    BY <1>1 DEF Early
  <2> QED BY <2>1, NothingWritten DEF Inv
<1> QED BY <1>5, <1>6, <1>7, <1>8, <1>9, <1>11, <1>20 DEF Inv

LEMMA PluginRaisesInv == Inv /\ PluginRaises => Inv'
<1> SUFFICES ASSUME Inv, PluginRaises PROVE Inv'
  OBVIOUS
<1> DEFINE q == Append(quality, Alert("QC-INTERNAL-001"))
           c == crashed \cup {Head(left)}
<1>1. /\ pc = "quality" /\ left # <<>> /\ quality' = q /\ left' = Tail(left) /\ crashed' = c
      /\ UNCHANGED <<pc, input, data, model, review, schema, compliance, written>>
  BY DEF PluginRaises
<1>2. /\ Running(quality, left, crashed, model, review) /\ ToSet(left) \subseteq ToSet(Registry)
  BY <1>1 DEF Inv, StageRuns
<1>3. Running(q, Tail(left), c, model, review)
  BY <1>1, <1>2, PluginRaised
<1>4. ToSet(Tail(left)) \subseteq ToSet(left)
  BY <1>1, <1>2, ListTail DEF Running
<1>10. ElementsAreNamed'
  <2> DEFINE a == Alert("QC-INTERNAL-001")
             T == ToSet(quality)
  <2>1. a.about = 0
    BY DEF Alert, Finding
  <2> HIDE DEF a
  <2>2. IsList(quality)
    BY <1>2 DEF Running
  <2>3. ToSet(Append(quality, a)) = T \cup {a}
    BY <2>2, AppendHolds
  <2>4. SpeaksOf(a, ToSet(input.rows))
    BY <2>1 DEF SpeaksOf
  <2> QED BY <1>1, <2>3, <2>4 DEF Inv, ElementsAreNamed, a
<1> HIDE DEF q, c
<1>5. StageRuns'
  BY <1>1, <1>2, <1>3, <1>4 DEF StageRuns
<1>6. Shaped' /\ SchemaChecked' /\ NotBegun'
  BY <1>1 DEF Inv, Shaped, SchemaChecked, NotBegun
<1>7. ModelIsOfInput' /\ DataIsOfInput'
  BY <1>1 DEF Inv, ModelIsOfInput, DataIsOfInput
<1>8. StageRan'
  BY <1>1 DEF StageRan, PastQuality
<1>9. ClausesJudged'
  BY <1>1 DEF Inv, ClausesJudged
<1>20. Writing'
  <2>1. pc \in Early /\ pc' \in Early \cup {"report", "raised"} /\ written' = written
    BY <1>1 DEF Early
  <2> QED BY <2>1, NothingWritten DEF Inv
<1> QED BY <1>5, <1>6, <1>7, <1>8, <1>9, <1>10, <1>20 DEF Inv

LEMMA EndQualityInv == Inv /\ EndQuality => Inv'
<1> SUFFICES ASSUME Inv, EndQuality PROVE Inv'
  OBVIOUS
<1> DEFINE q == AssignOrdinals(quality)
<1>1. /\ pc = "quality" /\ left = <<>> /\ quality' = q /\ pc' \in {"report", "judge"}
      /\ UNCHANGED <<input, data, model, review, schema, compliance, left, crashed, written>>
  BY DEF EndQuality
<1>2. Running(quality, <<>>, crashed, model, review)
  BY <1>1 DEF Inv, StageRuns
<1>3. OfStage(q, "quality") /\ Numbered(q) /\ Told(q, crashed, model, review)
  BY <1>2, StageEnds
<1>13. ElementsAreNamed'
  <2>1. IsList(quality) /\ \A i \in DOMAIN quality : IsFinding(quality[i])
    BY <1>2 DEF Running, QualityFinding, ToSet
  <2>2. /\ DOMAIN q = DOMAIN quality
        /\ \A i \in DOMAIN quality : Touches(quality[i], q[i], {"ordinal"})
    BY <2>1, OrdinalsTellApart
  <2> HIDE DEF q
  <2>3. ASSUME NEW i \in DOMAIN quality PROVE SpeaksOf(q[i], ToSet(input.rows))
    <3>1. DOMAIN quality[i] = Fields
      BY <2>1 DEF IsFinding
    <3>2. q[i].about = quality[i].about /\ q[i].guid = quality[i].guid
      BY <2>2, <3>1 DEF Touches, Fields
    <3>3. SpeaksOf(quality[i], ToSet(input.rows))
      BY DEF Inv, ElementsAreNamed, ToSet
    <3> QED BY <3>2, <3>3 DEF SpeaksOf
  <2> QED BY <1>1, <2>2, <2>3 DEF ElementsAreNamed, ToSet
<1> HIDE DEF q
<1>4. ~Blocking(schema)
  BY <1>1 DEF Inv, SchemaChecked
<1>5. Shaped'
  BY <1>1 DEF Inv, Shaped, Stages
<1>6. SchemaChecked'
  BY <1>1, <1>4 DEF Inv, SchemaChecked
<1>7. NotBegun'
  BY <1>1 DEF NotBegun
<1>8. ModelIsOfInput'
  BY <1>1, <1>4 DEF Inv, ModelIsOfInput, Past
<1>9. DataIsOfInput'
  BY <1>1 DEF Inv, DataIsOfInput, PastPreparation
<1>10. StageRuns'
  BY <1>1 DEF StageRuns
<1>11. StageRan'
  BY <1>1, <1>3 DEF StageRan
<1>12. ClausesJudged'
  BY <1>1 DEF Inv, ClausesJudged
<1>20. Writing'
  <2>1. pc \in Early /\ pc' \in Early \cup {"report", "raised"} /\ written' = written
    BY <1>1 DEF Early
  <2> QED BY <2>1, NothingWritten DEF Inv
<1> QED BY <1>5, <1>6, <1>7, <1>8, <1>9, <1>10, <1>11, <1>12, <1>13, <1>20 DEF Inv

LEMMA JudgeInv == Inv /\ Judge => Inv'
<1> SUFFICES ASSUME Inv, Judge PROVE Inv'
  OBVIOUS
<1> DEFINE judged == FlattenSeq([i \in DOMAIN Clauses |-> JudgeClause(Clauses[i], data)])
           all == Downgrade(AssignOrdinals(EnrichAll(judged, data)))
<1>1. /\ pc = "judge" /\ pc' = "report" /\ compliance' = all
      /\ UNCHANGED <<input, data, model, review, schema, quality, left, crashed, written>>
  BY DEF Judge
<1>2. ~Blocking(schema)
  BY <1>1 DEF Inv, SchemaChecked
<1>3. AreJudgements(all, data) /\ Numbered(all) /\ AreEnriched(all, data)
  <2>1. IsList(data.rows)
    BY <1>1 DEF Inv, DataIsOfInput, PastPreparation, PastQuality, Holds
  <2> QED BY <2>1, JudgementsAre
<1> HIDE DEF all
<1>4. Shaped' /\ SchemaChecked'
  BY <1>1 DEF Inv, Shaped, SchemaChecked, Stages
<1>5. NotBegun' /\ StageRuns' /\ ElementsAreNamed'
  BY <1>1 DEF Inv, NotBegun, StageRuns, ElementsAreNamed
<1>6. ModelIsOfInput'
  BY <1>1, <1>2 DEF Inv, ModelIsOfInput, Past
<1>7. DataIsOfInput' /\ StageRan'
  BY <1>1 DEF Inv, DataIsOfInput, StageRan, PastPreparation, PastQuality
<1>8. ClausesJudged'
  BY <1>1, <1>3 DEF ClausesJudged
<1>20. Writing'
  <2>1. pc \in Early /\ pc' \in Early \cup {"report", "raised"} /\ written' = written
    BY <1>1 DEF Early
  <2> QED BY <2>1, NothingWritten DEF Inv
<1> QED BY <1>4, <1>5, <1>6, <1>7, <1>8, <1>20 DEF Inv

\* Nothing that the invariant speaks of changes once the report is written, or
\* fails to be.
LEMMA WritingInv ==
  ASSUME Inv, pc = "report", pc' \in {"report", "done", "raised"},
         UNCHANGED <<input, data, model, review, schema, quality, compliance, left, crashed>>,
         Writing'
  PROVE  Inv'
<1>1. Shaped' /\ SchemaChecked'
  BY DEF Inv, Shaped, SchemaChecked, Stages
<1>2. NotBegun' /\ StageRuns' /\ ElementsAreNamed'
  BY DEF Inv, NotBegun, StageRuns, ElementsAreNamed
<1>3. ModelIsOfInput'
  BY DEF Inv, ModelIsOfInput, Past
<1>4. DataIsOfInput' /\ StageRan'
  BY DEF Inv, DataIsOfInput, StageRan, PastPreparation, PastQuality
<1>5. ClausesJudged'
  BY DEF Inv, ClausesJudged
<1> QED BY <1>1, <1>2, <1>3, <1>4, <1>5 DEF Inv

LEMMA StutterInv == Inv /\ UNCHANGED vars => Inv'
<1> SUFFICES ASSUME Inv, UNCHANGED vars PROVE Inv'
  OBVIOUS
<1>1. Shaped' /\ SchemaChecked' /\ NotBegun' /\ ClausesJudged' /\ ElementsAreNamed'
  BY DEF Inv, Shaped, SchemaChecked, NotBegun, ClausesJudged, ElementsAreNamed, vars
<1>2. ModelIsOfInput' /\ DataIsOfInput'
  BY DEF Inv, ModelIsOfInput, DataIsOfInput, vars
<1>3. StageRuns' /\ StageRan'
  BY DEF Inv, StageRuns, StageRan, vars
<1>4. Writing'
  <2>1. TopicsMade' <=> TopicsMade
    BY TopicsStay DEF TopicsMade, vars
  <2> QED BY <2>1 DEF Inv, Writing, vars
<1> QED BY <1>1, <1>2, <1>3, <1>4 DEF Inv

LEMMA Invariance == Spec => []Inv
<1>1. Inv /\ [Next]_vars => Inv'
  <2> SUFFICES ASSUME Inv, [Next]_vars PROVE Inv'
    OBVIOUS
  <2>1. CASE LoadIfc
    BY <2>1, LoadIfcInv
  <2>2. CASE LoadBimData
    BY <2>2, LoadBimDataInv
  <2>3. CASE Merge
    BY <2>3, MergeInv
  <2>4. CASE Prepare
    BY <2>4, PrepareInv
  <2>5. CASE Plugin
    BY <2>5, PluginInv
  <2>6. CASE PluginRaises
    BY <2>6, PluginRaisesInv
  <2>7. CASE EndQuality
    BY <2>7, EndQualityInv
  <2>8. CASE Judge
    BY <2>8, JudgeInv
  <2>9. CASE WriteFile
    <3>1. /\ pc = "report" /\ pc' \in {"report", "done", "raised"}
          /\ UNCHANGED <<input, data, model, review, schema, quality, compliance, left,
                         crashed>>
      BY <2>9 DEF WriteFile
    <3>2. Writing'
      BY <2>9, FileWritten DEF Inv
    <3> QED BY <3>1, <3>2, WritingInv
  <2>10. CASE WriteFails
    <3>1. /\ pc = "report" /\ pc' \in {"report", "done", "raised"}
          /\ UNCHANGED <<input, data, model, review, schema, quality, compliance, left,
                         crashed>>
      BY <2>10 DEF WriteFails
    <3>2. Writing'
      BY <2>10 DEF WriteFails, Writing, Early
    <3> QED BY <3>1, <3>2, WritingInv
  <2>11. CASE UNCHANGED vars
    BY <2>11, StutterInv
  <2> QED BY <2>1, <2>2, <2>3, <2>4, <2>5, <2>6, <2>7, <2>8, <2>9, <2>10, <2>11 DEF Next
<1> QED BY <1>1, InitInv, PTL DEF Spec

(***************************************************************************)
(* What follows from the invariant.                                        *)
(***************************************************************************)
\* No two findings of a report have the same id, however many plugins and
\* agents say the same: within a stage the ordinals tell them apart, between the
\* stages the stage does, and the schema stage of a report that was not blocked
\* says at most one thing (numeric_checker.assign_finding_ordinals,
\* Finding._id_basis, services/validation_pipeline.py).
THEOREM FindingIdsAreUnique == Spec => []FindingsAreDistinct
<1>1. Inv => FindingsAreDistinct
  <2> SUFFICES ASSUME Inv, Reported PROVE Distinct(Findings)
    BY DEF FindingsAreDistinct, Distinct
  <2>1. pc \in {"report", "done"} /\ ~Blocking(schema)
    BY DEF Reported
  <2>2. OfStage(schema, "schema") /\ Numbered(schema)
    <3>1. OfStage(schema, "schema") /\ Len(schema) <= 1
      BY <2>1 DEF Inv, SchemaChecked, SchemaSays
    <3>2. Len(schema) \in Nat /\ DOMAIN schema = 1 .. Len(schema)
      BY <3>1, ListShape DEF OfStage
    <3>3. \A i, j \in DOMAIN schema : i = j
      BY <3>1, <3>2
    <3> QED BY <3>1, <3>3 DEF Numbered
  <2>3. OfStage(quality, "quality") /\ Numbered(quality)
    BY <2>1 DEF Inv, StageRan, PastQuality
  <2>4. OfStage(compliance, "compliance") /\ Numbered(compliance)
    BY DEF Inv, ClausesJudged, AreJudgements, IsJudgement, OfStage
  <2> QED BY <2>2, <2>3, <2>4, ReportTellsApart
<1> QED BY <1>1, Invariance, PTL

\* What every plugin that did not raise had to say is in the report, and for
\* each that did there is one finding that says so (run_model_quality_checks).
THEOREM PluginsAreHeard == Spec => []CrashIsVisible
<1>1. Inv => CrashIsVisible
  <2> SUFFICES ASSUME Inv, Reported PROVE CrashIsVisible
    BY DEF CrashIsVisible
  <2>1. Told(quality, crashed, model, review)
    BY DEF Inv, StageRan, PastQuality, Reported
  <2> QED BY <2>1 DEF Told, Crashes, CrashIsVisible
<1> QED BY <1>1, Invariance, PTL

LEMMA ScaledByFactor ==
  ASSUME Understood, NEW n
  PROVE  Scaled(n) = n * Factor(input)
<1>1. CASE input.source = "ifc"
  BY <1>1 DEF Understood, Scaled, Factor, LengthToMmFactor
<1>2. CASE input.source # "ifc"
  <2>1. input.units.length \in DOMAIN LengthToMm
    BY <1>2 DEF Understood, SupportedLengthUnit
  <2>2. "none" \notin DOMAIN LengthToMm
    BY DEF LengthToMm
  <2>3. OrDefault(input.units.length, "mm") = input.units.length
    BY <2>1, <2>2 DEF OrDefault
  <2> QED BY <1>2, <2>1, <2>3 DEF Scaled, Factor, Conversion, SupportedLengthUnit
<1> QED BY <1>1, <1>2

LEMMA LengthsMeasured ==
  ASSUME NEW said, NEW k, NEW row, RowFrom(said, k, row), NEW field \in Lengths,
         said[field] # Missing
  PROVE  row[field] = said[field] * k
BY DEF RowFrom, Measures, MeasuresLength

\* A judgement of a clause about an element says the length that the element's
\* own row has.
LEMMA JudgedLength ==
  ASSUME NEW b, SourceBuilding(b), NEW k, NEW d, Holds(b, k, d), NEW i \in DOMAIN b.rows,
         NEW f, Judges(f, d), f.about = b.rows[i].tag,
         NEW c \in ToSet(Clauses), f.clause = c.id
  PROVE  f.measured = d.rows[i][c.field]
<1>1. b.rows[i].tag \in Nat \ {0}
  BY DEF SourceBuilding, SourceRow
<1>2. PICK e \in ToSet(Clauses) : /\ f.clause = e.id
                                  /\ \E j \in DOMAIN d.rows :
                                        /\ f.about = d.rows[j].tag
                                        /\ f.measured = d.rows[j][e.field]
  BY <1>1 DEF Judges
<1>3. e = c
  <2>1. PICK x, y \in DOMAIN Clauses : c = Clauses[x] /\ e = Clauses[y]
    BY DEF ToSet
  <2>2. x = y
    BY <1>2, <2>1, ClausesAssumption DEF ClausesAssumption
  <2> QED BY <2>1, <2>2
<1>4. PICK j \in DOMAIN d.rows : f.about = d.rows[j].tag /\ f.measured = d.rows[j][e.field]
  BY <1>2
<1>5. j \in DOMAIN b.rows /\ d.rows[j].tag = b.rows[j].tag
  BY <1>4 DEF Holds, RowFrom, Keeps, KeptFields
<1>6. j = i
  BY <1>4, <1>5 DEF SourceBuilding
<1> QED BY <1>3, <1>4, <1>6

\* A length of a source whose unit the engine understands is converted once on
\* its way through both passes of the adapter, to the plugins and to the agents
\* alike (_normalise_bim_data_units, ifc_to_bim_data).
THEOREM LengthsAreConvertedOnce == Spec => []MeasuredOnce
<1>1. Inv => MeasuredOnce
  <2> DEFINE k == Factor(input)
  <2> SUFFICES ASSUME Inv, pc \in {"quality", "judge", "report", "done"}, model # Unread,
                      Understood, NEW i \in DOMAIN input.rows
               PROVE  LET said == input.rows[i]
                      IN  /\ \A field \in Lengths : said[field] # Missing =>
                                /\ data.rows[i][field] = Scaled(said[field])
                                /\ model.rows[i][field] = Scaled(said[field])
                          /\ said.at # Nothing =>
                                model.rows[i].at = [c \in {1, 2} |-> Scaled(said.at[c])]
                          /\ \A f \in ToSet(compliance), c \in ToSet(Clauses) :
                                (/\ f.about = said.tag /\ f.clause = c.id
                                 /\ said[c.field] # Missing) =>
                                   f.measured = Scaled(said[c.field])
    BY DEF MeasuredOnce
  <2>1. PastPreparation(pc, schema) /\ Past(pc, schema)
    BY DEF Inv, ModelIsOfInput, PastPreparation, PastQuality, Past
  <2>2. Holds(input, k, data) /\ Holds(input, k, model)
    BY <2>1 DEF Inv, DataIsOfInput, ModelIsOfInput
  <2>3. SourceBuilding(input)
    BY InputsAssumption DEF InputsAssumption, Inv, Shaped
  <2>4. \A n : Scaled(n) = n * k
    BY ScaledByFactor
  <2> HIDE DEF k
  <2> DEFINE said == input.rows[i]
  <2>5. RowFrom(said, k, data.rows[i]) /\ RowFrom(said, k, model.rows[i])
    BY <2>2 DEF Holds
  <2>6. ASSUME NEW field \in Lengths, said[field] # Missing
        PROVE  /\ data.rows[i][field] = Scaled(said[field])
               /\ model.rows[i][field] = Scaled(said[field])
    <3> HIDE DEF said
    <3>1. data.rows[i][field] = said[field] * k /\ model.rows[i][field] = said[field] * k
      BY <2>5, <2>6, LengthsMeasured
    <3> QED BY <2>4, <3>1
  <2>7. ASSUME said.at # Nothing
        PROVE  model.rows[i].at = [c \in {1, 2} |-> Scaled(said.at[c])]
    <3> HIDE DEF said
    <3>1. /\ model.rows[i].at \in [1 .. 2 -> Int]
          /\ \A c \in 1 .. 2 : model.rows[i].at[c] = said.at[c] * k
      BY <2>5, <2>7 DEF RowFrom, Measures, MeasuresPoint
    <3>2. \A c \in 1 .. 2 : model.rows[i].at[c] = Scaled(said.at[c])
      BY <2>4, <3>1
    <3>3. 1 .. 2 = {1, 2}
      OBVIOUS
    <3> QED BY <3>1, <3>2, <3>3
  <2>8. ASSUME NEW f \in ToSet(compliance), NEW c \in ToSet(Clauses),
               f.about = said.tag, f.clause = c.id, said[c.field] # Missing
        PROVE  f.measured = Scaled(said[c.field])
    <3>1. c.field \in Lengths
      BY ClausesAssumption DEF ClausesAssumption, ToSet
    <3>2. Judges(f, data)
      BY DEF Inv, ClausesJudged, AreJudgements, IsJudgement, ToSet
    <3>3. f.measured = data.rows[i][c.field]
      BY <2>2, <2>3, <2>8, <3>2, JudgedLength
    <3> QED BY <2>6, <2>8, <3>1, <3>3
  <2> QED BY <2>6, <2>7, <2>8
<1> QED BY <1>1, Invariance, PTL

(***************************************************************************)
(* What is in doubt, told.                                                 *)
(***************************************************************************)
\* The only row that an id names is found by it.
LEMMA OnlyOneNamed ==
  ASSUME NEW rows, IsList(rows), NEW i \in DOMAIN rows, NEW id,
         id \in ElementAliases(rows[i]),
         \A j \in DOMAIN rows : id \in ElementAliases(rows[j]) => j = i
  PROVE  OnlyNamed(rows, id) = rows[i]
<1> DEFINE named == {j \in DOMAIN rows : id \in ElementAliases(rows[j])}
<1>1. named = {i}
  OBVIOUS
<1>2. Cardinality({i}) = 1
  BY FS_Singleton
<1>3. i \in Nat
  BY ListShape
<1>4. Max({i}) = i
  BY <1>3 DEF Max
<1> QED BY <1>1, <1>2, <1>4 DEF OnlyNamed

LEMMA DoubtIsTold ==
  ASSUME NEW m, NEW r, IsList(r.flagged), NEW flag \in ToSet(r.flagged),
         ~ToldElsewhere(m, r, flag), OnlyNamed(m.rows, flag.id) # Blank
  PROVE  On(Alert("QC-ELEM-CONF-001"), OnlyNamed(m.rows, flag.id))
            \in ToSet(ElementConfidence(m, r))
<1> DEFINE Tells(x) == LET row == OnlyNamed(m.rows, x.id)
                       IN  IF row = Blank THEN OnId(Alert("QC-ELEM-CONF-001"), x.id)
                           ELSE On(Alert("QC-ELEM-CONF-001"), row)
           ss == [i \in DOMAIN r.flagged |->
                    If(~ToldElsewhere(m, r, r.flagged[i]), Tells(r.flagged[i]))]
<1>1. ElementConfidence(m, r) = FlattenSeq(ss)
  BY DEF ElementConfidence, ForEach
<1>2. Tells(flag) = On(Alert("QC-ELEM-CONF-001"), OnlyNamed(m.rows, flag.id))
  OBVIOUS
<1> HIDE DEF Tells
<1>3. ASSUME NEW condition, NEW x PROVE IsList(If(condition, x))
  BY ShortLists DEF If
<1>4. /\ ss = [i \in DOMAIN r.flagged |-> ss[i]]
      /\ \A i \in DOMAIN r.flagged : IsList(ss[i])
  BY <1>3
<1>5. PICK i \in DOMAIN r.flagged : flag = r.flagged[i]
  BY DEF ToSet
<1>6. ss[i] = <<Tells(flag)>>
  BY <1>5 DEF If
<1>7. Tells(flag) \in ToSet(ss[i])
  <2>1. ToSet(<<Tells(flag)>>) = {Tells(flag)}
    BY ShortLists
  <2> QED BY <1>6, <2>1
<1> HIDE DEF ss
<1>8. ToSet(FlattenSeq(ss)) = UNION {ToSet(ss[n]) : n \in DOMAIN r.flagged}
  BY <1>4, ListsEach
<1> QED BY <1>1, <1>2, <1>5, <1>7, <1>8

LEMMA TagsTell ==
  ASSUME NEW room, TagFindings(room) # <<>>
  PROVE  \E f \in ToSet(TagFindings(room)) : f.code \in DoubtCodes /\ f.about = room.tag
<1> DEFINE x == On(Alert("QC-SPACE-TAG-001"), room)
           y == On(Alert("QC-SPACE-TAG-002"), room)
<1>1. /\ x.code = "QC-SPACE-TAG-001" /\ x.about = room.tag
      /\ y.code = "QC-SPACE-TAG-002" /\ y.about = room.tag
  BY UtteredOf
<1>2. TagFindings(room) \in {<<x>> \o <<>>, <<>> \o <<y>>, <<>> \o <<>>}
  BY DEF TagFindings, If
<1> HIDE DEF x, y
<1>3. <<x>> \o <<>> = <<x>> /\ <<>> \o <<y>> = <<y>> /\ <<>> \o <<>> = <<>>
  OBVIOUS
<1>4. TagFindings(room) \in {<<x>>, <<y>>}
  BY <1>2, <1>3
<1>5. ToSet(<<x>>) = {x} /\ ToSet(<<y>>) = {y}
  BY ShortLists
<1> QED BY <1>1, <1>4, <1>5 DEF DoubtCodes

LEMMA Heard ==
  ASSUME NEW q, NEW c, NEW m, NEW r, Told(q, c, m, r), OfStage(q, "quality"),
         NEW p \in ToSet(Registry) \ c, NEW f \in ToSet(RunPlugin(p, m, r))
  PROVE  \E g \in ToSet(q) : g.code = f.code /\ g.about = f.about
<1>1. PICK g \in ToSet(q) : [g EXCEPT !.ordinal = 0] = f
  BY DEF Told
<1>2. IsFinding(g)
  BY DEF OfStage, ToSet
<1>3. DOMAIN g = Fields
  BY <1>2 DEF IsFinding
<1>4. f.code = g.code /\ f.about = g.about
  BY <1>1, <1>3 DEF Fields
<1> QED BY <1>4

LEMMA NamesItself ==
  ASSUME NEW row, EngineId(row) # Nothing
  PROVE  EngineId(row) \in ElementAliases(row)
BY DEF EngineId, ElementAliases

LEMMA DoubtIsFlagged ==
  ASSUME NEW b, NEW k, NEW d, Holds(b, k, d), NEW i \in DOMAIN b.rows,
         SourceRow(b.rows[i]), b.rows[i].kind # "storey",
         b.rows[i].needs \/ b.rows[i].conf < Threshold, b.rows[i].reason # "scale",
         ScaleLow(b) => b.rows[i].conf < Threshold \/ b.rows[i].reason # "none"
  PROVE  \E flag \in ToSet(Prepass(d).flagged) :
            flag.id = EngineId(d.rows[i]) /\ flag.reason # "scale"
<1> DEFINE row == d.rows[i]
           reason == IF row.reason # "none" THEN row.reason
                     ELSE IF row.conf < Threshold THEN "detector"
                     ELSE IF ScaleLow(d) THEN "scale" ELSE "none"
           flag == [id |-> EngineId(row), reason |-> reason]
<1>1. /\ i \in DOMAIN d.rows /\ IsList(d.rows) /\ d.scaleConf = b.scaleConf
      /\ RowFrom(b.rows[i], k, row)
  BY DEF Holds
<1>2. /\ row.kind = b.rows[i].kind /\ row.conf = b.rows[i].conf
      /\ row.reason = b.rows[i].reason /\ (b.rows[i].needs => row.needs)
  BY <1>1 DEF RowFrom, Keeps, KeptFields
<1>3. ScaleLow(d) = ScaleLow(b)
  BY <1>1 DEF ScaleLow
<1>4. Doubt(d, row) = <<flag>>
  BY <1>2 DEF Doubt, If
<1>5. flag.id = EngineId(row) /\ flag.reason # "scale"
  BY <1>2, <1>3
<1>6. row.kind \in ToSet(Reviewed) /\ row \in ToSet(d.rows)
  <2>1. b.rows[i].kind \in {"storey", "wall", "door", "window", "room", "stair", "slab"}
    <3>1. ToSet(Collections) = {"storey", "wall", "door", "window", "room", "stair", "slab"}
      BY DEF ToSet, Collections
    <3> QED BY <3>1 DEF SourceRow
  <2>2. {"wall", "door", "window", "room", "stair", "slab"} \subseteq ToSet(Reviewed)
    BY DEF ToSet, Reviewed
  <2> QED BY <1>1, <1>2, <2>1, <2>2 DEF ToSet
<1> HIDE DEF flag, row
<1>7. flag \in ToSet(Doubt(d, row))
  BY <1>4, ShortLists
<1>8. flag \in ToSet(Prepass(d).flagged)
  BY <1>1, <1>6, <1>7, ReviewFlags
<1> QED BY <1>5, <1>8 DEF row

LEMMA OwnDoubtIsTold ==
  ASSUME Inv, Reported, crashed = {}, NEW i \in DOMAIN input.rows,
         input.rows[i].kind # "storey", ~Shares(model.rows[i]), OwnDoubt(input.rows[i])
  PROVE  \E f \in ToSet(quality) : f.code \in DoubtCodes /\ f.about = model.rows[i].tag
<1> DEFINE k == Factor(input)
           row == model.rows[i]
           id == EngineId(row)
<1>1. PastQuality(pc, schema) /\ PastPreparation(pc, schema) /\ Past(pc, schema)
  BY DEF Reported, PastPreparation, PastQuality, Past
<1>2. /\ Holds(input, k, data) /\ SameIds(data, model) /\ review = Prepass(data)
      /\ Holds(input, k, model) /\ Known(model)
      /\ OfStage(quality, "quality") /\ Told(quality, crashed, model, review)
      /\ IsList(review.flagged)
  BY <1>1 DEF Inv, DataIsOfInput, ModelIsOfInput, StageRan, Shaped
<1>3. SourceBuilding(input)
  BY InputsAssumption DEF InputsAssumption, Inv, Shaped
<1> HIDE DEF k
<1>4. /\ IsList(model.rows) /\ i \in DOMAIN model.rows /\ i \in DOMAIN data.rows
      /\ DOMAIN model.rows = DOMAIN input.rows
  BY <1>2 DEF Holds
<1>5. id # Nothing /\ EngineId(data.rows[i]) = id
  BY <1>2, SameNames
<1>6. id \in ElementAliases(row)
  BY <1>5, NamesItself
\* Nothing else in the model answers to its id, for that would share a name.
<1>7. \A j \in DOMAIN model.rows : model.rows[j].tag = input.rows[j].tag
  BY <1>2 DEF Holds, RowFrom, Keeps, KeptFields
<1>8. ASSUME NEW j \in DOMAIN model.rows, id \in ElementAliases(model.rows[j])
      PROVE  j = i
  <2>1. model.rows[j] \in ToSet(model.rows)
    BY DEF ToSet
  <2>2. model.rows[j].tag = row.tag
    BY <1>6, <1>8, <2>1 DEF Shares
  <2>3. input.rows[j].tag = input.rows[i].tag
    BY <1>4, <1>7, <2>2
  <2> QED BY <1>3, <1>4, <2>3 DEF SourceBuilding
<1>9. OnlyNamed(model.rows, id) = row
  BY <1>4, <1>6, <1>8, OnlyOneNamed
<1>10. row # Blank
  <2>1. row.tag \in Nat \ {0}
    BY <1>3, <1>4, <1>7 DEF SourceBuilding, SourceRow
  <2> QED BY <2>1 DEF Blank
<1>11. PICK flag \in ToSet(review.flagged) : flag.id = id /\ flag.reason # "scale"
  <2>1. SourceRow(input.rows[i])
    BY <1>3 DEF SourceBuilding
  <2> HIDE DEF id
  <2> QED BY <1>2, <1>5, <2>1, DoubtIsFlagged DEF OwnDoubt
<1> HIDE DEF row, id
<1>12. /\ ToSet(Registry) = {"contract_read", "identity_integrity", "space_tagging",
                            "required_properties", "unit_consistency",
                            "storey_consistency", "element_confidence",
                            "scale_confidence", "manual_parameters", "opening_placement"}
  BY DEF ToSet, Registry
<1>13. CASE ~ToldElsewhere(model, review, flag)
  <2> DEFINE f == On(Alert("QC-ELEM-CONF-001"), row)
  <2>1. f \in ToSet(ElementConfidence(model, review))
    BY <1>2, <1>9, <1>10, <1>11, <1>13, DoubtIsTold
  <2>2. f.code = "QC-ELEM-CONF-001" /\ f.about = row.tag
    BY UtteredOf
  <2> HIDE DEF f
  <2>3. /\ RunPlugin("element_confidence", model, review) = ElementConfidence(model, review)
        /\ "element_confidence" \in ToSet(Registry) \ crashed
    BY <1>12 DEF RunPlugin
  <2>4. \E g \in ToSet(quality) : g.code = f.code /\ g.about = f.about
    BY <1>2, <2>1, <2>3, Heard
  <2> QED BY <2>2, <2>4 DEF DoubtCodes, row
<1>14. CASE ToldElsewhere(model, review, flag)
  <2>1. id \in SpaceTagIds(model)
    BY <1>11, <1>14 DEF ToldElsewhere
  <2>2. PICK room \in ToSet(Of(model.rows, "room")) :
           /\ TagFindings(room) # <<>>
           /\ id \in {EngineId(room)} \cup {room.internal, room.guid}
    BY <2>1 DEF SpaceTagIds
  <2>3. room \in ToSet(model.rows) /\ room.kind = "room"
    BY <1>4, OfHolds
  <2>4. id \in ElementAliases(room)
    BY <1>5, <2>2, NamesItself DEF ElementAliases
  <2>5. PICK j \in DOMAIN model.rows : room = model.rows[j]
    BY <2>3 DEF ToSet
  <2>6. room = row
    BY <1>8, <2>4, <2>5 DEF row
  <2>7. PICK f \in ToSet(TagFindings(room)) : f.code \in DoubtCodes /\ f.about = room.tag
    BY <2>2, TagsTell
  <2>8. f \in ToSet(SpaceTagging(model, review))
    BY <1>2, <2>3, <2>7, HoldsIsModel, TaggingSays
  <2>9. /\ RunPlugin("space_tagging", model, review) = SpaceTagging(model, review)
        /\ "space_tagging" \in ToSet(Registry) \ crashed
    BY <1>12 DEF RunPlugin
  <2>10. \E g \in ToSet(quality) : g.code = f.code /\ g.about = f.about
    BY <1>2, <2>8, <2>9, Heard
  <2> QED BY <2>6, <2>7, <2>10 DEF row
<1> QED BY <1>13, <1>14

\* Whatever the source leaves in doubt is told where no plugin raised: between
\* the review, which flags it under the id that the agents know the element by,
\* and the report, where the plugin that would say it leaves it to another only
\* when that one does say it (review_prepass, ElementConfidenceCheck).
THEOREM DoubtsAreTold == Spec => []NoDoubtIsSilent
<1>1. Inv => NoDoubtIsSilent
  <2> SUFFICES ASSUME Inv, Reported, crashed = {} PROVE NoDoubtIsSilent
    BY DEF NoDoubtIsSilent
  <2>1. ASSUME NEW i \in DOMAIN input.rows, input.rows[i].kind # "storey",
               ~Shares(model.rows[i]), OwnDoubt(input.rows[i])
        PROVE  \E f \in ToSet(quality) : f.code \in DoubtCodes /\ f.about = model.rows[i].tag
    BY <2>1, OwnDoubtIsTold
  <2>2. ASSUME ScaleLow(input)
        PROVE  \E f \in ToSet(quality) : f.code = "QC-SCALE-001"
    <3>1. PastQuality(pc, schema) /\ PastPreparation(pc, schema)
      BY DEF Reported, PastPreparation, PastQuality
    <3>2. /\ Holds(input, Factor(input), data) /\ review = Prepass(data)
          /\ OfStage(quality, "quality") /\ Told(quality, crashed, model, review)
      BY <3>1 DEF Inv, DataIsOfInput, StageRan
    <3>3. review.low
      <4>1. data.scaleConf = input.scaleConf
        BY <3>2 DEF Holds
      <4> QED BY <2>2, <3>2, <4>1 DEF Prepass, ScaleLow
    <3> DEFINE f == Alert("QC-SCALE-001")
    <3>4. f.code = "QC-SCALE-001"
      BY DEF Alert, Finding
    <3> HIDE DEF f
    <3>5. RunPlugin("scale_confidence", model, review) = <<f>>
      BY <3>3 DEF RunPlugin, ScaleConfidence, If, f
    <3>6. f \in ToSet(RunPlugin("scale_confidence", model, review))
      BY <3>5, ShortLists
    <3>7. "scale_confidence" \in ToSet(Registry) \ crashed
      BY DEF ToSet, Registry
    <3>8. \E g \in ToSet(quality) : g.code = f.code /\ g.about = f.about
      BY <3>2, <3>6, <3>7, Heard
    <3> QED BY <3>4, <3>8
  <2> QED BY <2>1, <2>2 DEF NoDoubtIsSilent
<1> QED BY <1>1, Invariance, PTL

(***************************************************************************)
(* Where a topic looks.                                                    *)
(***************************************************************************)
\* A finite set of numbers has a least and a greatest one.
LEMMA Extremes ==
  ASSUME NEW S \in SUBSET Int, IsFiniteSet(S), S # {}
  PROVE  /\ Min(S) \in S /\ Max(S) \in S
         /\ \A x \in S : Min(S) <= x /\ x <= Max(S)
<1> DEFINE Ends(T) == (\E x \in T : \A y \in T : x >= y) /\ (\E x \in T : \A y \in T : x <= y)
           Bad == {n \in Nat : \E T \in SUBSET S : T # {} /\ Cardinality(T) = n /\ ~Ends(T)}
<1>1. Bad = {}
  <2> SUFFICES ASSUME Bad # {} PROVE FALSE
    OBVIOUS
  <2>1. PICK n \in Bad : \A m \in Bad : n <= m
    <3>1. Bad \in SUBSET Nat
      OBVIOUS
    <3> HIDE DEF Bad
    <3> QED BY <3>1, LeastNumber
  <2>2. PICK T \in SUBSET S : T # {} /\ Cardinality(T) = n /\ ~Ends(T)
    BY <2>1
  <2>3. PICK x \in T : TRUE
    BY <2>2
  <2> DEFINE U == T \ {x}
  <2>4. n \in Nat /\ x \in Int /\ T \in SUBSET Int
    BY <2>1, <2>2, <2>3
  <2>5. IsFiniteSet(T)
    BY <2>2, FS_Subset
  <2>6. IsFiniteSet(U) /\ Cardinality(U) = n - 1 /\ Cardinality(U) \in Nat
    BY <2>2, <2>3, <2>5, FS_RemoveElement, FS_CardinalityType
  <2>7. CASE U = {}
    <3>1. T = {x}
      BY <2>3, <2>7
    <3>2. Ends({x})
      BY <2>4
    <3> QED BY <2>2, <3>1, <3>2
  <2>8. CASE U # {}
    <3>1. n - 1 \in Nat /\ n - 1 \notin Bad
      BY <2>1, <2>4, <2>6
    <3>2. U \in SUBSET S
      BY <2>2
    <3>3. Ends(U)
      BY <2>6, <2>8, <3>1, <3>2
    <3>4. PICK hi \in U : \A y \in U : hi >= y
      BY <3>3
    <3>5. PICK lo \in U : \A y \in U : lo <= y
      BY <3>3
    <3>6. hi \in Int /\ lo \in Int /\ hi \in T /\ lo \in T
      BY <2>4, <3>4, <3>5
    <3>7. \A y \in T : y = x \/ y \in U
      OBVIOUS
    <3> HIDE DEF U
    <3>8. \E z \in T : \A y \in T : z >= y
      <4>1. CASE x >= hi
        BY <2>3, <2>4, <3>4, <3>6, <3>7, <4>1
      <4>2. CASE ~(x >= hi)
        BY <2>4, <3>4, <3>6, <3>7, <4>2
      <4> QED BY <4>1, <4>2
    <3>9. \E z \in T : \A y \in T : z <= y
      <4>1. CASE x <= lo
        BY <2>3, <2>4, <3>5, <3>6, <3>7, <4>1
      <4>2. CASE ~(x <= lo)
        BY <2>4, <3>5, <3>6, <3>7, <4>2
      <4> QED BY <4>1, <4>2
    <3> QED BY <2>2, <3>8, <3>9
  <2> QED BY <2>7, <2>8
<1>2. Ends(S)
  <2>1. Cardinality(S) \in Nat
    BY FS_CardinalityType
  <2>2. S \in SUBSET S
    OBVIOUS
  <2> QED BY <1>1, <2>1, <2>2
<1>3. Max(S) \in S /\ \A y \in S : Max(S) >= y
  BY <1>2 DEF Max
<1>4. Min(S) \in S /\ \A y \in S : Min(S) <= y
  BY <1>2 DEF Min
<1> QED BY <1>3, <1>4

\* Halfway between the ends of some numbers lies between two of them.
LEMMA HalfwayWithin ==
  ASSUME NEW S \in SUBSET Int, IsFiniteSet(S), S # {}
  PROVE  \E a, b \in S : a <= Halfway(S) /\ Halfway(S) <= b
<1>1. Min(S) \in Int /\ Max(S) \in Int /\ Min(S) <= Max(S) /\ Min(S) \in S /\ Max(S) \in S
  BY Extremes
<1>2. \A a, b \in Int : a <= b => a <= (a + b) \div 2 /\ (a + b) \div 2 <= b
  OBVIOUS
<1>3. Min(S) <= Halfway(S) /\ Halfway(S) <= Max(S)
  BY <1>1, <1>2 DEF Halfway
<1> QED BY <1>1, <1>3

\* Corners are finitely many pairs of numbers.
Corners(points) ==
  IsFiniteSet(points) /\ \A p \in points : p[1] \in Int /\ p[2] \in Int

LEMMA CoordinatesFinite ==
  ASSUME NEW points, Corners(points), NEW k \in 1 .. 2
  PROVE  IsFiniteSet({p[k] : p \in points}) /\ {p[k] : p \in points} \in SUBSET Int
<1> DEFINE T == {p[k] : p \in points}
           f == [p \in points |-> p[k]]
<1>1. f \in Surjection(points, T)
  BY DEF Surjection
<1>2. k = 1 \/ k = 2
  OBVIOUS
<1>3. T \in SUBSET Int
  BY <1>2 DEF Corners
<1> HIDE DEF f, T
<1>4. IsFiniteSet(T)
  BY <1>1, FS_Surjection DEF Corners
<1> QED BY <1>3, <1>4 DEF T

LEMMA CameraWithin ==
  ASSUME NEW points, Corners(points), points # {}, NEW level
  PROVE  Within(Append(MiddleOf(points), level), points)
<1> DEFINE X == {p[1] : p \in points}
           Y == {p[2] : p \in points}
           place == Append(MiddleOf(points), level)
<1>1. MiddleOf(points) = <<Halfway(X), Halfway(Y)>>
  BY DEF MiddleOf
<1>2. place[1] = Halfway(X) /\ place[2] = Halfway(Y)
  <2> HIDE DEF X, Y
  <2> DEFINE pair == <<Halfway(X), Halfway(Y)>>
  <2>1. IsList(pair) /\ Len(pair) = 2
    BY DEF IsList, ToSet
  <2>2. pair[1] = Halfway(X) /\ pair[2] = Halfway(Y)
    OBVIOUS
  <2> HIDE DEF pair
  <2>3. Append(pair, level)[1] = pair[1] /\ Append(pair, level)[2] = pair[2]
    <3> DEFINE out == Append(pair, level)
    <3>1. \A i \in 1 .. Len(pair) : out[i] = pair[i]
      BY <2>1, AppendHolds
    <3> HIDE DEF out
    <3>2. \A i \in 1 .. 2 : out[i] = pair[i]
      BY <2>1, <3>1
    <3>3. out[1] = pair[1] /\ out[2] = pair[2]
      BY <3>2
    <3> QED BY <3>3 DEF out
  <2> QED BY <1>1, <2>2, <2>3 DEF pair
<1>3. IsFiniteSet(X) /\ X \in SUBSET Int /\ IsFiniteSet(Y) /\ Y \in SUBSET Int
  <2>1. 1 \in 1 .. 2 /\ 2 \in 1 .. 2
    OBVIOUS
  <2> QED BY <2>1, CoordinatesFinite
<1>4. X # {} /\ Y # {}
  OBVIOUS
<1>5. \E p, q \in points : p[1] <= place[1] /\ place[1] <= q[1]
  <2> HIDE DEF X, place
  <2>1. PICK a, b \in X : a <= Halfway(X) /\ Halfway(X) <= b
    BY <1>3, <1>4, HalfwayWithin
  <2>2. PICK p \in points, q \in points : a = p[1] /\ b = q[1]
    BY <2>1 DEF X
  <2> QED BY <1>2, <2>1, <2>2
<1>6. \E p, q \in points : p[2] <= place[2] /\ place[2] <= q[2]
  <2> HIDE DEF Y, place
  <2>1. PICK a, b \in Y : a <= Halfway(Y) /\ Halfway(Y) <= b
    BY <1>3, <1>4, HalfwayWithin
  <2>2. PICK p \in points, q \in points : a = p[2] /\ b = q[2]
    BY <2>1 DEF Y
  <2> QED BY <1>2, <2>1, <2>2
<1> HIDE DEF X, Y, place
<1>7. \A k \in 1 .. 2 : k = 1 \/ k = 2
  OBVIOUS
<1>8. Within(place, points)
  BY <1>5, <1>6, <1>7 DEF Within
<1> QED BY <1>8 DEF place

LEMMA PairIsCorners ==
  ASSUME NEW a, NEW b, a[1] \in Int, a[2] \in Int, b[1] \in Int, b[2] \in Int
  PROVE  Corners({a, b}) /\ Corners({})
<1>1. IsFiniteSet({}) /\ IsFiniteSet({a})
  BY FS_EmptySet, FS_Singleton
<1>2. IsFiniteSet({a} \cup {b})
  BY <1>1, FS_AddElement
<1>3. {a, b} = {a} \cup {b}
  OBVIOUS
<1> QED BY <1>1, <1>2, <1>3 DEF Corners

LEMMA AroundIsCorners ==
  ASSUME NEW p \in Points, NEW half \in Int
  PROVE  Corners(Around(p, half))
<1> DEFINE a == <<p[1] - half, p[2] - half>>
           b == <<p[1] + half, p[2] + half>>
<1>1. p[1] \in Int /\ p[2] \in Int
  BY DEF Points
<1>2. a[1] \in Int /\ a[2] \in Int /\ b[1] \in Int /\ b[2] \in Int
  BY <1>1
<1>3. Around(p, half) = {a, b}
  BY DEF Around
<1> HIDE DEF a, b
<1> QED BY <1>2, <1>3, PairIsCorners

LEMMA ExtentIsCorners ==
  ASSUME NEW row, Placed(row), row.width \in Int
  PROVE  Corners(Extent(row))
<1>1. CASE row.kind = "wall" /\ row.start # Nothing /\ row.end # Nothing
  <2>1. Extent(row) = {row.start, row.end}
    BY <1>1 DEF Extent
  <2>2. row.start \in Points /\ row.end \in Points
    BY <1>1 DEF Placed
  <2> QED BY <2>1, <2>2, PairIsCorners DEF Points
<1>2. CASE row.kind = "room"
  <2>1. Extent(row) = ToSet(row.polygon)
    BY <1>2 DEF Extent
  <2>2. row.polygon \in Seq(Points)
    BY DEF Placed
  <2> DEFINE outline == row.polygon
  <2> HIDE DEF outline
  <2>3. outline \in Seq(Points)
    BY <2>2 DEF outline
  <2>4. IsList(outline) /\ \A p \in ToSet(outline) : p \in Points
    BY <2>3 DEF IsList, ToSet
  <2>5. IsFiniteSet(ToSet(outline))
    BY <2>4, ListIsFinite
  <2>6. Corners(ToSet(outline))
    BY <2>4, <2>5 DEF Corners, Points
  <2> QED BY <2>1, <2>6 DEF outline
<1>3. CASE row.kind \in {"door", "window"} /\ row.at # Nothing
  <2> DEFINE half == (IF row.width > 0 THEN row.width ELSE 300) \div 2
  <2>1. Extent(row) = Around(row.at, half)
    BY <1>3 DEF Extent
  <2>2. half \in Int
    OBVIOUS
  <2>3. row.at \in Points
    BY <1>3 DEF Placed
  <2> HIDE DEF half
  <2> QED BY <2>1, <2>2, <2>3, AroundIsCorners
<1>4. CASE row.kind \in {"stair", "slab"} /\ row.at # Nothing
  <2>1. Extent(row) = Around(row.at, 250)
    BY <1>4 DEF Extent
  <2>2. row.at \in Points
    BY <1>4 DEF Placed
  <2> QED BY <2>1, <2>2, AroundIsCorners
<1>5. CASE /\ ~(row.kind = "wall" /\ row.start # Nothing /\ row.end # Nothing)
           /\ row.kind # "room"
           /\ ~(row.kind \in {"door", "window"} /\ row.at # Nothing)
           /\ ~(row.kind \in {"stair", "slab"} /\ row.at # Nothing)
  <2>1. Extent(row) = {}
    BY <1>5 DEF Extent
  <2>2. IsFiniteSet({})
    BY FS_EmptySet
  <2> QED BY <2>1, <2>2 DEF Corners
<1> QED BY <1>1, <1>2, <1>3, <1>4, <1>5

(***************************************************************************)
(* What a topic names.                                                     *)
(***************************************************************************)
\* What the report needs to know of the rows of a model.
Reads(row) ==
  /\ row.tag \in Nat \ {0} /\ row.kind \in ToSet(Collections)
  /\ Placed(row) /\ row.width \in Int
OnlyTags(rows) == \A r, s \in ToSet(rows) : r.tag = s.tag => r = s
WellRead(rows) == IsList(rows) /\ OnlyTags(rows) /\ \A r \in ToSet(rows) : Reads(r)

LEMMA ModelWellRead ==
  ASSUME NEW b, SourceBuilding(b), NEW k, NEW m, Holds(b, k, m)
  PROVE  WellRead(m.rows) /\ m # Unread
<1>1. ASSUME NEW i \in DOMAIN b.rows
      PROVE  Reads(m.rows[i]) /\ m.rows[i].tag = b.rows[i].tag
  <2>1. RowFrom(b.rows[i], k, m.rows[i])
    BY DEF Holds
  <2>2. SourceRow(b.rows[i]) /\ Placed(m.rows[i])
    BY <2>1 DEF RowFrom
  <2>3. m.rows[i].tag = b.rows[i].tag /\ m.rows[i].kind = b.rows[i].kind
    BY <2>1 DEF RowFrom, Keeps, KeptFields
  <2>4. m.rows[i].width \in Int
    <3>1. "width" \in Lengths
      BY DEF Lengths
    <3>2. m.rows[i]["width"] \in Int
      BY <2>1, <3>1 DEF RowFrom, Measures, MeasuresLength
    <3> QED BY <3>2
  <2> QED BY <2>2, <2>3, <2>4 DEF Reads, SourceRow
<1>2. IsList(m.rows) /\ DOMAIN m.rows = DOMAIN b.rows /\ Parts \subseteq DOMAIN m
  BY DEF Holds
<1>3. \A r \in ToSet(m.rows) : Reads(r)
  BY <1>1, <1>2 DEF ToSet
<1>4. OnlyTags(m.rows)
  <2> SUFFICES ASSUME NEW i \in DOMAIN m.rows, NEW j \in DOMAIN m.rows,
                      m.rows[i].tag = m.rows[j].tag
               PROVE  m.rows[i] = m.rows[j]
    BY DEF OnlyTags, ToSet
  <2>1. b.rows[i].tag = b.rows[j].tag
    BY <1>1, <1>2
  <2>2. i = j
    BY <1>2, <2>1 DEF SourceBuilding
  <2> QED BY <2>2
<1>5. m # Unread
  BY <1>2 DEF Unread, Parts
<1> QED BY <1>2, <1>3, <1>4, <1>5 DEF WellRead

\* The index holds the elements of the model and no other.
LEMMA IndexHolds ==
  ASSUME WellRead(model.rows)
  PROVE  IsList(Indexed) /\ ToSet(Indexed) = ToSet(model.rows)
<1> DEFINE ss == [n \in DOMAIN Collections |-> Of(model.rows, Collections[n])]
<1>1. IsList(model.rows) /\ \A r \in ToSet(model.rows) : r.kind \in ToSet(Collections)
  BY DEF WellRead, Reads
<1>2. \A n \in DOMAIN Collections :
        IsList(ss[n]) /\ ToSet(ss[n]) = {r \in ToSet(model.rows) : r.kind = Collections[n]}
  BY <1>1, OfHolds
<1>3. IsList(Collections)
  BY DEF IsList, Collections, ToSet
<1>4. ss = [n \in DOMAIN Collections |-> ss[n]]
  OBVIOUS
<1>5. Indexed = FlattenSeq(ss)
  BY DEF Indexed
<1> HIDE DEF ss
<1>6. /\ IsList(FlattenSeq(ss))
      /\ ToSet(FlattenSeq(ss)) = UNION {ToSet(ss[n]) : n \in DOMAIN Collections}
  BY <1>2, <1>3, <1>4, ListsEach
<1>7. UNION {ToSet(ss[n]) : n \in DOMAIN Collections} = ToSet(model.rows)
  <2>1. ASSUME NEW r \in ToSet(model.rows)
        PROVE  \E n \in DOMAIN Collections : r \in ToSet(ss[n])
    <3>1. PICK n \in DOMAIN Collections : r.kind = Collections[n]
      BY <1>1 DEF ToSet
    <3> QED BY <1>2, <3>1
  <2>2. \A n \in DOMAIN Collections : ToSet(ss[n]) \subseteq ToSet(model.rows)
    BY <1>2
  <2> QED BY <2>1, <2>2
<1> QED BY <1>5, <1>6, <1>7

LEMMA RowOfTag ==
  ASSUME WellRead(model.rows), NEW row \in ToSet(model.rows)
  PROVE  Row(row.tag) = row /\ row # Blank
<1>1. \A r \in ToSet(model.rows) : r.tag = row.tag => r = row
  BY DEF WellRead, OnlyTags
<1>2. Row(row.tag) \in ToSet(model.rows) /\ Row(row.tag).tag = row.tag
  BY DEF Row
<1>3. row.tag # 0
  BY DEF WellRead, Reads
<1> QED BY <1>1, <1>2, <1>3 DEF Blank

\* No two rows share a GlobalId unless they share a name.
LEMMA OwnGuid ==
  ASSUME WellRead(model.rows), NEW row \in ToSet(model.rows), ~Shares(row), row.guid # Nothing,
         NEW other \in ToSet(model.rows), other.guid = row.guid
  PROVE  other = row
<1>1. row.guid \in ElementAliases(other) \cap ElementAliases(row)
  BY DEF ElementAliases
<1>2. other.tag = row.tag
  BY <1>1 DEF Shares
<1> QED BY <1>2 DEF WellRead, OnlyTags

LEMMA ElementFound ==
  ASSUME WellRead(model.rows), NEW row \in ToSet(model.rows), ~Shares(row), row.guid # Nothing
  PROVE  Element(row.guid) = row
<1> DEFINE named == {i \in DOMAIN Indexed : Indexed[i].guid = row.guid}
<1>1. IsList(Indexed) /\ ToSet(Indexed) = ToSet(model.rows)
  BY IndexHolds
<1>2. Len(Indexed) \in Nat /\ DOMAIN Indexed = 1 .. Len(Indexed)
  BY <1>1, ListShape
<1>3. named \in SUBSET (1 .. Len(Indexed)) /\ named # {}
  <2>1. PICK i \in DOMAIN Indexed : row = Indexed[i]
    BY <1>1 DEF ToSet
  <2> QED BY <1>2, <2>1
<1>4. \A i \in named : Indexed[i] = row
  <2> SUFFICES ASSUME NEW i \in named PROVE Indexed[i] = row
    OBVIOUS
  <2>1. Indexed[i] \in ToSet(model.rows) /\ Indexed[i].guid = row.guid
    BY <1>1 DEF ToSet
  <2> QED BY <2>1, OwnGuid
<1>5. Element(row.guid) = IF named = {} THEN Blank ELSE Indexed[Max(named)]
  BY DEF Element
<1> HIDE DEF named
<1>6. Max(named) \in named
  BY <1>2, <1>3, Greatest
<1> QED BY <1>3, <1>4, <1>5, <1>6

LEMMA OnlyItIsLit ==
  ASSUME WellRead(model.rows), NEW row \in ToSet(model.rows), ~Shares(row), row.guid # Nothing
  PROVE  Lit(row) \subseteq {row.tag}
BY OwnGuid DEF Lit

LEMMA CameraOverElement ==
  ASSUME WellRead(model.rows), NEW row \in ToSet(model.rows), Extent(row) # {}
  PROVE  Within(Camera(row), Extent(row))
<1>1. Corners(Extent(row))
  BY ExtentIsCorners DEF WellRead, Reads
<1>2. row # Blank
  BY RowOfTag
<1>3. Camera(row) = Append(MiddleOf(Extent(row)), LevelOf(row))
  BY <1>2 DEF Camera
<1> QED BY <1>1, <1>3, CameraWithin

\* The index of aliases finds the one row that an id names.
LEMMA LastIsOnly ==
  ASSUME NEW rows, IsList(rows), NEW i \in DOMAIN rows, NEW id,
         id \in ElementAliases(rows[i]),
         \A j \in DOMAIN rows : id \in ElementAliases(rows[j]) => j = i
  PROVE  LastNamed(rows, id) = rows[i]
<1> DEFINE named == {j \in DOMAIN rows : id \in ElementAliases(rows[j])}
<1>1. Len(rows) \in Nat /\ DOMAIN rows = 1 .. Len(rows)
  BY ListShape
<1>2. named \in SUBSET (1 .. Len(rows)) /\ i \in named /\ \A j \in named : j = i
  BY <1>1
<1>3. LastNamed(rows, id) = IF named = {} THEN Blank ELSE rows[Max(named)]
  BY DEF LastNamed
<1> HIDE DEF named
<1>4. Max(named) \in named
  BY <1>1, <1>2, Greatest
<1> QED BY <1>2, <1>3, <1>4

\* What the report tells is what a stage found.
LEMMA StageLists ==
  ASSUME NEW s, IsList(s)
  PROVE  /\ IsList(NormaliseStage(s))
         /\ ToSet(NormaliseStage(s)) = {ReportFinding(f) : f \in ToSet(s)}
<1> DEFINE t == NormaliseStage(s)
<1>1. DOMAIN t = DOMAIN s /\ t = [i \in DOMAIN s |-> t[i]]
      /\ \A i \in DOMAIN s : t[i] = ReportFinding(s[i])
  BY DEF NormaliseStage
<1> HIDE DEF t
<1>2. IsList(t)
  BY <1>1, RowsMapped
<1>3. ToSet(t) = {ReportFinding(f) : f \in ToSet(s)}
  BY <1>1 DEF ToSet
<1> QED BY <1>2, <1>3 DEF t

LEMMA FindingsOfStages ==
  ASSUME IsList(schema), IsList(quality), IsList(compliance)
  PROVE  /\ IsList(Findings)
         /\ ToSet(Findings) =
              {ReportFinding(f) : f \in ToSet(schema) \cup ToSet(quality) \cup ToSet(compliance)}
<1> DEFINE s == NormaliseStage(schema)
           q == NormaliseStage(quality)
           c == NormaliseStage(compliance)
<1>1. /\ IsList(s) /\ ToSet(s) = {ReportFinding(f) : f \in ToSet(schema)}
      /\ IsList(q) /\ ToSet(q) = {ReportFinding(f) : f \in ToSet(quality)}
      /\ IsList(c) /\ ToSet(c) = {ReportFinding(f) : f \in ToSet(compliance)}
  BY StageLists
<1> HIDE DEF s, q, c
<1>2. IsList(s \o q) /\ ToSet(s \o q) = ToSet(s) \cup ToSet(q)
  BY <1>1, ListsJoin
<1>3. IsList(s \o q \o c) /\ ToSet(s \o q \o c) = ToSet(s) \cup ToSet(q) \cup ToSet(c)
  BY <1>1, <1>2, ListsJoin
<1> QED BY <1>1, <1>3 DEF Findings, s, q, c

\* A finding about an element has the GlobalId of that element, unless the element
\* shares a name: the plugins take it from the element, the judgements from the
\* row that their id is looked up to.
Named(f) ==
  \E row \in ToSet(model.rows) :
     row.tag = f.about /\ (~Shares(row) => f.guid = row.guid)

LEMMA QualityNames ==
  ASSUME NEW b, NEW k, Holds(b, k, model), NEW f, SpeaksOf(f, ToSet(b.rows)), f.about # 0
  PROVE  Named(f)
<1>1. PICK i \in DOMAIN b.rows : f.about = b.rows[i].tag /\ f.guid = b.rows[i].guid
  BY DEF SpeaksOf, ToSet
<1>2. model.rows[i].tag = b.rows[i].tag /\ model.rows[i].guid = b.rows[i].guid
  BY DEF Holds, RowFrom, Keeps, KeptFields
<1>3. model.rows[i] \in ToSet(model.rows)
  BY DEF Holds, ToSet
<1> QED BY <1>1, <1>2, <1>3 DEF Named

LEMMA JudgementNames ==
  ASSUME NEW b, SourceBuilding(b), NEW k, Holds(b, k, model), Holds(b, k, data),
         SameIds(data, model), Known(model),
         NEW f, Judges(f, data), Enriched(f, data), f.about # 0
  PROVE  Named(f)
<1>1. PICK i \in DOMAIN data.rows : f.about = data.rows[i].tag /\ f.id = EngineId(data.rows[i])
  BY DEF Judges
<1>2. /\ IsList(model.rows) /\ IsList(data.rows)
      /\ DOMAIN model.rows = DOMAIN b.rows /\ DOMAIN data.rows = DOMAIN b.rows
  BY DEF Holds
<1>3. \A j \in DOMAIN b.rows :
        /\ model.rows[j].tag = b.rows[j].tag /\ model.rows[j].guid = b.rows[j].guid
        /\ data.rows[j].tag = b.rows[j].tag /\ data.rows[j].guid = b.rows[j].guid
  BY DEF Holds, RowFrom, Keeps, KeptFields
<1>4. \A j \in DOMAIN b.rows :
        /\ ElementAliases(data.rows[j]) = ElementAliases(model.rows[j])
        /\ EngineId(data.rows[j]) = EngineId(model.rows[j])
        /\ EngineId(model.rows[j]) # Nothing
  BY SameNames
<1> DEFINE row == model.rows[i]
           id == EngineId(row)
<1>5. f.id = id /\ id \in ElementAliases(row) /\ row \in ToSet(model.rows) /\ row.tag = f.about
  BY <1>1, <1>2, <1>3, <1>4, NamesItself DEF ToSet
<1>6. ASSUME ~Shares(row) PROVE f.guid = row.guid
  <2>1. ASSUME NEW j \in DOMAIN data.rows, id \in ElementAliases(data.rows[j])
        PROVE  j = i
    <3>1. id \in ElementAliases(model.rows[j]) /\ model.rows[j] \in ToSet(model.rows)
      BY <1>2, <1>4, <2>1 DEF ToSet
    <3>2. model.rows[j].tag = row.tag
      BY <1>5, <1>6, <3>1 DEF Shares
    <3>3. b.rows[j].tag = b.rows[i].tag
      BY <1>2, <1>3, <3>2
    <3> QED BY <1>2, <3>3 DEF SourceBuilding
  <2>2. id \in ElementAliases(data.rows[i])
    BY <1>2, <1>4, <1>5
  <2> HIDE DEF id
  <2>3. LastNamed(data.rows, id) = data.rows[i]
    BY <1>2, <2>1, <2>2, LastIsOnly
  <2>4. data.rows[i] # Blank
    BY <1>1 DEF Blank
  <2>5. f.guid = data.rows[i].guid
    BY <1>5, <2>3, <2>4 DEF Enriched
  <2> QED BY <1>2, <1>3, <2>5
<1> QED BY <1>5, <1>6 DEF Named

LEMMA FindingNames ==
  ASSUME Inv, Reported, NEW f \in ToSet(Findings), f.about # 0
  PROVE  Named(f)
<1>1. PastQuality(pc, schema) /\ PastPreparation(pc, schema) /\ Past(pc, schema)
  BY DEF Reported, PastPreparation, PastQuality, Past
<1>2. /\ Holds(input, Factor(input), data) /\ SameIds(data, model)
      /\ Holds(input, Factor(input), model) /\ Known(model)
  BY <1>1 DEF Inv, DataIsOfInput, ModelIsOfInput
<1>3. OfStage(schema, "schema") /\ OfNone(schema) /\ OfStage(quality, "quality")
  BY <1>1 DEF Inv, SchemaChecked, SchemaSays, StageRan
<1>4. AreJudgements(compliance, data) /\ AreEnriched(compliance, data)
  BY DEF Inv, ClausesJudged
<1>5. PICK g \in ToSet(schema) \cup ToSet(quality) \cup ToSet(compliance) : f = ReportFinding(g)
  BY <1>3, <1>4, FindingsOfStages DEF OfStage, AreJudgements
<1>6. f.about = g.about /\ f.guid = g.guid
  BY <1>5 DEF ReportFinding
<1>7. CASE g \in ToSet(schema)
  BY <1>3, <1>6, <1>7 DEF OfNone, ToSet
<1>8. CASE g \in ToSet(quality)
  <2>1. SpeaksOf(g, ToSet(input.rows))
    BY <1>8 DEF Inv, ElementsAreNamed
  <2>2. Named(g)
    BY <1>2, <1>6, <2>1, QualityNames
  <2> QED BY <1>6, <2>2 DEF Named
<1>9. CASE g \in ToSet(compliance)
  <2>1. Judges(g, data) /\ Enriched(g, data)
    BY <1>4, <1>9 DEF AreJudgements, IsJudgement, AreEnriched, ToSet
  <2>2. SourceBuilding(input)
    BY InputsAssumption DEF InputsAssumption, Inv, Shaped
  <2>3. Named(g)
    BY <1>2, <1>6, <2>1, <2>2, JudgementNames
  <2> QED BY <1>6, <2>3 DEF Named
<1> QED BY <1>5, <1>7, <1>8, <1>9

\* The one topic that a finding makes, where the model has the element it names.
TopicFor(f) ==
  LET shown == Element(f.guid)
  IN  [folder |-> f.fid, guid |-> f.guid, about |-> f.about, shown |-> shown.tag,
       camera |-> IF shown = Blank THEN Nothing ELSE Camera(shown),
       lit |-> IF shown = Blank THEN {} ELSE Lit(shown)]
Shown(f) == f.verdict \in Actionable /\ f.guid # Nothing /\ Element(f.guid) # Blank

LEMMA TopicShape ==
  ASSUME model # Unread, NEW f
  PROVE  /\ IsList(Topic(f))
         /\ ToSet(Topic(f)) = IF Shown(f) THEN {TopicFor(f)} ELSE {}
<1>1. Topic(f) = If(Shown(f), TopicFor(f))
  BY DEF Topic, Shown, TopicFor
<1> DEFINE t == TopicFor(f)
<1> HIDE DEF t
<1>2. IsList(<<t>>) /\ ToSet(<<t>>) = {t} /\ IsList(<<>>) /\ ToSet(<<>>) = {}
  BY ShortLists
<1>3. CASE Shown(f)
  BY <1>1, <1>2, <1>3 DEF If, t
<1>4. CASE ~Shown(f)
  BY <1>1, <1>2, <1>4 DEF If
<1> QED BY <1>3, <1>4

LEMMA TopicsOfFindings ==
  ASSUME model # Unread, TopicsMade, IsList(Findings)
  PROVE  ToSet(topics) = {TopicFor(f) : f \in {g \in ToSet(Findings) : Shown(g)}}
<1> DEFINE told == Findings
           ss == [i \in DOMAIN told |-> Topic(told[i])]
<1>1. topics = FlattenSeq(ss)
  BY DEF TopicsMade, ForEach
<1>2. \A i \in DOMAIN told :
        IsList(ss[i]) /\ ToSet(ss[i]) = IF Shown(told[i]) THEN {TopicFor(told[i])} ELSE {}
  BY TopicShape
<1>3. ss = [i \in DOMAIN told |-> ss[i]] /\ IsList(told)
  OBVIOUS
<1> HIDE DEF ss, told
<1>4. ToSet(FlattenSeq(ss)) = UNION {ToSet(ss[i]) : i \in DOMAIN told}
  BY <1>2, <1>3, ListsEach
<1>5. UNION {ToSet(ss[i]) : i \in DOMAIN told}
        = {TopicFor(f) : f \in {g \in ToSet(told) : Shown(g)}}
  BY <1>2 DEF ToSet
<1> QED BY <1>1, <1>4, <1>5 DEF told

\* What the model tells a topic about the element of its finding.
LEMMA TopicRight ==
  ASSUME WellRead(model.rows), NEW f, Shown(f), Named(f), ~Shares(Row(f.about)),
         NEW t, t = TopicFor(f)
  PROVE  /\ t.guid = Row(t.about).guid /\ t.shown = t.about
         /\ t.lit \subseteq {t.about}
         /\ Extent(Row(t.about)) # {} => Within(t.camera, Extent(Row(t.about)))
<1>1. PICK row \in ToSet(model.rows) :
         row.tag = f.about /\ (~Shares(row) => f.guid = row.guid)
  BY DEF Named
<1>2. Row(f.about) = row /\ row # Blank
  BY <1>1, RowOfTag
<1>3. f.guid = row.guid /\ row.guid # Nothing /\ ~Shares(row)
  BY <1>1, <1>2 DEF Shown
<1>4. Element(f.guid) = row
  BY <1>3, ElementFound
<1>5. /\ t.guid = f.guid /\ t.about = f.about /\ t.shown = row.tag
      /\ t.camera = Camera(row) /\ t.lit = Lit(row)
  BY <1>2, <1>4 DEF TopicFor
<1>6. Lit(row) \subseteq {row.tag}
  BY <1>3, OnlyItIsLit
<1>7. Extent(row) # {} => Within(Camera(row), Extent(row))
  BY CameraOverElement
<1> QED BY <1>1, <1>2, <1>3, <1>5, <1>6, <1>7

\* A finding that asks for action on an element of its own name is shown.
LEMMA ActionIsShown ==
  ASSUME WellRead(model.rows), NEW f, f.verdict \in Actionable, Named(f),
         ~Shares(Row(f.about)), Row(f.about).guid # Nothing
  PROVE  Shown(f)
<1>1. PICK row \in ToSet(model.rows) :
         row.tag = f.about /\ (~Shares(row) => f.guid = row.guid)
  BY DEF Named
<1>2. Row(f.about) = row /\ row # Blank
  BY <1>1, RowOfTag
<1>3. f.guid = row.guid /\ row.guid # Nothing /\ ~Shares(row)
  BY <1>1, <1>2
<1>4. Element(f.guid) = row
  BY <1>3, ElementFound
<1> QED BY <1>2, <1>3, <1>4 DEF Shown

\* A topic of the BCF archive selects the element that its finding is about, looks
\* at it and marks no other, and a finding that asks for action on an element with
\* a GlobalId of its own has a topic: a finding takes its GlobalId from the element
\* or from the row that its id is looked up to, the adapter gives both copies of the
\* building the same ids, and the index of the archive finds by a GlobalId the only
\* element that has it (enrich_findings_with_engine_identity, _index_elements,
\* export_bcf).
THEOREM TopicsNameElements == Spec => []TopicsNameTheElement
<1>1. Inv => TopicsNameTheElement
  <2> SUFFICES ASSUME Inv, pc = "done", Reported PROVE TopicsNameTheElement
    BY DEF TopicsNameTheElement
  <2>1. Past(pc, schema) /\ PastQuality(pc, schema)
    BY DEF Reported, Past, PastQuality
  <2>2. WellRead(model.rows) /\ model # Unread
    <3>1. Holds(input, Factor(input), model)
      BY <2>1 DEF Inv, ModelIsOfInput
    <3>2. SourceBuilding(input)
      BY InputsAssumption DEF InputsAssumption, Inv, Shaped
    <3> QED BY <3>1, <3>2, ModelWellRead
  <2>3. IsList(Findings)
    <3>1. OfStage(schema, "schema") /\ OfStage(quality, "quality")
      BY <2>1 DEF Inv, SchemaChecked, SchemaSays, StageRan
    <3>2. AreJudgements(compliance, data)
      BY DEF Inv, ClausesJudged
    <3> QED BY <3>1, <3>2, FindingsOfStages DEF OfStage, AreJudgements
  <2>4. TopicsMade
    BY DEF Inv, Writing
  <2>5. ToSet(topics) = {TopicFor(f) : f \in {g \in ToSet(Findings) : Shown(g)}}
    BY <2>2, <2>3, <2>4, TopicsOfFindings
  <2>6. ASSUME NEW i \in DOMAIN topics, topics[i].about # 0, ~Shares(Row(topics[i].about))
        PROVE  /\ topics[i].guid = Row(topics[i].about).guid
               /\ topics[i].shown = topics[i].about
               /\ topics[i].lit \subseteq {topics[i].about}
               /\ Extent(Row(topics[i].about)) # {} =>
                     Within(topics[i].camera, Extent(Row(topics[i].about)))
    <3> DEFINE t == topics[i]
    <3>1. t \in ToSet(topics)
      BY DEF ToSet
    <3> HIDE DEF t
    <3>2. PICK f \in ToSet(Findings) : Shown(f) /\ t = TopicFor(f)
      BY <2>5, <3>1
    <3>3. t.about = f.about
      BY <3>2 DEF TopicFor
    <3>4. f.about # 0 /\ ~Shares(Row(f.about))
      BY <2>6, <3>3 DEF t
    <3>5. Named(f)
      BY <3>4, FindingNames
    <3>6. /\ t.guid = Row(t.about).guid /\ t.shown = t.about
          /\ t.lit \subseteq {t.about}
          /\ Extent(Row(t.about)) # {} => Within(t.camera, Extent(Row(t.about)))
      BY <2>2, <3>2, <3>4, <3>5, TopicRight
    <3> QED BY <3>6 DEF t
  <2>7. ASSUME NEW f \in ToSet(Findings), f.about # 0, f.verdict \in Actionable,
               ~Shares(Row(f.about)), Row(f.about).guid # Nothing
        PROVE  \E i \in DOMAIN topics : topics[i].folder = f.fid
    <3>1. Named(f)
      BY <2>7, FindingNames
    <3>2. Shown(f)
      BY <2>2, <2>7, <3>1, ActionIsShown
    <3>3. TopicFor(f) \in ToSet(topics)
      BY <2>5, <3>2
    <3>4. PICK i \in DOMAIN topics : TopicFor(f) = topics[i]
      BY <3>3 DEF ToSet
    <3>5. TopicFor(f).folder = f.fid
      BY DEF TopicFor
    <3> QED BY <3>4, <3>5
  <2> QED BY <2>6, <2>7 DEF TopicsNameTheElement
<1> QED BY <1>1, Invariance, PTL
=============================================================================
