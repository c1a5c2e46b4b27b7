--------------------------- MODULE MemberListProofs ---------------------------
(***************************************************************************)
(* The list of members on the group screen, for any finite set of members, *)
(* any number of requests and writes.                                      *)
(***************************************************************************)
EXTENDS MemberList, TLAPS, FiniteSetTheorems, SequenceTheorems

-----------------------------------------------------------------------------
(* Sequences without repetitions *)

\* A set of natural numbers has a least element.
LEMMA LeastOf == ASSUME NEW I, I \subseteq Nat, I # {} PROVE Min(I) \in I
<1> DEFINE R == {ss \in Nat \X Nat : ss[1] < ss[2]}
<1>1. IsWellFoundedOn(R, Nat)
  BY NatLessThanWellFounded DEF OpToRel
<1>2. PICK x \in I : \A y \in I : ~ (<<y, x>> \in R)
  <2> HIDE DEF R
  <2> QED
    BY <1>1, WFMin
<1>3. \A y \in I : x <= y
  <2> SUFFICES ASSUME NEW y \in I PROVE x <= y
    OBVIOUS
  <2>1. x \in Nat /\ y \in Nat
    OBVIOUS
  <2>2. ~(y < x)
    BY <1>2, <2>1
  <2> QED
    BY <2>1, <2>2
<1> QED
  BY <1>3 DEF Min

\* RemoveAt keeps the other entries in their order.
LEMMA RemovedAt ==
    ASSUME NEW S, NEW s \in Seq(S), NEW i \in 1 .. Len(s)
    PROVE  /\ RemoveAt(s, i) \in Seq(S) /\ Len(RemoveAt(s, i)) = Len(s) - 1
           /\ \A j \in 1 .. Len(s) - 1 : RemoveAt(s, i)[j] = IF j < i THEN s[j] ELSE s[j + 1]
<1> DEFINE a == SubSeq(s, 1, i - 1)
           b == SubSeq(s, i + 1, Len(s))
<1>1. Len(s) \in Nat /\ \A k \in 1 .. Len(s) : s[k] \in S
  OBVIOUS
<1>2. a \in Seq(S) /\ Len(a) = i - 1 /\ \A k \in 1 .. i - 1 : a[k] = s[k]
  BY <1>1
<1>3. b \in Seq(S) /\ Len(b) = Len(s) - i /\ \A k \in 1 .. Len(s) - i : b[k] = s[i + k]
  BY <1>1
<1> HIDE DEF a, b
<1>4. /\ a \o b \in Seq(S) /\ Len(a \o b) = Len(s) - 1
      /\ \A j \in 1 .. Len(s) - 1 : (a \o b)[j] = IF j < i THEN a[j] ELSE b[j - (i - 1)]
  <2>1. a \o b \in Seq(S) /\ Len(a \o b) = Len(a) + Len(b)
    BY <1>2, <1>3, ConcatProperties
  <2>2. \A j \in 1 .. Len(a) + Len(b) : (a \o b)[j] = IF j <= Len(a) THEN a[j] ELSE b[j - Len(a)]
    BY <1>2, <1>3
  <2>3. Len(a) + Len(b) = Len(s) - 1 /\ \A j \in Int : j <= Len(a) <=> j < i
    BY <1>1, <1>2, <1>3
  <2> QED
    BY <1>1, <1>2, <2>1, <2>2, <2>3
<1>5. ASSUME NEW j \in 1 .. Len(s) - 1
      PROVE  (a \o b)[j] = IF j < i THEN s[j] ELSE s[j + 1]
  <2>1. CASE j < i
    BY <1>1, <1>2, <1>4, <2>1
  <2>2. CASE ~(j < i)
    <3>1. j - (i - 1) \in 1 .. Len(s) - i /\ i + (j - (i - 1)) = j + 1
      BY <1>1, <2>2
    <3>2. b[j - (i - 1)] = s[j + 1]
      BY <1>3, <3>1
    <3> QED
      BY <1>4, <2>2, <3>2
  <2> QED
    BY <2>1, <2>2
<1> QED
  BY <1>4, <1>5 DEF RemoveAt, a, b

\* Of entries that differ it takes one away.
LEMMA RemovedInjective ==
    ASSUME NEW S, NEW s \in Seq(S), IsInjective(s), NEW i \in 1 .. Len(s)
    PROVE  IsInjective(RemoveAt(s, i)) /\ ToSet(RemoveAt(s, i)) = ToSet(s) \ {s[i]}
<1> DEFINE t == RemoveAt(s, i)
<1>1. /\ t \in Seq(S) /\ Len(t) = Len(s) - 1
      /\ \A j \in 1 .. Len(s) - 1 : t[j] = IF j < i THEN s[j] ELSE s[j + 1]
  BY RemovedAt
<1> HIDE DEF t
<1>2. Len(s) \in Nat /\ DOMAIN s = 1 .. Len(s) /\ DOMAIN t = 1 .. Len(s) - 1
  BY <1>1
<1>3. \A j, k \in 1 .. Len(s) : s[j] = s[k] => j = k
  BY <1>2 DEF IsInjective
<1>4. IsInjective(t)
  BY <1>1, <1>2, <1>3 DEF IsInjective
<1>5. ASSUME NEW j \in 1 .. Len(s) - 1 PROVE t[j] \in ToSet(s) \ {s[i]}
  BY <1>1, <1>2, <1>3 DEF ToSet
<1>6. ASSUME NEW j \in 1 .. Len(s), j # i PROVE s[j] \in ToSet(t)
  <2>1. CASE j < i
    BY <1>1, <1>2, <2>1 DEF ToSet
  <2>2. CASE j > i
    <3>1. j - 1 \in 1 .. Len(s) - 1 /\ t[j - 1] = s[j]
      BY <1>1, <1>2, <2>2
    <3> QED
      BY <1>2, <3>1 DEF ToSet
  <2> QED
    BY <1>2, <1>6, <2>1, <2>2
<1>7. ToSet(t) \subseteq ToSet(s) \ {s[i]}
  BY <1>2, <1>5 DEF ToSet
<1>8. ToSet(s) \ {s[i]} \subseteq ToSet(t)
  BY <1>2, <1>6 DEF ToSet
<1> QED
  BY <1>4, <1>7, <1>8 DEF t

\* RemoveFirst removes an entry where there is one.
LEMMA RemovedFirst ==
    ASSUME NEW S, NEW s \in Seq(S), NEW e
    PROVE  IF Contains(s, e)
             THEN \E i \in 1 .. Len(s) : s[i] = e /\ RemoveFirst(s, e) = RemoveAt(s, i)
             ELSE RemoveFirst(s, e) = s
<1> DEFINE I == {i \in 1 .. Len(s) : s[i] = e}
<1>1. CASE Contains(s, e)
  <2>1. I # {} /\ I \subseteq Nat
    BY <1>1 DEF Contains
  <2>2. Min(I) \in I
    BY <2>1, LeastOf
  <2>3. RemoveFirst(s, e) = RemoveAt(s, Min(I))
    BY <1>1, <2>1 DEF RemoveFirst, SelectInSeq, Contains
  <2> QED
    BY <1>1, <2>2, <2>3
<1>2. CASE ~Contains(s, e)
  BY <1>2 DEF RemoveFirst, Contains
<1> QED
  BY <1>1, <1>2

\* A new entry behind the others.
LEMMA Appended ==
    ASSUME NEW S, NEW s \in Seq(S), NEW e \in S
    PROVE  /\ Append(s, e) \in Seq(S) /\ Len(Append(s, e)) = Len(s) + 1
           /\ ToSet(Append(s, e)) = ToSet(s) \union {e}
           /\ IsInjective(s) /\ e \notin ToSet(s) => IsInjective(Append(s, e))
<1> DEFINE t == Append(s, e)
<1>1. /\ t \in Seq(S) /\ Len(t) = Len(s) + 1 /\ Len(s) \in Nat
      /\ (\A j \in 1 .. Len(s) : t[j] = s[j]) /\ t[Len(s) + 1] = e
  BY AppendProperties, LenProperties
<1> HIDE DEF t
<1>2. DOMAIN s = 1 .. Len(s) /\ DOMAIN t = 1 .. Len(s) + 1
  BY <1>1
<1>3. \A j \in 1 .. Len(s) + 1 : j \in 1 .. Len(s) \/ j = Len(s) + 1
  BY <1>1
<1>4. ToSet(t) = ToSet(s) \union {e}
  <2>1. ToSet(t) \subseteq ToSet(s) \union {e}
    BY <1>1, <1>2, <1>3 DEF ToSet
  <2>2. Len(s) + 1 \in 1 .. Len(s) + 1 /\ \A j \in 1 .. Len(s) : j \in 1 .. Len(s) + 1
    BY <1>1
  <2>3. ToSet(s) \union {e} \subseteq ToSet(t)
    BY <1>1, <1>2, <2>2 DEF ToSet
  <2> QED
    BY <2>1, <2>3
<1>5. IsInjective(s) /\ e \notin ToSet(s) => IsInjective(t)
  BY <1>1, <1>2, <1>3 DEF IsInjective, ToSet
<1> QED
  BY <1>1, <1>4, <1>5 DEF t

\* Contains and ToSet agree.
LEMMA ContainsIn == ASSUME NEW S, NEW s \in Seq(S), NEW e PROVE Contains(s, e) <=> e \in ToSet(s)
BY DEF Contains, ToSet

-----------------------------------------------------------------------------
(* The steps *)

\* At first the screen has not been started.
LEMMA ListStart == ASSUME Init PROVE ListInv
<1>1. children \in Injective
  <2>1. children \in BoundedSeq(Members, Cardinality(Members)) /\ IsInjective(children)
    BY DEF Init
  <2>2. Cardinality(Members) \in Nat
    BY ListAssumption, FS_CardinalityType
  <2>3. children \in Seq(Members)
    BY <2>1, <2>2, SeqDef DEF BoundedSeq, SeqOf
  <2> QED
    BY <2>1, <2>3 DEF Injective
<1>2. <<>> \in Injective
  BY DEF Injective, IsInjective
<1>3. ListTypes
  <2>1. read \in [Requests -> Injective]
    BY <1>2 DEF Init
  <2>2. <<>> \in Seq(Members) /\ <<>> \in Seq(Injective) /\ IsFiniteSet({})
    BY FS_EmptySet
  <2> QED
    BY <1>1, <2>1, <2>2 DEF Init, ListTypes
<1> QED
  BY <1>3 DEF Init, ListInv, NewsEnd, Counted, Matched

\* A step that leaves the screen alone.
LEMMA BackendStep ==
    ASSUME ListInv, UNCHANGED <<started, told, adapter, refused, shifted>>,
           children' \in Injective, read' \in [Requests -> Injective],
           \/ UNCHANGED <<children, news>>
           \/ news' = IF started THEN Append(news, children') ELSE news
    PROVE  ListInv'
<1>1. UNCHANGED <<list, lookups, asked, crashed, told, started, refused, shifted>>
  BY DEF adapter
<1>2. news \in Seq(Injective) /\ (~started => news = <<>>)
  BY DEF ListInv, ListTypes
<1>3. news' \in Seq(Injective) /\ (~started => news' = <<>>)
  BY <1>2, AppendProperties
<1>4. ListTypes'
  BY <1>1, <1>3 DEF ListInv, ListTypes
<1>5. NewsEnd'
  <2>1. CASE UNCHANGED <<children, news>>
    BY <1>1, <2>1 DEF ListInv, NewsEnd
  <2>2. CASE news' = IF started THEN Append(news, children') ELSE news
    <3> SUFFICES ASSUME started PROVE children' = IF news' = <<>> THEN told ELSE news'[Len(news')]
      BY <1>1 DEF NewsEnd
    <3>1. /\ news' = Append(news, children') /\ news' # <<>>
          /\ Len(news') = Len(news) + 1 /\ news'[Len(news) + 1] = children'
      BY <1>2, <2>2, AppendProperties
    <3> QED
      BY <3>1
  <2> QED
    BY <2>1, <2>2
<1>6. Counted' /\ Matched'
  BY <1>1 DEF ListInv, Counted, Matched
<1> QED
  BY <1>4, <1>5, <1>6 DEF ListInv

\* The arrays that requests read and write have every member once.
LEMMA RequestsKeep ==
    ASSUME ListInv,
           \/ \E r \in Requests : Read(r) \/ \E u \in Members : Join(r, u) \/ Leave(r, u)
           \/ Clear
    PROVE  ListInv'
<1>0. /\ children \in Injective /\ read \in [Requests -> Injective]
      /\ \A s \in Injective : s \in Seq(Members) /\ IsInjective(s)
  BY DEF ListInv, ListTypes, Injective
<1>1. <<>> \in Injective
  BY DEF Injective, IsInjective
<1>2. ASSUME NEW r \in Requests, Read(r) PROVE ListInv'
  <2>1. /\ UNCHANGED <<started, told, adapter, refused, shifted, children, news>>
        /\ read' = [read EXCEPT ![r] = children]
    BY <1>2 DEF Read
  <2>2. read' \in [Requests -> Injective] /\ children' \in Injective
    BY <1>0, <2>1
  <2> QED
    BY <2>1, <2>2, BackendStep
<1>3. ASSUME NEW s \in Injective, Put(s), read' \in [Requests -> Injective] PROVE ListInv'
  <2>1. /\ UNCHANGED <<started, told, adapter, refused, shifted>> /\ children' = s
        /\ news' = IF started THEN Append(news, children') ELSE news
    BY <1>3 DEF Put
  <2>2. children' \in Injective
    BY <2>1
  <2> QED
    BY <1>3, <2>1, <2>2, BackendStep
<1>4. \A r \in Requests : [read EXCEPT ![r] = <<>>] \in [Requests -> Injective]
  BY <1>0, <1>1
<1>5. ASSUME NEW r \in Requests, NEW u \in Members, Join(r, u) PROVE ListInv'
  <2>1. Put(Append(read[r], u)) /\ read' \in [Requests -> Injective] /\ ~Contains(read[r], u)
    BY <1>4, <1>5 DEF Join
  <2>2. read[r] \in Seq(Members) /\ IsInjective(read[r])
    BY <1>0
  <2>3. u \notin ToSet(read[r])
    BY <2>1, <2>2, ContainsIn
  <2>4. Append(read[r], u) \in Injective
    BY <2>2, <2>3, Appended DEF Injective
  <2> QED
    BY <1>3, <2>1, <2>4
<1>6. ASSUME NEW r \in Requests, NEW u \in Members, Leave(r, u) PROVE ListInv'
  <2>1. Put(RemoveFirst(read[r], u)) /\ read' \in [Requests -> Injective] /\ Contains(read[r], u)
    BY <1>4, <1>6 DEF Leave
  <2>2. read[r] \in Seq(Members) /\ IsInjective(read[r])
    BY <1>0
  <2>3. PICK i \in 1 .. Len(read[r]) : RemoveFirst(read[r], u) = RemoveAt(read[r], i)
    BY <2>1, <2>2, RemovedFirst
  <2>4. RemoveFirst(read[r], u) \in Injective
    BY <2>2, <2>3, RemovedAt, RemovedInjective DEF Injective
  <2> QED
    BY <1>3, <2>1, <2>4
<1>7. CASE Clear
  BY <1>0, <1>1, <1>3, <1>7 DEF Clear
<1> QED
  BY <1>2, <1>5, <1>6, <1>7

\* A new adapter has to be told everything; an adapter that is gone, nothing.
LEMMA ScreenKeeps == ASSUME ListInv, ~crashed, Start \/ Stop PROVE ListInv'
<1>0. /\ children \in Injective /\ read \in [Requests -> Injective] /\ list \in Seq(Members)
      /\ asked \in Nat /\ crashed \in BOOLEAN /\ refused \in BOOLEAN /\ shifted \in BOOLEAN
  BY DEF ListInv, ListTypes
<1>1. <<>> \in Seq(Members) /\ <<>> \in Seq(Injective) /\ Len(<<>>) = 0
  OBVIOUS
<1>2. IsFiniteSet({}) /\ Cardinality({}) = 0
  BY FS_EmptySet
<1>3. CASE Start
  <2>1. /\ started' = TRUE /\ news' = <<children>> /\ told' = <<>> /\ list' = <<>> /\ asked' = 0
        /\ shifted' = FALSE /\ refused' = FALSE
        /\ children' = children /\ read' = read /\ crashed' = crashed /\ lookups' = {}
    BY <1>3 DEF Start, backend, ListInv, ListTypes
  <2>2. <<children>> \in Seq(Injective) /\ Len(<<children>>) = 1 /\ <<children>> # <<>>
    BY <1>0
  <2>3. ListTypes'
    BY <1>0, <1>1, <1>2, <2>1, <2>2 DEF ListTypes
  <2>4. NewsEnd'
    BY <2>1, <2>2 DEF NewsEnd
  <2>5. Counted'
    BY <1>1, <1>2, <2>1 DEF Counted
  <2>6. Matched'
    BY <1>1, <2>1 DEF Matched, IsInjective, ToSet
  <2> QED
    BY <2>3, <2>4, <2>5, <2>6 DEF ListInv
<1>4. CASE Stop
  <2>1. /\ started' = FALSE /\ news' = <<>> /\ told' = <<>> /\ lookups' = {}
        /\ UNCHANGED <<children, read, list, asked, crashed, refused, shifted>>
    BY <1>4 DEF Stop, backend
  <2>2. ListTypes'
    BY <1>0, <1>1, <1>2, <2>1 DEF ListTypes
  <2> QED
    BY <2>1, <2>2 DEF ListInv, NewsEnd, Counted, Matched
<1> QED
  BY <1>3, <1>4

\* An answer turns a name to come into an entry, a refusal into nothing.
LEMMA AnswersKeep ==
    ASSUME ListInv, NEW q \in lookups, Answer(q) \/ Refuse(q)
    PROVE  ListInv'
<1>0. /\ list \in Seq(Members) /\ IsFiniteSet(lookups) /\ q.member \in Members /\ started
      /\ Len(list) \in Nat /\ Cardinality(lookups) \in Nat
  BY FS_CardinalityType DEF ListInv, ListTypes
<1>1. IsFiniteSet(lookups \ {q}) /\ Cardinality(lookups \ {q}) = Cardinality(lookups) - 1
  BY <1>0, FS_RemoveElement
<1>2. lookups' = lookups \ {q}
      /\ UNCHANGED <<children, read, started, news, told, asked, crashed, shifted>>
  BY DEF Answer, Refuse, backend
<1>3. NewsEnd'
  BY <1>2 DEF ListInv, NewsEnd
<1>4. CASE Refuse(q)
  <2>1. refused' = TRUE /\ list' = list
    BY <1>4 DEF Refuse
  <2>2. ListTypes'
    BY <1>0, <1>1, <1>2, <2>1 DEF ListInv, ListTypes
  <2> QED
    BY <1>3, <2>1, <2>2 DEF ListInv, Counted, Matched
<1>5. CASE Answer(q)
  <2>1. refused' = refused /\ list' = Append(list, q.member)
    BY <1>5 DEF Answer
  <2>2. /\ list' \in Seq(Members) /\ Len(list') = Len(list) + 1
        /\ ToSet(list') = ToSet(list) \union {q.member}
        /\ IsInjective(list) /\ q.member \notin ToSet(list) => IsInjective(list')
    BY <1>0, <2>1, Appended
  <2>3. ListTypes'
    BY <1>0, <1>1, <1>2, <2>1, <2>2 DEF ListInv, ListTypes
  <2>4. Counted'
    BY <1>0, <1>1, <1>2, <2>1, <2>2 DEF ListInv, Counted
  <2>5. Matched'
    BY <1>2, <2>1, <2>2 DEF ListInv, Matched
  <2> QED
    BY <1>3, <2>3, <2>4, <2>5 DEF ListInv
<1> QED
  BY <1>4, <1>5

\* The listener goes through the arrays in the order of the writes.
LEMMA NextNews ==
    ASSUME ListTypes, NewsEnd, news # <<>>
    PROVE  /\ Head(news) \in Seq(Members) /\ IsInjective(Head(news)) /\ started
           /\ Len(Head(news)) \in Nat /\ Len(told) \in Nat
           /\ DOMAIN Head(news) = 1 .. Len(Head(news)) /\ DOMAIN told = 1 .. Len(told)
           /\ Tail(news) \in Seq(Injective)
           /\ children = IF Tail(news) = <<>> THEN Head(news) ELSE Tail(news)[Len(Tail(news))]
<1>1. news \in Seq(Injective) /\ told \in Seq(Members) /\ started
  BY DEF ListTypes
<1>2. Head(news) \in Injective
  BY <1>1
<1>3. Head(news) \in Seq(Members) /\ IsInjective(Head(news))
  BY <1>2 DEF Injective
<1>4. /\ Len(Head(news)) \in Nat /\ Len(told) \in Nat
      /\ DOMAIN Head(news) = 1 .. Len(Head(news)) /\ DOMAIN told = 1 .. Len(told)
  BY <1>1, <1>3
<1>5. children = news[Len(news)]
  BY <1>1 DEF NewsEnd
<1>6. /\ Tail(news) \in Seq(Injective) /\ Len(Tail(news)) = Len(news) - 1 /\ Head(news) = news[1]
      /\ Len(news) \in Nat \ {0}
      /\ \A i \in 1 .. Len(Tail(news)) : Tail(news)[i] = news[i + 1]
  BY <1>1, HeadTailProperties
<1>7. ASSUME Tail(news) = <<>> PROVE children = Head(news)
  <2>1. Len(<<>>) = 0
    BY EmptySeq
  <2>2. Len(news) - 1 = 0
    BY <1>6, <1>7, <2>1, Zenon
  <2>3. Len(news) = 1
    <3>1. \A n \in Nat : n - 1 = 0 => n = 1
      OBVIOUS
    <3>2. Len(news) \in Nat
      BY <1>6
    <3> QED
      BY <2>2, <3>1, <3>2, Zenon
  <2> QED
    BY <1>5, <1>6, <2>3, Zenon
<1>8. ASSUME Tail(news) # <<>> PROVE children = Tail(news)[Len(Tail(news))]
  <2>1. Len(Tail(news)) \in Nat \ {0}
    BY <1>6, <1>8, EmptySeq
  <2>2. Tail(news)[Len(Tail(news))] = news[Len(news)]
    BY <1>6, <2>1
  <2> QED
    BY <1>5, <2>2
<1> QED
  BY <1>1, <1>3, <1>4, <1>6, <1>7, <1>8

\* A member that goes is an entry, unless its name is still asked for.
LEMMA RemovedKeeps ==
    ASSUME ListInv, ~crashed, news # <<>>, Removed(Head(news)),
           shifted' = (shifted \/ Shifts(Head(news))), UNCHANGED <<backend, started, refused>>
    PROVE  ListInv'
<1> DEFINE new == Head(news)
           k == Len(new) + 1
           u == told[k]
<1>0. /\ Len(told) > Len(new) /\ told' = RemoveAt(told, k) /\ news' = news
      /\ crashed' = ~Contains(list, u) /\ list' = RemoveFirst(list, u)
      /\ UNCHANGED <<lookups, asked, children, read, started, refused>>
  BY DEF Removed, onChildRemoved, backend
<1>1. /\ new \in Seq(Members) /\ started /\ Len(new) \in Nat /\ Len(told) \in Nat
      /\ DOMAIN told = 1 .. Len(told)
  BY NextNews DEF ListInv
<1>2. told \in Seq(Members) /\ list \in Seq(Members) /\ shifted \in BOOLEAN /\ k \in 1 .. Len(told)
      /\ Len(list) \in Nat
  BY <1>0, <1>1 DEF ListInv, ListTypes
<1>3. u \in Members /\ u \in ToSet(told)
  BY <1>1, <1>2 DEF ToSet
<1>4. shifted' \in BOOLEAN /\ (~shifted' => ~shifted /\ \A q \in lookups : q.member # u)
  BY <1>0, <1>2 DEF Shifts
<1> HIDE DEF new, k, u
<1>5. told' \in Seq(Members) /\ Len(told') = Len(told) - 1
  BY <1>0, <1>2, RemovedAt
<1>6. IF crashed' THEN list' = list
      ELSE \E i \in 1 .. Len(list) : list[i] = u /\ list' = RemoveAt(list, i)
  BY <1>0, <1>2, RemovedFirst
<1>7. /\ list' \in Seq(Members) /\ crashed' \in BOOLEAN
      /\ ~crashed' => Len(list') = Len(list) - 1
  BY <1>0, <1>2, <1>6, RemovedAt
<1>8. ListTypes'
  BY <1>0, <1>4, <1>5, <1>7 DEF ListInv, ListTypes
<1>9. NewsEnd'
  BY <1>0 DEF ListInv, NewsEnd
<1>10. Counted'
  <2> SUFFICES ASSUME ~crashed', ~refused
               PROVE  Len(list') + Cardinality(lookups) = Len(told')
    BY <1>0 DEF Counted
  <2>1. Len(list) + Cardinality(lookups) = Len(told)
    BY <1>1 DEF ListInv, Counted
  <2>2. Len(list') = Len(list) - 1
    BY <1>7
  <2>3. Cardinality(lookups) \in Nat
    BY FS_CardinalityType DEF ListInv, ListTypes
  <2>4. Len(list) \in Nat /\ Len(told) \in Nat /\ Len(told') = Len(told) - 1
    BY <1>1, <1>2, <1>5
  <2>5. \A a, b, c \in Nat : a + b = c => (a - 1) + b = c - 1
    OBVIOUS
  <2>6. (Len(list) - 1) + Cardinality(lookups) = Len(told) - 1
    BY <2>1, <2>3, <2>4, <2>5, Zenon
  <2> QED
    BY <2>2, <2>4, <2>6, Zenon
<1>11. Matched'
  <2> SUFFICES ASSUME ~shifted', ~refused
               PROVE  /\ ~crashed' /\ IsInjective(told') /\ IsInjective(list')
                      /\ \A p, q \in lookups : p.member = q.member => p = q
                      /\ \A q \in lookups : q.member \notin ToSet(list')
                      /\ ToSet(told') = ToSet(list') \union {q.member : q \in lookups}
    BY <1>0 DEF Matched
  <2>1. /\ IsInjective(told) /\ IsInjective(list)
        /\ \A p, q \in lookups : p.member = q.member => p = q
        /\ \A q \in lookups : q.member \notin ToSet(list)
        /\ ToSet(told) = ToSet(list) \union {q.member : q \in lookups}
        /\ \A q \in lookups : q.member # u
    BY <1>1, <1>4 DEF ListInv, Matched
  <2>2. u \in ToSet(list)
    BY <1>3, <2>1
  <2>3. ~crashed'
    BY <1>0, <1>2, <2>2, ContainsIn
  <2>4. IsInjective(list') /\ ToSet(list') = ToSet(list) \ {u}
    BY <1>2, <1>6, <2>1, <2>3, RemovedInjective
  <2>5. IsInjective(told') /\ ToSet(told') = ToSet(told) \ {u}
    BY <1>0, <1>2, <2>1, RemovedInjective DEF u
  <2> QED
    BY <2>1, <2>3, <2>4, <2>5
<1> QED
  BY <1>8, <1>9, <1>10, <1>11 DEF ListInv

\* A member that comes is none of those that were told, unless the array shifts them.
LEMMA AddedKeeps ==
    ASSUME ListInv, ~crashed, news # <<>>, Added(Head(news)),
           shifted' = (shifted \/ Shifts(Head(news))), UNCHANGED <<backend, started, refused>>
    PROVE  ListInv'
<1> DEFINE new == Head(news)
           u == new[Len(told) + 1]
           e == [id |-> asked + 1, member |-> u]
<1>0. /\ Len(told) < Len(new) /\ told' = Append(told, u) /\ news' = news
      /\ asked' = asked + 1 /\ lookups' = lookups \union {e}
      /\ UNCHANGED <<list, crashed, children, read, started, refused>>
  BY DEF Added, onChildAdded, backend
<1>1. /\ new \in Seq(Members) /\ IsInjective(new) /\ started /\ Len(new) \in Nat /\ Len(told) \in Nat
      /\ DOMAIN told = 1 .. Len(told) /\ DOMAIN new = 1 .. Len(new)
  BY NextNews DEF ListInv
<1>2. /\ told \in Seq(Members) /\ list \in Seq(Members) /\ shifted \in BOOLEAN /\ Len(list) \in Nat
      /\ asked \in Nat /\ IsFiniteSet(lookups) /\ Cardinality(lookups) \in Nat
      /\ \A q \in lookups : q.id \in 1 .. asked /\ q.member \in Members
  BY FS_CardinalityType DEF ListInv, ListTypes
<1>3. Len(told) + 1 \in 1 .. Len(new) /\ u \in Members
  BY <1>0, <1>1
<1>4. shifted' \in BOOLEAN /\ (~shifted' => ~shifted /\ \A i \in 1 .. Len(told) : new[i] = told[i])
  <2>1. \A i \in 1 .. Len(told) : i \in DOMAIN told \intersect DOMAIN new
    BY <1>0, <1>1
  <2>2. ~Shifts(new) => \A i \in 1 .. Len(told) : new[i] = told[i]
    BY <2>1, Zenon DEF Shifts
  <2>3. Shifts(new) \in BOOLEAN
    BY Zenon DEF Shifts
  <2> QED
    BY <1>2, <2>2, <2>3
<1>5. e \notin lookups /\ e.id = asked + 1 /\ e.member = u
  BY <1>2
<1>6. ~shifted' => u \notin ToSet(told)
  <2> SUFFICES ASSUME ~shifted', NEW i \in 1 .. Len(told) PROVE told[i] # u
    BY <1>1 DEF ToSet
  <2>1. new[i] = told[i] /\ i \in 1 .. Len(new) /\ i # Len(told) + 1
    BY <1>0, <1>1, <1>4
  <2> QED
    BY <1>1, <1>3, <2>1 DEF IsInjective
<1> HIDE DEF new, u, e
<1>7. /\ told' \in Seq(Members) /\ Len(told') = Len(told) + 1
      /\ ToSet(told') = ToSet(told) \union {u}
      /\ IsInjective(told) /\ u \notin ToSet(told) => IsInjective(told')
  BY <1>0, <1>2, <1>3, Appended
<1>8. IsFiniteSet(lookups') /\ Cardinality(lookups') = Cardinality(lookups) + 1
  BY <1>0, <1>2, <1>5, FS_AddElement
<1>9. \A q \in lookups' : q.id \in 1 .. asked' /\ q.member \in Members
  BY <1>0, <1>2, <1>3, <1>5
<1>10. ListTypes'
  BY <1>0, <1>1, <1>2, <1>4, <1>7, <1>8, <1>9 DEF ListInv, ListTypes
<1>11. NewsEnd'
  BY <1>0 DEF ListInv, NewsEnd
<1>12. Counted'
  BY <1>0, <1>1, <1>2, <1>7, <1>8 DEF ListInv, Counted
<1>13. Matched'
  <2> SUFFICES ASSUME ~shifted', ~refused
               PROVE  /\ ~crashed' /\ IsInjective(told') /\ IsInjective(list')
                      /\ \A p, q \in lookups' : p.member = q.member => p = q
                      /\ \A q \in lookups' : q.member \notin ToSet(list')
                      /\ ToSet(told') = ToSet(list') \union {q.member : q \in lookups'}
    BY <1>0 DEF Matched
  <2>1. /\ IsInjective(told) /\ IsInjective(list) /\ ~crashed
        /\ \A p, q \in lookups : p.member = q.member => p = q
        /\ \A q \in lookups : q.member \notin ToSet(list)
        /\ ToSet(told) = ToSet(list) \union {q.member : q \in lookups}
        /\ u \notin ToSet(told)
    BY <1>1, <1>4, <1>6 DEF ListInv, Matched
  <2>2. \A q \in lookups : q.member # u
    BY <2>1
  <2>3. u \notin ToSet(list) /\ list' = list /\ crashed' = crashed
    BY <1>0, <2>1
  <2> QED
    BY <1>0, <1>5, <1>7, <2>1, <2>2, <2>3
<1> QED
  BY <1>10, <1>11, <1>12, <1>13 DEF ListInv

\* When nothing is left to tell of an array, it is what was told, or shifted.
LEMMA ChangedKeeps ==
    ASSUME ListInv, ~crashed, news # <<>>, Changed(Head(news)),
           shifted' = (shifted \/ Shifts(Head(news))), UNCHANGED <<backend, started, refused>>
    PROVE  ListInv'
<1> DEFINE new == Head(news)
<1>0. /\ Len(told) = Len(new) /\ told' = new /\ news' = Tail(news)
      /\ UNCHANGED <<list, lookups, asked, crashed, children, read, started, refused>>
  BY DEF Changed, adapter, backend
<1>1. /\ new \in Seq(Members) /\ IsInjective(new) /\ started /\ Len(new) \in Nat /\ Len(told) \in Nat
      /\ DOMAIN told = 1 .. Len(told) /\ DOMAIN new = 1 .. Len(new)
      /\ Tail(news) \in Seq(Injective)
      /\ children = IF Tail(news) = <<>> THEN new ELSE Tail(news)[Len(Tail(news))]
  BY NextNews DEF ListInv
<1>2. told \in Seq(Members) /\ shifted \in BOOLEAN
  BY DEF ListInv, ListTypes
<1>3. shifted' \in BOOLEAN /\ (~shifted' => ~shifted /\ \A i \in 1 .. Len(told) : told[i] = new[i])
  BY <1>0, <1>1, <1>2 DEF Shifts
<1> HIDE DEF new
<1>4. ~shifted' => told = new
  BY <1>0, <1>1, <1>2, <1>3, SeqEqual
<1>5. ListTypes'
  BY <1>0, <1>1, <1>3 DEF ListInv, ListTypes
<1>6. NewsEnd'
  BY <1>0, <1>1 DEF NewsEnd
<1>7. Counted'
  BY <1>0, <1>1 DEF ListInv, Counted
<1>8. Matched'
  BY <1>0, <1>3, <1>4 DEF ListInv, Matched
<1> QED
  BY <1>5, <1>6, <1>7, <1>8 DEF ListInv

\* Every step of the backend, the listener and the screen keeps the invariant.
LEMMA ListInductive == ASSUME ListInv, [Next]_vars PROVE ListInv'
<1>1. CASE UNCHANGED vars
  <2>1. /\ UNCHANGED <<children, read, started, news, told, list, lookups, asked, crashed,
                       refused, shifted>>
    BY <1>1 DEF vars, backend, adapter
  <2> QED
    BY <2>1 DEF ListInv, ListTypes, NewsEnd, Counted, Matched
<1>2. CASE Next
  <2>1. ~crashed
    BY <1>2 DEF Next
  <2>2. CASE \/ \E r \in Requests : Read(r) \/ \E u \in Members : Join(r, u) \/ Leave(r, u)
             \/ Clear
    BY <2>2, RequestsKeep
  <2>3. CASE Start \/ Stop
    BY <2>1, <2>3, ScreenKeeps
  <2>4. CASE Callback
    BY <2>1, <2>4, RemovedKeeps, AddedKeeps, ChangedKeeps DEF Callback
  <2>5. CASE \E q \in lookups : Answer(q) \/ Refuse(q)
    BY <2>5, AnswersKeep
  <2> QED
    BY <1>2, <2>2, <2>3, <2>4, <2>5 DEF Next
<1> QED
  BY <1>1, <1>2

-----------------------------------------------------------------------------
\* Whatever the order of writes, callbacks, answers and restarts of the screen, what was
\* told is what is shown or asked for.
THEOREM ListSafe == Spec => []ListInv
<1>1. Init => ListInv
  BY ListStart
<1>2. ListInv /\ [Next]_vars => ListInv'
  BY ListInductive
<1> QED
  BY <1>1, <1>2, PTL DEF Spec

\* As long as no write shifts the members it keeps and no name is refused, the screen does
\* not crash, and shows the members as soon as it has been told of all.
THEOREM ListShowsThem == Spec => []ListShowsMembers
<1>1. ListInv => ListShowsMembers
  <2> SUFFICES ASSUME ListInv, started, ~shifted, ~refused
               PROVE  /\ ~crashed
                      /\ news = <<>> /\ lookups = {} =>
                           ToSet(list) = ToSet(children) /\ Len(list) = Len(children)
    BY DEF ListShowsMembers
  <2>1. /\ ~crashed /\ ToSet(told) = ToSet(list) \union {q.member : q \in lookups}
        /\ Len(list) + Cardinality(lookups) = Len(told) /\ Len(list) \in Nat
    BY DEF ListInv, Matched, Counted, ListTypes
  <2>2. ASSUME news = <<>>, lookups = {}
        PROVE  ToSet(list) = ToSet(children) /\ Len(list) = Len(children)
    <3>1. children = told /\ Cardinality(lookups) = 0
      BY <2>2, FS_EmptySet DEF ListInv, NewsEnd
    <3>2. {q.member : q \in lookups} = {}
      BY <2>2
    <3>3. ToSet(list) = ToSet(children)
      BY <2>1, <3>1, <3>2
    <3>4. Len(list) = Len(children)
      BY <2>1, <3>1
    <3> QED
      BY <3>3, <3>4
  <2> QED
    BY <2>1, <2>2
<1> QED
  BY <1>1, ListSafe, PTL

\* Every event of the listener is worth one entry or one name to come, also when members
\* have been shifted.
THEOREM CountStays == Spec => []CountMatches
<1>1. ListInv => CountMatches
  BY DEF ListInv, CountMatches, Counted, NewsEnd
<1> QED
  BY <1>1, ListSafe, PTL

===============================================================================
