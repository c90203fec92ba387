------------------------- MODULE CallRecordsProofs -------------------------
(***************************************************************************)
(* Theorems about CallRecords and CallStatistics.  Who pages through the   *)
(* list misses no call: one invariant says how far every call that was not *)
(* shown yet is from the top.  What the queries say of a call follows from *)
(* the types of the rows, which are finitely many.                         *)
(***************************************************************************)
EXTENDS CallStatistics, SequenceTheorems, FiniteSetTheorems, FunctionTheorems,
        WellFoundedInduction, TLAPS

\* The table is finite, and a place in the order is taken once.
TableInv ==
    /\ IsFiniteSet(cdr)
    /\ \A q, r \in cdr : q.at = r.at => q = r

Shown == Listed(Always, "", "")

\* The calls above one of the list.
Ahead(c) == {d \in Shown : Place(d) > Place(c)}

\* What was there at the beginning and was not shown yet is below the next page.
PagingInv ==
    /\ step = "new" => page = 0
    /\ ~disturbed /\ step # "new" =>
           /\ known \subseteq Shown /\ ~Tied(known)
           /\ step = "list" => total = Cardinality(Shown)
           /\ \A c \in known \ seen : step # "end" /\ page * PageSize =< Cardinality(Ahead(c))

IInv == TypeOK /\ TableInv /\ PagingInv
-----------------------------------------------------------------------------
(***************************************************************************)
(* Least and greatest elements.                                            *)
(***************************************************************************)

LEMMA LeastNatural ==
    ASSUME NEW S, S \subseteq Nat, S # {}
    PROVE  \E m \in S : \A n \in S : m =< n
<1>1. PICK m \in S : \A n \in S : ~(<<n, m>> \in OpToRel(<, Nat))
    BY NatLessThanWellFounded, WFMin, Zenon
<1>2. \A n \in S : ~(n < m)
    BY <1>1, Zenon DEF OpToRel
<1>3. \A n \in S : m =< n
    BY <1>2
<1> QED BY <1>3

LEMMA MinIs ==
    ASSUME NEW S, S \subseteq Nat, S # {}
    PROVE  Min(S) \in S /\ \A n \in S : Min(S) =< n
<1>1. \E m \in S : \A n \in S : m =< n
    BY LeastNatural
<1> QED BY <1>1 DEF Min

\* The image of a finite set.
LEMMA SizeOfImage ==
    ASSUME NEW I, IsFiniteSet(I), NEW f, f = [i \in I |-> f[i]]
    PROVE  /\ IsFiniteSet({f[i] : i \in I}) /\ Cardinality({f[i] : i \in I}) =< Cardinality(I)
           /\ IsInjective(f) => Cardinality({f[i] : i \in I}) = Cardinality(I)
<1> DEFINE T == {f[i] : i \in I}
<1>1. f \in [I -> T]
    OBVIOUS
<1>2. f \in Surjection(I, T)
    BY <1>1 DEF Surjection
<1>3. IsInjective(f) => f \in Injection(I, T)
    BY <1>1 DEF Injection
<1> HIDE DEF T
<1>4. IsFiniteSet(T) /\ Cardinality(T) =< Cardinality(I) /\ (Cardinality(T) = Cardinality(I) <=> f \in Injection(I, T))
    BY <1>2, FS_Surjection
<1> QED BY <1>3, <1>4 DEF T

LEMMA MaxIs ==
    ASSUME NEW S, S \subseteq Nat, IsFiniteSet(S), S # {}
    PROVE  Max(S) \in S /\ \A n \in S : n =< Max(S)
<1> DEFINE HasMax(T) == \E m \in T : \A n \in T : m >= n
           without == {T \in SUBSET S : T # {} /\ ~HasMax(T)}
           sizes == {Cardinality(T) : T \in without}
<1>1. \A T \in SUBSET S : IsFiniteSet(T) /\ Cardinality(T) \in Nat
    BY FS_Subset, FS_CardinalityType
<1>2. without = {}
    <2> SUFFICES ASSUME without # {} PROVE FALSE
        OBVIOUS
    <2>1. sizes \subseteq Nat /\ sizes # {}
        BY <1>1
    <2> HIDE DEF sizes
    <2>2. PICK k \in sizes : \A n \in sizes : k =< n
        BY <2>1, LeastNatural
    <2>3. PICK T \in without : k = Cardinality(T)
        BY DEF sizes
    <2>4. PICK x \in T : TRUE
        BY <2>3
    <2> DEFINE U == T \ {x}
    <2>5. IsFiniteSet(T) /\ U \in SUBSET S /\ x \in Nat /\ ~HasMax(T)
        BY <1>1
    <2>6. Cardinality(U) = k - 1 /\ k \in Nat
        BY <1>1, <2>3, <2>5, FS_RemoveElement
    <2>7. U \notin without
        <3>1. k - 1 \notin sizes
            BY <2>2, <2>6
        <3> QED BY <2>6, <3>1 DEF sizes
    <2>8. CASE U = {}
        <3>1. T = {x}
            BY <2>8
        <3> QED BY <2>5, <3>1
    <2>9. CASE U # {}
        <3>1. HasMax(U)
            BY <2>5, <2>7, <2>9
        <3>2. PICK m \in U : \A n \in U : m >= n
            BY <3>1
        <3>3. m \in Nat /\ m \in T
            BY <2>5
        <3>4. CASE x > m
            <4>1. \A n \in T : x >= n
                BY <2>5, <3>2, <3>3, <3>4
            <4> QED BY <2>4, <2>5, <4>1
        <3>5. CASE ~(x > m)
            <4>1. \A n \in T : m >= n
                BY <2>5, <3>2, <3>3, <3>5
            <4> QED BY <2>5, <3>3, <4>1
        <3> QED BY <3>4, <3>5
    <2> QED BY <2>8, <2>9
<1>3. HasMax(S)
    BY <1>2
<1>4. PICK m \in S : \A n \in S : m >= n
    BY <1>3
<1>5. Max(S) \in S /\ \A n \in S : Max(S) >= n
    BY <1>4 DEF Max
<1> QED BY <1>5

\* The calls, and the recordings, of finitely many rows are finitely many.
LEMMA CallsOfRows ==
    ASSUME NEW T, IsFiniteSet(T)
    PROVE  IsFiniteSet({r.call : r \in T}) /\ IsFiniteSet({r.rec : r \in T})
<1> DEFINE f == [r \in T |-> r.call]
           g == [r \in T |-> r.rec]
<1>1. /\ f = [r \in T |-> f[r]] /\ {f[r] : r \in T} = {r.call : r \in T}
      /\ g = [r \in T |-> g[r]] /\ {g[r] : r \in T} = {r.rec : r \in T}
    OBVIOUS
<1> HIDE DEF f, g
<1>2. IsFiniteSet({f[r] : r \in T}) /\ IsFiniteSet({g[r] : r \in T})
    BY <1>1, SizeOfImage
<1> QED BY <1>1, <1>2

\* Rows have a first one.
LEMMA FirstOfIs ==
    ASSUME TypeOK, NEW L, L \subseteq cdr, L # {}
    PROVE  /\ FirstOf(L) \in L /\ FirstOf(L) \in cdr
           /\ \A q \in L : FirstOf(L).at =< q.at
<1> DEFINE S == {r.at : r \in L}
<1>1. \A r \in L : r.at \in Places
    BY DEF TypeOK
<1>2. Places \subseteq Nat
    BY CallRecordsAssumption, LenProperties DEF Places
<1>3. S \subseteq Nat /\ S # {}
    BY <1>1, <1>2
<1>4. PICK m \in S : \A n \in S : m =< n
    BY <1>3, LeastNatural
<1>5. \E r \in L : \A q \in L : r.at =< q.at
    BY <1>4
<1> QED BY <1>5 DEF FirstOf
-----------------------------------------------------------------------------
(***************************************************************************)
(* The list.                                                               *)
(***************************************************************************)

LEMMA ShownIs ==
    ASSUME TypeOK, IsFiniteSet(cdr)
    PROVE  /\ IsFiniteSet(Shown) /\ Cardinality(Shown) \in Nat /\ Shown \subseteq Calls
           /\ \A c \in Shown : Place(c) \in Nat \ {0}
           /\ \A c : c \notin Shown => Place(c) = 0
<1>1. Shown \subseteq {r.call : r \in cdr} /\ Shown \subseteq Calls
    BY DEF Shown, Listed, LegsIn, Legs
<1>2. IsFiniteSet(Shown) /\ Cardinality(Shown) \in Nat
    BY <1>1, CallsOfRows, FS_Subset, FS_CardinalityType
<1>3. ASSUME NEW c \in Shown PROVE Place(c) \in Nat \ {0}
    <2> DEFINE L == LegsIn(Always, c)
    <2>1. L \subseteq cdr /\ L # {}
        BY DEF Shown, Listed, LegsIn, Legs
    <2>2. FirstOf(L) \in cdr
        BY <2>1, FirstOfIs
    <2>3. FirstOf(L).at \in Places
        BY <2>2 DEF TypeOK
    <2>4. Date[FirstOf(L).at] \in Nat \ {0}
        BY <2>3, CallRecordsAssumption DEF Places
    <2>5. ListRow(Always, c).first = Date[FirstOf(L).at]
        BY DEF ListRow
    <2> QED BY <2>4, <2>5 DEF Place, Shown
<1>4. \A c : c \notin Shown => Place(c) = 0
    BY DEF Place, Shown
<1> QED BY <1>1, <1>2, <1>3, <1>4

\* Where a call stands in the list, if no other has its date.
LEMMA StandsAt ==
    ASSUME TypeOK, IsFiniteSet(cdr), NEW s \in NewestFirst, NEW c \in Shown,
           \A d \in Shown : d # c => Place(d) # Place(c)
    PROVE  /\ DOMAIN s = 1 .. Cardinality(Shown)
           /\ \E i \in DOMAIN s : s[i] = c /\ Cardinality(Ahead(c)) = i - 1
<1> DEFINE N == Cardinality(Shown)
<1>1. /\ IsFiniteSet(Shown) /\ N \in Nat
      /\ \A d \in Shown : Place(d) \in Nat
    BY ShownIs
<1>2. /\ s \in [1 .. N -> Shown]
      /\ \A i, j \in 1 .. N : i # j => s[i] # s[j]
      /\ \A i, j \in 1 .. N : i < j => Place(s[i]) >= Place(s[j])
    BY DEF NewestFirst, Shown, SetToSeqs
<1> HIDE DEF N
<1>3. s \in Surjection(1 .. N, Shown)
    <2>1. s \in Injection(1 .. N, Shown)
        BY <1>2 DEF Injection, IsInjective
    <2>2. Cardinality(1 .. N) = N
        BY <1>1, FS_Interval
    <2> QED BY <1>1, <2>1, <2>2, FS_Injection DEF N
<1>4. PICK i \in 1 .. N : s[i] = c
    BY <1>3 DEF Surjection
<1> DEFINE I == 1 .. i - 1
           f == [j \in I |-> s[j]]
<1>5. \A j \in I : j \in 1 .. N /\ j < i
    BY <1>1
<1>6. Ahead(c) = {f[j] : j \in I}
    <2>1. ASSUME NEW j \in I PROVE s[j] \in Ahead(c)
        <3>1. s[j] \in Shown /\ s[j] # c /\ Place(s[j]) >= Place(c)
            BY <1>2, <1>4, <1>5
        <3> QED BY <1>1, <3>1 DEF Ahead
    <2>2. ASSUME NEW d \in Ahead(c) PROVE \E j \in I : d = s[j]
        <3>1. d \in Shown /\ Place(d) > Place(c)
            BY DEF Ahead
        <3>2. PICK j \in 1 .. N : s[j] = d
            BY <1>3, <3>1 DEF Surjection
        <3>3. ~ (i < j) /\ i # j
            BY <1>1, <1>2, <1>4, <3>1, <3>2
        <3>4. j \in I
            BY <1>1, <3>3
        <3> QED BY <3>2, <3>4
    <2>3. \A j \in I : f[j] = s[j]
        OBVIOUS
    <2> HIDE DEF f, I
    <2> QED BY <2>1, <2>2, <2>3
<1>7. Cardinality({f[j] : j \in I}) = Cardinality(I)
    <2>1. IsInjective(f) /\ f = [j \in I |-> f[j]]
        BY <1>2, <1>5 DEF IsInjective
    <2>2. IsFiniteSet(I)
        BY <1>1, FS_Interval
    <2> HIDE DEF f, I
    <2> QED BY <2>1, <2>2, SizeOfImage
<1>8. Cardinality(I) = i - 1
    BY <1>1, FS_Interval
<1>9. DOMAIN s = 1 .. N
    BY <1>2
<1> QED BY <1>4, <1>6, <1>7, <1>8, <1>9 DEF N
-----------------------------------------------------------------------------
(***************************************************************************)
(* Paging.                                                                 *)
(***************************************************************************)

LEMMA InitIInv == Init => IInv
<1> SUFFICES ASSUME Init PROVE IInv
    OBVIOUS
<1>1. TypeOK
    BY DEF Init, TypeOK
<1>2. TableInv
    BY FS_EmptySet DEF Init, TableInv
<1>3. PagingInv
    BY DEF Init, PagingInv
<1> QED BY <1>1, <1>2, <1>3 DEF IInv

LEMMA NextTypes == IInv /\ [Next]_vars => TypeOK' /\ TableInv'
<1> SUFFICES ASSUME IInv, [Next]_vars PROVE TypeOK' /\ TableInv'
    OBVIOUS
<1>1. TypeOK /\ TableInv /\ PageSize \in Nat
    BY CallRecordsAssumption DEF IInv
<1>2. IsFiniteSet(Shown) /\ Cardinality(Shown) \in Nat /\ Shown \subseteq Calls
    BY <1>1, ShownIs DEF TableInv
<1>3. ASSUME NEW c \in Calls, NEW p \in Places, NEW s \in Shapes, Write(c, p, s)
      PROVE  TypeOK' /\ TableInv'
    <2> DEFINE leg == [call |-> c, at |-> p, chan |-> s.chan, dst |-> s.dst,
                       dstchan |-> s.dstchan, disp |-> s.disp, bill |-> s.bill, rec |-> s.rec]
    <2>1. cdr' = cdr \cup {leg} /\ \A r \in cdr : r.at # p
        BY <1>3 DEF Write
    <2>2. s \in [chan : Names \ {None}, dst : Names, dstchan : Names,
                 disp : Dispositions, bill : Nat, rec : Nat]
        BY CallRecordsAssumption
    <2>3. leg \in [call : Calls, at : Places, chan : Names, dst : Names, dstchan : Names,
                   disp : Dispositions, bill : Nat, rec : Nat]
        BY <2>2
    <2>4. leg.at = p
        OBVIOUS
    <2> HIDE DEF leg
    <2>5. IsFiniteSet(cdr')
        BY <1>1, <2>1, FS_AddElement DEF TableInv
    <2>6. TableInv'
        BY <1>1, <2>1, <2>4, <2>5 DEF TableInv
    <2>7. UNCHANGED <<step, page, total, seen, known>> /\ disturbed' \in BOOLEAN
        BY <1>3 DEF Write
    <2> QED BY <1>1, <2>1, <2>3, <2>6, <2>7 DEF TypeOK
<1>4. CASE CountCalls
    <2>1. UNCHANGED cdr /\ total' = Cardinality(Shown) /\ known' \subseteq Calls
        BY <1>1, <1>2, <1>4 DEF CountCalls, Shown, TypeOK
    <2>2. disturbed' \in BOOLEAN
        BY <1>1, <1>4 DEF CountCalls, Tied, TypeOK
    <2> QED BY <1>1, <1>2, <1>4, <2>1, <2>2 DEF CountCalls, TypeOK, TableInv
<1>5. CASE ReadPage
    <2>1. seen' \subseteq Calls
        <3>1. PICK s \in NewestFirst : seen' = seen \cup {s[i] : i \in DOMAIN s \cap (Offset + 1 .. Offset + PageSize)}
            BY <1>5 DEF ReadPage
        <3>2. s \in [1 .. Cardinality(Shown) -> Shown]
            BY DEF NewestFirst, Shown, SetToSeqs
        <3>3. \A i \in DOMAIN s : s[i] \in Calls
            BY <1>2, <3>2
        <3> QED BY <1>1, <3>1, <3>3 DEF TypeOK
    <2>2. page' \in Nat /\ step' \in {"count", "end"}
        BY <1>1, <1>5 DEF ReadPage, TypeOK
    <2> QED BY <1>1, <1>5, <2>1, <2>2 DEF ReadPage, TypeOK, TableInv
<1>6. CASE UNCHANGED vars
    BY <1>1, <1>6 DEF vars, TypeOK, TableInv
<1> QED BY <1>3, <1>4, <1>5, <1>6 DEF Next

\* The list is that of the table.
LEMMA SameTable ==
    ASSUME UNCHANGED cdr
    PROVE  Shown' = Shown /\ (\A l : Ahead(l)' = Ahead(l)) /\ (\A l : Place(l)' = Place(l))
<1>1. Shown' = Shown
    BY DEF Shown, Listed, LegsIn, Legs, DirectionClause, Having
<1>2. \A l : Place(l)' = Place(l)
    BY <1>1 DEF Place, ListRow, Shown, LegsIn, Legs
<1> QED BY <1>1, <1>2 DEF Ahead

\* A row that is written moves no call of the list towards the top.
LEMMA WriteKeepsPaging ==
    ASSUME IInv, TypeOK', TableInv', NEW c \in Calls, NEW p \in Places, NEW s \in Shapes, Write(c, p, s)
    PROVE  PagingInv'
<1> SUFFICES ASSUME ~disturbed', step # "new"
             PROVE  PagingInv'
    BY DEF IInv, PagingInv, Write
<1>1. TypeOK /\ TableInv /\ PagingInv
    BY DEF IInv
<1>2. /\ ~disturbed /\ step # "list" /\ ~Tied(known)'
      /\ \A l \in Shown : Place(l)' = Place(l)
      /\ UNCHANGED <<step, page, total, seen, known>>
    BY DEF Write, Shown
<1>3. /\ known \subseteq Shown
      /\ \A l \in known \ seen : step # "end" /\ page * PageSize =< Cardinality(Ahead(l))
    BY <1>1, <1>2 DEF PagingInv
<1>4. \A l \in Shown : Place(l) \in Nat \ {0} /\ l \in Shown'
    <2>1. \A l \in Shown : Place(l) \in Nat \ {0}
        BY <1>1, ShownIs DEF TableInv
    <2>2. \A l : Place(l)' # 0 => l \in Shown'
        BY DEF Place, Shown
    <2> QED BY <1>2, <2>1, <2>2
<1>5. IsFiniteSet(Shown')
    <2>1. Shown' \subseteq {r.call : r \in cdr'}
        BY DEF Shown, Listed, LegsIn, Legs
    <2>2. IsFiniteSet({r.call : r \in cdr'})
        BY CallsOfRows DEF TableInv
    <2> QED BY <2>1, <2>2, FS_Subset
<1>6. ASSUME NEW l \in known \ seen PROVE page * PageSize =< Cardinality(Ahead(l)')
    <2>1. Ahead(l) \subseteq Ahead(l)'
        BY <1>2, <1>3, <1>4 DEF Ahead
    <2>2. IsFiniteSet(Ahead(l)')
        BY <1>5, FS_Subset DEF Ahead
    <2>3. Cardinality(Ahead(l)) =< Cardinality(Ahead(l)')
        BY <2>1, <2>2, FS_Subset
    <2>4. IsFiniteSet(Ahead(l))
        BY <2>1, <2>2, FS_Subset
    <2>5. Cardinality(Ahead(l)) \in Nat /\ Cardinality(Ahead(l)') \in Nat
        BY <2>2, <2>4, FS_CardinalityType
    <2>6. page * PageSize \in Nat
        BY <1>1, CallRecordsAssumption DEF TypeOK
    <2>7. page * PageSize =< Cardinality(Ahead(l))
        BY <1>3
    <2> QED BY <2>3, <2>5, <2>6, <2>7
<1>7. known' \subseteq Shown'
    BY <1>2, <1>3, <1>4
<1> QED BY <1>2, <1>3, <1>6, <1>7 DEF PagingInv

LEMMA CountKeepsPaging ==
    ASSUME IInv, CountCalls
    PROVE  PagingInv'
<1> SUFFICES ASSUME ~disturbed' PROVE PagingInv'
    BY DEF PagingInv, CountCalls
<1>1. TypeOK /\ TableInv /\ PagingInv
    BY DEF IInv
<1>2. UNCHANGED <<cdr, page, seen>> /\ step' = "list" /\ total' = Cardinality(Shown)
    BY DEF CountCalls, Shown
<1>3. Shown' = Shown /\ (\A l : Ahead(l)' = Ahead(l)) /\ (\A l : Place(l)' = Place(l))
    BY <1>2, SameTable
<1>4. \A K : Tied(K) <=> \E l \in K, d \in Shown : l # d /\ Place(l) = Place(d)
    BY DEF Tied, Shown
<1>5. Tied(known)' <=> \E l \in known', d \in Shown : l # d /\ Place(l) = Place(d)
    BY <1>3 DEF Tied, Shown
<1>6. CASE step = "new"
    <2>1. page = 0 /\ known' = Shown /\ ~Tied(known')
        BY <1>1, <1>6 DEF PagingInv, CountCalls, Shown
    <2>2. ~Tied(known)'
        BY <1>4, <1>5, <2>1
    <2>3. \A l \in Shown : page * PageSize =< Cardinality(Ahead(l))
        <3>1. ASSUME NEW l \in Shown PROVE Cardinality(Ahead(l)) \in Nat
            BY <1>1, ShownIs, FS_Subset, FS_CardinalityType DEF Ahead, TableInv
        <3>2. page * PageSize = 0
            BY <2>1, CallRecordsAssumption
        <3> QED BY <3>1, <3>2
    <2> QED BY <1>2, <1>3, <2>1, <2>2, <2>3 DEF PagingInv
<1>7. CASE step = "count"
    <2>1. UNCHANGED <<known, disturbed>>
        BY <1>7 DEF CountCalls
    <2>2. /\ known \subseteq Shown /\ ~Tied(known)
          /\ \A l \in known \ seen : page * PageSize =< Cardinality(Ahead(l))
        BY <1>1, <1>7, <2>1 DEF PagingInv
    <2>3. ~Tied(known)'
        BY <1>4, <1>5, <2>1, <2>2
    <2> QED BY <1>2, <1>3, <2>1, <2>2, <2>3 DEF PagingInv
<1> QED BY <1>6, <1>7 DEF CountCalls

\* A page shows the calls it stands for, and the next begins where it ends.
LEMMA ReadKeepsPaging ==
    ASSUME IInv, ReadPage
    PROVE  PagingInv'
<1> SUFFICES ASSUME ~disturbed' PROVE PagingInv'
    BY DEF PagingInv, ReadPage
<1>1. TypeOK /\ TableInv /\ PagingInv /\ PageSize \in Nat \ {0} /\ page \in Nat
    BY CallRecordsAssumption DEF IInv, TypeOK
<1>2. UNCHANGED <<cdr, total, known, disturbed>> /\ page' = page + 1 /\ step = "list" /\ step' \in {"count", "end"}
    BY DEF ReadPage
<1>3. /\ known \subseteq Shown /\ ~Tied(known) /\ total = Cardinality(Shown)
      /\ \A l \in known \ seen : page * PageSize =< Cardinality(Ahead(l))
    BY <1>1, <1>2 DEF PagingInv
<1>4. Shown' = Shown /\ (\A l : Ahead(l)' = Ahead(l)) /\ (\A l : Place(l)' = Place(l))
    BY <1>2, SameTable
<1>5. ~Tied(known)'
    BY <1>2, <1>3, <1>4 DEF Tied, Shown
<1>6. PICK s \in NewestFirst : seen' = seen \cup {s[i] : i \in DOMAIN s \cap (Offset + 1 .. Offset + PageSize)}
    BY DEF ReadPage
<1>7. /\ Offset = page * PageSize /\ Offset \in Nat
      /\ page' * PageSize = Offset + PageSize
    BY <1>1, <1>2 DEF Offset
<1>8. ASSUME NEW l \in known \ seen' PROVE step' # "end" /\ page' * PageSize =< Cardinality(Ahead(l))
    <2>1. l \in known /\ l \notin seen /\ l \in Shown
        BY <1>3, <1>6, <1>8
    <2>2. \A d \in Shown : d # l => Place(d) # Place(l)
        BY <1>3, <2>1 DEF Tied, Shown
    <2>3. /\ DOMAIN s = 1 .. Cardinality(Shown)
          /\ \E i \in DOMAIN s : s[i] = l /\ Cardinality(Ahead(l)) = i - 1
        BY <1>1, <2>1, <2>2, StandsAt DEF TableInv
    <2>4. PICK i \in DOMAIN s : s[i] = l /\ Cardinality(Ahead(l)) = i - 1
        BY <2>3
    <2>5. i \in 1 .. total /\ total \in Nat
        BY <1>1, <1>3, <2>3 DEF TypeOK
    <2>6. i \notin Offset + 1 .. Offset + PageSize
        BY <1>6, <1>8, <2>4
    <2>7. Offset =< i - 1
        BY <1>3, <1>7, <2>1, <2>4
    <2>8. Offset + PageSize =< i - 1
        BY <1>1, <1>7, <2>5, <2>6, <2>7
    <2>9. ~NoMorePages
        BY <1>1, <1>7, <2>5, <2>8 DEF NoMorePages
    <2> QED BY <1>7, <2>4, <2>8, <2>9 DEF ReadPage
<1>9. step' # "new" /\ step' # "list" /\ known' \subseteq Shown'
    BY <1>2, <1>3, <1>4
<1> QED BY <1>2, <1>4, <1>5, <1>8, <1>9 DEF PagingInv

LEMMA NextIInv == IInv /\ [Next]_vars => IInv'
<1> SUFFICES ASSUME IInv, [Next]_vars PROVE IInv'
    OBVIOUS
<1>1. TypeOK' /\ TableInv'
    BY NextTypes
<1>2. ASSUME NEW c \in Calls, NEW p \in Places, NEW s \in Shapes, Write(c, p, s)
      PROVE  PagingInv'
    BY <1>1, <1>2, WriteKeepsPaging
<1>3. CASE CountCalls
    BY <1>1, <1>3, CountKeepsPaging DEF IInv
<1>4. CASE ReadPage
    BY <1>1, <1>4, ReadKeepsPaging DEF IInv
<1>5. CASE UNCHANGED vars
    <2>1. Shown' = Shown /\ (\A l : Ahead(l)' = Ahead(l)) /\ (\A l : Place(l)' = Place(l))
        BY <1>5, SameTable DEF vars
    <2>2. PagingInv'
        BY <1>5, <2>1 DEF vars, IInv, PagingInv, Tied, Shown
    <2> QED BY <1>1, <2>2 DEF IInv
<1> QED BY <1>1, <1>2, <1>3, <1>4, <1>5 DEF Next, IInv

LEMMA AlwaysIInv == Spec => []IInv
BY InitIInv, NextIInv, PTL DEF Spec

\* The rows of the table, the pages and the calls are of their types.
THEOREM TypeCorrect == Spec => []TypeOK
<1>1. IInv => TypeOK
    BY DEF IInv
<1> QED BY <1>1, AlwaysIInv, PTL

\* Who pages to the end has seen every call there was, for every table and every
\* size of a page.
THEOREM PagerMissesNothing == Spec => []NoCallSkipped
<1>1. IInv => NoCallSkipped
    BY DEF IInv, PagingInv, NoCallSkipped
<1> QED BY <1>1, AlwaysIInv, PTL
-----------------------------------------------------------------------------
(***************************************************************************)
(* What one query says of a call.                                          *)
(***************************************************************************)

LEMMA RowsAre ==
    ASSUME TypeOK, NEW r \in cdr
    PROVE  /\ r.call \in Calls /\ r.at \in Places
           /\ r.chan \in Names /\ r.dst \in Names /\ r.dstchan \in Names
           /\ r.disp \in Dispositions /\ r.bill \in Nat /\ r.rec \in Nat
BY DEF TypeOK

LEMMA ExtensionIs ==
    /\ ExtractExtension(None) = None
    /\ \A ch : ExtractExtension(ch) # None => ExtractExtension(ch) = ch
    /\ \A ch : MatchesExtPattern(ch) <=> ExtractExtension(ch) # None
<1>1. None \notin Groups \cup Numeric \cup Agents
    BY CallRecordsAssumption
<1> QED BY <1>1 DEF ExtractExtension, MatchesExtPattern

LEMMA PresentInOrder ==
    ASSUME NEW present, NEW order, DOMAIN order \subseteq Nat
    PROVE  \/ /\ \A i \in DOMAIN order : order[i] \notin present
              /\ FirstPresent(present, order) = "NO ANSWER"
           \/ \E i \in DOMAIN order :
                 /\ order[i] \in present /\ FirstPresent(present, order) = order[i]
                 /\ \A j \in DOMAIN order : j < i => order[j] \notin present
<1> DEFINE found == {i \in DOMAIN order : order[i] \in present}
<1>1. CASE found = {}
    BY <1>1 DEF FirstPresent
<1>2. CASE found # {}
    <2> DEFINE i == Min(found)
    <2>1. found \subseteq Nat
        OBVIOUS
    <2>2. i \in found /\ \A j \in found : i =< j
        <3> HIDE DEF found
        <3> QED BY <1>2, <2>1, MinIs
    <2>3. FirstPresent(present, order) = order[i]
        BY <1>2 DEF FirstPresent
    <2> HIDE DEF i
    <2>4. \A j \in DOMAIN order : j < i => order[j] \notin present
        BY <2>1, <2>2
    <2> QED BY <2>2, <2>3, <2>4
<1> QED BY <1>1, <1>2

\* The orders of precedence the queries have.
LEMMA PresentOfTwo ==
    ASSUME NEW present, NEW order, DOMAIN order = 1 .. 2
    PROVE  FirstPresent(present, order) =
               IF order[1] \in present THEN order[1] ELSE IF order[2] \in present THEN order[2] ELSE "NO ANSWER"
<1>1. DOMAIN order \subseteq Nat /\ \A i \in DOMAIN order : i \in {1, 2}
    OBVIOUS
<1>2. 1 \in DOMAIN order /\ 2 \in DOMAIN order
    OBVIOUS
<1>3. \/ /\ \A i \in DOMAIN order : order[i] \notin present
         /\ FirstPresent(present, order) = "NO ANSWER"
      \/ \E i \in DOMAIN order :
            /\ order[i] \in present /\ FirstPresent(present, order) = order[i]
            /\ \A j \in DOMAIN order : j < i => order[j] \notin present
    BY <1>1, PresentInOrder
<1>4. CASE \A i \in DOMAIN order : order[i] \notin present
    BY <1>2, <1>3, <1>4
<1>5. ASSUME NEW i \in DOMAIN order, order[i] \in present, FirstPresent(present, order) = order[i],
             \A j \in DOMAIN order : j < i => order[j] \notin present
      PROVE  FirstPresent(present, order) =
               IF order[1] \in present THEN order[1] ELSE IF order[2] \in present THEN order[2] ELSE "NO ANSWER"
    <2>1. CASE i = 1
        BY <1>2, <1>5, <2>1
    <2>2. CASE i = 2
        BY <1>2, <1>5, <2>2
    <2> QED BY <1>1, <2>1, <2>2
<1> QED BY <1>3, <1>4, <1>5

LEMMA PresentOfThree ==
    ASSUME NEW present, NEW order, DOMAIN order = 1 .. 3
    PROVE  FirstPresent(present, order) =
               IF order[1] \in present THEN order[1] ELSE IF order[2] \in present THEN order[2]
               ELSE IF order[3] \in present THEN order[3] ELSE "NO ANSWER"
<1>1. DOMAIN order \subseteq Nat /\ \A i \in DOMAIN order : i \in {1, 2, 3}
    OBVIOUS
<1>2. 1 \in DOMAIN order /\ 2 \in DOMAIN order /\ 3 \in DOMAIN order
    OBVIOUS
<1>3. \/ /\ \A i \in DOMAIN order : order[i] \notin present
         /\ FirstPresent(present, order) = "NO ANSWER"
      \/ \E i \in DOMAIN order :
            /\ order[i] \in present /\ FirstPresent(present, order) = order[i]
            /\ \A j \in DOMAIN order : j < i => order[j] \notin present
    BY <1>1, PresentInOrder
<1>4. CASE \A i \in DOMAIN order : order[i] \notin present
    BY <1>2, <1>3, <1>4
<1>5. ASSUME NEW i \in DOMAIN order, order[i] \in present, FirstPresent(present, order) = order[i],
             \A j \in DOMAIN order : j < i => order[j] \notin present
      PROVE  FirstPresent(present, order) =
               IF order[1] \in present THEN order[1] ELSE IF order[2] \in present THEN order[2]
               ELSE IF order[3] \in present THEN order[3] ELSE "NO ANSWER"
    <2>1. CASE i = 1
        BY <1>2, <1>5, <2>1
    <2>2. CASE i = 2
        BY <1>2, <1>5, <2>2
    <2>3. CASE i = 3
        BY <1>2, <1>5, <2>3
    <2> QED BY <1>1, <2>1, <2>2, <2>3
<1> QED BY <1>3, <1>4, <1>5

LEMMA PresentOfFour ==
    ASSUME NEW present, NEW order, DOMAIN order = 1 .. 4
    PROVE  FirstPresent(present, order) =
               IF order[1] \in present THEN order[1] ELSE IF order[2] \in present THEN order[2]
               ELSE IF order[3] \in present THEN order[3] ELSE IF order[4] \in present THEN order[4]
               ELSE "NO ANSWER"
<1>1. DOMAIN order \subseteq Nat /\ \A i \in DOMAIN order : i \in {1, 2, 3, 4}
    OBVIOUS
<1>2. 1 \in DOMAIN order /\ 2 \in DOMAIN order /\ 3 \in DOMAIN order /\ 4 \in DOMAIN order
    OBVIOUS
<1>3. \/ /\ \A i \in DOMAIN order : order[i] \notin present
         /\ FirstPresent(present, order) = "NO ANSWER"
      \/ \E i \in DOMAIN order :
            /\ order[i] \in present /\ FirstPresent(present, order) = order[i]
            /\ \A j \in DOMAIN order : j < i => order[j] \notin present
    BY <1>1, PresentInOrder
<1>4. CASE \A i \in DOMAIN order : order[i] \notin present
    BY <1>2, <1>3, <1>4
<1>5. ASSUME NEW i \in DOMAIN order, order[i] \in present, FirstPresent(present, order) = order[i],
             \A j \in DOMAIN order : j < i => order[j] \notin present
      PROVE  FirstPresent(present, order) =
               IF order[1] \in present THEN order[1] ELSE IF order[2] \in present THEN order[2]
               ELSE IF order[3] \in present THEN order[3] ELSE IF order[4] \in present THEN order[4]
               ELSE "NO ANSWER"
    <2>1. CASE i = 1
        BY <1>2, <1>5, <2>1
    <2>2. CASE i = 2
        BY <1>2, <1>5, <2>2
    <2>3. CASE i = 3
        BY <1>2, <1>5, <2>3
    <2>4. CASE i = 4
        BY <1>2, <1>5, <2>4
    <2> QED BY <1>1, <2>1, <2>2, <2>3, <2>4
<1> QED BY <1>3, <1>4, <1>5

\* The dispositions that decide, in each query.
LEMMA DispositionsAre ==
    ASSUME NEW L
    PROVE  /\ FinalDisposition(L) =
                  IF \E r \in L : Real(r) THEN "ANSWERED" ELSE IF "BUSY" \in Disps(L) THEN "BUSY"
                  ELSE IF "FAILED" \in Disps(L) THEN "FAILED" ELSE "NO ANSWER"
           /\ Outcome(L) =
                  IF "ANSWERED" \in Disps(L) THEN "ANSWERED" ELSE IF "BUSY" \in Disps(L) THEN "BUSY"
                  ELSE IF "FAILED" \in Disps(L) THEN "FAILED" ELSE "NO ANSWER"
           /\ GroupOutcome(L) =
                  IF "ANSWERED" \in Disps(L) THEN "ANSWERED" ELSE IF "NO ANSWER" \in Disps(L) THEN "NO ANSWER"
                  ELSE IF "BUSY" \in Disps(L) THEN "BUSY"
                  ELSE IF "FAILED" \in Disps(L) THEN "FAILED" ELSE "NO ANSWER"
           /\ "ANSWERED" \in Disps(L) <=> \E r \in L : r.disp = "ANSWERED"
           /\ FinalDisposition(L) \in Dispositions /\ Outcome(L) \in Dispositions
           /\ GroupOutcome(L) \in Dispositions
<1> DEFINE K == {r \in L : r.disp = "ANSWERED" => Real(r)}
           three == <<"ANSWERED", "BUSY", "FAILED">>
           four == <<"ANSWERED", "NO ANSWER", "BUSY", "FAILED">>
<1>1. /\ "ANSWERED" \in Disps(K) <=> \E r \in L : Real(r)
      /\ "BUSY" \in Disps(K) <=> "BUSY" \in Disps(L)
      /\ "FAILED" \in Disps(K) <=> "FAILED" \in Disps(L)
    BY DEF Disps, Real
<1>2. /\ FinalDisposition(L) = FirstPresent(Disps(K), three)
      /\ Outcome(L) = FirstPresent(Disps(L), three)
      /\ GroupOutcome(L) = FirstPresent(Disps(L), four)
    BY DEF FinalDisposition, Outcome, GroupOutcome
<1>3. DOMAIN three = 1 .. 3 /\ three[1] = "ANSWERED" /\ three[2] = "BUSY" /\ three[3] = "FAILED"
    OBVIOUS
<1>4. /\ DOMAIN four = 1 .. 4
      /\ four[1] = "ANSWERED" /\ four[2] = "NO ANSWER" /\ four[3] = "BUSY" /\ four[4] = "FAILED"
    OBVIOUS
<1> HIDE DEF K, three, four
<1>5. /\ FinalDisposition(L) =
             IF "ANSWERED" \in Disps(K) THEN "ANSWERED" ELSE IF "BUSY" \in Disps(K) THEN "BUSY"
             ELSE IF "FAILED" \in Disps(K) THEN "FAILED" ELSE "NO ANSWER"
      /\ Outcome(L) =
             IF "ANSWERED" \in Disps(L) THEN "ANSWERED" ELSE IF "BUSY" \in Disps(L) THEN "BUSY"
             ELSE IF "FAILED" \in Disps(L) THEN "FAILED" ELSE "NO ANSWER"
    <2>0. DOMAIN three = 1 .. 3
        BY <1>3
    <2>1. \A P : FirstPresent(P, three) =
                    IF three[1] \in P THEN three[1] ELSE IF three[2] \in P THEN three[2]
                    ELSE IF three[3] \in P THEN three[3] ELSE "NO ANSWER"
        BY <2>0, PresentOfThree
    <2>2. \A P : FirstPresent(P, three) =
                    IF "ANSWERED" \in P THEN "ANSWERED" ELSE IF "BUSY" \in P THEN "BUSY"
                    ELSE IF "FAILED" \in P THEN "FAILED" ELSE "NO ANSWER"
        BY <1>3, <2>1
    <2> QED BY <1>2, <2>2
<1>6. GroupOutcome(L) =
          IF "ANSWERED" \in Disps(L) THEN "ANSWERED" ELSE IF "NO ANSWER" \in Disps(L) THEN "NO ANSWER"
          ELSE IF "BUSY" \in Disps(L) THEN "BUSY"
          ELSE IF "FAILED" \in Disps(L) THEN "FAILED" ELSE "NO ANSWER"
    <2>0. DOMAIN four = 1 .. 4
        BY <1>4
    <2>1. \A P : FirstPresent(P, four) =
                    IF four[1] \in P THEN four[1] ELSE IF four[2] \in P THEN four[2]
                    ELSE IF four[3] \in P THEN four[3] ELSE IF four[4] \in P THEN four[4] ELSE "NO ANSWER"
        BY <2>0, PresentOfFour
    <2>2. \A P : FirstPresent(P, four) =
                    IF "ANSWERED" \in P THEN "ANSWERED" ELSE IF "NO ANSWER" \in P THEN "NO ANSWER"
                    ELSE IF "BUSY" \in P THEN "BUSY" ELSE IF "FAILED" \in P THEN "FAILED" ELSE "NO ANSWER"
        BY <1>4, <2>1
    <2> QED BY <1>2, <2>2
<1>7. "ANSWERED" \in Disps(L) <=> \E r \in L : r.disp = "ANSWERED"
    BY DEF Disps
<1> QED BY <1>1, <1>5, <1>6, <1>7 DEF Dispositions

LEMMA SummaryIs ==
    ASSUME NEW c
    PROVE  summarizeLegs(c).disp =
               IF \E r \in Legs(c) : Real(r) THEN "ANSWERED"
               ELSE IF "BUSY" \in Disps(Legs(c)) THEN "BUSY"
               ELSE IF "FAILED" \in Disps(Legs(c)) THEN "FAILED" ELSE "NO ANSWER"
<1> DEFINE two == <<"BUSY", "FAILED">>
           answered == {r \in Legs(c) : Real(r)}
<1>1. summarizeLegs(c).disp = IF answered # {} THEN "ANSWERED" ELSE FirstPresent(Disps(Legs(c)), two)
    BY DEF summarizeLegs
<1>2. DOMAIN two = 1 .. 2 /\ two[1] = "BUSY" /\ two[2] = "FAILED"
    OBVIOUS
<1> HIDE DEF two
<1>3. \A P : FirstPresent(P, two) =
                 IF two[1] \in P THEN two[1] ELSE IF two[2] \in P THEN two[2] ELSE "NO ANSWER"
    BY <1>2, PresentOfTwo
<1>4. \A P : FirstPresent(P, two) =
                 IF "BUSY" \in P THEN "BUSY" ELSE IF "FAILED" \in P THEN "FAILED" ELSE "NO ANSWER"
    BY <1>2, <1>3
<1>5. answered # {} <=> \E r \in Legs(c) : Real(r)
    OBVIOUS
<1> HIDE DEF answered
<1> QED BY <1>1, <1>4, <1>5

\* On the wire only the dispositions change, and those of calls do not.
LEMMA WireIs ==
    ASSUME NEW w, NEW c
    PROVE  /\ CallRow(w, c).disp = FinalDisposition(LegsIn(w, c))
           /\ CallDetail(c).disp = summarizeLegs(c).disp
           /\ CallRow(w, c).first = Date[FirstOf(LegsIn(w, c)).at]
           /\ CallRow(w, c).legs = Cardinality(LegsIn(w, c))
           /\ CallRow(w, c).originator = ExtractExtension(FirstOf(Legs(c)).chan)
           /\ CallRow(w, c).direction = inferDirection(FirstOf(Legs(c)).chan, FirstOf(Legs(c)).dstchan)
           /\ CallRow(w, c).bill = ListRow(w, c).bill
           /\ CallRow(w, c).answerer = ListRow(w, c).answerer
           /\ CallRow(w, c).recording = MaxOr({r.rec : r \in LegsIn(w, c)}, None)
           /\ CallDetail(c).first = Date[FirstOf(Legs(c)).at]
           /\ CallDetail(c).legs = Cardinality(Legs(c))
           /\ CallDetail(c).originator = ExtractExtension(FirstOf(Legs(c)).chan)
           /\ CallDetail(c).direction = inferDirection(FirstOf(Legs(c)).chan, FirstOf(Legs(c)).dstchan)
           /\ CallDetail(c).bill = summarizeLegs(c).bill
           /\ CallDetail(c).answerer = summarizeLegs(c).answerer
           /\ CallDetail(c).recording = FirstOf(Legs(c)).rec
<1>1. FinalDisposition(LegsIn(w, c)) \in Dispositions
    BY DispositionsAre
<1>2. ListRow(w, c).disp = FinalDisposition(LegsIn(w, c))
    BY DEF ListRow
<1>3. summarizeLegs(c).disp \in Dispositions
    BY SummaryIs DEF Dispositions
<1>4. CallRow(w, c).disp = FinalDisposition(LegsIn(w, c))
    BY <1>1, <1>2 DEF CallRow, callToProto, dispositionFromString, ListRow
<1>5. CallDetail(c).disp = summarizeLegs(c).disp
    BY <1>3 DEF CallDetail, callToProto, dispositionFromString, summarizeLegs
<1>6. /\ CallRow(w, c).first = Date[FirstOf(LegsIn(w, c)).at]
      /\ CallRow(w, c).legs = Cardinality(LegsIn(w, c))
      /\ CallRow(w, c).originator = ExtractExtension(FirstOf(Legs(c)).chan)
      /\ CallRow(w, c).direction = inferDirection(FirstOf(Legs(c)).chan, FirstOf(Legs(c)).dstchan)
      /\ CallRow(w, c).bill = ListRow(w, c).bill
      /\ CallRow(w, c).answerer = ListRow(w, c).answerer
      /\ CallRow(w, c).recording = MaxOr({r.rec : r \in LegsIn(w, c)}, None)
    BY DEF CallRow, callToProto, ListRow
<1>7. /\ CallDetail(c).first = Date[FirstOf(Legs(c)).at]
      /\ CallDetail(c).legs = Cardinality(Legs(c))
      /\ CallDetail(c).originator = ExtractExtension(FirstOf(Legs(c)).chan)
      /\ CallDetail(c).direction = inferDirection(FirstOf(Legs(c)).chan, FirstOf(Legs(c)).dstchan)
      /\ CallDetail(c).bill = summarizeLegs(c).bill
      /\ CallDetail(c).answerer = summarizeLegs(c).answerer
      /\ CallDetail(c).recording = FirstOf(Legs(c)).rec
    BY DEF CallDetail, callToProto, summarizeLegs
<1> QED BY <1>4, <1>5, <1>6, <1>7
-----------------------------------------------------------------------------
(***************************************************************************)
(* List and detail, list and filters.                                      *)
(***************************************************************************)

\* Who answered, if one leg was answered.
LEMMA AnswererAgrees ==
    ASSUME TypeOK, NEW w, NEW c, LegsIn(w, c) = Legs(c), ~SystemAnswered(c), ~AnsweredTwice(c)
    PROVE  ListRow(w, c).answerer = summarizeLegs(c).answerer
<1> DEFINE L == Legs(c)
           answered == {r \in L : r.disp = "ANSWERED"}
           with == {r \in answered : LegExtension(r) # None}
           D == MaxOr({r.dstchan : r \in answered}, None)
           C == MaxOr({r.chan : r \in answered}, None)
<1>1. answered = {r \in L : Real(r)}
    BY DEF SystemAnswered, Real
<1>2. /\ ListRow(w, c).answerer =
             IF ExtractExtension(D) # None THEN ExtractExtension(D) ELSE ExtractExtension(C)
      /\ summarizeLegs(c).answerer = IF with = {} THEN None ELSE LegExtension(FirstOf(with))
    BY <1>1 DEF ListRow, summarizeLegs
<1>3. \A q, r \in answered : q = r
    BY <1>1 DEF AnsweredTwice
<1> HIDE DEF D, C, with
<1>4. CASE answered = {}
    <2>1. D = None /\ C = None /\ with = {}
        BY <1>4 DEF D, C, with, MaxOr
    <2> QED BY <1>2, <2>1, ExtensionIs
<1>5. CASE answered # {}
    <2>1. PICK r \in answered : answered = {r}
        BY <1>3, <1>5
    <2>2. r.chan \in Nat /\ r.dstchan \in Nat
        <3>1. r \in cdr
            BY DEF Legs
        <3>2. Names \subseteq Nat
            BY CallRecordsAssumption DEF Names, None
        <3> QED BY <3>1, <3>2, RowsAre
    <2>3. {q.dstchan : q \in answered} = {r.dstchan} /\ {q.chan : q \in answered} = {r.chan}
        BY <2>1
    <2>4. D = r.dstchan /\ C = r.chan
        <3>1. \A n \in Nat : MaxOr({n}, None) = n
            BY DEF MaxOr, Max
        <3> QED BY <2>2, <2>3, <3>1 DEF D, C
    <2>5. ListRow(w, c).answerer = LegExtension(r)
        BY <1>2, <2>4 DEF LegExtension
    <2>6. CASE LegExtension(r) = None
        <3>1. with = {}
            BY <2>1, <2>6 DEF with
        <3> QED BY <1>2, <2>5, <2>6, <3>1
    <2>7. CASE LegExtension(r) # None
        <3>1. with = {r}
            BY <2>1, <2>7 DEF with
        <3>2. FirstOf(with) = r
            BY <3>1 DEF FirstOf
        <3> QED BY <1>2, <2>5, <3>1, <3>2
    <2> QED BY <2>6, <2>7
<1> QED BY <1>4, <1>5

LEMMA DetailIsRow == TypeOK => DrillAgrees
<1> SUFFICES ASSUME TypeOK, NEW w \in Windows, NEW c \in Listed(w, "", ""), LegsIn(w, c) = Legs(c)
             PROVE  /\ CallRow(w, c).first = CallDetail(c).first
                    /\ CallRow(w, c).disp = CallDetail(c).disp
                    /\ CallRow(w, c).legs = CallDetail(c).legs
                    /\ CallRow(w, c).originator = CallDetail(c).originator
                    /\ CallRow(w, c).direction = CallDetail(c).direction
                    /\ ~SystemAnswered(c) =>
                           /\ CallRow(w, c).bill = CallDetail(c).bill
                           /\ ~AnsweredTwice(c) => CallRow(w, c).answerer = CallDetail(c).answerer
    BY DEF DrillAgrees
<1>1. CallRow(w, c).disp = CallDetail(c).disp
    <2>1. CallRow(w, c).disp = FinalDisposition(LegsIn(w, c)) /\ CallDetail(c).disp = summarizeLegs(c).disp
        BY WireIs, Zenon
    <2>2. FinalDisposition(Legs(c)) = summarizeLegs(c).disp
        BY DispositionsAre, SummaryIs
    <2> QED BY <2>1, <2>2
<1>2. ASSUME ~SystemAnswered(c) PROVE ListRow(w, c).bill = summarizeLegs(c).bill
    <2>1. {r \in Legs(c) : r.disp = "ANSWERED"} = {r \in Legs(c) : Real(r)}
        BY <1>2 DEF SystemAnswered, Real
    <2>2. /\ ListRow(w, c).bill = MaxOr({r.bill : r \in {q \in Legs(c) : q.disp = "ANSWERED"}}, 0)
          /\ summarizeLegs(c).bill = MaxOr({r.bill : r \in {q \in Legs(c) : Real(q)}}, 0)
        BY DEF ListRow, summarizeLegs
    <2>3. \A S, T : S = T => MaxOr({r.bill : r \in S}, 0) = MaxOr({r.bill : r \in T}, 0)
        OBVIOUS
    <2> QED BY <2>1, <2>2, <2>3
<1>3. ~SystemAnswered(c) /\ ~AnsweredTwice(c) => ListRow(w, c).answerer = summarizeLegs(c).answerer
    BY AnswererAgrees
<1>4. /\ CallRow(w, c).first = CallDetail(c).first
      /\ CallRow(w, c).legs = CallDetail(c).legs
      /\ CallRow(w, c).originator = CallDetail(c).originator
      /\ CallRow(w, c).direction = CallDetail(c).direction
    <2>1. /\ CallRow(w, c).first = Date[FirstOf(LegsIn(w, c)).at]
          /\ CallRow(w, c).legs = Cardinality(LegsIn(w, c))
          /\ CallRow(w, c).originator = ExtractExtension(FirstOf(Legs(c)).chan)
          /\ CallRow(w, c).direction = inferDirection(FirstOf(Legs(c)).chan, FirstOf(Legs(c)).dstchan)
        BY WireIs
    <2>2. /\ CallDetail(c).first = Date[FirstOf(Legs(c)).at]
          /\ CallDetail(c).legs = Cardinality(Legs(c))
          /\ CallDetail(c).originator = ExtractExtension(FirstOf(Legs(c)).chan)
          /\ CallDetail(c).direction = inferDirection(FirstOf(Legs(c)).chan, FirstOf(Legs(c)).dstchan)
        BY WireIs
    <2> QED BY <2>1, <2>2
<1>5. /\ CallRow(w, c).bill = ListRow(w, c).bill /\ CallDetail(c).bill = summarizeLegs(c).bill
      /\ CallRow(w, c).answerer = ListRow(w, c).answerer
      /\ CallDetail(c).answerer = summarizeLegs(c).answerer
    BY WireIs
<1> QED BY <1>1, <1>2, <1>3, <1>4, <1>5

\* The filter by disposition, in SQL, is what Go shows.
LEMMA HavingIs ==
    ASSUME TypeOK, NEW w, NEW c, LegsIn(w, c) # {}, NEW disp \in Wire
    PROVE  Having(dispositionToString(disp), LegsIn(w, c))
               <=> disp = "UNSPECIFIED" \/ CallRow(w, c).disp = disp
<1> DEFINE L == LegsIn(w, c)
<1>1. CallRow(w, c).disp = FinalDisposition(L)
    BY WireIs
<1>2. \A r \in L : r.disp \in Dispositions
    BY RowsAre DEF LegsIn, Legs
<1>3. (\E r \in L : Real(r)) => "ANSWERED" \in Disps(L)
    BY DEF Disps, Real
<1>4. CASE disp = "UNSPECIFIED"
    <2>1. dispositionToString(disp) = ""
        BY <1>4 DEF dispositionToString, Dispositions
    <2> QED BY <1>4, <2>1 DEF Having
<1>5. CASE disp \in Dispositions
    <2>1. dispositionToString(disp) = disp /\ disp # "UNSPECIFIED" /\ disp # ""
        BY <1>5 DEF dispositionToString, Dispositions
    <2>2. FinalDisposition(L) =
              IF \E r \in L : Real(r) THEN "ANSWERED" ELSE IF "BUSY" \in Disps(L) THEN "BUSY"
              ELSE IF "FAILED" \in Disps(L) THEN "FAILED" ELSE "NO ANSWER"
        BY DispositionsAre
    <2> HIDE DEF L
    <2>3. Having(disp, L) <=> FinalDisposition(L) = disp
        BY <1>5, <2>2 DEF Having, Dispositions
    <2> QED BY <1>1, <2>1, <2>3 DEF L
<1> QED BY <1>4, <1>5 DEF Wire

\* So is the filter by direction, of which the list itself is one.
LEMMA DirectionIs ==
    ASSUME NEW w, NEW c, ~SelfCall(c)
    PROVE  /\ \A direction \in {"inbound", "outbound", "internal"} :
                  DirectionClause(direction, c) <=> CallRow(w, c).direction = direction
           /\ DirectionClause("", c) <=> CallRow(w, c).direction # "unknown"
<1> DEFINE chan == FirstOf(Legs(c)).chan
           dstchan == FirstOf(Legs(c)).dstchan
           src == ExtractExtension(chan)
           dst == ExtractExtension(dstchan)
<1>1. CallRow(w, c).direction = inferDirection(chan, dstchan)
    BY WireIs
<1>2. src # None => src # dst
    BY DEF SelfCall
<1>3. MatchesExtPattern(chan) <=> src # None
    BY ExtensionIs
<1>4. MatchesExtPattern(dstchan) <=> dst # None
    BY ExtensionIs
<1>5. inferDirection(chan, dstchan) =
          CASE src # None /\ dst # None /\ src # dst -> "internal"
            [] src = None /\ dst # None -> "inbound"
            [] src # None /\ dst = None -> "outbound"
            [] OTHER -> "unknown"
    BY DEF inferDirection
<1>6. /\ DirectionClause("inbound", c) <=> src = None /\ dst # None
      /\ DirectionClause("outbound", c) <=> src # None /\ dst = None
      /\ DirectionClause("internal", c) <=> src # None /\ dst # None
      /\ DirectionClause("", c) <=> src # None \/ dst # None
    BY <1>3, <1>4 DEF DirectionClause
<1> HIDE DEF src, dst, chan, dstchan
<1> QED BY <1>1, <1>2, <1>5, <1>6

LEMMA FiltersAreRows == TypeOK => FiltersAgree
<1> SUFFICES ASSUME TypeOK PROVE FiltersAgree
    OBVIOUS
<1>1. \A w, direction, c : c \in Listed(w, direction, "") <=>
                               c \in Calls /\ LegsIn(w, c) # {} /\ DirectionClause(direction, c)
    BY DEF Listed, Having
<1>2. ASSUME NEW w, NEW direction, NEW disp \in Wire, NEW c
      PROVE  c \in Listed(w, direction, dispositionToString(disp)) <=>
                 /\ c \in Listed(w, direction, "")
                 /\ disp = "UNSPECIFIED" \/ CallRow(w, c).disp = disp
    BY <1>1, HavingIs DEF Listed
<1>3. ASSUME NEW w, NEW c \in InWindow(w), ~SelfCall(c)
      PROVE  /\ \A direction \in {"inbound", "outbound", "internal"} :
                    c \in Listed(w, direction, "") <=> CallRow(w, c).direction = direction
             /\ c \in Listed(w, "", "") <=> CallRow(w, c).direction # "unknown"
    <2>1. c \in Calls /\ LegsIn(w, c) # {}
        BY DEF InWindow
    <2>2. /\ \A direction \in {"inbound", "outbound", "internal"} :
                 DirectionClause(direction, c) <=> CallRow(w, c).direction = direction
          /\ DirectionClause("", c) <=> CallRow(w, c).direction # "unknown"
        BY <1>3, DirectionIs
    <2> QED BY <1>1, <2>1, <2>2
<1>4. ASSUME NEW w \in Windows, NEW direction \in {"", "inbound", "outbound", "internal"}
      PROVE  LET shown == [c \in Listed(w, direction, "") |-> CallRow(w, c).disp]
             IN  \A disp \in Wire :
                     Listed(w, direction, dispositionToString(disp))
                         = {c \in DOMAIN shown : disp = "UNSPECIFIED" \/ shown[c] = disp}
    <2> DEFINE shown == [c \in Listed(w, direction, "") |-> CallRow(w, c).disp]
    <2>1. DOMAIN shown = Listed(w, direction, "")
          /\ \A c \in Listed(w, direction, "") : shown[c] = CallRow(w, c).disp
        OBVIOUS
    <2> HIDE DEF shown
    <2>2. ASSUME NEW disp \in Wire
          PROVE  Listed(w, direction, dispositionToString(disp))
                     = {c \in DOMAIN shown : disp = "UNSPECIFIED" \/ shown[c] = disp}
        <3> DEFINE A == Listed(w, direction, dispositionToString(disp))
                   B == {c \in DOMAIN shown : disp = "UNSPECIFIED" \/ shown[c] = disp}
        <3>1. \A c : c \in A <=> c \in Listed(w, direction, "") /\ (disp = "UNSPECIFIED" \/ CallRow(w, c).disp = disp)
            BY <1>2
        <3>2. \A c : c \in B <=> c \in Listed(w, direction, "") /\ (disp = "UNSPECIFIED" \/ CallRow(w, c).disp = disp)
            BY <2>1
        <3> HIDE DEF A, B
        <3>3. A = B
            BY <3>1, <3>2
        <3> QED BY <3>3 DEF A, B
    <2> QED BY <2>2 DEF shown
<1>5. ASSUME NEW w, NEW c \in InWindow(w), ~SelfCall(c)
      PROVE  LET shown == CallRow(w, c).direction
             IN  /\ \A direction \in {"inbound", "outbound", "internal"} :
                        c \in Listed(w, direction, "") <=> shown = direction
                 /\ c \in Listed(w, "", "") <=> shown # "unknown"
    BY <1>3, <1>5
<1>6. \A w \in Windows : \A direction \in {"", "inbound", "outbound", "internal"} :
          LET shown == [c \in Listed(w, direction, "") |-> CallRow(w, c).disp]
          IN  \A disp \in Wire :
                  Listed(w, direction, dispositionToString(disp))
                      = {c \in DOMAIN shown : disp = "UNSPECIFIED" \/ shown[c] = disp}
    BY <1>4
<1>7. \A w \in Windows : \A c \in InWindow(w) : ~SelfCall(c) =>
          LET shown == CallRow(w, c).direction
          IN  /\ \A direction \in {"inbound", "outbound", "internal"} :
                     c \in Listed(w, direction, "") <=> shown = direction
              /\ c \in Listed(w, "", "") <=> shown # "unknown"
    BY <1>5, Zenon
<1> QED BY <1>6, <1>7, Zenon DEF FiltersAgree

\* For every table and every window, a call in detail is the call in the list.
THEOREM DetailAgreesWithList == Spec => []DrillAgrees
BY TypeCorrect, DetailIsRow, PTL

\* For every table and every window, the filters select what the list shows.
THEOREM FiltersAgreeWithList == Spec => []FiltersAgree
BY TypeCorrect, FiltersAreRows, PTL
-----------------------------------------------------------------------------
(***************************************************************************)
(* Recordings.                                                             *)
(***************************************************************************)

LEMMA AlwaysIsAll ==
    ASSUME TypeOK, NEW c
    PROVE  LegsIn(Always, c) = Legs(c)
<1> SUFFICES ASSUME NEW r \in Legs(c)
             PROVE  Always.from =< Date[r.at] /\ Date[r.at] < Always.to
    BY DEF LegsIn
<1>1. r.at \in Places
    BY RowsAre DEF Legs
<1>2. Len(Date) \in Places
    BY CallRecordsAssumption, EmptySeq, LenProperties DEF Places
<1>3. \A p \in Places : Date[p] \in Nat \ {0} /\ p \in Nat
    BY CallRecordsAssumption, LenProperties DEF Places
<1>4. Places = 1 .. Len(Date) /\ Len(Date) \in Nat
    BY CallRecordsAssumption, LenProperties DEF Places
<1>5. Date[r.at] =< Date[Len(Date)]
    <2>1. CASE r.at = Len(Date)
        BY <1>2, <1>3, <2>1
    <2>2. CASE r.at # Len(Date)
        <3>1. r.at < Len(Date)
            BY <1>1, <1>4, <2>2
        <3> QED BY <1>1, <1>2, <3>1, CallRecordsAssumption
    <2> QED BY <2>1, <2>2
<1>6. Always.from = 1 /\ Always.to = Date[Len(Date)] + 1
    BY DEF Always
<1> QED BY <1>1, <1>2, <1>3, <1>5, <1>6

LEMMA RecordingsAreFound == TypeOK /\ TableInv => RecordingFound
<1> SUFFICES ASSUME TypeOK, TableInv PROVE RecordingFound
    OBVIOUS
<1>1. ASSUME NEW c \in Shown, NEW recorded, recorded = {r \in Legs(c) : r.rec # None},
             NEW night, night = \E r \in recorded : Calendar[Date[r.at]].day # Calendar[Date[r.at]].utcDay
      PROVE  /\ CallRow(Always, c).recording = None => Serve(c) = {}
             /\ CallRow(Always, c).recording # None /\ ~night => Serve(c) # {}
             /\ Cardinality({r.rec : r \in recorded}) = 1 =>
                    \A f \in Serve(c) : f.name = CallRow(Always, c).recording
             /\ FirstOf(Legs(c)).rec # None /\ Cardinality({r.rec : r \in recorded}) = 1 =>
                    CallDetail(c).recording = CallRow(Always, c).recording
    <2> DEFINE all == {r.rec : r \in Legs(c)}
               names == {r.rec : r \in recorded}
               greatest == CallRow(Always, c).recording
    <2>1. /\ Legs(c) \subseteq cdr /\ Legs(c) # {} /\ IsFiniteSet(Legs(c))
          /\ \A r \in Legs(c) : r.rec \in Nat
        <3>1. Legs(c) \subseteq cdr /\ Legs(c) # {}
            BY DEF Shown, Listed, LegsIn, Legs
        <3> QED BY <3>1, RowsAre, FS_Subset DEF TableInv
    <2>2. greatest = MaxOr(all, None)
        <3>1. greatest = MaxOr({r.rec : r \in LegsIn(Always, c)}, None)
            BY WireIs
        <3>2. LegsIn(Always, c) = Legs(c)
            BY AlwaysIsAll
        <3> QED BY <3>1, <3>2
    <2>3. IsFiniteSet(all) /\ all # {} /\ all \subseteq Nat
        <3>1. IsFiniteSet(all)
            BY <2>1, CallsOfRows
        <3> QED BY <2>1, <3>1
    <2>4. names = all \ {None}
        BY <1>1
    <2> HIDE DEF all, names, greatest
    <2>5. greatest \in all /\ \A n \in all : n =< greatest
        BY <2>2, <2>3, MaxIs DEF MaxOr
    <2>6. names \subseteq Nat \ {0} /\ (greatest = None <=> names = {}) /\ (greatest # None => greatest \in names)
        <3>1. names \subseteq Nat \ {0} /\ (greatest # None => greatest \in names)
            BY <2>3, <2>4, <2>5 DEF None
        <3>2. ASSUME NEW n \in names PROVE greatest # None
            <4>1. n \in Nat /\ n # 0 /\ greatest \in Nat /\ n =< greatest
                BY <2>3, <2>4, <2>5 DEF None
            <4> QED BY <4>1 DEF None
        <3> QED BY <3>1, <3>2
    <2>7. names = {} <=> recorded = {}
        BY DEF names
    <2>8. Serve(c) = IF recorded = {} THEN {} ELSE resolvePath(FirstOf(recorded))
        BY <1>1 DEF Serve
    <2>9. ASSUME recorded # {}
          PROVE  FirstOf(recorded) \in recorded /\ FirstOf(recorded) \in cdr
        BY <1>1, <2>1, <2>9, FirstOfIs
    <2>10. ASSUME recorded # {}, ~night PROVE Serve(c) # {}
        <3> DEFINE q == FirstOf(recorded)
                   file == [dir |-> Calendar[Date[q.at]].day, name |-> q.rec]
        <3>1. q \in recorded /\ q \in cdr /\ q.rec # None
            BY <1>1, <2>9, <2>10
        <3>2. Calendar[Date[q.at]].day = Calendar[Date[q.at]].utcDay
            BY <1>1, <2>10, <3>1
        <3> HIDE DEF q
        <3>3. file \in Files
            BY <3>1 DEF Files
        <3>4. file \in resolvePath(q)
            BY <3>2, <3>3 DEF resolvePath
        <3> QED BY <2>8, <2>10, <3>4 DEF q
    <2>11. ASSUME NEW x, names = {x} PROVE greatest = x /\ \A f \in Serve(c) : f.name = greatest
        <3>1. greatest = x
            BY <2>6, <2>11
        <3>2. recorded # {}
            BY <2>7, <2>11
        <3>3. FirstOf(recorded).rec = x
            BY <2>9, <2>11, <3>2 DEF names
        <3>4. \A f \in resolvePath(FirstOf(recorded)) : f.name = FirstOf(recorded).rec
            BY DEF resolvePath
        <3> QED BY <2>8, <3>1, <3>2, <3>3, <3>4
    <2>12. ASSUME Cardinality(names) = 1 PROVE \E x : names = {x}
        BY <2>3, <2>4, <2>12, FS_Subset, FS_Singleton
    <2>13. ASSUME FirstOf(Legs(c)).rec # None, NEW x, names = {x} PROVE CallDetail(c).recording = greatest
        <3>1. CallDetail(c).recording = FirstOf(Legs(c)).rec
            BY WireIs
        <3>2. FirstOf(Legs(c)) \in Legs(c)
            BY <2>1, FirstOfIs
        <3>3. FirstOf(Legs(c)).rec \in names
            BY <2>4, <2>13, <3>2 DEF all
        <3> QED BY <2>11, <2>13, <3>1, <3>3
    <2>14. greatest = None => Serve(c) = {}
        BY <2>6, <2>7, <2>8
    <2>15. greatest # None /\ ~night => Serve(c) # {}
        BY <2>6, <2>7, <2>10
    <2>16. Cardinality(names) = 1 =>
               /\ \A f \in Serve(c) : f.name = greatest
               /\ FirstOf(Legs(c)).rec # None => CallDetail(c).recording = greatest
        BY <2>11, <2>12, <2>13
    <2> QED BY <2>14, <2>15, <2>16 DEF names, greatest
<1> QED BY <1>1, Zenon DEF RecordingFound, Shown

\* Every recording that the list tells of is found, for every table.
THEOREM RecordingsFound == Spec => []RecordingFound
<1>1. IInv => TypeOK /\ TableInv
    BY DEF IInv
<1> QED BY <1>1, AlwaysIInv, RecordingsAreFound, PTL
-----------------------------------------------------------------------------
(***************************************************************************)
(* Counting.                                                               *)
(***************************************************************************)

\* The elements of a finite set can be numbered.
LEMMA Numbered ==
    ASSUME NEW I, IsFiniteSet(I)
    PROVE  \E e \in [I -> 1 .. Cardinality(I)] :
              /\ \A i, j \in I : e[i] = e[j] => i = j
              /\ \A n \in 1 .. Cardinality(I) : \E i \in I : e[i] = n
<1>1. ExistsBijection(I, 1 .. Cardinality(I))
    BY FS_CardinalityType, Fun_ExistsBijSymmetric
<1>2. PICK e : e \in Bijection(I, 1 .. Cardinality(I))
    BY <1>1 DEF ExistsBijection
<1> QED BY <1>2 DEF Bijection, Injection, Surjection, IsInjective

Part(b, k) == {i \in DOMAIN b : b[i] = k}
Pairs(size, K) == UNION {{k} \X (1 .. size[k]) : k \in K}

\* The sizes of the parts of a set add up to its own.
LEMMA SumOfParts ==
    ASSUME NEW b, IsFiniteSet(DOMAIN b), b = [i \in DOMAIN b |-> b[i]], NEW K, \A i \in DOMAIN b : b[i] \in K,
           NEW size, \A k \in K : size[k] = Cardinality(Part(b, k))
    PROVE  Cardinality(Pairs(size, K)) = Cardinality(DOMAIN b)
<1> DEFINE I == DOMAIN b
           Numbers(k, e) == /\ e \in [Part(b, k) -> 1 .. size[k]]
                            /\ \A i, j \in Part(b, k) : e[i] = e[j] => i = j
                            /\ \A n \in 1 .. size[k] : \E i \in Part(b, k) : e[i] = n
           number == [k \in K |-> CHOOSE e : Numbers(k, e)]
           h == [i \in I |-> <<b[i], number[b[i]][i]>>]
<1>1. ASSUME NEW k \in K PROVE Numbers(k, number[k])
    <2>1. IsFiniteSet(Part(b, k)) /\ size[k] = Cardinality(Part(b, k))
        BY FS_Subset DEF Part
    <2>2. \E e : Numbers(k, e)
        BY <2>1, Numbered
    <2>3. Numbers(k, CHOOSE e : Numbers(k, e))
        <3> HIDE DEF Numbers
        <3> QED BY <2>2, Zenon
    <2> QED BY <2>3
<1> HIDE DEF number
<1>2. \A i \in I : b[i] \in K /\ i \in Part(b, b[i])
    BY DEF Part
<1>3. ASSUME NEW i \in I, NEW j \in I, h[i] = h[j] PROVE i = j
    <2>1. b[i] = b[j] /\ number[b[i]][i] = number[b[i]][j]
        BY <1>3
    <2> QED BY <1>1, <1>2, <2>1
<1>4. \A x : x \in Pairs(size, K) <=> \E k \in K : \E n \in 1 .. size[k] : x = <<k, n>>
    BY DEF Pairs
<1>5. Pairs(size, K) = {h[i] : i \in I}
    <2>1. ASSUME NEW k \in K, NEW n \in 1 .. size[k] PROVE \E i \in I : <<k, n>> = h[i]
        <3>1. PICK i \in Part(b, k) : number[k][i] = n
            BY <1>1
        <3>2. i \in I /\ b[i] = k
            BY DEF Part
        <3> QED BY <3>1, <3>2
    <2>2. ASSUME NEW i \in I PROVE h[i] \in Pairs(size, K)
        <3>1. b[i] \in K /\ i \in Part(b, b[i])
            BY <1>2
        <3>2. number[b[i]] \in [Part(b, b[i]) -> 1 .. size[b[i]]]
            BY <1>1, <3>1
        <3>3. number[b[i]][i] \in 1 .. size[b[i]]
            BY <3>1, <3>2
        <3> QED BY <1>4, <3>1, <3>3
    <2> HIDE DEF h
    <2>3. ASSUME NEW x \in Pairs(size, K) PROVE \E i \in I : x = h[i]
        <3>1. PICK k \in K : \E n \in 1 .. size[k] : x = <<k, n>>
            BY <1>4
        <3>2. PICK n \in 1 .. size[k] : x = <<k, n>>
            BY <3>1
        <3>3. \E i \in I : <<k, n>> = h[i]
            BY <2>1
        <3> QED BY <3>2, <3>3
    <2> QED BY <2>2, <2>3
<1>6. Cardinality({h[i] : i \in I}) = Cardinality(I)
    <2>1. IsInjective(h) /\ h = [i \in I |-> h[i]]
        BY <1>3 DEF IsInjective
    <2> HIDE DEF h
    <2> QED BY <2>1, SizeOfImage
<1> QED BY <1>5, <1>6

LEMMA DisjointUnion ==
    ASSUME NEW S, NEW T, IsFiniteSet(S), IsFiniteSet(T), S \cap T = {}
    PROVE  /\ IsFiniteSet(S \cup T) /\ Cardinality(S \cup T) = Cardinality(S) + Cardinality(T)
           /\ Cardinality(S) \in Nat /\ Cardinality(T) \in Nat
<1>1. Cardinality(S \cap T) = 0
    BY FS_EmptySet
<1>2. Cardinality(S) \in Nat /\ Cardinality(T) \in Nat
    BY FS_CardinalityType
<1>3. /\ IsFiniteSet(S \cup T)
      /\ Cardinality(S \cup T) = Cardinality(S) + Cardinality(T) - Cardinality(S \cap T)
    BY FS_Union
<1> QED BY <1>1, <1>2, <1>3

\* The calls of a set end in one of four ways.
LEMMA FourOutcomes ==
    ASSUME NEW I, IsFiniteSet(I), NEW o \in [I -> Dispositions], NEW n,
           \A d \in Dispositions : n[d] = Cardinality({i \in I : o[i] = d})
    PROVE  /\ Cardinality(I) = n["ANSWERED"] + n["NO ANSWER"] + n["BUSY"] + n["FAILED"]
           /\ Cardinality({i \in I : o[i] # "ANSWERED"}) = Cardinality(I) - n["ANSWERED"]
<1> DEFINE part(d) == {i \in I : o[i] = d}
           A == part("ANSWERED")
           N == part("NO ANSWER")
           B == part("BUSY")
           F == part("FAILED")
<1>1. IsFiniteSet(A) /\ IsFiniteSet(N) /\ IsFiniteSet(B) /\ IsFiniteSet(F)
    BY FS_Subset
<1>2. /\ Cardinality(A) = n["ANSWERED"] /\ Cardinality(N) = n["NO ANSWER"]
      /\ Cardinality(B) = n["BUSY"] /\ Cardinality(F) = n["FAILED"]
    BY DEF Dispositions
<1>3. /\ I = ((A \cup N) \cup B) \cup F
      /\ A \cap N = {} /\ (A \cup N) \cap B = {} /\ ((A \cup N) \cup B) \cap F = {}
      /\ {i \in I : o[i] # "ANSWERED"} = I \ A /\ I \cap A = A
    BY DEF Dispositions
<1> HIDE DEF A, N, B, F
<1>4. IsFiniteSet(A \cup N) /\ Cardinality(A \cup N) = Cardinality(A) + Cardinality(N)
    BY <1>1, <1>3, DisjointUnion
<1>5. /\ IsFiniteSet((A \cup N) \cup B)
      /\ Cardinality((A \cup N) \cup B) = Cardinality(A \cup N) + Cardinality(B)
    BY <1>1, <1>3, <1>4, DisjointUnion
<1>6. Cardinality(((A \cup N) \cup B) \cup F) = Cardinality((A \cup N) \cup B) + Cardinality(F)
    BY <1>1, <1>3, <1>5, DisjointUnion
<1>7. Cardinality(I \ A) = Cardinality(I) - Cardinality(A)
    <2>1. Cardinality(I \ A) = Cardinality(I) - Cardinality(I \cap A)
        BY FS_Difference
    <2>2. I \cap A = A
        BY <1>3
    <2> QED BY <2>1, <2>2
<1>8. Cardinality(I) = Cardinality(A) + Cardinality(N) + Cardinality(B) + Cardinality(F)
    BY <1>3, <1>4, <1>5, <1>6
<1>9. Cardinality({i \in I : o[i] # "ANSWERED"}) = Cardinality(I) - Cardinality(A)
    BY <1>3, <1>7
<1> QED BY <1>2, <1>8, <1>9
-----------------------------------------------------------------------------
(***************************************************************************)
(* The fleet and the ring groups.                                          *)
(***************************************************************************)

LEMMA WindowIs ==
    ASSUME TypeOK, IsFiniteSet(cdr), NEW w
    PROVE  /\ IsFiniteSet(InWindow(w))
           /\ \A c : c \in InWindow(w) <=> LegsIn(w, c) # {}
           /\ \A K : K \subseteq InWindow(w) => IsFiniteSet(K)
<1>1. InWindow(w) \subseteq {r.call : r \in cdr}
    BY DEF InWindow, LegsIn, Legs
<1>2. IsFiniteSet(InWindow(w))
    BY <1>1, CallsOfRows, FS_Subset
<1>3. \A c : c \in InWindow(w) <=> LegsIn(w, c) # {}
    <2>1. ASSUME NEW c, LegsIn(w, c) # {} PROVE c \in Calls
        BY <2>1, RowsAre DEF LegsIn, Legs
    <2> QED BY <2>1 DEF InWindow
<1> QED BY <1>2, <1>3, FS_Subset

\* The calls of a bucket, and those that ended in one way.
In(w, calls, key, k) == {c \in calls : key[When(LegsIn(w, c))] = k}
Ended(w, calls, d) == {c \in calls : Outcome(LegsIn(w, c)) = d}
Keys(w, calls, key) == {key[When(LegsIn(w, c))] : c \in calls}

\* A field counts the calls J; the buckets are those of a histogram of calls, with
\* empty ones, perhaps.
Counts(w, J, key, buckets, field) ==
    /\ IsFiniteSet(J)
    /\ \A c \in J : key[When(LegsIn(w, c))] \in DOMAIN buckets
    /\ \A k \in DOMAIN buckets : buckets[k][field] = Cardinality(In(w, J, key, k))

Filled(w, calls, key, buckets) ==
    /\ \A c \in calls : key[When(LegsIn(w, c))] \in DOMAIN buckets
    /\ \A k \in DOMAIN buckets :
           buckets[k] = IF k \in Keys(w, calls, key) THEN Buckets(w, calls, key)[k]
                        ELSE [total |-> 0, answered |-> 0, missed |-> 0]

\* One kind of number of a histogram adds up to the calls it counts.
LEMMA FieldAddsUp ==
    ASSUME NEW w, NEW J, NEW key, NEW buckets, NEW field, Counts(w, J, key, buckets, field)
    PROVE  Sum(buckets, field) = Cardinality(J)
<1> DEFINE b == [c \in J |-> key[When(LegsIn(w, c))]]
           K == DOMAIN buckets
           size == [k \in K |-> buckets[k][field]]
<1>1. DOMAIN b = J /\ b = [c \in J |-> b[c]] /\ \A c \in J : b[c] = key[When(LegsIn(w, c))]
    OBVIOUS
<1>2. \A k \in K : size[k] = buckets[k][field]
    OBVIOUS
<1> HIDE DEF b, size
<1>3. \A k : Part(b, k) = In(w, J, key, k)
    BY <1>1 DEF Part, In
<1>4. \A c \in J : b[c] \in K
    BY <1>1 DEF Counts
<1>5. \A k \in K : size[k] = Cardinality(Part(b, k))
    BY <1>2, <1>3 DEF Counts
<1>6. Pairs(size, K) = UNION {{k} \X (1 .. buckets[k][field]) : k \in K}
    BY <1>2 DEF Pairs
<1> HIDE DEF K
<1>7. Cardinality(Pairs(size, K)) = Cardinality(DOMAIN b)
    BY <1>1, <1>4, <1>5, SumOfParts DEF Counts
<1> QED BY <1>1, <1>6, <1>7 DEF Sum, K

\* Names for the dispositions and fields that are counted; the provers reason about
\* names better than about strings.
Named(a, m, t, f, g) ==
    a = "ANSWERED" /\ m = "NO ANSWER" /\ t = "total" /\ f = "answered" /\ g = "missed"

\* What a bucket counts.
LEMMA BucketIs ==
    ASSUME NEW w, NEW calls, NEW key, NEW buckets, Filled(w, calls, key, buckets), NEW k \in DOMAIN buckets,
           NEW a, NEW m, NEW t, NEW f, NEW g, Named(a, m, t, f, g)
    PROVE  /\ buckets[k][t] = Cardinality(In(w, calls, key, k))
           /\ buckets[k][f] = Cardinality(In(w, Ended(w, calls, a), key, k))
           /\ buckets[k][g] = Cardinality(In(w, Ended(w, calls, m), key, k))
<1>1. \A d : Ended(w, In(w, calls, key, k), d) = In(w, Ended(w, calls, d), key, k)
    BY DEF Ended, In
<1>2. CASE k \in Keys(w, calls, key)
    <2>1. /\ Buckets(w, calls, key)[k][t] = Cardinality(In(w, calls, key, k))
          /\ Buckets(w, calls, key)[k][f] = Cardinality(Ended(w, In(w, calls, key, k), a))
          /\ Buckets(w, calls, key)[k][g] = Cardinality(Ended(w, In(w, calls, key, k), m))
        BY <1>2 DEF Buckets, In, Ended, Keys, Named
    <2>2. buckets[k] = Buckets(w, calls, key)[k]
        BY <1>2 DEF Filled
    <2>3. /\ Ended(w, In(w, calls, key, k), a) = In(w, Ended(w, calls, a), key, k)
          /\ Ended(w, In(w, calls, key, k), m) = In(w, Ended(w, calls, m), key, k)
        BY <1>1, Zenon
    <2>4. buckets[k][t] = Cardinality(In(w, calls, key, k))
        BY <2>1, <2>2, Zenon
    <2>5. buckets[k][f] = Cardinality(In(w, Ended(w, calls, a), key, k))
        BY <2>1, <2>2, <2>3, Zenon
    <2>6. buckets[k][g] = Cardinality(In(w, Ended(w, calls, m), key, k))
        BY <2>1, <2>2, <2>3, Zenon
    <2> QED BY <2>4, <2>5, <2>6, Zenon
<1>3. CASE k \notin Keys(w, calls, key)
    <2> DEFINE none == [total |-> 0, answered |-> 0, missed |-> 0]
    <2>1. none[t] = 0 /\ none[f] = 0 /\ none[g] = 0
        BY DEF Named
    <2>2. buckets[k] = none
        BY <1>3 DEF Filled
    <2> HIDE DEF none
    <2>3. buckets[k][t] = 0 /\ buckets[k][f] = 0 /\ buckets[k][g] = 0
        BY <2>1, <2>2, Zenon
    <2>4. In(w, calls, key, k) = {} /\ \A d : In(w, Ended(w, calls, d), key, k) = {}
        BY <1>3 DEF In, Ended, Keys
    <2>5. Cardinality({}) = 0
        BY FS_EmptySet
    <2> QED BY <2>3, <2>4, <2>5, Zenon
<1> QED BY <1>2, <1>3, Zenon

\* The buckets of a histogram hold all of the calls, and of each outcome all.
LEMMA BucketsAddUp ==
    ASSUME NEW w, NEW calls, IsFiniteSet(calls), NEW key, NEW buckets, Filled(w, calls, key, buckets),
           NEW a, NEW m, NEW t, NEW f, NEW g, Named(a, m, t, f, g)
    PROVE  /\ Sum(buckets, t) = Cardinality(calls)
           /\ Sum(buckets, f) = Cardinality(Ended(w, calls, a))
           /\ Sum(buckets, g) = Cardinality(Ended(w, calls, m))
<1>1. ASSUME NEW k \in DOMAIN buckets
      PROVE  /\ buckets[k][t] = Cardinality(In(w, calls, key, k))
             /\ buckets[k][f] = Cardinality(In(w, Ended(w, calls, a), key, k))
             /\ buckets[k][g] = Cardinality(In(w, Ended(w, calls, m), key, k))
    BY BucketIs
<1>2. \A d : IsFiniteSet(Ended(w, calls, d)) /\ Ended(w, calls, d) \subseteq calls
    BY FS_Subset DEF Ended
<1>3. \A c \in calls : key[When(LegsIn(w, c))] \in DOMAIN buckets
    BY DEF Filled
<1>4. Counts(w, calls, key, buckets, t)
    BY <1>1, <1>3, Zenon DEF Counts
<1>5. Counts(w, Ended(w, calls, a), key, buckets, f)
    BY <1>1, <1>2, <1>3, Zenon DEF Counts
<1>6. Counts(w, Ended(w, calls, m), key, buckets, g)
    BY <1>1, <1>2, <1>3, Zenon DEF Counts
<1>7. Sum(buckets, t) = Cardinality(calls)
    BY <1>4, FieldAddsUp
<1>8. Sum(buckets, f) = Cardinality(Ended(w, calls, a))
    BY <1>5, FieldAddsUp
<1>9. Sum(buckets, g) = Cardinality(Ended(w, calls, m))
    BY <1>6, FieldAddsUp
<1> QED BY <1>7, <1>8, <1>9, Zenon

\* So do those of a histogram as it is.
LEMMA HistogramAddsUp ==
    ASSUME NEW w, NEW calls, IsFiniteSet(calls), NEW key
    PROVE  /\ Sum(Buckets(w, calls, key), "total") = Cardinality(calls)
           /\ Sum(Buckets(w, calls, key), "answered") = Cardinality(Ended(w, calls, "ANSWERED"))
           /\ Sum(Buckets(w, calls, key), "missed") = Cardinality(Ended(w, calls, "NO ANSWER"))
<1> DEFINE buckets == Buckets(w, calls, key)
<1>1. DOMAIN buckets = Keys(w, calls, key)
    BY DEF Buckets, Keys
<1>2. \A c \in calls : key[When(LegsIn(w, c))] \in Keys(w, calls, key)
    BY DEF Keys
<1>3. Filled(w, calls, key, buckets)
    BY <1>1, <1>2 DEF Filled
<1> HIDE DEF buckets
<1>4. ASSUME NEW a, NEW m, NEW t, NEW f, NEW g, Named(a, m, t, f, g)
      PROVE  /\ Sum(buckets, t) = Cardinality(calls)
             /\ Sum(buckets, f) = Cardinality(Ended(w, calls, a))
             /\ Sum(buckets, g) = Cardinality(Ended(w, calls, m))
    BY <1>3, <1>4, BucketsAddUp
<1>5. PICK a, m, t, f, g : Named(a, m, t, f, g)
    BY Zenon DEF Named
<1>6. /\ Sum(buckets, t) = Cardinality(calls)
      /\ Sum(buckets, f) = Cardinality(Ended(w, calls, a))
      /\ Sum(buckets, g) = Cardinality(Ended(w, calls, m))
    BY <1>4, <1>5
<1>7. a = "ANSWERED" /\ m = "NO ANSWER" /\ t = "total" /\ f = "answered" /\ g = "missed"
    BY <1>5 DEF Named
<1> QED BY <1>6, <1>7, Zenon DEF buckets

\* A call without the Answer() of a dialplan counts as it is shown.
LEMMA OutcomeIsShown ==
    ASSUME NEW w, NEW c, ~SystemAnswered(c)
    PROVE  /\ Outcome(LegsIn(w, c)) = FinalDisposition(LegsIn(w, c))
           /\ GroupOutcome(LegsIn(w, c)) # "ANSWERED" <=> FinalDisposition(LegsIn(w, c)) # "ANSWERED"
<1> DEFINE L == LegsIn(w, c)
<1>1. (\E r \in L : Real(r)) <=> \E r \in L : r.disp = "ANSWERED"
    BY DEF LegsIn, SystemAnswered, Real
<1> HIDE DEF L
<1>2. /\ Outcome(L) = FinalDisposition(L)
      /\ GroupOutcome(L) # "ANSWERED" <=> FinalDisposition(L) # "ANSWERED"
    BY <1>1, DispositionsAre
<1> QED BY <1>2 DEF L

LEMMA OverviewAddsUp ==
    ASSUME TypeOK, IsFiniteSet(cdr), NEW w
    PROVE  /\ OverviewResponse(w).total = Cardinality(InWindow(w))
           /\ OverviewResponse(w).answered = Cardinality(Ended(w, InWindow(w), "ANSWERED"))
           /\ OverviewResponse(w).total =
                  OverviewResponse(w).answered + OverviewResponse(w).missed
                      + OverviewResponse(w).busy + OverviewResponse(w).failed
<1> DEFINE I == InWindow(w)
           o == [c \in I |-> Outcome(LegsIn(w, c))]
           n == [d \in Dispositions |-> Cardinality({c \in I : o[c] = d})]
           p == OverviewResponse(w)
<1>1. o \in [I -> Dispositions] /\ \A c \in I : o[c] = Outcome(LegsIn(w, c))
    BY DispositionsAre
<1>2. \A d \in Dispositions : n[d] = Cardinality({c \in I : o[c] = d})
    OBVIOUS
<1>3. \A d \in Dispositions : Overview(w)[d] = {c \in I : o[c] = d}
    BY <1>1 DEF Overview
<1>4. /\ p.total = Cardinality(I)
      /\ p.answered = Cardinality(Overview(w)["ANSWERED"])
      /\ p.missed = Cardinality(Overview(w)["NO ANSWER"])
      /\ p.busy = Cardinality(Overview(w)["BUSY"])
      /\ p.failed = Cardinality(Overview(w)["FAILED"])
    BY DEF OverviewResponse
<1>5. {"ANSWERED", "NO ANSWER", "BUSY", "FAILED"} = Dispositions
    BY DEF Dispositions
<1>6. Overview(w)["ANSWERED"] = Ended(w, InWindow(w), "ANSWERED")
    BY DEF Overview, Ended, Dispositions
<1> HIDE DEF o, n, p
<1>7. /\ p.answered = n["ANSWERED"] /\ p.missed = n["NO ANSWER"]
      /\ p.busy = n["BUSY"] /\ p.failed = n["FAILED"]
    BY <1>2, <1>3, <1>4, <1>5
<1>8. IsFiniteSet(I)
    BY WindowIs
<1> HIDE DEF I
<1>9. Cardinality(I) = n["ANSWERED"] + n["NO ANSWER"] + n["BUSY"] + n["FAILED"]
    BY <1>1, <1>2, <1>8, FourOutcomes
<1>10. p.total = p.answered + p.missed + p.busy + p.failed
    BY <1>4, <1>7, <1>9
<1>11. p.answered = Cardinality(Ended(w, InWindow(w), "ANSWERED"))
    BY <1>4, <1>6, Zenon
<1> QED BY <1>4, <1>10, <1>11 DEF p, I

LEMMA GroupAddsUp ==
    ASSUME TypeOK, IsFiniteSet(cdr), NEW w, NEW g
    PROVE  /\ RingGroupStats(w, g).total =
                  RingGroupStats(w, g).answered + RingGroupStats(w, g).noAnswer
                      + RingGroupStats(w, g).allBusy + RingGroupStats(w, g).failed
           /\ Cardinality(MissedBy(w, g)) = RingGroupStats(w, g).total - RingGroupStats(w, g).answered
<1> DEFINE I == RoutedTo(w, g)
           o == [c \in I |-> GroupOutcome(LegsIn(w, c))]
           n == [d \in Dispositions |-> Cardinality({c \in I : o[c] = d})]
           p == RingGroupStats(w, g)
           of(d) == {c \in I : GroupOutcome(LegsIn(w, c)) = d}
<1>1. o \in [I -> Dispositions] /\ \A c \in I : o[c] = GroupOutcome(LegsIn(w, c))
    BY DispositionsAre
<1>2. \A d \in Dispositions : n[d] = Cardinality({c \in I : o[c] = d})
    OBVIOUS
<1>3. /\ p.total = Cardinality(I)
      /\ p.answered = Cardinality(of("ANSWERED"))
      /\ p.noAnswer = Cardinality(of("NO ANSWER"))
      /\ p.allBusy = Cardinality(of("BUSY"))
      /\ p.failed = Cardinality(of("FAILED"))
    BY DEF RingGroupStats
<1>4. \A d : of(d) = {c \in I : o[c] = d}
    BY <1>1
<1>5. MissedBy(w, g) = {c \in I : o[c] # "ANSWERED"}
    BY <1>1 DEF MissedBy
<1>6. IsFiniteSet(I)
    <2>1. I \subseteq InWindow(w)
        BY DEF RoutedTo, InWindow
    <2> QED BY <2>1, WindowIs
<1>7. {"ANSWERED", "NO ANSWER", "BUSY", "FAILED"} = Dispositions
    BY DEF Dispositions
<1> HIDE DEF o, n, p, I, of
<1>8. /\ p.answered = n["ANSWERED"] /\ p.noAnswer = n["NO ANSWER"]
      /\ p.allBusy = n["BUSY"] /\ p.failed = n["FAILED"]
    BY <1>2, <1>3, <1>4, <1>7, Zenon
<1>9. /\ Cardinality(I) = n["ANSWERED"] + n["NO ANSWER"] + n["BUSY"] + n["FAILED"]
      /\ Cardinality({c \in I : o[c] # "ANSWERED"}) = Cardinality(I) - n["ANSWERED"]
    BY <1>1, <1>2, <1>6, FourOutcomes
<1>10. p.total = p.answered + p.noAnswer + p.allBusy + p.failed
    BY <1>3, <1>8, <1>9
<1>11. Cardinality(MissedBy(w, g)) = p.total - p.answered
    BY <1>3, <1>5, <1>8, <1>9
<1> QED BY <1>10, <1>11 DEF p

LEMMA StatsAddUp == TypeOK /\ IsFiniteSet(cdr) => StatsAgree
<1> SUFFICES ASSUME TypeOK, IsFiniteSet(cdr), NEW w \in Windows
             PROVE  /\ \A c \in Listed(w, "", "") :
                           ~SystemAnswered(c) => c \in Overview(w)[FinalDisposition(LegsIn(w, c))]
                    /\ LET o == OverviewResponse(w)
                       IN  /\ o.total = o.answered + o.missed + o.busy + o.failed
                           /\ Sum(overviewSeries(w), "total") = o.total
                           /\ Sum(overviewSeries(w), "answered") = o.answered
                    /\ \A g \in Groups :
                           LET s == RingGroupStats(w, g)
                           IN  /\ s.total = s.answered + s.noAnswer + s.allBusy + s.failed
                               /\ \A c \in RoutedTo(w, g) : ~SystemAnswered(c) =>
                                      (c \in MissedBy(w, g) <=> FinalDisposition(LegsIn(w, c)) # "ANSWERED")
                               /\ \A M \in MissedLists(w, g) :
                                      Cardinality(M) = Min({MissedLimit, s.total - s.answered})
    BY Zenon DEF StatsAgree
<1>1. ASSUME NEW c \in Listed(w, "", ""), ~SystemAnswered(c)
      PROVE  c \in Overview(w)[FinalDisposition(LegsIn(w, c))]
    <2>1. c \in InWindow(w)
        BY DEF Listed, InWindow
    <2>2. Outcome(LegsIn(w, c)) = FinalDisposition(LegsIn(w, c)) /\ Outcome(LegsIn(w, c)) \in Dispositions
        BY <1>1, OutcomeIsShown, DispositionsAre, Zenon
    <2>3. ASSUME NEW d \in Dispositions, Outcome(LegsIn(w, c)) = d PROVE c \in Overview(w)[d]
        BY <2>1, <2>3 DEF Overview
    <2> QED BY <2>2, <2>3, Zenon
<1>2. /\ OverviewResponse(w).total =
             OverviewResponse(w).answered + OverviewResponse(w).missed
                 + OverviewResponse(w).busy + OverviewResponse(w).failed
      /\ Sum(overviewSeries(w), "total") = OverviewResponse(w).total
      /\ Sum(overviewSeries(w), "answered") = OverviewResponse(w).answered
    <2>1. IsFiniteSet(InWindow(w))
        BY WindowIs
    <2>2. /\ Sum(overviewSeries(w), "total") = Cardinality(InWindow(w))
          /\ Sum(overviewSeries(w), "answered") = Cardinality(Ended(w, InWindow(w), "ANSWERED"))
        <3> DEFINE calls == InWindow(w)
        <3>1. overviewSeries(w) = Buckets(w, calls, Day)
            BY Zenon DEF overviewSeries
        <3>2. IsFiniteSet(calls)
            BY <2>1
        <3> HIDE DEF calls
        <3>3. /\ Sum(Buckets(w, calls, Day), "total") = Cardinality(calls)
              /\ Sum(Buckets(w, calls, Day), "answered") = Cardinality(Ended(w, calls, "ANSWERED"))
              /\ Sum(Buckets(w, calls, Day), "missed") = Cardinality(Ended(w, calls, "NO ANSWER"))
            BY <3>2, HistogramAddsUp, Zenon
        <3> QED BY <3>1, <3>3, Zenon DEF calls
    <2> QED BY <2>2, OverviewAddsUp, Zenon
<1>3. ASSUME NEW g \in Groups
      PROVE  /\ RingGroupStats(w, g).total =
                    RingGroupStats(w, g).answered + RingGroupStats(w, g).noAnswer
                        + RingGroupStats(w, g).allBusy + RingGroupStats(w, g).failed
             /\ \A c \in RoutedTo(w, g) : ~SystemAnswered(c) =>
                    (c \in MissedBy(w, g) <=> FinalDisposition(LegsIn(w, c)) # "ANSWERED")
             /\ \A M \in MissedLists(w, g) :
                    Cardinality(M) = Min({MissedLimit, RingGroupStats(w, g).total - RingGroupStats(w, g).answered})
    <2>1. ASSUME NEW c \in RoutedTo(w, g), ~SystemAnswered(c)
          PROVE  c \in MissedBy(w, g) <=> FinalDisposition(LegsIn(w, c)) # "ANSWERED"
        <3>1. GroupOutcome(LegsIn(w, c)) # "ANSWERED" <=> FinalDisposition(LegsIn(w, c)) # "ANSWERED"
            BY <2>1, OutcomeIsShown, Zenon
        <3> QED BY <3>1, Zenon DEF MissedBy
    <2>2. \A M \in MissedLists(w, g) : Cardinality(M) = Min({MissedLimit, Cardinality(MissedBy(w, g))})
        BY Zenon DEF MissedLists
    <2>3. /\ RingGroupStats(w, g).total =
                 RingGroupStats(w, g).answered + RingGroupStats(w, g).noAnswer
                     + RingGroupStats(w, g).allBusy + RingGroupStats(w, g).failed
          /\ Cardinality(MissedBy(w, g)) = RingGroupStats(w, g).total - RingGroupStats(w, g).answered
        BY GroupAddsUp, Zenon
    <2> QED BY <2>1, <2>2, <2>3, Zenon
<1> QED BY <1>1, <1>2, <1>3, Zenon

\* The overview and the ring groups count each call once, with the disposition the
\* list shows, and their sums and histograms add up.
THEOREM StatsAgreeWithList == Spec => []StatsAgree
<1>1. IInv => TypeOK /\ IsFiniteSet(cdr)
    BY DEF IInv, TableInv
<1> QED BY <1>1, AlwaysIInv, StatsAddUp, PTL
-----------------------------------------------------------------------------
(***************************************************************************)
(* An extension.                                                           *)
(***************************************************************************)

LEMMA NumberIs ==
    /\ None \notin Numeric
    /\ \A ch, x : x \in Numeric => (NumberIn(ch) = x <=> ch = x)
    /\ \A ch : NumberIn(ch) # None => NumberIn(ch) \in Numeric
BY CallRecordsAssumption DEF NumberIn

LEMMA LegsAreRows ==
    ASSUME TypeOK, NEW w
    PROVE  /\ \A r, c : r \in LegsIn(w, c) <=> r \in Rows(w) /\ r.call = c
           /\ Rows(w) \subseteq cdr
<1>1. \A r, c : r \in LegsIn(w, c) => r \in cdr /\ r.call = c /\ c \in Calls
    BY RowsAre DEF LegsIn, Legs
<1>2. \A r : r \in Rows(w) <=> \E c \in Calls : r \in LegsIn(w, c)
    BY DEF Rows
<1> QED BY <1>1, <1>2

\* A row makes an extension party to its call.
Party(r, x) == r.chan = x \/ (r.disp = "ANSWERED" /\ r.dstchan = x)

LEMMA FilteredIs ==
    ASSUME TypeOK, NEW w, NEW x
    PROVE  \A c : c \in FilteredBy(w, x) <=> \E r \in Rows(w) : r.call = c /\ Party(r, x)
<1>1. \A c : c \in FilteredBy(w, x) <=> c \in Calls /\ \E r \in LegsIn(w, c) : Party(r, x)
    BY DEF FilteredBy, Party
<1>2. \A r \in Rows(w) : r.call \in Calls
    BY LegsAreRows, RowsAre
<1> QED BY <1>1, <1>2, LegsAreRows

LEMMA PartiesAre ==
    ASSUME TypeOK, NEW w
    PROVE  /\ \A p \in Parties(w) : p = <<p[1], p[2]>> /\ (p[2] # None => p[2] \in Numeric)
           /\ \A x \in Numeric : \A c : <<c, x>> \in Parties(w) <=> c \in FilteredBy(w, x)
<1>1. \A p : p \in Parties(w) <=>
          \E r \in Rows(w) : \/ p = <<r.call, NumberIn(r.chan)>>
                             \/ r.disp = "ANSWERED" /\ p = <<r.call, NumberIn(r.dstchan)>>
    BY DEF Parties, Rows
<1>2. \A x \in Numeric : \A r : Party(r, x) <=>
          NumberIn(r.chan) = x \/ (r.disp = "ANSWERED" /\ NumberIn(r.dstchan) = x)
    BY NumberIs DEF Party
<1>3. \A p \in Parties(w) : p = <<p[1], p[2]>> /\ (p[2] # None => p[2] \in Numeric)
    BY <1>1, NumberIs
<1>4. ASSUME NEW x \in Numeric, NEW c PROVE <<c, x>> \in Parties(w) <=> c \in FilteredBy(w, x)
    BY <1>1, <1>2, FilteredIs
<1> QED BY <1>3, <1>4

LEMMA StatsAre ==
    ASSUME TypeOK, IsFiniteSet(cdr), NEW w
    PROVE  /\ \A x : x \in DOMAIN ListExtensionStats(w) <=> x \in Numeric /\ FilteredBy(w, x) # {}
           /\ \A x \in DOMAIN ListExtensionStats(w) : ListExtensionStats(w)[x] = FilteredBy(w, x)
           /\ IsFiniteSet(DOMAIN ListExtensionStats(w))
           /\ countExtensions(w) = Cardinality(DOMAIN ListExtensionStats(w))
<1> DEFINE P == {p \in Parties(w) : p[2] # None}
           stats == ListExtensionStats(w)
           D == DOMAIN stats
<1>1. stats = [x \in {p[2] : p \in P} |-> {p[1] : p \in {q \in P : q[2] = x}}]
    BY DEF ListExtensionStats
<1>2. \A c : \A x : <<c, x>> \in P <=> x \in Numeric /\ c \in FilteredBy(w, x)
    BY PartiesAre, NumberIs
<1>3. \A p \in P : p = <<p[1], p[2]>>
    BY PartiesAre
<1> HIDE DEF P
<1>4. \A x : x \in D <=> \E c : <<c, x>> \in P
    <2>1. D = {p[2] : p \in P}
        BY <1>1
    <2> HIDE DEF D
    <2>2. ASSUME NEW x, x \in D PROVE \E c : <<c, x>> \in P
        <3>1. PICK p \in P : p[2] = x
            BY <2>1, <2>2
        <3>2. p = <<p[1], x>>
            BY <1>3, <3>1
        <3> QED BY <3>2
    <2>3. ASSUME NEW x, NEW c, <<c, x>> \in P PROVE x \in D
        <3>1. <<c, x>>[2] = x
            OBVIOUS
        <3> QED BY <2>1, <2>3, <3>1
    <2> QED BY <2>2, <2>3
<1>5. \A x : x \in D <=> x \in Numeric /\ FilteredBy(w, x) # {}
    BY <1>2, <1>4
<1>6. ASSUME NEW x \in D PROVE stats[x] = FilteredBy(w, x)
    <2>1. stats[x] = {p[1] : p \in {q \in P : q[2] = x}}
        BY <1>1
    <2>2. \A c : c \in stats[x] <=> <<c, x>> \in P
        BY <1>3, <2>1
    <2>3. \A c \in stats[x] : c \in FilteredBy(w, x)
        BY <1>2, <2>2
    <2>4. \A c \in FilteredBy(w, x) : c \in stats[x]
        BY <1>2, <1>5, <2>2
    <2> HIDE DEF stats
    <2> QED BY <2>3, <2>4
<1> HIDE DEF stats
<1>7. \A x : x \in D <=> x \in Numeric /\ \E r \in Rows(w) : Party(r, x)
    BY <1>5, FilteredIs
<1>8. IsFiniteSet(D)
    <2> DEFINE f == [r \in cdr |-> r.chan]
               g == [r \in cdr |-> r.dstchan]
    <2>1. f = [r \in cdr |-> f[r]] /\ g = [r \in cdr |-> g[r]]
        OBVIOUS
    <2>2. D \subseteq {f[r] : r \in cdr} \cup {g[r] : r \in cdr}
        BY <1>7, LegsAreRows DEF Party
    <2> HIDE DEF f, g
    <2>3. IsFiniteSet({f[r] : r \in cdr}) /\ IsFiniteSet({g[r] : r \in cdr})
        BY <2>1, SizeOfImage
    <2>4. IsFiniteSet({f[r] : r \in cdr} \cup {g[r] : r \in cdr})
        BY <2>3, FS_Union
    <2> QED BY <2>2, <2>4, FS_Subset
<1>9. countExtensions(w) = Cardinality(D)
    <2> DEFINE Q == ({NumberIn(r.chan) : r \in Rows(w)}
                       \cup {NumberIn(r.dstchan) : r \in {q \in Rows(w) : q.disp = "ANSWERED"}}) \ {None}
    <2>1. \A x : x \in Q <=> x # None /\ \E r \in Rows(w) : \/ NumberIn(r.chan) = x
                                                            \/ r.disp = "ANSWERED" /\ NumberIn(r.dstchan) = x
        OBVIOUS
    <2>2. countExtensions(w) = Cardinality(Q)
        BY DEF countExtensions
    <2> HIDE DEF Q
    <2>3. \A x \in Q : x \in Numeric
        BY <2>1, NumberIs
    <2>4. \A x \in Numeric : x \in Q <=> \E r \in Rows(w) : Party(r, x)
        BY <2>1, NumberIs DEF Party
    <2>5. Q = D
        BY <1>7, <2>3, <2>4
    <2> QED BY <2>2, <2>5
<1> QED BY <1>5, <1>6, <1>8, <1>9 DEF stats

\* Names of one kind are not of another.
LEMMA KindsAre ==
    /\ Names \subseteq Nat
    /\ \A ch : ch \in Numeric => ch \notin Trunks \cup {None} /\ ExtractExtension(ch) = ch /\ ch # None
    /\ \A ch : ch \in Trunks \cup {None} => ch \notin Numeric /\ ExtractExtension(ch) = None
<1>1. Names \subseteq Nat
    BY CallRecordsAssumption DEF Names, None
<1>2. /\ \A g \in Groups : g \in Nat /\ g # None
      /\ \A x \in Numeric : x \in Nat /\ x # None
      /\ \A x \in Agents : x \in Nat /\ x # None
      /\ \A t \in Trunks : t \in Nat /\ t # None
    BY CallRecordsAssumption
<1>3. \A t \in Trunks : t \notin Groups /\ t \notin Numeric /\ t \notin Agents
    <2>1. \A g \in Groups, t \in Trunks : g < t
        BY CallRecordsAssumption
    <2>2. \A x \in Numeric, t \in Trunks : x < t
        BY CallRecordsAssumption
    <2>3. \A a \in Agents, t \in Trunks : a < t
        BY CallRecordsAssumption
    <2> QED BY <1>2, <2>1, <2>2, <2>3
<1> QED BY <1>1, <1>2, <1>3 DEF ExtractExtension

\* The least channel says as much as the first, if all are of one kind.
LEMMA DirectionAgrees ==
    ASSUME TypeOK, NEW w, NEW c, LegsIn(w, c) # {}, Plain(LegsIn(w, c)), LegsIn(w, c) = Legs(c), ~SelfCall(c)
    PROVE  StatsDirection(LegsIn(w, c)) = CallRow(w, c).direction
<1> DEFINE L == Legs(c)
           C == {r.chan : r \in L}
           D == {r.dstchan : r \in L}
           first == FirstOf(L)
           src == ExtractExtension(first.chan)
           dst == ExtractExtension(first.dstchan)
<1>1. L \subseteq cdr /\ L # {}
    BY DEF Legs
<1>2. first \in L
    BY <1>1, FirstOfIs
<1>3. \A r \in L : r.chan \in Nat /\ r.dstchan \in Nat
    BY <1>1, RowsAre, KindsAre
<1>4. C \subseteq Nat /\ C # {} /\ D \subseteq Nat /\ D # {}
    BY <1>1, <1>3
<1>5. Min(C) \in C /\ Min(D) \in D
    <2> HIDE DEF C, D
    <2> QED BY <1>4, MinIs
<1>6. Min(C) \in Numeric <=> src # None
    <2>1. PICK from \in {Numeric, Trunks} : \A r \in L : r.chan \in from
        BY DEF Plain
    <2>2. Min(C) \in from /\ first.chan \in from
        BY <1>2, <1>5, <2>1
    <2>3. from = Numeric \/ from \subseteq Trunks \cup {None}
        BY <2>1
    <2> HIDE DEF C, first, L
    <2> QED BY <2>2, <2>3, KindsAre
<1>7. Min(D) \in Numeric <=> dst # None
    <2>1. PICK to \in {Numeric, Trunks \cup {None}} : \A r \in L : r.dstchan \in to
        BY DEF Plain
    <2>2. Min(D) \in to /\ first.dstchan \in to
        BY <1>2, <1>5, <2>1
    <2>3. to = Numeric \/ to \subseteq Trunks \cup {None}
        BY <2>1
    <2> HIDE DEF D, first, L
    <2> QED BY <2>2, <2>3, KindsAre
<1>8. src # None => src # dst
    BY DEF SelfCall
<1>9. CallRow(w, c).direction = inferDirection(first.chan, first.dstchan)
    BY WireIs
<1>10. inferDirection(first.chan, first.dstchan) =
          CASE src # None /\ dst # None /\ src # dst -> "internal"
            [] src = None /\ dst # None -> "inbound"
            [] src # None /\ dst = None -> "outbound"
            [] OTHER -> "unknown"
    BY DEF inferDirection
<1>11. StatsDirection(L) =
          CASE Min(C) \in Numeric /\ ~(Min(D) \in Numeric) -> "outbound"
            [] ~(Min(C) \in Numeric) /\ Min(D) \in Numeric -> "inbound"
            [] Min(C) \in Numeric /\ Min(D) \in Numeric -> "internal"
            [] OTHER -> "unknown"
    BY DEF StatsDirection
<1> HIDE DEF C, D, src, dst, first, L
<1>12. StatsDirection(L) = CallRow(w, c).direction
    BY <1>6, <1>7, <1>8, <1>9, <1>10, <1>11
<1> QED BY <1>12 DEF L

\* The row of an extension, empty if it is in no call.
RowFor(w, x) == IF x \in DOMAIN ListExtensionStats(w) THEN extensionStatToProto(w, x) ELSE NoStat

LEMMA RowIs ==
    ASSUME TypeOK, IsFiniteSet(cdr), NEW w, NEW x \in Numeric
    PROVE  /\ RowFor(w, x).total = Cardinality(FilteredBy(w, x))
           /\ RowFor(w, x).answered = Cardinality(Ended(w, FilteredBy(w, x), "ANSWERED"))
           /\ RowFor(w, x).missed = Cardinality(Ended(w, FilteredBy(w, x), "NO ANSWER"))
           /\ RowFor(w, x).inbound = Cardinality(DirectedAs("inbound", w, AnsweredBy(w, x)))
           /\ RowFor(w, x).outbound = Cardinality(DirectedAs("outbound", w, OriginatedBy(w, x)))
<1>1. CASE x \in DOMAIN ListExtensionStats(w)
    <2>1. ListExtensionStats(w)[x] = FilteredBy(w, x)
        BY <1>1, StatsAre
    <2>2. RowFor(w, x) = extensionStatToProto(w, x)
        BY <1>1 DEF RowFor
    <2>3. extensionStatToProto(w, x).total = Cardinality(ListExtensionStats(w)[x])
        BY DEF extensionStatToProto
    <2>4. extensionStatToProto(w, x).answered = Cardinality(Ended(w, ListExtensionStats(w)[x], "ANSWERED"))
        BY DEF extensionStatToProto, Ended
    <2>5. extensionStatToProto(w, x).missed = Cardinality(Ended(w, ListExtensionStats(w)[x], "NO ANSWER"))
        BY DEF extensionStatToProto, Ended
    <2>6. /\ extensionStatToProto(w, x).inbound = Cardinality(DirectedAs("inbound", w, AnsweredBy(w, x)))
          /\ extensionStatToProto(w, x).outbound = Cardinality(DirectedAs("outbound", w, OriginatedBy(w, x)))
        BY Zenon DEF extensionStatToProto
    <2> QED BY <2>1, <2>2, <2>3, <2>4, <2>5, <2>6, Zenon
<1>2. CASE x \notin DOMAIN ListExtensionStats(w)
    <2>1. FilteredBy(w, x) = {}
        BY <1>2, StatsAre
    <2>2. RowFor(w, x) = NoStat
        BY <1>2 DEF RowFor
    <2>3. \A d : Ended(w, FilteredBy(w, x), d) = {}
        BY <2>1 DEF Ended
    <2>4. AnsweredBy(w, x) = {} /\ OriginatedBy(w, x) = {}
        BY <2>1 DEF FilteredBy, AnsweredBy, OriginatedBy
    <2>5. \A d, K : K = {} => DirectedAs(d, w, K) = {}
        BY DEF DirectedAs
    <2>6. /\ NoStat.total = 0 /\ NoStat.answered = 0 /\ NoStat.missed = 0
          /\ NoStat.inbound = 0 /\ NoStat.outbound = 0
        BY DEF NoStat
    <2>7. Cardinality({}) = 0
        BY FS_EmptySet
    <2>8. DirectedAs("inbound", w, AnsweredBy(w, x)) = {} /\ DirectedAs("outbound", w, OriginatedBy(w, x)) = {}
        BY <2>4, <2>5, Zenon
    <2> QED BY <2>1, <2>2, <2>3, <2>6, <2>7, <2>8, Zenon
<1> QED BY <1>1, <1>2, Zenon

\* A call in and a call out are two calls of the extension.
LEMMA HandledIs ==
    ASSUME TypeOK, IsFiniteSet(cdr), NEW w, NEW x \in Numeric
    PROVE  /\ RowFor(w, x).inbound + RowFor(w, x).outbound = Cardinality(Handled(w, x))
           /\ RowFor(w, x).inbound + RowFor(w, x).outbound =< RowFor(w, x).total
<1> DEFINE A == DirectedAs("inbound", w, AnsweredBy(w, x))
           B == DirectedAs("outbound", w, OriginatedBy(w, x))
           F == FilteredBy(w, x)
<1>1. A \cap B = {}
    BY DEF DirectedAs
<1>2. A \subseteq F /\ B \subseteq F
    BY DEF DirectedAs, FilteredBy, AnsweredBy, OriginatedBy
<1>3. IsFiniteSet(F)
    <2>1. F \subseteq InWindow(w)
        BY DEF FilteredBy, InWindow
    <2> QED BY <2>1, WindowIs
<1>4. Handled(w, x) = A \cup B
    BY Zenon DEF Handled
<1>5. RowFor(w, x).total = Cardinality(F) /\ RowFor(w, x).inbound = Cardinality(A)
          /\ RowFor(w, x).outbound = Cardinality(B)
    BY RowIs, Zenon
<1> HIDE DEF A, B, F
<1>6. IsFiniteSet(A) /\ IsFiniteSet(B)
    BY <1>2, <1>3, FS_Subset
<1>7. Cardinality(A \cup B) = Cardinality(A) + Cardinality(B)
    BY <1>1, <1>6, DisjointUnion
<1>8. Cardinality(A \cup B) =< Cardinality(F)
    <2>1. A \cup B \subseteq F
        BY <1>2
    <2> QED BY <1>3, <2>1, FS_Subset
<1> QED BY <1>4, <1>5, <1>7, <1>8

\* The drill-down finds the row, if no more extensions match than it reads.
LEMMA DrillFinds ==
    ASSUME TypeOK, IsFiniteSet(cdr), NEW w, NEW x \in Numeric,
           Cardinality({y \in DOMAIN ListExtensionStats(w) : <<x, y>> \in Matches}) =< DrillLimit
    PROVE  DrillSummaries(w, x) = {RowFor(w, x)}
<1> DEFINE stats == ListExtensionStats(w)
           D == DOMAIN stats
           matching == {y \in D : <<x, y>> \in Matches}
           rivals == {y \in D \ {x} : <<x, y>> \in Matches}
           ahead == {y \in rivals : Cardinality(stats[y]) > Cardinality(stats[x])}
           level == {y \in rivals : Cardinality(stats[y]) >= Cardinality(stats[x])}
<1>1. DrillSummaries(w, x) =
          IF x \notin D THEN {NoStat}
          ELSE (IF Cardinality(ahead) < DrillLimit THEN {extensionStatToProto(w, x)} ELSE {})
                 \cup (IF Cardinality(level) >= DrillLimit THEN {NoStat} ELSE {})
    BY Zenon DEF DrillSummaries
<1>2. CASE x \notin D
    BY <1>1, <1>2, Zenon DEF RowFor
<1>3. CASE x \in D
    <2>1. IsFiniteSet(D)
        BY StatsAre
    <2> HIDE DEF D, stats
    <2>2. x \in matching /\ matching \subseteq D /\ rivals = matching \ {x}
        BY <1>3, CallStatisticsAssumption
    <2>3. ahead \subseteq rivals /\ level \subseteq rivals /\ Cardinality(matching) =< DrillLimit
        BY DEF D, stats
    <2> HIDE DEF matching, rivals, ahead, level
    <2>4. IsFiniteSet(matching)
        BY <2>1, <2>2, FS_Subset
    <2>5. IsFiniteSet(rivals) /\ Cardinality(rivals) = Cardinality(matching) - 1
        BY <2>2, <2>4, FS_RemoveElement
    <2>6. /\ Cardinality(ahead) =< Cardinality(rivals) /\ Cardinality(level) =< Cardinality(rivals)
          /\ IsFiniteSet(ahead) /\ IsFiniteSet(level)
        BY <2>3, <2>5, FS_Subset
    <2>7. /\ Cardinality(ahead) \in Nat /\ Cardinality(level) \in Nat
          /\ Cardinality(rivals) \in Nat /\ Cardinality(matching) \in Nat /\ DrillLimit \in Nat
        BY <2>4, <2>5, <2>6, FS_CardinalityType, CallStatisticsAssumption
    <2>8. Cardinality(ahead) < DrillLimit /\ ~(Cardinality(level) >= DrillLimit)
        BY <2>3, <2>5, <2>6, <2>7
    <2>9. RowFor(w, x) = extensionStatToProto(w, x)
        BY <1>3, Zenon DEF RowFor, D, stats
    <2>10. DrillSummaries(w, x) = {extensionStatToProto(w, x)} \cup {}
        BY <1>1, <1>3, <2>8, Zenon
    <2> QED BY <2>9, <2>10
<1> QED BY <1>2, <1>3

LEMMA FilteredIsFinite ==
    ASSUME TypeOK, IsFiniteSet(cdr), NEW w, NEW x
    PROVE  IsFiniteSet(FilteredBy(w, x))
<1>1. FilteredBy(w, x) \subseteq InWindow(w)
    BY DEF FilteredBy, InWindow
<1> QED BY <1>1, WindowIs

\* The hours are those of the calls, each with its bucket.
LEMMA HoursAreFilled ==
    ASSUME TypeOK, NEW w, NEW x
    PROVE  /\ Filled(w, FilteredBy(w, x), Hour, extensionHourOfDay(w, x))
           /\ DOMAIN extensionHourOfDay(w, x) = 0 .. 23
           /\ \A p \in Places : Hour[Date[p]] \in 0 .. 23
<1> DEFINE F == FilteredBy(w, x)
           byHour == Buckets(w, F, Hour)
           hours == extensionHourOfDay(w, x)
<1>1. \A p \in Places : Hour[Date[p]] \in 0 .. 23
    BY CallStatisticsAssumption DEF Hour
<1>2. \A c \in F : LegsIn(w, c) # {} /\ LegsIn(w, c) \subseteq cdr
    BY DEF FilteredBy, LegsIn, Legs
<1>3. ASSUME NEW c \in F PROVE Hour[When(LegsIn(w, c))] \in 0 .. 23
    <2>1. FirstOf(LegsIn(w, c)) \in cdr
        BY <1>2, FirstOfIs
    <2>2. FirstOf(LegsIn(w, c)).at \in Places
        BY <2>1, RowsAre
    <2> QED BY <1>1, <2>2 DEF When
<1>4. hours = [h \in 0 .. 23 |-> IF h \in DOMAIN byHour THEN byHour[h]
                                 ELSE [total |-> 0, answered |-> 0, missed |-> 0]]
    BY DEF extensionHourOfDay
<1>5. DOMAIN byHour = Keys(w, F, Hour)
    BY DEF Buckets, Keys
<1> HIDE DEF hours, F
<1>6. DOMAIN hours = 0 .. 23
    BY <1>4
<1>7. \A h \in 0 .. 23 : hours[h] = IF h \in Keys(w, F, Hour) THEN Buckets(w, F, Hour)[h]
                                    ELSE [total |-> 0, answered |-> 0, missed |-> 0]
    BY <1>4, <1>5
<1>8. Filled(w, F, Hour, hours)
    BY <1>3, <1>6, <1>7 DEF Filled
<1> QED BY <1>1, <1>6, <1>8 DEF hours, F

\* Both histograms add up to the row.
LEMMA SeriesAddUp ==
    ASSUME TypeOK, IsFiniteSet(cdr), NEW w, NEW x \in Numeric,
           NEW b \in {extensionHourOfDay(w, x), extensionSeries(w, x)}
    PROVE  /\ Sum(b, "total") = RowFor(w, x).total
           /\ Sum(b, "answered") = RowFor(w, x).answered
           /\ Sum(b, "missed") = RowFor(w, x).missed
<1> DEFINE F == FilteredBy(w, x)
<1>1. IsFiniteSet(F)
    BY FilteredIsFinite
<1>2. /\ RowFor(w, x).total = Cardinality(F)
      /\ RowFor(w, x).answered = Cardinality(Ended(w, F, "ANSWERED"))
      /\ RowFor(w, x).missed = Cardinality(Ended(w, F, "NO ANSWER"))
    BY RowIs, Zenon
<1>3. CASE b = extensionSeries(w, x)
    <2>1. b = Buckets(w, F, Day)
        BY <1>3, Zenon DEF extensionSeries
    <2> HIDE DEF F
    <2>2. /\ Sum(Buckets(w, F, Day), "total") = Cardinality(F)
          /\ Sum(Buckets(w, F, Day), "answered") = Cardinality(Ended(w, F, "ANSWERED"))
          /\ Sum(Buckets(w, F, Day), "missed") = Cardinality(Ended(w, F, "NO ANSWER"))
        BY <1>1, HistogramAddsUp, Zenon
    <2> QED BY <1>2, <2>1, <2>2, Zenon
<1>4. CASE b = extensionHourOfDay(w, x)
    <2>1. Filled(w, F, Hour, b)
        BY <1>4, HoursAreFilled
    <2> HIDE DEF F
    <2>2. PICK a, m, t, f, g : Named(a, m, t, f, g)
        BY Zenon DEF Named
    <2>3. /\ Sum(b, t) = Cardinality(F)
          /\ Sum(b, f) = Cardinality(Ended(w, F, a))
          /\ Sum(b, g) = Cardinality(Ended(w, F, m))
        BY <1>1, <2>1, <2>2, BucketsAddUp
    <2>4. a = "ANSWERED" /\ m = "NO ANSWER" /\ t = "total" /\ f = "answered" /\ g = "missed"
        BY <2>2 DEF Named
    <2> QED BY <1>2, <2>3, <2>4, Zenon
<1> QED BY <1>3, <1>4, Zenon

\* Where each call is one row, rows and calls are the same in number in every hour.
LEMMA RowsCountCalls ==
    ASSUME TypeOK, IsFiniteSet(cdr), NEW w, NEW x \in Numeric, OneRowEach(w, x), NEW h
    PROVE  /\ Cardinality({r \in RowsOf(w, x) : Hour[Date[r.at]] = h}) = Cardinality(In(w, FilteredBy(w, x), Hour, h))
           /\ IsFiniteSet({r \in RowsOf(w, x) : Hour[Date[r.at]] = h})
           /\ FilteredBy(w, x) # {} => RowsOf(w, x) # {}
<1> DEFINE F == FilteredBy(w, x)
           S == {r \in RowsOf(w, x) : Hour[Date[r.at]] = h}
           f == [r \in S |-> r.call]
<1>1. \A r : r \in RowsOf(w, x) <=> r \in Rows(w) /\ Party(r, x)
    BY DEF OneRowEach, RowsOf, Party
<1>2. \A c : c \in F <=> \E r \in RowsOf(w, x) : r.call = c
    BY <1>1, FilteredIs
<1>3. ASSUME NEW r \in RowsOf(w, x)
      PROVE  LegsIn(w, r.call) = {r} /\ When(LegsIn(w, r.call)) = Date[r.at]
    <2>1. r \in LegsIn(w, r.call) /\ r.call \in F
        BY <1>1, <1>2, LegsAreRows
    <2>2. Cardinality(LegsIn(w, r.call)) = 1
        BY <2>1 DEF OneRowEach
    <2>3. IsFiniteSet(LegsIn(w, r.call))
        <3>1. LegsIn(w, r.call) \subseteq cdr
            BY DEF LegsIn, Legs
        <3> QED BY <3>1, FS_Subset
    <2>4. PICK q : LegsIn(w, r.call) = {q}
        BY <2>2, <2>3, FS_Singleton
    <2>5. LegsIn(w, r.call) = {r}
        BY <2>1, <2>4
    <2>6. FirstOf({r}) = r
        BY DEF FirstOf
    <2> QED BY <2>5, <2>6 DEF When
<1>4. \A q, r \in RowsOf(w, x) : q.call = r.call => q = r
    <2>1. ASSUME NEW q \in RowsOf(w, x), NEW r \in RowsOf(w, x), q.call = r.call PROVE q = r
        <3>1. LegsIn(w, q.call) = {q} /\ LegsIn(w, r.call) = {r}
            BY <1>3
        <3>2. {q} = {r}
            BY <2>1, <3>1, Zenon
        <3> QED BY <3>2
    <2> QED BY <2>1
<1>5. IsFiniteSet(S)
    <2>1. S \subseteq cdr
        BY <1>1, LegsAreRows
    <2> QED BY <2>1, FS_Subset
<1>6. IsInjective(f) /\ f = [r \in S |-> f[r]]
    BY <1>4 DEF IsInjective
<1>7. {f[r] : r \in S} = In(w, F, Hour, h)
    <2>1. {f[r] : r \in S} = {r.call : r \in S}
        OBVIOUS
    <2>2. ASSUME NEW r \in S PROVE r.call \in In(w, F, Hour, h)
        <3>1. r \in RowsOf(w, x) /\ r.call \in F
            BY <1>2
        <3>2. When(LegsIn(w, r.call)) = Date[r.at]
            BY <1>3, <3>1
        <3> QED BY <3>1, <3>2 DEF In
    <2>3. ASSUME NEW c \in In(w, F, Hour, h) PROVE \E r \in S : r.call = c
        <3>1. c \in F /\ Hour[When(LegsIn(w, c))] = h
            BY DEF In
        <3>2. PICK r \in RowsOf(w, x) : r.call = c
            BY <1>2, <3>1
        <3>3. When(LegsIn(w, r.call)) = Date[r.at]
            BY <1>3
        <3> QED BY <3>1, <3>2, <3>3
    <2> HIDE DEF S, F, f
    <2> QED BY <2>1, <2>2, <2>3
<1> HIDE DEF f, S, F
<1>8. Cardinality(In(w, F, Hour, h)) = Cardinality(S)
    BY <1>5, <1>6, <1>7, SizeOfImage
<1> QED BY <1>2, <1>5, <1>8 DEF S, F

\* The highest of the histogram is the busiest hour.
LEMMA BusiestIs ==
    ASSUME TypeOK, IsFiniteSet(cdr), NEW w, NEW x \in Numeric, OneRowEach(w, x), FilteredBy(w, x) # {}
    PROVE  BusiestHours(w, x) = Busiest(extensionHourOfDay(w, x))
<1> DEFINE hours == extensionHourOfDay(w, x)
           R(h) == {r \in RowsOf(w, x) : Hour[Date[r.at]] = h}
           H == {Hour[Date[r.at]] : r \in RowsOf(w, x)}
<1>1. H # {} /\ H \subseteq 0 .. 23
    <2>1. RowsOf(w, x) # {}
        BY RowsCountCalls
    <2>2. \A r \in RowsOf(w, x) : r.at \in Places
        BY LegsAreRows, RowsAre DEF RowsOf
    <2> QED BY <2>1, <2>2, HoursAreFilled
<1>2. BusiestHours(w, x) = {h \in H : \A o \in H : Cardinality(R(o)) =< Cardinality(R(h))}
    BY <1>1 DEF BusiestHours
<1>3. ASSUME NEW h PROVE IsFiniteSet(R(h)) /\ (R(h) # {} <=> h \in H)
    <2>1. IsFiniteSet(R(h))
        <3>1. RowsOf(w, x) \subseteq cdr
            BY LegsAreRows DEF RowsOf
        <3>2. R(h) \subseteq cdr
            BY <3>1
        <3> QED BY <3>2, FS_Subset
    <2>2. R(h) # {} <=> h \in H
        OBVIOUS
    <2> QED BY <2>1, <2>2
<1>4. ASSUME NEW h \in 0 .. 23 PROVE hours[h].total = Cardinality(R(h))
    <2>1. Filled(w, FilteredBy(w, x), Hour, hours) /\ h \in DOMAIN hours
        BY HoursAreFilled
    <2> HIDE DEF hours
    <2>2. PICK a, m, t, f, g : Named(a, m, t, f, g)
        BY Zenon DEF Named
    <2>3. hours[h][t] = Cardinality(In(w, FilteredBy(w, x), Hour, h))
        BY <2>1, <2>2, BucketIs
    <2>4. t = "total"
        BY <2>2 DEF Named
    <2>5. hours[h].total = Cardinality(In(w, FilteredBy(w, x), Hour, h))
        BY <2>3, <2>4, Zenon
    <2> QED BY <2>5, RowsCountCalls
<1>5. DOMAIN hours = 0 .. 23
    BY HoursAreFilled
<1> HIDE DEF R, H, hours
<1>6. \A h : /\ Cardinality(R(h)) \in Nat
             /\ Cardinality(R(h)) # 0 <=> h \in H
    BY <1>3, FS_CardinalityType, FS_EmptySet
<1>7. Busiest(hours) = {h \in 0 .. 23 : \A o \in 0 .. 23 : Cardinality(R(o)) =< Cardinality(R(h))}
    BY <1>4, <1>5 DEF Busiest
<1>8. \A h \in 0 .. 23 : (h \in H /\ \A o \in H : Cardinality(R(o)) =< Cardinality(R(h)))
          <=> \A o \in 0 .. 23 : Cardinality(R(o)) =< Cardinality(R(h))
    <2> DEFINE n == [o \in 0 .. 23 |-> Cardinality(R(o))]
    <2>1. \A o \in 0 .. 23 : n[o] = Cardinality(R(o)) /\ n[o] \in Nat /\ (n[o] # 0 <=> o \in H)
        BY <1>6
    <2> HIDE DEF n
    <2>2. PICK k \in H : k \in 0 .. 23
        BY <1>1
    <2>3. ASSUME NEW h \in 0 .. 23
          PROVE  (h \in H /\ \A o \in H : n[o] =< n[h]) <=> \A o \in 0 .. 23 : n[o] =< n[h]
        <3>1. ASSUME h \in H, \A o \in H : n[o] =< n[h], NEW o \in 0 .. 23 PROVE n[o] =< n[h]
            BY <2>1, <3>1
        <3>2. ASSUME \A o \in 0 .. 23 : n[o] =< n[h] PROVE h \in H
            <4>1. n[k] =< n[h] /\ n[k] # 0
                BY <2>1, <2>2, <3>2
            <4> QED BY <2>1, <2>2, <4>1
        <3>3. H \subseteq 0 .. 23
            BY <1>1
        <3> QED BY <3>1, <3>2, <3>3
    <2> QED BY <1>1, <2>1, <2>3
<1>9. BusiestHours(w, x) = Busiest(hours)
    BY <1>1, <1>2, <1>7, <1>8
<1> QED BY <1>9 DEF hours

LEMMA ExtensionAddsUp == TypeOK /\ IsFiniteSet(cdr) => ExtensionAgrees
<1> SUFFICES ASSUME TypeOK, IsFiniteSet(cdr) PROVE ExtensionAgrees
    OBVIOUS
<1>1. ASSUME NEW w, NEW c \in InWindow(w)
      PROVE  Plain(LegsIn(w, c)) /\ LegsIn(w, c) = Legs(c) /\ ~SelfCall(c) =>
                 StatsDirection(LegsIn(w, c)) = CallRow(w, c).direction
    <2>1. LegsIn(w, c) # {}
        BY DEF InWindow
    <2> QED BY <2>1, DirectionAgrees
<1>2. ASSUME NEW w, NEW x \in Numeric
      PROVE  LET stats == ListExtensionStats(w)
                 row == IF x \in DOMAIN stats THEN extensionStatToProto(w, x) ELSE NoStat
                 hours == extensionHourOfDay(w, x)
                 series == extensionSeries(w, x)
                 matching == {y \in DOMAIN stats : <<x, y>> \in Matches}
             IN  /\ FilteredBy(w, x) = IF x \in DOMAIN stats THEN stats[x] ELSE {}
                 /\ Cardinality(matching) =< DrillLimit => DrillSummaries(w, x) = {row}
                 /\ \A b \in {hours, series} :
                        /\ Sum(b, "total") = row.total
                        /\ Sum(b, "answered") = row.answered
                        /\ Sum(b, "missed") = row.missed
                 /\ row.inbound + row.outbound =< row.total
                 /\ row.inbound + row.outbound = Cardinality(Handled(w, x))
                 /\ row.total > 0 /\ OneRowEach(w, x) => BusiestHours(w, x) = Busiest(hours)
    <2> DEFINE stats == ListExtensionStats(w)
               row == IF x \in DOMAIN stats THEN extensionStatToProto(w, x) ELSE NoStat
    <2>1. row = RowFor(w, x)
        BY Zenon DEF RowFor
    <2>2. FilteredBy(w, x) = IF x \in DOMAIN stats THEN stats[x] ELSE {}
        BY StatsAre
    <2>3. Cardinality({y \in DOMAIN stats : <<x, y>> \in Matches}) =< DrillLimit
              => DrillSummaries(w, x) = {RowFor(w, x)}
        BY DrillFinds
    <2>4. \A b \in {extensionHourOfDay(w, x), extensionSeries(w, x)} :
              /\ Sum(b, "total") = RowFor(w, x).total
              /\ Sum(b, "answered") = RowFor(w, x).answered
              /\ Sum(b, "missed") = RowFor(w, x).missed
        BY SeriesAddUp, Zenon
    <2>5. /\ RowFor(w, x).inbound + RowFor(w, x).outbound =< RowFor(w, x).total
          /\ RowFor(w, x).inbound + RowFor(w, x).outbound = Cardinality(Handled(w, x))
        BY HandledIs
    <2>6. RowFor(w, x).total > 0 /\ OneRowEach(w, x) =>
              BusiestHours(w, x) = Busiest(extensionHourOfDay(w, x))
        <3>1. RowFor(w, x).total = Cardinality(FilteredBy(w, x))
            BY RowIs, Zenon
        <3>2. FilteredBy(w, x) = {} => Cardinality(FilteredBy(w, x)) = 0
            BY FS_EmptySet
        <3>3. RowFor(w, x).total > 0 => FilteredBy(w, x) # {}
            BY <3>1, <3>2
        <3> QED BY <3>3, BusiestIs
    <2> HIDE DEF row
    <2>7. /\ FilteredBy(w, x) = IF x \in DOMAIN stats THEN stats[x] ELSE {}
          /\ Cardinality({y \in DOMAIN stats : <<x, y>> \in Matches}) =< DrillLimit
                 => DrillSummaries(w, x) = {row}
          /\ \A b \in {extensionHourOfDay(w, x), extensionSeries(w, x)} :
                 /\ Sum(b, "total") = row.total
                 /\ Sum(b, "answered") = row.answered
                 /\ Sum(b, "missed") = row.missed
          /\ row.inbound + row.outbound =< row.total
          /\ row.inbound + row.outbound = Cardinality(Handled(w, x))
          /\ row.total > 0 /\ OneRowEach(w, x) => BusiestHours(w, x) = Busiest(extensionHourOfDay(w, x))
        BY <2>1, <2>2, <2>3, <2>4, <2>5, <2>6, Zenon
    <2> QED BY <2>7, Zenon DEF row
<1>3. \A w : countExtensions(w) = Cardinality(DOMAIN ListExtensionStats(w))
    BY StatsAre
<1> QED BY <1>1, <1>2, <1>3, Zenon DEF ExtensionAgrees

\* The list of extensions, its pager, the drill-down of one and both of its histograms
\* tell the same of it, and a call in or out is what the list of calls shows.
THEOREM ExtensionAgreesWithItself == Spec => []ExtensionAgrees
<1>1. IInv => TypeOK /\ IsFiniteSet(cdr)
    BY DEF IInv, TableInv
<1> QED BY <1>1, AlwaysIInv, ExtensionAddsUp, PTL
=============================================================================
