-------------------------- MODULE CallQualityProofs --------------------------
(***************************************************************************)
(* What the call-quality collector guarantees for any calls, page size and *)
(* number of restarts, proved from one inductive invariant: a row that was *)
(* counted lies at or below the watermark, and the query reads above it.   *)
(* Measuring what is counted does not change what is counted, so the       *)
(* theorems about QualityCollector hold of CallQuality; and the band of a  *)
(* call is that of its worse direction, for every pair of scores.          *)
(***************************************************************************)
EXTENDS CallQuality, FiniteSetTheorems, WellFoundedInduction, TLAPS

Ranges ==
    /\ now \in Nat /\ now >= 1
    /\ calldate \in [Calls -> Nat]
    /\ \A c \in Calls : calldate[c] =< now
    /\ row \in [Calls -> {"none", "qos", "bare"}]
    /\ restarts \in Nat
    /\ boot \in Nat /\ lastSeen \in Nat
    /\ 1 =< boot /\ boot =< lastSeen /\ lastSeen =< now
    /\ probe \in {"unprobed", "present", "absent"}
    /\ counted \in [Calls -> Nat]

Bounds == now =< MaxTime /\ restarts =< MaxRestarts

\* A row that was counted was written, and is not above the watermark.
CountedIsBelow ==
    \A c \in Calls : counted[c] > 0 => row[c] # "none" /\ calldate[c] =< lastSeen

\* A row belongs to a call that began.
WrittenBegan == \A c \in Calls : row[c] # "none" => calldate[c] # 0

IInv == Ranges /\ WrittenBegan /\ CountedIsBelow /\ NeverTwice

\* The initial states satisfy the invariant.
LEMMA InitInv == Init => IInv
  BY DEF Init, IInv, Ranges, WrittenBegan, CountedIsBelow, NeverTwice

\* The query returns written rows above the watermark.
LEMMA PageIsNew ==
  ASSUME NEW found \in SUBSET Calls, NEW page \in Pages(found)
  PROVE  page \subseteq found /\ page \subseteq Calls
  BY DEF Pages

\* What a scrape adds keeps the invariant.
LEMMA CollectInv ==
  ASSUME IInv, Collect
  PROVE  IInv'
<1>1. PICK page \in Pages(Since(lastSeen)) : Observe(page)
  BY DEF Collect
<1>2. Since(lastSeen) \subseteq Calls
  BY DEF Since
<1>3. page \subseteq Since(lastSeen) /\ page \subseteq Calls
  BY <1>2, PageIsNew
<1>4. UNCHANGED <<now, calldate, row, boot, restarts>> /\ probe' = "present"
  BY DEF Collect, pbx, process
<1>5. lastSeen' \in Nat /\ lastSeen' >= lastSeen /\ lastSeen' =< now
  BY <1>1, <1>3 DEF Observe, IInv, Ranges
<1>6. counted' = [c \in Calls |-> IF c \in page THEN counted[c] + 1 ELSE counted[c]]
  BY <1>1 DEF Observe
<1>7. \A c \in page : row[c] = "qos" /\ calldate[c] > lastSeen /\ calldate[c] =< lastSeen'
  BY <1>1, <1>3 DEF Since, Observe
<1>8. \A c \in page : counted[c] = 0
  BY <1>3, <1>7 DEF IInv, Ranges, CountedIsBelow
<1>9. Ranges'
  BY <1>4, <1>5, <1>6 DEF IInv, Ranges
<1>10. CountedIsBelow'
  <2> SUFFICES ASSUME NEW c \in Calls, counted'[c] > 0
               PROVE  row[c] # "none" /\ calldate[c] =< lastSeen'
    BY <1>4 DEF CountedIsBelow
  <2>1. CASE c \in page
    BY <2>1, <1>7
  <2>2. CASE c \notin page
    <3>1. counted[c] > 0
      BY <2>2, <1>6
    <3> QED
      BY <3>1, <1>5 DEF IInv, Ranges, CountedIsBelow
  <2> QED
    BY <2>1, <2>2
<1>11. NeverTwice'
  BY <1>6, <1>8 DEF IInv, Ranges, NeverTwice
<1>12. WrittenBegan'
  BY <1>4 DEF IInv, WrittenBegan
<1> QED
  BY <1>9, <1>10, <1>11, <1>12 DEF IInv

\* Every step keeps the invariant.
LEMMA NextInv ==
  ASSUME IInv, [Next]_vars
  PROVE  IInv'
<1>1. ASSUME NEW c \in Calls, Begin(c) PROVE IInv'
  <2>1. row[c] = "none" /\ counted[c] = 0
    BY <1>1 DEF Begin, IInv, Ranges, WrittenBegan, CountedIsBelow
  <2>2. Ranges' /\ WrittenBegan'
    BY <1>1 DEF Begin, IInv, Ranges, WrittenBegan, process
  <2>3. CountedIsBelow'
    BY <1>1, <2>1 DEF Begin, IInv, Ranges, CountedIsBelow, process
  <2> QED
    BY <1>1, <2>2, <2>3 DEF Begin, IInv, NeverTwice
<1>2. ASSUME NEW c \in Calls, End(c) PROVE IInv'
  <2>1. PICK kind \in {"qos", "bare"} : row' = [row EXCEPT ![c] = kind]
    BY <1>2 DEF End
  <2>2. Ranges'
    BY <1>2, <2>1 DEF End, IInv, Ranges, process
  <2>3. CountedIsBelow' /\ WrittenBegan'
    BY <1>2, <2>1 DEF End, IInv, Ranges, CountedIsBelow, WrittenBegan, process
  <2> QED
    BY <1>2, <2>2, <2>3 DEF End, IInv, NeverTwice
<1>3. CASE Tick
  BY <1>3, QualityAssumption DEF Tick, IInv, Ranges, WrittenBegan, CountedIsBelow, NeverTwice, pbx, process
<1>4. CASE Collect
  BY <1>4, CollectInv
<1>5. CASE CollectFails
  BY <1>5 DEF CollectFails, IInv, Ranges, WrittenBegan, CountedIsBelow, NeverTwice, pbx, process
<1>6. CASE CollectNothing
  BY <1>6 DEF CollectNothing, IInv, Ranges, WrittenBegan, CountedIsBelow, NeverTwice, pbx, process
<1>7. CASE Restart
  <2>1. Ranges'
    BY <1>7 DEF Restart, IInv, Ranges, pbx
  <2>2. CountedIsBelow' /\ WrittenBegan'
    BY <1>7 DEF Restart, IInv, Ranges, CountedIsBelow, WrittenBegan, pbx
  <2> QED
    BY <1>7, <2>1, <2>2 DEF Restart, IInv, NeverTwice
<1>8. CASE UNCHANGED vars
  BY <1>8 DEF vars, IInv, Ranges, WrittenBegan, CountedIsBelow, NeverTwice, pbx, process
<1> QED
  BY <1>1, <1>2, <1>3, <1>4, <1>5, <1>6, <1>7, <1>8 DEF Next

\* The invariant holds in every reachable state.
THEOREM Invariant == Spec => []IInv
<1>1. Init => IInv
  BY InitInv
<1>2. IInv /\ [Next]_vars => IInv'
  BY NextInv
<1> QED
  BY <1>1, <1>2, PTL DEF Spec

\* No call is counted twice, in one process or across restarts (the watermark
\* of New and scrapeOnce).
THEOREM CountsOnce == Spec => []NeverTwice
<1>1. IInv => NeverTwice
  BY DEF IInv
<1> QED
  BY <1>1, Invariant, PTL

\* Type correctness, the bounds of the clock and of the restarts included.
THEOREM TypeCorrect == Spec => []TypeOK
<1>1. Init => Bounds
  BY QualityAssumption DEF Init, Bounds
<1>2. IInv /\ Bounds /\ [Next]_vars => Bounds'
  BY QualityAssumption
  DEF Bounds, IInv, Ranges, Next, vars, Begin, End, Tick, Collect, CollectFails,
      CollectNothing, Restart, pbx, process
<1>3. IInv /\ Bounds => TypeOK
  BY QualityAssumption DEF IInv, Ranges, Bounds, TypeOK
<1> QED
  BY <1>1, <1>2, <1>3, Invariant, PTL DEF Spec
-----------------------------------------------------------------------------
\* A page that leaves a row out is full.
LEMMA ShortPageIsAll ==
  ASSUME NEW found, NEW page \in Pages(found), NEW c \in found, c \notin page
  PROVE  Cardinality(page) = Limit
  BY DEF Pages

\* The rows a scrape leaves behind and can no longer read share the calldate
\* that the watermark has reached, and the page was full.
LEMMA CollectSkipsTies ==
  ASSUME IInv, Collect, NEW c \in Calls, Pending(c), ~Pending(c)'
  PROVE  \/ counted'[c] = counted[c] + 1
         \/ /\ calldate[c] = lastSeen'
            /\ Cardinality({d \in Calls : counted'[d] # counted[d]}) = Limit
<1>1. PICK page \in Pages(Since(lastSeen)) : Observe(page)
  BY DEF Collect
<1>2. page \subseteq Calls /\ page \subseteq Since(lastSeen)
  BY PageIsNew DEF Since
<1>3. counted' = [d \in Calls |-> IF d \in page THEN counted[d] + 1 ELSE counted[d]]
  BY <1>1 DEF Observe
<1>4. CASE c \in page
  BY <1>3, <1>4
<1>5. CASE c \notin page
  <2>1. c \in Since(lastSeen)
    BY DEF Pending
  <2>2. Cardinality(page) = Limit
    BY <1>5, <2>1, ShortPageIsAll
  <2>3. {d \in Calls : counted'[d] # counted[d]} = page
    BY <1>2, <1>3 DEF IInv, Ranges
  <2>4. calldate[c] =< lastSeen'
    <3>1. UNCHANGED <<calldate, row>>
      BY DEF Collect, pbx
    <3>2. lastSeen' \in Nat /\ calldate[c] \in Nat
      BY CollectInv DEF IInv, Ranges
    <3>3. row[c] = "qos"
      BY <2>1 DEF Since
    <3> QED
      BY <3>1, <3>2, <3>3 DEF Pending, Since
  <2>5. \A d \in page : calldate[d] =< calldate[c]
    BY <1>5, <2>1 DEF Pages
  <2>6. lastSeen' =< calldate[c]
    BY <1>1, <1>2, <2>1, <2>5 DEF Observe, Since, IInv, Ranges
  <2>7. calldate[c] = lastSeen'
    BY <1>1, <1>2, <2>4, <2>6 DEF Observe, Since, IInv, Ranges
  <2> QED
    BY <2>2, <2>3, <2>7
<1> QED
  BY <1>4, <1>5

\* No step but a scrape or a restart puts a row out of reach.
LEMMA NextSkipsTies ==
  ASSUME IInv, [Next]_vars
  PROVE  SkipsTies
<1> SUFFICES ASSUME NEW c \in Calls, Pending(c), ~Pending(c)'
             PROVE  \/ counted'[c] = counted[c] + 1
                    \/ restarts' # restarts
                    \/ /\ calldate[c] = lastSeen'
                       /\ Cardinality({d \in Calls : counted'[d] # counted[d]}) = Limit
  BY DEF SkipsTies
<1>1. ASSUME NEW b \in Calls, Begin(b) PROVE FALSE
  BY <1>1 DEF Begin, Pending, Since, IInv, Ranges
<1>2. ASSUME NEW b \in Calls, End(b) PROVE FALSE
  BY <1>2 DEF End, Pending, Since, IInv, Ranges
<1>3. CASE Tick
  BY <1>3 DEF Tick, Pending, Since, pbx
<1>4. CASE Collect
  BY <1>4, CollectSkipsTies
<1>5. CASE CollectFails
  BY <1>5 DEF CollectFails, Pending, Since, pbx
<1>6. CASE CollectNothing
  BY <1>6 DEF CollectNothing, Pending, Since, pbx
<1>7. CASE Restart
  BY <1>7 DEF Restart, IInv, Ranges
<1>8. CASE UNCHANGED vars
  BY <1>8 DEF vars, Pending, Since
<1> QED
  BY <1>1, <1>2, <1>3, <1>4, <1>5, <1>6, <1>7, <1>8 DEF Next

\* No scrape gives up a row it could have read, unless the row ties with the
\* end of a full page; a restart is the only other step that does.
THEOREM SkipsOnlyTies == Spec => OnlyTiesAreSkipped
<1>1. IInv /\ [Next]_vars => SkipsTies
  BY NextSkipsTies
<1> QED
  BY <1>1, Invariant, PTL DEF Spec, OnlyTiesAreSkipped
-----------------------------------------------------------------------------
\* Every step of the measuring collector is one of the counting collector.
LEMMA StepCounts == [QualityNext]_allVars => [Next]_vars
<1>1. Unmeasured => Next
  BY DEF Unmeasured, Next
<1>2. CollectAndObserve => Next
  BY DEF CollectAndObserve, Next
<1>3. RestartAnew => Next
  BY DEF RestartAnew, Next
<1>4. UNCHANGED allVars => UNCHANGED vars
  BY DEF allVars
<1> QED
  BY <1>1, <1>2, <1>3, <1>4 DEF QualityNext

\* A measuring collector counts as the collector it extends (scrapeOnce is one
\* loop that counts, observes and raises the watermark).
THEOREM MeasuringCounts == QualitySpec => Spec
<1>1. QualityInit => Init
  BY DEF QualityInit
<1> QED
  BY <1>1, StepCounts, PTL DEF QualitySpec, Spec

\* No call is counted twice in the metrics.
THEOREM MeasuresOnce == QualitySpec => []NeverTwice
  BY MeasuringCounts, CountsOnce, PTL

\* A scrape that measures gives up no row but those that tie with its end.
THEOREM MeasuresAllButTies == QualitySpec => OnlyTiesAreSkipped
  BY MeasuringCounts, SkipsOnlyTies, PTL

\* quality() of rtpqos.go: the band of a call is the band of one of its
\* directions, that of the lower MOS of those that were received (0 is none).
THEOREM WorstOfBoth ==
  ASSUME NEW rx \in Nat, NEW tx \in Nat
  PROVE  /\ rx = 0 => quality(rx, tx) = BandOf(tx)
         /\ tx = 0 => quality(rx, tx) = BandOf(rx)
         /\ 0 < rx /\ rx =< tx => quality(rx, tx) = BandOf(rx)
         /\ 0 < tx /\ tx =< rx => quality(rx, tx) = BandOf(tx)
         /\ quality(rx, tx) = "" <=> rx = 0 /\ tx = 0
<1>1. \A m \in Nat : m # 0 => BandOf(m) # ""
  BY SMT DEF BandOf
<1>2. BandOf(0) = ""
  BY DEF BandOf
<1>3. CASE tx > 0 /\ (rx = 0 \/ tx < rx)
  <2>1. quality(rx, tx) = BandOf(tx)
    BY <1>3 DEF quality
  <2>2. tx # 0 /\ ~(0 < rx /\ rx =< tx)
    BY <1>3
  <2>3. BandOf(tx) # ""
    BY <1>1, <2>2
  <2> QED
    BY <2>1, <2>2, <2>3, Zenon
<1>4. CASE ~(tx > 0 /\ (rx = 0 \/ tx < rx))
  <2>1. quality(rx, tx) = BandOf(rx)
    BY <1>4 DEF quality
  <2>2. (rx = 0 => tx = 0) /\ (0 < tx /\ tx =< rx => rx = tx)
    BY <1>4
  <2>3. rx # 0 => BandOf(rx) # ""
    BY <1>1
  <2> QED
    BY <1>2, <2>1, <2>2, <2>3, Zenon
<1> QED
  BY <1>3, <1>4
-----------------------------------------------------------------------------
(***************************************************************************)
(* Sums: what SumFunction computes, which is a fold.                       *)
(***************************************************************************)

\* Induction, over the numbers of a set.
LEMMA CountingUp ==
    ASSUME NEW S \in SUBSET Nat, 0 \in S, \A n \in S : n + 1 \in S
    PROVE  S = Nat
<1> SUFFICES ASSUME Nat \ S # {} PROVE FALSE
    OBVIOUS
<1>1. PICK m \in Nat \ S : \A n \in Nat \ S : ~(<<n, m>> \in OpToRel(<, Nat))
    BY NatLessThanWellFounded, WFMin, Zenon
<1>2. \A n \in Nat \ S : ~(n < m)
    BY <1>1, Zenon DEF OpToRel
<1>3. m # 0
    OBVIOUS
<1>4. m - 1 \in S
    BY <1>2, <1>3
<1>5. (m - 1) + 1 = m
    OBVIOUS
<1> QED BY <1>4, <1>5

\* What SumFunction computes: g sums f over every subset of its domain.
SumStep(g, f, s) ==
    IF s = {} THEN 0 ELSE f[CHOOSE x \in s : TRUE] + g[s \ {CHOOSE x \in s : TRUE}]

LEMMA SumExists ==
    ASSUME NEW f, NEW D, IsFiniteSet(D)
    PROVE  \E g : g = [s \in SUBSET D |-> SumStep(g, f, s)]
<1> DEFINE Upto(g, n) == \A s \in SUBSET D : Cardinality(s) =< n => g[s] = SumStep(g, f, s)
           S == {n \in Nat : \E g : g = [s \in SUBSET D |-> g[s]] /\ Upto(g, n)}
<1>1. \A s \in SUBSET D : IsFiniteSet(s) /\ Cardinality(s) \in Nat
    BY FS_Subset, FS_CardinalityType
<1>2. \A s \in SUBSET D : s # {} => /\ s \ {CHOOSE x \in s : TRUE} \in SUBSET D
                                     /\ Cardinality(s \ {CHOOSE x \in s : TRUE}) = Cardinality(s) - 1
    <2> TAKE s \in SUBSET D
    <2> HAVE s # {}
    <2>1. (CHOOSE x \in s : TRUE) \in s
        OBVIOUS
    <2> QED BY <1>1, <2>1, FS_RemoveElement
<1>3. 0 \in S
    <2> DEFINE g == [s \in SUBSET D |-> 0]
    <2>1. \A s \in SUBSET D : Cardinality(s) =< 0 => s = {}
        BY <1>1, FS_EmptySet
    <2>2. Upto(g, 0)
        BY <2>1 DEF SumStep
    <2>3. g = [s \in SUBSET D |-> g[s]]
        OBVIOUS
    <2> QED BY <2>2, <2>3
<1>4. ASSUME NEW n \in S PROVE n + 1 \in S
    <2>1. PICK g : g = [s \in SUBSET D |-> g[s]] /\ Upto(g, n)
        OBVIOUS
    <2> DEFINE h == [s \in SUBSET D |-> IF Cardinality(s) = n + 1 THEN SumStep(g, f, s) ELSE g[s]]
    <2>2. n \in Nat
        OBVIOUS
    <2>3. ASSUME NEW s \in SUBSET D, Cardinality(s) =< n + 1 PROVE h[s] = SumStep(h, f, s)
        <3>1. SumStep(h, f, s) = SumStep(g, f, s)
            <4>1. CASE s = {}
                BY <4>1 DEF SumStep
            <4>2. CASE s # {}
                <5> DEFINE r == s \ {CHOOSE x \in s : TRUE}
                <5>1. r \in SUBSET D /\ Cardinality(r) # n + 1
                    BY <1>1, <1>2, <2>2, <2>3, <4>2
                <5>2. h[r] = g[r]
                    BY <5>1
                <5> HIDE DEF h
                <5> QED BY <4>2, <5>2 DEF SumStep
            <4> QED BY <4>1, <4>2
        <3>2. h[s] = SumStep(g, f, s)
            <4>1. CASE Cardinality(s) = n + 1
                BY <4>1
            <4>2. CASE Cardinality(s) # n + 1
                <5>1. Cardinality(s) =< n
                    BY <1>1, <2>2, <2>3, <4>2
                <5>2. g[s] = SumStep(g, f, s)
                    BY <2>1, <5>1
                <5> QED BY <4>2, <5>2
            <4> QED BY <4>1, <4>2
        <3> HIDE DEF h
        <3> QED BY <3>1, <3>2
    <2>4. h = [s \in SUBSET D |-> h[s]]
        OBVIOUS
    <2> HIDE DEF h
    <2>5. Upto(h, n + 1)
        BY <2>3
    <2>6. n + 1 \in Nat
        BY <2>2
    <2>7. n + 1 \in {m \in Nat : \E q : q = [s \in SUBSET D |-> q[s]] /\ Upto(q, m)}
        <3> HIDE DEF Upto
        <3> QED BY <2>4, <2>5, <2>6, Zenon
    <2> QED BY <2>7, Zenon
<1>5. S = Nat
    <2>1. S \in SUBSET Nat
        OBVIOUS
    <2> HIDE DEF S
    <2> QED BY <1>3, <1>4, <2>1, CountingUp
<1>6. Cardinality(D) \in S
    BY <1>1, <1>5
<1>7. PICK g : g = [s \in SUBSET D |-> g[s]] /\ Upto(g, Cardinality(D))
    BY <1>6
<1>8. \A s \in SUBSET D : Cardinality(s) =< Cardinality(D)
    BY FS_Subset
<1>9. \A s \in SUBSET D : g[s] = SumStep(g, f, s)
    BY <1>7, <1>8
<1>10. g = [s \in SUBSET D |-> SumStep(g, f, s)]
    BY <1>7, <1>9, Zenon
<1> QED BY <1>10

LEMMA SumIs ==
    ASSUME NEW f, IsFiniteSet(DOMAIN f)
    PROVE  \E g : /\ SumFunction(f) = g[DOMAIN f]
                  /\ \A s \in SUBSET DOMAIN f : g[s] = SumStep(g, f, s)
<1> DEFINE D == DOMAIN f
<1>1. PICK g :
          /\ g = CHOOSE h : h = [s \in SUBSET D |->
                                    IF s = {} THEN 0
                                    ELSE f[CHOOSE x \in s : TRUE] + h[s \ {CHOOSE x \in s : TRUE}]]
          /\ SumFunction(f) = g[D]
    BY DEF SumFunction, SumFunctionOnSet, FoldFunctionOnSet, MapThenFoldSet
<1>2. \E h : h = [s \in SUBSET D |->
                     IF s = {} THEN 0
                     ELSE f[CHOOSE x \in s : TRUE] + h[s \ {CHOOSE x \in s : TRUE}]]
    <2> HIDE DEF D
    <2>1. IsFiniteSet(D)
        BY DEF D
    <2>2. PICK h : h = [s \in SUBSET D |-> SumStep(h, f, s)]
        BY <2>1, SumExists, Zenon
    <2>3. [s \in SUBSET D |-> SumStep(h, f, s)]
             = [s \in SUBSET D |->
                     IF s = {} THEN 0
                     ELSE f[CHOOSE x \in s : TRUE] + h[s \ {CHOOSE x \in s : TRUE}]]
        BY Zenon DEF SumStep
    <2> QED BY <2>2, <2>3, Zenon
<1>3. g = [s \in SUBSET D |->
              IF s = {} THEN 0
              ELSE f[CHOOSE x \in s : TRUE] + g[s \ {CHOOSE x \in s : TRUE}]]
    BY <1>1, <1>2, Zenon
<1>4. \A s \in SUBSET D : g[s] = SumStep(g, f, s)
    <2> HIDE DEF D
    <2> QED BY <1>3 DEF SumStep
<1> QED BY <1>1, <1>4

\* The sizes of the parts of a set add up to its own.
LEMMA SumOfParts ==
    ASSUME NEW f, IsFiniteSet(DOMAIN f), NEW R, IsFiniteSet(R), NEW b \in [R -> DOMAIN f],
           \A k \in DOMAIN f : f[k] = Cardinality({c \in R : b[c] = k})
    PROVE  SumFunction(f) = Cardinality(R)
<1> DEFINE D == DOMAIN f
           In(s) == {c \in R : b[c] \in s}
<1>1. PICK g : /\ SumFunction(f) = g[D]
               /\ \A s \in SUBSET D : g[s] = SumStep(g, f, s)
    BY SumIs
<1> DEFINE S == {n \in Nat : \A s \in SUBSET D : Cardinality(s) = n => g[s] = Cardinality(In(s))}
<1> HIDE DEF D
<1>2. IsFiniteSet(D) /\ \A s \in SUBSET D : IsFiniteSet(s) /\ Cardinality(s) \in Nat
    BY FS_Subset, FS_CardinalityType DEF D
<1>3. 0 \in S
    <2>1. ASSUME NEW s \in SUBSET D, Cardinality(s) = 0 PROVE g[s] = Cardinality(In(s))
        <3>1. s = {}
            BY <1>2, <2>1, FS_EmptySet
        <3>2. In(s) = {}
            BY <3>1
        <3>3. g[s] = 0
            BY <1>1, <3>1 DEF SumStep
        <3> QED BY <3>2, <3>3, FS_EmptySet
    <2> QED BY <2>1
<1>4. ASSUME NEW n \in S PROVE n + 1 \in S
    <2>1. n \in Nat /\ \A s \in SUBSET D : Cardinality(s) = n => g[s] = Cardinality(In(s))
        OBVIOUS
    <2>2. ASSUME NEW s \in SUBSET D, Cardinality(s) = n + 1 PROVE g[s] = Cardinality(In(s))
        <3> DEFINE k == CHOOSE x \in s : TRUE
                   r == s \ {k}
                   P == {c \in R : b[c] = k}
        <3>1. s # {}
            <4>1. n + 1 # 0 /\ Cardinality({}) = 0
                BY <2>1, FS_EmptySet
            <4> QED BY <2>2, <4>1
        <3>2. k \in s /\ k \in D
            BY <3>1
        <3>3. g[s] = f[k] + g[r]
            BY <1>1, <3>1 DEF SumStep
        <3> HIDE DEF k
        <3>4. r \in SUBSET D /\ Cardinality(r) = n
            <4>1. IsFiniteSet(s)
                BY <1>2
            <4>2. Cardinality(r) = Cardinality(s) - 1
                BY <3>2, <4>1, FS_RemoveElement
            <4> QED BY <2>1, <2>2, <4>2
        <3>5. f[k] = Cardinality(P)
            BY <3>2 DEF D
        <3>6. g[r] = Cardinality(In(r))
            BY <2>1, <3>4
        <3>7. In(s) = P \cup In(r) /\ P \cap In(r) = {}
            BY <3>2
        <3>8. IsFiniteSet(P) /\ IsFiniteSet(In(r))
            BY FS_Subset
        <3> HIDE DEF P, r, In
        <3>9. Cardinality(In(s)) = Cardinality(P) + Cardinality(In(r))
            <4>1. Cardinality(P \cup In(r)) = Cardinality(P) + Cardinality(In(r)) - Cardinality(P \cap In(r))
                BY <3>8, FS_Union
            <4>2. Cardinality(P) \in Nat /\ Cardinality(In(r)) \in Nat
                BY <3>8, FS_CardinalityType
            <4>3. Cardinality(P \cap In(r)) = 0
                BY <3>7, FS_EmptySet
            <4>4. Cardinality(In(s)) = Cardinality(P \cup In(r))
                BY <3>7
            <4> QED BY <4>1, <4>2, <4>3, <4>4
        <3> QED BY <3>3, <3>5, <3>6, <3>9
    <2>3. \A s \in SUBSET D : Cardinality(s) = n + 1 => g[s] = Cardinality(In(s))
        BY <2>2
    <2> QED BY <2>1, <2>3
<1>5. Cardinality(D) \in S
    <2>1. S \in SUBSET Nat
        OBVIOUS
    <2> HIDE DEF S
    <2>2. S = Nat
        BY <1>3, <1>4, <2>1, CountingUp
    <2> QED BY <1>2, <2>2
<1>6. g[D] = Cardinality(In(D))
    BY <1>5
<1>7. In(D) = R
    BY DEF D
<1> QED BY <1>1, <1>6, <1>7

\* The sum over the two directions.
LEMMA SumOfTwo ==
    ASSUME NEW f \in [Directions -> Nat]
    PROVE  SumFunction(f) = f["rx"] + f["tx"]
<1>1. DOMAIN f = {"rx", "tx"} /\ IsFiniteSet(DOMAIN f)
    <2>1. IsFiniteSet({"rx", "tx"})
        <3>1. IsFiniteSet({"rx"})
            BY FS_Singleton
        <3>2. {"rx"} \cup {"tx"} = {"rx", "tx"}
            OBVIOUS
        <3>3. IsFiniteSet({"rx"} \cup {"tx"})
            BY <3>1, FS_AddElement
        <3> QED BY <3>2, <3>3
    <2> QED BY <2>1 DEF Directions
<1>2. PICK g : /\ SumFunction(f) = g[DOMAIN f]
               /\ \A s \in SUBSET DOMAIN f : g[s] = SumStep(g, f, s)
    BY <1>1, SumIs
<1>3. f["rx"] \in Nat /\ f["tx"] \in Nat
    BY DEF Directions
<1>4. g[{}] = 0
    BY <1>2 DEF SumStep
<1>5. ASSUME NEW d \in {"rx", "tx"} PROVE g[{d}] = f[d]
    <2>1. (CHOOSE x \in {d} : TRUE) = d /\ {d} \ {d} = {} /\ {d} # {}
        OBVIOUS
    <2>2. g[{d}] = f[d] + g[{}]
        BY <1>1, <1>2, <2>1 DEF SumStep
    <2> QED BY <1>3, <1>4, <2>2
<1>6. PICK k : k = CHOOSE x \in {"rx", "tx"} : TRUE
    OBVIOUS
<1>7. k \in {"rx", "tx"}
    BY <1>6
<1>8. g[{"rx", "tx"}] = f[k] + g[{"rx", "tx"} \ {k}]
    BY <1>1, <1>2, <1>6 DEF SumStep
<1>9. CASE k = "rx"
    <2>1. {"rx", "tx"} \ {k} = {"tx"}
        BY <1>9
    <2>2. g[{"rx", "tx"}] = f["rx"] + f["tx"]
        BY <1>5, <1>8, <1>9, <2>1
    <2> QED BY <1>1, <1>2, <2>2
<1>10. CASE k = "tx"
    <2>1. {"rx", "tx"} \ {k} = {"rx"}
        BY <1>10
    <2>2. g[{"rx", "tx"}] = f["tx"] + f["rx"]
        BY <1>5, <1>8, <1>10, <2>1
    <2> QED BY <1>1, <1>2, <1>3, <2>2
<1> QED BY <1>7, <1>9, <1>10
-----------------------------------------------------------------------------
(***************************************************************************)
(* The metrics of one process are a tally of the rows it counted.          *)
(***************************************************************************)

Done == {c \in Calls : counted[c] > before[c]}

TalliedInv ==
    /\ before \in [Calls -> Nat]
    /\ \A c \in Calls : before[c] =< counted[c]
    /\ scrapeRows = Cardinality(Done)
    /\ callsByBand = Tally(NewMetrics.callsByBand, Bands, InBand, Done)
    /\ mosScore = Tally(NewMetrics.mosScore, Directions, HasMos, Done)
    /\ lossPercent = Tally(NewMetrics.lossPercent, Directions, HasLoss, Done)

Zero(keys) == [s \in Sides |-> [k \in keys |-> 0]]

\* The rows of a set that raise a key.
Raising(s, k, seen, rows) == {c \in Recorded(s, rows) : k \in seen[s][c]}

LEMMA NewIs ==
    /\ NewMetrics.callsByBand = Zero(Bands)
    /\ NewMetrics.mosScore = Zero(Directions)
    /\ NewMetrics.lossPercent = Zero(Directions)
    /\ NewMetrics.scrapeRows = 0
BY DEF NewMetrics, Zero

LEMMA TallyIs ==
    ASSUME NEW series, NEW keys, NEW seen, NEW rows, NEW s \in Sides, NEW k \in keys
    PROVE  Tally(series, keys, seen, rows)[s][k] = series[s][k] + Cardinality(Raising(s, k, seen, rows))
BY DEF Tally, Raising

LEMMA RaisingIsFinite ==
    ASSUME NEW rows \in SUBSET Calls, NEW s, NEW k, NEW seen
    PROVE  IsFiniteSet(Raising(s, k, seen, rows)) /\ Cardinality(Raising(s, k, seen, rows)) \in Nat
<1>1. Raising(s, k, seen, rows) \subseteq Calls
    BY DEF Raising, Recorded
<1>2. IsFiniteSet(Raising(s, k, seen, rows))
    BY <1>1, QualityAssumption, FS_Subset
<1> QED BY <1>2, FS_CardinalityType

\* Of no rows the tally is nothing; rows that are tallied in turn are tallied
\* together.
LEMMA TallyNone ==
    ASSUME NEW keys, NEW seen
    PROVE  Tally(Zero(keys), keys, seen, {}) = Zero(keys)
<1>1. \A s, k : Raising(s, k, seen, {}) = {}
    BY DEF Raising, Recorded
<1>2. \A s \in Sides, k \in keys : Zero(keys)[s][k] = 0
    BY DEF Zero
<1>3. \A s \in Sides, k \in keys :
          Zero(keys)[s][k] + Cardinality({c \in Recorded(s, {}) : k \in seen[s][c]}) = 0
    BY <1>1, <1>2, FS_EmptySet DEF Raising
<1> QED BY <1>3 DEF Tally, Zero

LEMMA TallyBoth ==
    ASSUME NEW keys, NEW seen, NEW A \in SUBSET Calls, NEW B \in SUBSET Calls, A \cap B = {}
    PROVE  Tally(Tally(Zero(keys), keys, seen, A), keys, seen, B) = Tally(Zero(keys), keys, seen, A \cup B)
<1>1. ASSUME NEW s \in Sides, NEW k \in keys
      PROVE  Tally(Zero(keys), keys, seen, A)[s][k] + Cardinality(Raising(s, k, seen, B))
                = Zero(keys)[s][k] + Cardinality(Raising(s, k, seen, A \cup B))
    <2> DEFINE P == Raising(s, k, seen, A)
               Q == Raising(s, k, seen, B)
    <2>1. Raising(s, k, seen, A \cup B) = P \cup Q /\ P \cap Q = {}
        BY DEF Raising, Recorded
    <2>2. IsFiniteSet(P) /\ IsFiniteSet(Q) /\ Cardinality(P) \in Nat /\ Cardinality(Q) \in Nat
        BY RaisingIsFinite
    <2>3. Tally(Zero(keys), keys, seen, A)[s][k] = Zero(keys)[s][k] + Cardinality(P)
        BY TallyIs
    <2>4. Zero(keys)[s][k] = 0
        BY DEF Zero
    <2> HIDE DEF P, Q
    <2>5. Cardinality(P \cup Q) = Cardinality(P) + Cardinality(Q) - Cardinality(P \cap Q)
        BY <2>2, FS_Union
    <2>6. Cardinality(P \cap Q) = 0
        BY <2>1, FS_EmptySet
    <2>7. Cardinality(Raising(s, k, seen, A \cup B)) = Cardinality(P) + Cardinality(Q)
        <3>1. Cardinality(Raising(s, k, seen, A \cup B)) = Cardinality(P \cup Q)
            BY <2>1
        <3> QED BY <2>2, <2>5, <2>6, <3>1
    <2> QED BY <2>2, <2>3, <2>4, <2>7 DEF Q
<1> DEFINE first == Tally(Zero(keys), keys, seen, A)
<1> HIDE DEF first
<1>2. \A s \in Sides, k \in keys :
          first[s][k] + Cardinality({c \in Recorded(s, B) : k \in seen[s][c]})
              = Zero(keys)[s][k] + Cardinality({c \in Recorded(s, A \cup B) : k \in seen[s][c]})
    BY <1>1 DEF first, Raising
<1>3. Tally(first, keys, seen, B) = Tally(Zero(keys), keys, seen, A \cup B)
    BY <1>2 DEF Tally
<1> QED BY <1>3 DEF first

LEMMA TalliedStarts == QualityInit => TalliedInv
<1> SUFFICES ASSUME QualityInit PROVE TalliedInv
    OBVIOUS
<1>1. before = counted /\ before \in [Calls -> Nat]
    BY DEF QualityInit, Init
<1>2. Done = {}
    BY <1>1 DEF Done
<1>3. callsByBand = Zero(Bands) /\ mosScore = Zero(Directions) /\ lossPercent = Zero(Directions)
    BY NewIs DEF QualityInit
<1>4. scrapeRows = Cardinality({})
    BY NewIs, FS_EmptySet DEF QualityInit
<1> QED BY <1>1, <1>2, <1>3, <1>4, NewIs, TallyNone DEF TalliedInv

LEMMA TalliedKept == IInv /\ IInv' /\ TalliedInv /\ [QualityNext]_allVars => TalliedInv'
<1> SUFFICES ASSUME IInv, IInv', TalliedInv, [QualityNext]_allVars PROVE TalliedInv'
    OBVIOUS
<1>1. counted \in [Calls -> Nat] /\ counted' \in [Calls -> Nat] /\ before \in [Calls -> Nat]
      /\ \A c \in Calls : counted'[c] =< 1 /\ before[c] =< counted[c]
    BY DEF IInv, Ranges, NeverTwice, TalliedInv
<1>2. CASE counted' = counted /\ UNCHANGED <<metrics, before>>
    <2>1. Done' = Done
        BY <1>2 DEF Done
    <2> QED BY <1>2, <2>1 DEF TalliedInv, metrics
<1>3. CASE Unmeasured
    BY <1>2, <1>3 DEF Unmeasured, Begin, End, Tick, CollectFails, CollectNothing
<1>4. CASE UNCHANGED allVars
    BY <1>2, <1>4 DEF allVars, vars
<1>5. CASE CollectAndObserve
    <2> DEFINE rows == {c \in Calls : counted'[c] # counted[c]}
    <2>1. PICK page : counted' = [c \in Calls |-> IF c \in page THEN counted[c] + 1 ELSE counted[c]]
        BY <1>5 DEF CollectAndObserve, Collect, Observe
    <2>2. \A c \in rows : counted'[c] = counted[c] + 1
        BY <2>1
    <2>3. \A c \in Calls : counted[c] \in Nat /\ counted'[c] \in Nat /\ before[c] \in Nat
        BY <1>1
    <2>4. before' = before
        BY <1>5 DEF CollectAndObserve
    <2>5. Done \cap rows = {}
        BY <1>1, <2>2, <2>3 DEF Done
    <2>6. Done' = Done \cup rows
        BY <1>1, <2>2, <2>3, <2>4 DEF Done
    <2>7. Done \in SUBSET Calls /\ rows \in SUBSET Calls
        BY DEF Done
    <2>8. observe(rows)
        BY <1>5 DEF CollectAndObserve
    <2> HIDE DEF rows
    <2>9. IsFiniteSet(Done) /\ IsFiniteSet(rows)
        BY <2>7, QualityAssumption, FS_Subset
    <2>10. scrapeRows' = Cardinality(Done')
        <3>1. Cardinality(Done \cup rows) = Cardinality(Done) + Cardinality(rows) - Cardinality(Done \cap rows)
            BY <2>9, FS_Union
        <3>2. Cardinality(Done) \in Nat /\ Cardinality(rows) \in Nat
            BY <2>9, FS_CardinalityType
        <3>3. Cardinality(Done \cap rows) = 0
            BY <2>5, FS_EmptySet
        <3>4. scrapeRows' = Cardinality(Done) + Cardinality(rows)
            BY <2>8 DEF observe, TalliedInv
        <3> QED BY <2>6, <3>1, <3>2, <3>3, <3>4
    <2>11. callsByBand' = Tally(Zero(Bands), Bands, InBand, Done')
        <3>1. callsByBand' = Tally(Tally(Zero(Bands), Bands, InBand, Done), Bands, InBand, rows)
            BY <2>8, NewIs DEF observe, recordSide, TalliedInv
        <3> QED BY <2>5, <2>6, <2>7, <3>1, TallyBoth
    <2>12. mosScore' = Tally(Zero(Directions), Directions, HasMos, Done')
        <3>1. mosScore' = Tally(Tally(Zero(Directions), Directions, HasMos, Done), Directions, HasMos, rows)
            BY <2>8, NewIs DEF observe, recordSide, TalliedInv
        <3> QED BY <2>5, <2>6, <2>7, <3>1, TallyBoth
    <2>13. lossPercent' = Tally(Zero(Directions), Directions, HasLoss, Done')
        <3>1. lossPercent' = Tally(Tally(Zero(Directions), Directions, HasLoss, Done), Directions, HasLoss, rows)
            BY <2>8, NewIs DEF observe, recordSide, TalliedInv
        <3> QED BY <2>5, <2>6, <2>7, <3>1, TallyBoth
    <2>14. \A c \in Calls : before'[c] =< counted'[c]
        BY <1>1, <2>1, <2>3, <2>4
    <2> QED BY <1>1, <2>4, <2>10, <2>11, <2>12, <2>13, <2>14, NewIs DEF TalliedInv
<1>6. CASE RestartAnew
    <2>1. before' = counted /\ counted' = counted
        BY <1>6 DEF RestartAnew, Restart
    <2>2. Done' = {}
        BY <1>1, <2>1 DEF Done
    <2>3. callsByBand' = Zero(Bands) /\ mosScore' = Zero(Directions) /\ lossPercent' = Zero(Directions)
        BY <1>6, NewIs DEF RestartAnew
    <2>4. scrapeRows' = Cardinality({})
        BY <1>6, NewIs, FS_EmptySet DEF RestartAnew
    <2>5. before' \in [Calls -> Nat] /\ \A c \in Calls : before'[c] =< counted'[c]
        BY <1>1, <2>1
    <2> QED BY <2>2, <2>3, <2>4, <2>5, NewIs, TallyNone DEF TalliedInv
<1> QED BY <1>3, <1>4, <1>5, <1>6 DEF QualityNext
-----------------------------------------------------------------------------
(***************************************************************************)
(* What the tally says.                                                    *)
(***************************************************************************)

\* The two metrics of a side that speak of a score: the band, and the directions.
Band(c, s) == IF QoS(c, s) = Blank THEN "" ELSE QoS(c, s).quality

LEMMA MosIsNat ==
    ASSUME NEW mes \in Nat
    PROVE  mesToMOS(mes) \in Nat
<1> DEFINE mos == 1000000 + 35000 * mes + 7 * mes * (mes - 60) * (100 - mes)
<1>1. mos \in Int
    OBVIOUS
<1>2. mesToMOS(mes) =
          CASE mes = 0 -> 0
            [] mes >= 100 -> 4500000
            [] OTHER -> IF mes =< 6 \/ mos < 1000000 THEN 1000000
                        ELSE IF mos > 4500000 THEN 4500000 ELSE mos
    BY DEF mesToMOS
<1> HIDE DEF mos
<1> QED BY <1>1, <1>2

LEMMA BandIsBand == \A mos \in Nat : BandOf(mos) \in Bands
BY DEF BandOf, Bands

\* A side has a band other than unknown where a direction was scored.
LEMMA BandIs ==
    ASSUME NEW c \in Calls, NEW s \in Sides
    PROVE  /\ Band(c, s) \in Bands
           /\ InBand[s][c] = {Band(c, s)}
           /\ Band(c, s) # "" <=> HasMos[s][c] # {}
           /\ HasMos[s][c] \subseteq Directions
<1> DEFINE col == Raw[c][s]
<1>1. InBand[s][c] = {Band(c, s)}
    BY DEF InBand, Band
<1>2. HasMos[s][c] = {d \in Directions : QoS(c, s) # Blank /\ QoS(c, s).mos[d] > 0}
    BY DEF HasMos
<1>3. QoS(c, s) = ParseRTPQoS(col)
    BY DEF QoS, Parsed
<1>4. CASE QoS(c, s) = Blank
    BY <1>1, <1>2, <1>4 DEF Band, Bands
<1>5. CASE QoS(c, s) # Blank
    <2>1. col # Blank
        BY <1>3, <1>5 DEF ParseRTPQoS
    <2>2. Raw[c] \in [local : Columns, peer : Columns \cup {Blank}]
        BY CallQualityAssumption
    <2>3. col \in Columns
        BY <2>1, <2>2 DEF Sides
    <2>4. col.rx.mes \in Nat /\ col.tx.mes \in Nat /\ col["rx"].mes = col.rx.mes /\ col["tx"].mes = col.tx.mes
        BY <2>3 DEF Columns, Streams
    <2> DEFINE rx == mesToMOS(col.rx.mes)
               tx == mesToMOS(col.tx.mes)
    <2>5. QoS(c, s).quality = quality(rx, tx)
        BY <1>3, <2>1 DEF ParseRTPQoS
    <2>6. QoS(c, s).mos = [d \in Directions |-> mesToMOS(col[d].mes)]
        BY <1>3, <2>1 DEF ParseRTPQoS
    <2>7. QoS(c, s).mos["rx"] = rx /\ QoS(c, s).mos["tx"] = tx
        BY <2>4, <2>6 DEF Directions
    <2>8. rx \in Nat /\ tx \in Nat
        BY <2>4, MosIsNat
    <2> HIDE DEF rx, tx, col
    <2>9. Band(c, s) = quality(rx, tx)
        BY <1>5, <2>5 DEF Band
    <2>10. quality(rx, tx) \in Bands
        BY <2>8, BandIsBand DEF quality
    <2>11. quality(rx, tx) = "" <=> rx = 0 /\ tx = 0
        BY <2>8, WorstOfBoth
    <2>12. HasMos[s][c] # {} <=> rx > 0 \/ tx > 0
        BY <1>2, <1>5, <2>7 DEF Directions
    <2>13. HasMos[s][c] # {} <=> quality(rx, tx) # ""
        <3>1. rx > 0 \/ tx > 0 <=> ~(rx = 0 /\ tx = 0)
            BY <2>8
        <3> QED BY <2>11, <2>12, <3>1, Zenon
    <2> QED BY <1>1, <1>2, <2>9, <2>10, <2>13
<1> QED BY <1>4, <1>5

\* The bands of a side have its recorded rows among them.
LEMMA BandsAddUp ==
    ASSUME TalliedInv, NEW s \in Sides
    PROVE  SumFunction(callsByBand[s]) = Cardinality(Recorded(s, Done))
<1> DEFINE R == Recorded(s, Done)
           f == callsByBand[s]
           b == [c \in R |-> Band(c, s)]
<1>1. R \subseteq Calls
    BY DEF Recorded, Done
<1>2. IsFiniteSet(R)
    BY <1>1, QualityAssumption, FS_Subset
<1>3. \A k \in Bands : f[k] = Cardinality({c \in R : k \in InBand[s][c]})
    <2> TAKE k \in Bands
    <2>1. f[k] = Zero(Bands)[s][k] + Cardinality(Raising(s, k, InBand, Done))
        BY TallyIs, NewIs DEF TalliedInv
    <2>2. Zero(Bands)[s][k] = 0 /\ Cardinality(Raising(s, k, InBand, Done)) \in Nat
        <3>1. Done \in SUBSET Calls
            BY DEF Done
        <3> QED BY <3>1, RaisingIsFinite DEF Zero
    <2> QED BY <2>1, <2>2 DEF Raising
<1>4. f = [k \in Bands |-> f[k]]
    BY DEF TalliedInv, Tally
<1>5. DOMAIN f = Bands /\ IsFiniteSet(DOMAIN f)
    <2>1. IsFiniteSet({"", "EXCELLENT", "GOOD"}) /\ IsFiniteSet({"FAIR", "POOR", "BAD"})
        <3>1. \A x, y, z : {x, y, z} = ({x} \cup {y}) \cup {z}
            OBVIOUS
        <3>2. ASSUME NEW x, NEW y, NEW z PROVE IsFiniteSet({x, y, z})
            <4>1. IsFiniteSet({x} \cup {y})
                BY FS_Singleton, FS_AddElement
            <4>2. IsFiniteSet(({x} \cup {y}) \cup {z})
                BY <4>1, FS_AddElement
            <4> QED BY <3>1, <4>2
        <3> QED BY <3>2
    <2>2. Bands = {"", "EXCELLENT", "GOOD"} \cup {"FAIR", "POOR", "BAD"}
        BY DEF Bands
    <2>3. IsFiniteSet(Bands)
        BY <2>1, <2>2, FS_Union
    <2> QED BY <1>4, <2>3
<1>6. b \in [R -> Bands] /\ \A c \in R : InBand[s][c] = {b[c]}
    BY <1>1, BandIs
<1> HIDE DEF R, f, b
<1>7. ASSUME NEW k \in Bands PROVE f[k] = Cardinality({c \in R : b[c] = k})
    <2>1. {c \in R : k \in InBand[s][c]} = {c \in R : b[c] = k}
        BY <1>6
    <2> QED BY <1>3, <2>1
<1>8. SumFunction(f) = Cardinality(R)
    BY <1>2, <1>5, <1>6, <1>7, SumOfParts
<1> QED BY <1>8 DEF f, R

\* The rows with a band other than unknown are those with a score; each has one
\* or two.
LEMMA ScoresAddUp ==
    ASSUME TalliedInv, NEW s \in Sides
    PROVE  LET scored == SumFunction(callsByBand[s]) - callsByBand[s][""]
               scores == SumFunction(mosScore[s])
           IN  scored =< scores /\ scores =< 2 * scored
<1> DEFINE R == Recorded(s, Done)
           Of(d) == Raising(s, d, HasMos, Done)
           unknown == ""
           None == Raising(s, unknown, InBand, Done)
           Some == Of("rx") \cup Of("tx")
<1>1. Done \in SUBSET Calls /\ R \subseteq Calls
    BY DEF Recorded, Done
<1>2. IsFiniteSet(R) /\ Cardinality(R) \in Nat
    BY <1>1, QualityAssumption, FS_Subset, FS_CardinalityType
<1>3. \A d \in Directions : /\ mosScore[s][d] = Cardinality(Of(d))
                            /\ IsFiniteSet(Of(d)) /\ Cardinality(Of(d)) \in Nat
    <2> TAKE d \in Directions
    <2>1. mosScore[s][d] = Zero(Directions)[s][d] + Cardinality(Of(d))
        BY TallyIs, NewIs DEF TalliedInv
    <2>2. IsFiniteSet(Of(d)) /\ Cardinality(Of(d)) \in Nat /\ Zero(Directions)[s][d] = 0
        BY <1>1, RaisingIsFinite DEF Zero
    <2> HIDE DEF Of
    <2> QED BY <2>1, <2>2
<1>4. callsByBand[s][unknown] = Cardinality(None) /\ IsFiniteSet(None) /\ Cardinality(None) \in Nat
    <2>1. unknown \in Bands
        BY DEF Bands
    <2> HIDE DEF unknown
    <2>2. callsByBand[s][unknown] = Zero(Bands)[s][unknown] + Cardinality(None)
        BY <2>1, TallyIs, NewIs DEF TalliedInv
    <2>3. IsFiniteSet(None) /\ Cardinality(None) \in Nat
        BY <1>1, RaisingIsFinite
    <2>4. Zero(Bands)[s][unknown] = 0
        BY <2>1 DEF Zero
    <2> HIDE DEF None
    <2> QED BY <2>2, <2>3, <2>4
<1>5. R = None \cup Some /\ None \cap Some = {}
    <2>1. \A c \in R : c \in None <=> Band(c, s) = ""
        BY <1>1, BandIs DEF Raising
    <2>2. \A c \in R : c \in Some <=> HasMos[s][c] # {}
        BY <1>1, BandIs DEF Raising, Directions
    <2>3. \A c \in R : Band(c, s) # "" <=> HasMos[s][c] # {}
        BY <1>1, BandIs
    <2>4. None \subseteq R /\ Some \subseteq R
        BY DEF Raising
    <2> HIDE DEF None, Some
    <2> QED BY <2>1, <2>2, <2>3, <2>4
<1>6. SumFunction(callsByBand[s]) = Cardinality(R)
    BY BandsAddUp
<1>7. SumFunction(mosScore[s]) = mosScore[s]["rx"] + mosScore[s]["tx"]
    <2>1. mosScore[s] = [d \in Directions |-> mosScore[s][d]]
        BY DEF TalliedInv, Tally
    <2>2. \A d \in Directions : mosScore[s][d] \in Nat
        BY <1>3
    <2>3. mosScore[s] \in [Directions -> Nat]
        BY <2>1, <2>2
    <2> QED BY <2>3, SumOfTwo
<1> DEFINE P == Of("rx")
           Q == Of("tx")
<1>8. /\ mosScore[s]["rx"] = Cardinality(P) /\ IsFiniteSet(P) /\ Cardinality(P) \in Nat
      /\ mosScore[s]["tx"] = Cardinality(Q) /\ IsFiniteSet(Q) /\ Cardinality(Q) \in Nat
    BY <1>3 DEF Directions
<1>9. Some = P \cup Q
    OBVIOUS
<1> HIDE DEF P, Q, Of, None, Some, R, unknown
<1>10. /\ IsFiniteSet(Some) /\ Cardinality(Some) \in Nat
       /\ Cardinality(Some) =< Cardinality(P) + Cardinality(Q)
       /\ Cardinality(P) =< Cardinality(Some) /\ Cardinality(Q) =< Cardinality(Some)
    <2>1. IsFiniteSet(Some) /\ Cardinality(Some) = Cardinality(P) + Cardinality(Q) - Cardinality(P \cap Q)
        BY <1>8, <1>9, FS_Union
    <2>2. Cardinality(Some) \in Nat
        BY <2>1, FS_CardinalityType
    <2>3. Cardinality(P) =< Cardinality(Some) /\ Cardinality(Q) =< Cardinality(Some)
        BY <1>9, <2>1, FS_Subset
    <2>4. IsFiniteSet(P \cap Q) /\ Cardinality(P \cap Q) \in Nat
        BY <1>8, FS_Subset, FS_CardinalityType
    <2> QED BY <1>8, <2>1, <2>2, <2>3, <2>4
<1>11. Cardinality(R) = Cardinality(None) + Cardinality(Some)
    <2>1. Cardinality(None \cup Some) = Cardinality(None) + Cardinality(Some) - Cardinality(None \cap Some)
        BY <1>4, <1>10, FS_Union
    <2>2. Cardinality(None \cap Some) = 0
        BY <1>5, FS_EmptySet
    <2>3. Cardinality(R) = Cardinality(None \cup Some)
        BY <1>5
    <2>4. Cardinality(None) \in Nat /\ Cardinality(Some) \in Nat
        BY <1>4, <1>10
    <2> QED BY <2>1, <2>2, <2>3, <2>4
<1>12. SumFunction(callsByBand[s]) - callsByBand[s][unknown] = Cardinality(Some)
    <2>1. Cardinality(None) \in Nat /\ Cardinality(Some) \in Nat
        BY <1>4, <1>10
    <2>2. callsByBand[s][unknown] = Cardinality(None)
        BY <1>4
    <2>3. SumFunction(callsByBand[s]) = Cardinality(None) + Cardinality(Some)
        BY <1>6, <1>11
    <2>4. \A n, m \in Nat : (n + m) - n = m
        OBVIOUS
    <2>5. SumFunction(callsByBand[s]) - callsByBand[s][unknown]
             = (Cardinality(None) + Cardinality(Some)) - Cardinality(None)
        BY <2>2, <2>3
    <2> QED BY <2>1, <2>4, <2>5
<1>13. SumFunction(mosScore[s]) = Cardinality(P) + Cardinality(Q)
    BY <1>7, <1>8
<1>14. Cardinality(Some) =< Cardinality(P) + Cardinality(Q)
       /\ Cardinality(P) + Cardinality(Q) =< 2 * Cardinality(Some)
    <2>1. Cardinality(P) \in Nat /\ Cardinality(Q) \in Nat
        BY <1>8
    <2> QED BY <1>10, <2>1
<1> QED BY <1>12, <1>13, <1>14 DEF unknown
-----------------------------------------------------------------------------
(***************************************************************************)
(* The scores: a better one is never in a worse band.                      *)
(***************************************************************************)

\* The polynomial of mesToMOS, between its clamps.
Curve(mes) == 1000000 + 35000 * mes + 7 * mes * (mes - 60) * (100 - mes)

LEMMA CurveRises ==
    ASSUME NEW a \in 4 .. 100, NEW b \in 4 .. 100, a =< b
    PROVE  Curve(a) =< Curve(b)
<1> DEFINE slope == 1120 * (a + b) - 7000 - 7 * (a * a + a * b + b * b)
<1>1. a \in Nat /\ b \in Nat /\ 4 =< a /\ 4 =< b /\ a =< 100 /\ b =< 100
    OBVIOUS
<1>2. \A m \in Int : Curve(m) = 1000000 - 7000 * m + 1120 * (m * m) - 7 * (m * m * m)
    BY DEF Curve
<1>3. Curve(b) - Curve(a) = (b - a) * slope
    BY <1>1, <1>2
<1>4. a * a =< 104 * a - 400
    <2>1. (a - 4) * (100 - a) >= 0
        BY <1>1
    <2>2. (a - 4) * (100 - a) = 104 * a - a * a - 400
        BY <1>1
    <2> QED BY <1>1, <2>1, <2>2
<1>5. b * b =< 104 * b - 400
    <2>1. (b - 4) * (100 - b) >= 0
        BY <1>1
    <2>2. (b - 4) * (100 - b) = 104 * b - b * b - 400
        BY <1>1
    <2> QED BY <1>1, <2>1, <2>2
<1>6. a * b =< 100 * a + 4 * b - 400 /\ a * b =< 4 * a + 100 * b - 400
    <2>1. (a - 4) * (100 - b) >= 0 /\ (b - 4) * (100 - a) >= 0
        BY <1>1
    <2>2. (a - 4) * (100 - b) = 100 * a - a * b - 400 + 4 * b
        BY <1>1
    <2>3. (b - 4) * (100 - a) = 100 * b - a * b - 400 + 4 * a
        BY <1>1
    <2>4. a * b \in Nat
        BY <1>1
    <2> QED BY <1>1, <2>1, <2>2, <2>3, <2>4
<1>7. slope >= 0
    <2>1. a * a \in Nat /\ a * b \in Nat /\ b * b \in Nat
        BY <1>1
    <2>2. \A p, q, r \in Nat :
              p =< 104 * a - 400 /\ q =< 104 * b - 400 /\ r =< 100 * a + 4 * b - 400 /\ r =< 4 * a + 100 * b - 400
                  => 1120 * (a + b) - 7000 - 7 * (p + r + q) >= 0
        BY <1>1
    <2> QED BY <1>4, <1>5, <1>6, <2>1, <2>2
<1>8. slope \in Int
    BY <1>1
<1> HIDE DEF slope
<1>9. (b - a) * slope >= 0
    BY <1>1, <1>7, <1>8
<1>10. Curve(a) \in Int /\ Curve(b) \in Int
    BY <1>1 DEF Curve
<1> HIDE DEF Curve
<1> QED BY <1>3, <1>9, <1>10

\* A better score has no lower MOS.
LEMMA MosGrows ==
    ASSUME NEW a \in Nat, NEW b \in Nat, 0 < a, a =< b
    PROVE  0 < mesToMOS(a) /\ mesToMOS(a) =< mesToMOS(b)
<1> DEFINE Clamped(c) == IF c < 1000000 THEN 1000000 ELSE IF c > 4500000 THEN 4500000 ELSE c
<1>1. \A m \in Nat : Curve(m) \in Int
    BY DEF Curve
<1>2. \A m \in Nat : /\ 0 < m /\ m =< 6 => mesToMOS(m) = 1000000
                     /\ 6 < m /\ m < 100 => mesToMOS(m) = Clamped(Curve(m))
                     /\ 100 =< m => mesToMOS(m) = 4500000
    <2> TAKE m \in Nat
    <2>1. mesToMOS(m) =
              CASE m = 0 -> 0
                [] m >= 100 -> 4500000
                [] OTHER -> IF m =< 6 \/ Curve(m) < 1000000 THEN 1000000
                            ELSE IF Curve(m) > 4500000 THEN 4500000 ELSE Curve(m)
        BY DEF mesToMOS, Curve
    <2> HIDE DEF Curve
    <2> QED BY <2>1
<1>3. \A c \in Int : Clamped(c) \in Int /\ 1000000 =< Clamped(c) /\ Clamped(c) =< 4500000
    OBVIOUS
<1>4. \A c, d \in Int : c =< d => Clamped(c) =< Clamped(d)
    OBVIOUS
<1> HIDE DEF Clamped
<1>5. \A m \in Nat : 0 < m => mesToMOS(m) \in Int /\ 1000000 =< mesToMOS(m) /\ mesToMOS(m) =< 4500000
    <2> TAKE m \in Nat
    <2>1. (0 < m /\ m =< 6) \/ (6 < m /\ m < 100) \/ 100 =< m \/ m = 0
        OBVIOUS
    <2> QED BY <1>1, <1>2, <1>3, <2>1
<1>6. mesToMOS(a) =< mesToMOS(b)
    <2>1. CASE a =< 6
        BY <1>2, <1>5, <2>1
    <2>2. CASE 100 =< b
        BY <1>2, <1>5, <2>2
    <2>3. CASE 6 < a /\ b < 100
        <3>1. 6 < a /\ a < 100 /\ 6 < b /\ b < 100 /\ a \in 4 .. 100 /\ b \in 4 .. 100
            BY <2>3
        <3>2. Curve(a) =< Curve(b)
            BY <3>1, CurveRises
        <3>3. mesToMOS(a) = Clamped(Curve(a)) /\ mesToMOS(b) = Clamped(Curve(b))
            BY <1>2, <3>1
        <3> QED BY <1>1, <1>4, <3>2, <3>3
    <2> QED BY <2>1, <2>2, <2>3
<1> QED BY <1>5, <1>6

LEMMA RanksAre ==
    /\ Rank("BAD") = 1 /\ Rank("POOR") = 2 /\ Rank("FAIR") = 3
    /\ Rank("GOOD") = 4 /\ Rank("EXCELLENT") = 5
<1>1. DOMAIN Ranked = 1 .. 5
    BY DEF Ranked
<1>2. Ranked[1] = "BAD" /\ Ranked[2] = "POOR" /\ Ranked[3] = "FAIR" /\ Ranked[4] = "GOOD" /\ Ranked[5] = "EXCELLENT"
    BY DEF Ranked
<1>3. ASSUME NEW n \in 1 .. 5, Ranked[n] # "" PROVE Rank(Ranked[n]) = n
    <2>1. \A i \in 1 .. 5 : Ranked[i] = Ranked[n] => i = n
        BY <1>2
    <2>2. (CHOOSE i \in DOMAIN Ranked : Ranked[i] = Ranked[n]) = n
        BY <1>1, <2>1
    <2> QED BY <1>3, <2>2 DEF Rank
<1>4. \A n \in 1 .. 5 : Rank(Ranked[n]) = n
    <2>1. \A n \in 1 .. 5 : n = 1 \/ n = 2 \/ n = 3 \/ n = 4 \/ n = 5
        OBVIOUS
    <2>2. \A n \in 1 .. 5 : Ranked[n] # ""
        BY <1>2, <2>1
    <2> QED BY <1>3, <2>2
<1> QED BY <1>2, <1>4

LEMMA RankGrows ==
    ASSUME NEW x \in Nat, NEW y \in Nat, 0 < x, x =< y
    PROVE  Rank(BandOf(x)) =< Rank(BandOf(y))
<1>1. \A m \in Nat : 0 < m =>
          Rank(BandOf(m)) = IF m >= 4300000 THEN 5 ELSE IF m >= 4000000 THEN 4
                            ELSE IF m >= 3600000 THEN 3 ELSE IF m >= 3100000 THEN 2 ELSE 1
    <2> TAKE m \in Nat
    <2> HAVE 0 < m
    <2>1. m # 0
        OBVIOUS
    <2>2. CASE m >= 4300000
        <3>1. BandOf(m) = "EXCELLENT"
            BY <2>1, <2>2 DEF BandOf
        <3> QED BY <2>2, <3>1, RanksAre
    <2>3. CASE ~(m >= 4300000) /\ m >= 4000000
        <3>1. BandOf(m) = "GOOD"
            BY <2>1, <2>3 DEF BandOf
        <3> QED BY <2>3, <3>1, RanksAre
    <2>4. CASE ~(m >= 4000000) /\ m >= 3600000
        <3>1. BandOf(m) = "FAIR"
            BY <2>1, <2>4 DEF BandOf
        <3>2. ~(m >= 4300000)
            BY <2>4
        <3> QED BY <2>4, <3>1, <3>2, RanksAre
    <2>5. CASE ~(m >= 3600000) /\ m >= 3100000
        <3>1. ~(m >= 4300000) /\ ~(m >= 4000000)
            BY <2>5
        <3>2. BandOf(m) = "POOR"
            BY <2>1, <2>5, <3>1 DEF BandOf
        <3> QED BY <2>5, <3>1, <3>2, RanksAre
    <2>6. CASE ~(m >= 3100000)
        <3>1. ~(m >= 4300000) /\ ~(m >= 4000000) /\ ~(m >= 3600000)
            BY <2>6
        <3>2. BandOf(m) = "BAD"
            BY <2>1, <2>6, <3>1 DEF BandOf
        <3> QED BY <2>6, <3>1, <3>2, RanksAre
    <2> QED BY <2>2, <2>3, <2>4, <2>5, <2>6
<1>2. Rank(BandOf(x)) = IF x >= 4300000 THEN 5 ELSE IF x >= 4000000 THEN 4
                        ELSE IF x >= 3600000 THEN 3 ELSE IF x >= 3100000 THEN 2 ELSE 1
    BY <1>1
<1>3. Rank(BandOf(y)) = IF y >= 4300000 THEN 5 ELSE IF y >= 4000000 THEN 4
                        ELSE IF y >= 3600000 THEN 3 ELSE IF y >= 3100000 THEN 2 ELSE 1
    <2>1. 0 < y
        OBVIOUS
    <2> QED BY <1>1, <2>1
<1> QED BY <1>2, <1>3

LEMMA TheScoresDecide == ScoresDecide
<1> SUFFICES ASSUME NEW rx \in 0 .. 101, NEW tx \in 0 .. 101
             PROVE  LET rank == Rank(quality(mesToMOS(rx), mesToMOS(tx)))
                        of(mes) == Rank(BandOf(mesToMOS(mes)))
                    IN  /\ rx = 0 => rank = of(tx)
                        /\ tx = 0 => rank = of(rx)
                        /\ 0 < rx /\ rx =< tx => rank = of(rx) /\ of(rx) =< of(tx)
                        /\ 0 < tx /\ tx =< rx => rank = of(tx)
    BY DEF ScoresDecide
<1> DEFINE r == mesToMOS(rx)
           t == mesToMOS(tx)
<1>1. rx \in Nat /\ tx \in Nat
    OBVIOUS
<1>2. r \in Nat /\ t \in Nat
    BY <1>1, MosIsNat
<1>3. mesToMOS(0) = 0
    BY DEF mesToMOS
<1>4. rx = 0 => quality(r, t) = BandOf(t)
    BY <1>2, <1>3, WorstOfBoth
<1>5. tx = 0 => quality(r, t) = BandOf(r)
    BY <1>2, <1>3, WorstOfBoth
<1>6. ASSUME 0 < rx, rx =< tx
      PROVE  quality(r, t) = BandOf(r) /\ Rank(BandOf(r)) =< Rank(BandOf(t))
    <2>1. 0 < r /\ r =< t
        BY <1>1, <1>6, MosGrows
    <2> QED BY <1>2, <2>1, WorstOfBoth, RankGrows
<1>7. ASSUME 0 < tx, tx =< rx
      PROVE  quality(r, t) = BandOf(t)
    <2>1. 0 < t /\ t =< r
        BY <1>1, <1>7, MosGrows
    <2> QED BY <1>2, <2>1, WorstOfBoth
<1> HIDE DEF r, t
<1> QED BY <1>4, <1>5, <1>6, <1>7 DEF r, t
-----------------------------------------------------------------------------
LEMMA TallyAddsUp == TalliedInv => MetricsAddUp
<1> SUFFICES ASSUME TalliedInv PROVE MetricsAddUp
    OBVIOUS
<1>1. Done \in SUBSET Calls /\ IsFiniteSet(Done) /\ scrapeRows = Cardinality(Done)
    BY QualityAssumption, FS_Subset DEF Done, TalliedInv
<1>2. Recorded("local", Done) = Done /\ \A s \in Sides : Recorded(s, Done) \subseteq Done
    BY DEF Recorded
<1>3. \A s \in Sides : IsFiniteSet(Recorded(s, Done)) /\ Cardinality(Recorded(s, Done)) =< Cardinality(Done)
    BY <1>1, <1>2, FS_Subset
<1>4. \A s \in Sides : SumFunction(callsByBand[s]) = Cardinality(Recorded(s, Done))
    BY BandsAddUp
<1>5. "local" \in Sides /\ "peer" \in Sides
    BY DEF Sides
<1>6. SumFunction(callsByBand["local"]) = scrapeRows
    BY <1>1, <1>2, <1>4, <1>5
<1>7. SumFunction(callsByBand["peer"]) =< scrapeRows
    BY <1>1, <1>3, <1>4, <1>5
<1>8. ASSUME NEW s \in Sides, NEW d \in Directions
      PROVE  /\ mosScore[s][d] =< SumFunction(callsByBand[s])
             /\ lossPercent[s][d] =< SumFunction(callsByBand[s])
    <2>1. ASSUME NEW seen PROVE Tally(Zero(Directions), Directions, seen, Done)[s][d] =< Cardinality(Recorded(s, Done))
        <3>1. Tally(Zero(Directions), Directions, seen, Done)[s][d]
                 = Zero(Directions)[s][d] + Cardinality(Raising(s, d, seen, Done))
            BY TallyIs
        <3>2. Zero(Directions)[s][d] = 0
            BY DEF Zero
        <3>3. Raising(s, d, seen, Done) \subseteq Recorded(s, Done)
            BY DEF Raising
        <3>4. Cardinality(Raising(s, d, seen, Done)) =< Cardinality(Recorded(s, Done))
              /\ Cardinality(Raising(s, d, seen, Done)) \in Nat
            BY <1>1, <1>3, <3>3, FS_Subset, RaisingIsFinite
        <3> QED BY <3>1, <3>2, <3>4
    <2>2. mosScore[s][d] =< Cardinality(Recorded(s, Done))
        BY <2>1, NewIs DEF TalliedInv
    <2>3. lossPercent[s][d] =< Cardinality(Recorded(s, Done))
        BY <2>1, NewIs DEF TalliedInv
    <2> QED BY <1>4, <2>2, <2>3
<1>9. scrapeRows = Cardinality({c \in Calls : counted[c] > before[c]})
    BY <1>1 DEF Done
<1> QED BY <1>6, <1>7, <1>8, <1>9, ScoresAddUp, TheScoresDecide DEF MetricsAddUp

\* The counters and histograms of one process (observe and recordSide) agree with
\* each other and with the rows it counted, whatever the rows say, whatever fails
\* and restarts: each row is in one band of its own side, and a band other than
\* unknown stands for one observed score or two.  And for every pair of scores
\* the band is that of the worse direction.
THEOREM MetricsAgree == QualitySpec => []MetricsAddUp
<1>1. QualitySpec => []IInv
    BY MeasuringCounts, Invariant, PTL
<1>2. IInv /\ IInv' /\ TalliedInv /\ [QualityNext]_allVars => TalliedInv'
    BY TalliedKept
<1>3. QualityInit => TalliedInv
    BY TalliedStarts
<1>4. TalliedInv => MetricsAddUp
    BY TallyAddsUp
<1> QED BY <1>1, <1>2, <1>3, <1>4, PTL DEF QualitySpec
=============================================================================
