---------------------------- MODULE ListenerProofs ----------------------------
(***************************************************************************)
(* That the listener's registry and the frames on the wire amount to the   *)
(* channels of Asterisk, for every set of channels and every number of     *)
(* sessions, changes and frames.                                           *)
(*                                                                         *)
(* What a queue of frames does to the registry is a fold.  First it is     *)
(* shown that its result is decided, channel by channel, by the last frame *)
(* about the channel, if there is one; the invariant is then about that    *)
(* frame.                                                                  *)
(***************************************************************************)
EXTENDS Listener, SequenceTheorems, FiniteSetTheorems, WellFoundedInduction, TLAPS

Brings(frame, u) == frame.kind \in {"Newchannel", "CoreShowChannel"} /\ frame.uid = u
Takes(frame, u) == frame.kind = "Hangup" /\ frame.uid = u
Mentions(frame, u) == Brings(frame, u) \/ Takes(frame, u)

\* The last frame of a queue about a channel brings it; takes it; there is none.
LastBrings(w, u) ==
    \E i \in DOMAIN w : /\ Brings(w[i], u)
                        /\ \A j \in DOMAIN w : j > i => ~Mentions(w[j], u)
LastTakes(w, u) ==
    \E i \in DOMAIN w : /\ Takes(w[i], u)
                        /\ \A j \in DOMAIN w : j > i => ~Mentions(w[j], u)
Quiet(w, u) == \A i \in DOMAIN w : ~Mentions(w[i], u)
-----------------------------------------------------------------------------
(***************************************************************************)
(* The fold.                                                               *)
(***************************************************************************)

\* Induction, over the numbers of a set.
LEMMA CountingUp ==
    ASSUME NEW S \in SUBSET Nat, 0 \in S, \A n \in S : n + 1 \in S
    PROVE  S = Nat
<1> SUFFICES ASSUME Nat \ S # {} PROVE FALSE
    OBVIOUS
<1>1. PICK m \in Nat \ S : \A n \in Nat \ S : ~(<<n, m>> \in OpToRel(<, Nat))
    BY NatLessThanWellFounded, WFMin, Zenon
<1>2. \A n \in Nat \ S : ~(n < m)
    BY <1>1, Zenon DEF OpToRel
<1>3. m # 0
    OBVIOUS
<1>4. m - 1 \in S
    BY <1>2, <1>3
<1>5. (m - 1) + 1 = m
    OBVIOUS
<1> QED BY <1>4, <1>5

LEMMA DispatchIs ==
    ASSUME NEW chans, NEW frame, NEW u
    PROVE  u \in dispatch(chans, frame) <=> Brings(frame, u) \/ (u \in chans /\ ~Takes(frame, u))
<1>1. CASE frame.kind \in {"Newchannel", "CoreShowChannel"}
    <2>1. dispatch(chans, frame) = chans \cup {frame.uid}
        BY <1>1 DEF dispatch
    <2> QED BY <1>1, <2>1 DEF Brings, Takes
<1>2. CASE frame.kind = "Hangup"
    <2>1. dispatch(chans, frame) = chans \ {frame.uid}
        BY <1>2 DEF dispatch
    <2> QED BY <1>2, <2>1 DEF Brings, Takes
<1>3. CASE frame.kind \notin {"Newchannel", "CoreShowChannel", "Hangup"}
    <2>1. dispatch(chans, frame) = chans
        BY <1>3 DEF dispatch
    <2> QED BY <1>3, <2>1 DEF Brings, Takes
<1> QED BY <1>1, <1>2, <1>3

LEMMA MaxOfInterval ==
    ASSUME NEW n \in Nat
    PROVE  /\ Max(1 .. (n + 1)) = n + 1
           /\ \A s \in SUBSET (1 .. (n + 1)) : n + 1 \in s => Max(s) = n + 1
           /\ (1 .. (n + 1)) \ {n + 1} = 1 .. n
<1>1. ASSUME NEW s \in SUBSET (1 .. (n + 1)), n + 1 \in s
      PROVE  Max(s) = n + 1
    <2>1. \A y \in s : n + 1 >= y
        BY <1>1
    <2>2. \A x \in s : (\A y \in s : x >= y) => x = n + 1
        BY <1>1
    <2> QED BY <1>1, <2>1, <2>2 DEF Max
<1>2. Max(1 .. (n + 1)) = n + 1
    BY <1>1
<1> QED BY <1>1, <1>2

\* The function the fold is the value of.
IsFold(g, chans, w, n) ==
    g = [s \in SUBSET (1 .. n) |->
            IF s = {} THEN chans ELSE dispatch(g[s \ {Max(s)}], w[Max(s)])]

LEMMA FoldExists ==
    ASSUME NEW chans, NEW w
    PROVE  \A n \in Nat : \E g : IsFold(g, chans, w, n)
<1> DEFINE S == {n \in Nat : \E g : IsFold(g, chans, w, n)}
<1>1. 0 \in S
    <2> DEFINE g == [s \in SUBSET (1 .. 0) |-> chans]
    <2>1. 1 .. 0 = {}
        OBVIOUS
    <2>2. IsFold(g, chans, w, 0)
        BY <2>1 DEF IsFold
    <2> QED BY <2>2
<1>2. ASSUME NEW n \in S PROVE n + 1 \in S
    <2>1. n \in Nat
        OBVIOUS
    <2>2. PICK g : IsFold(g, chans, w, n)
        OBVIOUS
    <2> DEFINE h == [s \in SUBSET (1 .. (n + 1)) |->
                        IF n + 1 \in s THEN dispatch(g[s \ {n + 1}], w[n + 1]) ELSE g[s]]
    <2>3. ASSUME NEW s \in SUBSET (1 .. (n + 1))
          PROVE  h[s] = IF s = {} THEN chans ELSE dispatch(h[s \ {Max(s)}], w[Max(s)])
        <3>1. CASE n + 1 \in s
            <4>1. Max(s) = n + 1
                BY <2>1, <3>1, MaxOfInterval
            <4>2. s \ {n + 1} \in SUBSET (1 .. (n + 1)) /\ n + 1 \notin s \ {n + 1}
                OBVIOUS
            <4>3. h[s \ {n + 1}] = g[s \ {n + 1}]
                BY <4>2
            <4> QED BY <3>1, <4>1, <4>3
        <3>2. CASE n + 1 \notin s
            <4>1. s \in SUBSET (1 .. n)
                BY <2>1, <3>2
            <4>2. h[s] = g[s]
                BY <3>2
            <4>3. g[s] = IF s = {} THEN chans ELSE dispatch(g[s \ {Max(s)}], w[Max(s)])
                BY <2>2, <4>1 DEF IsFold
            <4>4. s \ {Max(s)} \in SUBSET (1 .. (n + 1)) /\ n + 1 \notin s \ {Max(s)}
                BY <3>2
            <4>5. h[s \ {Max(s)}] = g[s \ {Max(s)}]
                BY <4>4
            <4> QED BY <4>2, <4>3, <4>5
        <3> QED BY <3>1, <3>2
    <2>4. IsFold(h, chans, w, n + 1)
        <3>1. h = [s \in SUBSET (1 .. (n + 1)) |-> h[s]]
            OBVIOUS
        <3> HIDE DEF h
        <3> QED BY <2>3, <3>1 DEF IsFold
    <2> QED BY <2>1, <2>4
<1> HIDE DEF S
<1>3. S = Nat
    <2>1. S \in SUBSET Nat
        BY DEF S
    <2> QED BY <1>1, <1>2, <2>1, CountingUp
<1> QED BY <1>3 DEF S

\* After m frames the registry has what the last of them about a channel says,
\* and where there is none, what it had.
Decided(chans, w, m, u) ==
    \/ \E i \in 1 .. m : /\ Brings(w[i], u)
                         /\ \A j \in 1 .. m : j > i => ~Mentions(w[j], u)
    \/ u \in chans /\ \A i \in 1 .. m : ~Mentions(w[i], u)

LEMMA DecidedNext ==
    ASSUME NEW chans, NEW w, NEW m \in Nat, NEW u
    PROVE  Decided(chans, w, m + 1, u) <=>
               \/ Brings(w[m + 1], u)
               \/ Decided(chans, w, m, u) /\ ~Takes(w[m + 1], u)
<1> DEFINE last == w[m + 1]
<1>1. \A i \in 1 .. (m + 1) : i = m + 1 \/ (i \in 1 .. m /\ i < m + 1)
    OBVIOUS
<1>2. m + 1 \in 1 .. (m + 1) /\ ~(m + 1 > m + 1) /\ \A i \in 1 .. m : i \in 1 .. (m + 1) /\ m + 1 > i
    OBVIOUS
<1>3. ASSUME Brings(last, u) PROVE Decided(chans, w, m + 1, u)
    <2>1. \A j \in 1 .. (m + 1) : ~(j > m + 1)
        OBVIOUS
    <2> QED BY <1>2, <1>3, <2>1 DEF Decided
<1>4. ASSUME Decided(chans, w, m, u), ~Mentions(last, u) PROVE Decided(chans, w, m + 1, u)
    BY <1>1, <1>2, <1>4 DEF Decided
<1>5. ASSUME Decided(chans, w, m + 1, u), ~Brings(last, u)
      PROVE  Decided(chans, w, m, u) /\ ~Takes(last, u)
    <2>1. ~Mentions(last, u)
        BY <1>1, <1>2, <1>5 DEF Decided, Mentions
    <2> QED BY <1>1, <1>2, <1>5, <2>1 DEF Decided, Mentions
<1> QED BY <1>3, <1>4, <1>5 DEF Mentions

LEMMA FoldDecides ==
    ASSUME NEW chans, NEW w, NEW n \in Nat, NEW g, IsFold(g, chans, w, n), NEW u
    PROVE  u \in g[1 .. n] <=> Decided(chans, w, n, u)
<1> DEFINE S == {m \in Nat : m =< n => (u \in g[1 .. m] <=> Decided(chans, w, m, u))}
<1>1. \A s \in SUBSET (1 .. n) : g[s] = IF s = {} THEN chans ELSE dispatch(g[s \ {Max(s)}], w[Max(s)])
    BY DEF IsFold
<1>2. 0 \in S
    <2>1. 1 .. 0 = {}
        OBVIOUS
    <2>2. g[1 .. 0] = chans
        BY <1>1, <2>1
    <2>3. Decided(chans, w, 0, u) <=> u \in chans
        BY <2>1 DEF Decided
    <2> QED BY <2>2, <2>3
<1>3. ASSUME NEW m \in S PROVE m + 1 \in S
    <2> SUFFICES ASSUME m + 1 =< n
                 PROVE  u \in g[1 .. (m + 1)] <=> Decided(chans, w, m + 1, u)
        OBVIOUS
    <2>1. m \in Nat /\ (u \in g[1 .. m] <=> Decided(chans, w, m, u))
        OBVIOUS
    <2> HIDE DEF S
    <2>2. 1 .. (m + 1) \in SUBSET (1 .. n)
        BY <2>1
    <2>3. m + 1 \in 1 .. (m + 1)
        BY <2>1
    <2>4. Max(1 .. (m + 1)) = m + 1 /\ (1 .. (m + 1)) \ {m + 1} = 1 .. m
        BY <2>1, MaxOfInterval
    <2>5. g[1 .. (m + 1)] = IF 1 .. (m + 1) = {} THEN chans
                            ELSE dispatch(g[(1 .. (m + 1)) \ {Max(1 .. (m + 1))}], w[Max(1 .. (m + 1))])
        BY <1>1, <2>2, Zenon
    <2>6. g[1 .. (m + 1)] = dispatch(g[1 .. m], w[m + 1])
        BY <2>3, <2>4, <2>5, Zenon
    <2>7. u \in dispatch(g[1 .. m], w[m + 1]) <=>
              Brings(w[m + 1], u) \/ (u \in g[1 .. m] /\ ~Takes(w[m + 1], u))
        BY DispatchIs
    <2>8. u \in g[1 .. (m + 1)] <=> \/ Brings(w[m + 1], u)
                                    \/ u \in g[1 .. m] /\ ~Takes(w[m + 1], u)
        BY <2>6, <2>7, Zenon
    <2> QED BY <2>1, <2>8, DecidedNext, Zenon
<1> HIDE DEF S
<1>4. S = Nat
    <2>1. S \in SUBSET Nat
        BY DEF S
    <2> QED BY <1>2, <1>3, <2>1, CountingUp
<1>5. n \in S /\ n =< n
    BY <1>4
<1> QED BY <1>5 DEF S

\* What a queue of frames makes of the registry.
LEMMA ReplayIs ==
    ASSUME NEW X, NEW w \in Seq(X), NEW chans, NEW u
    PROVE  u \in FoldLeft(dispatch, chans, w) <=>
               LastBrings(w, u) \/ (u \in chans /\ Quiet(w, u))
<1> DEFINE n == Len(w)
           g == CHOOSE f : IsFold(f, chans, w, n)
<1>1. n \in Nat /\ DOMAIN w = 1 .. n
    OBVIOUS
<1>2. IsFold(g, chans, w, n)
    BY <1>1, FoldExists
<1>3. FoldLeft(dispatch, chans, w) = g[1 .. n]
    <2>1. PICK iter :
              /\ iter = CHOOSE f : f = [s \in SUBSET DOMAIN w |->
                                          IF s = {} THEN chans
                                          ELSE dispatch(f[s \ {Max(s)}], w[Max(s)])]
              /\ FoldLeft(dispatch, chans, w) = iter[DOMAIN w]
        BY DEF FoldLeft, MapThenFoldSet
    <2>2. iter = g
        BY <1>1, <2>1 DEF IsFold
    <2> HIDE DEF g
    <2> QED BY <1>1, <2>1, <2>2
<1> HIDE DEF g
<1>4. u \in g[1 .. n] <=> Decided(chans, w, n, u)
    BY <1>1, <1>2, FoldDecides
<1>5. Decided(chans, w, n, u) <=> LastBrings(w, u) \/ (u \in chans /\ Quiet(w, u))
    BY <1>1 DEF Decided, LastBrings, Quiet
<1> QED BY <1>3, <1>4, <1>5
-----------------------------------------------------------------------------
(***************************************************************************)
(* What is last in a queue that grows or shrinks.                          *)
(***************************************************************************)

LEMMA LastOfAppend ==
    ASSUME NEW X, NEW w \in Seq(X), NEW f \in X, NEW u
    PROVE  /\ LastBrings(Append(w, f), u) <=> Brings(f, u) \/ (LastBrings(w, u) /\ ~Mentions(f, u))
           /\ LastTakes(Append(w, f), u) <=>
                 (Takes(f, u) \/ (LastTakes(w, u) /\ ~Mentions(f, u)))
           /\ Quiet(Append(w, f), u) <=> Quiet(w, u) /\ ~Mentions(f, u)
<1> DEFINE n == Len(w)
           a == Append(w, f)
<1>1. n \in Nat /\ DOMAIN w = 1 .. n
    BY LenProperties
<1>2. DOMAIN a = 1 .. (n + 1) /\ a[n + 1] = f /\ \A i \in 1 .. n : a[i] = w[i]
    BY AppendProperties, LenProperties
<1> HIDE DEF n, a
<1>3. \A i \in 1 .. (n + 1) : i = n + 1 \/ (i \in 1 .. n /\ n + 1 > i)
    BY <1>1
<1>4. n + 1 \in 1 .. (n + 1) /\ \A i \in 1 .. n : i \in 1 .. (n + 1)
    BY <1>1
<1>5. \A j \in 1 .. (n + 1) : ~(j > n + 1)
    BY <1>1
<1>6. Quiet(a, u) <=> Quiet(w, u) /\ ~Mentions(f, u)
    BY <1>1, <1>2, <1>3, <1>4 DEF Quiet
<1>7. LastBrings(a, u) <=> Brings(f, u) \/ (LastBrings(w, u) /\ ~Mentions(f, u))
    <2>1. ASSUME Brings(f, u) PROVE LastBrings(a, u)
        BY <1>2, <1>4, <1>5, <2>1 DEF LastBrings
    <2>2. ASSUME LastBrings(w, u), ~Mentions(f, u) PROVE LastBrings(a, u)
        <3>1. PICK i \in 1 .. n : /\ Brings(w[i], u)
                                  /\ \A j \in 1 .. n : j > i => ~Mentions(w[j], u)
            BY <1>1, <2>2 DEF LastBrings
        <3>2. \A j \in 1 .. (n + 1) : j > i => ~Mentions(a[j], u)
            BY <1>2, <1>3, <2>2, <3>1
        <3> QED BY <1>2, <1>4, <3>1, <3>2 DEF LastBrings
    <2>3. ASSUME LastBrings(a, u), ~Brings(f, u) PROVE LastBrings(w, u) /\ ~Mentions(f, u)
        <3>1. PICK i \in 1 .. (n + 1) : /\ Brings(a[i], u)
                                        /\ \A j \in 1 .. (n + 1) : j > i => ~Mentions(a[j], u)
            BY <1>2, <2>3 DEF LastBrings
        <3>2. i \in 1 .. n /\ n + 1 > i
            BY <1>2, <1>3, <2>3, <3>1
        <3>3. ~Mentions(f, u)
            BY <1>2, <1>4, <3>1, <3>2
        <3>4. LastBrings(w, u)
            BY <1>1, <1>2, <1>4, <3>1, <3>2 DEF LastBrings
        <3> QED BY <3>3, <3>4
    <2> QED BY <2>1, <2>2, <2>3
<1>8. LastTakes(a, u) <=> (Takes(f, u) \/ (LastTakes(w, u) /\ ~Mentions(f, u)))
    <2>1. ASSUME Takes(f, u) PROVE LastTakes(a, u)
        BY <1>2, <1>4, <1>5, <2>1 DEF LastTakes
    <2>2. ASSUME LastTakes(w, u), ~Mentions(f, u) PROVE LastTakes(a, u)
        <3>1. PICK i \in 1 .. n : /\ Takes(w[i], u)
                                  /\ \A j \in 1 .. n : j > i => ~Mentions(w[j], u)
            BY <1>1, <2>2 DEF LastTakes
        <3>2. \A j \in 1 .. (n + 1) : j > i => ~Mentions(a[j], u)
            BY <1>2, <1>3, <2>2, <3>1
        <3> QED BY <1>2, <1>4, <3>1, <3>2 DEF LastTakes
    <2>3. ASSUME LastTakes(a, u), ~Takes(f, u) PROVE LastTakes(w, u) /\ ~Mentions(f, u)
        <3>1. PICK i \in 1 .. (n + 1) : /\ Takes(a[i], u)
                                        /\ \A j \in 1 .. (n + 1) : j > i => ~Mentions(a[j], u)
            BY <1>2, <2>3 DEF LastTakes
        <3>2. i \in 1 .. n /\ n + 1 > i
            BY <1>2, <1>3, <2>3, <3>1
        <3>3. ~Mentions(f, u)
            BY <1>2, <1>4, <3>1, <3>2
        <3>4. LastTakes(w, u)
            BY <1>1, <1>2, <1>4, <3>1, <3>2 DEF LastTakes
        <3> QED BY <3>3, <3>4
    <2> QED BY <2>1, <2>2, <2>3
<1> QED BY <1>6, <1>7, <1>8 DEF a

\* A frame taken off the queue matters only where nothing follows it.
LEMMA LastOfTail ==
    ASSUME NEW X, NEW w \in Seq(X), w # <<>>, NEW u
    PROVE  /\ LastBrings(Tail(w), u) => LastBrings(w, u)
           /\ LastTakes(Tail(w), u) => LastTakes(w, u)
           /\ LastBrings(w, u) => LastBrings(Tail(w), u) \/ (Quiet(Tail(w), u) /\ Brings(Head(w), u))
           /\ Quiet(Tail(w), u) /\ Brings(Head(w), u) => LastBrings(w, u)
           /\ Quiet(w, u) <=> Quiet(Tail(w), u) /\ ~Mentions(Head(w), u)
<1> DEFINE n == Len(Tail(w))
           t == Tail(w)
           h == Head(w)
<1>1. /\ n \in Nat /\ DOMAIN t = 1 .. n /\ DOMAIN w = 1 .. (n + 1)
      /\ w[1] = h /\ \A i \in 1 .. n : t[i] = w[i + 1]
    BY HeadTailProperties, LenProperties
<1> HIDE DEF n, t, h
<1>2. \A i \in 1 .. (n + 1) : i = 1 \/ (i - 1 \in 1 .. n /\ (i - 1) + 1 = i)
    BY <1>1
<1>3. 1 \in 1 .. (n + 1) /\ \A i \in 1 .. n : i + 1 \in 1 .. (n + 1) /\ i + 1 > 1
    BY <1>1
<1>4. \A i, j \in 1 .. n : j > i <=> j + 1 > i + 1
    BY <1>1
<1>5. \A i \in 1 .. n : ~(1 > i + 1)
    BY <1>1
<1>6. ASSUME NEW i \in 1 .. n
      PROVE  (\A j \in 1 .. n : j > i => ~Mentions(t[j], u))
                <=> \A j \in 1 .. (n + 1) : j > i + 1 => ~Mentions(w[j], u)
    <2>1. ASSUME \A j \in 1 .. n : j > i => ~Mentions(t[j], u), NEW j \in 1 .. (n + 1), j > i + 1
          PROVE  ~Mentions(w[j], u)
        <3>1. j - 1 \in 1 .. n /\ (j - 1) + 1 = j /\ j - 1 > i
            BY <1>1, <2>1
        <3> QED BY <1>1, <2>1, <3>1
    <2>2. ASSUME \A j \in 1 .. (n + 1) : j > i + 1 => ~Mentions(w[j], u), NEW j \in 1 .. n, j > i
          PROVE  ~Mentions(t[j], u)
        BY <1>1, <1>3, <1>4, <2>2
    <2> QED BY <2>1, <2>2
<1>7. LastBrings(t, u) => LastBrings(w, u)
    BY <1>1, <1>3, <1>6 DEF LastBrings
<1>8. LastTakes(t, u) => LastTakes(w, u)
    BY <1>1, <1>3, <1>6 DEF LastTakes
<1>9. Quiet(w, u) <=> Quiet(t, u) /\ ~Mentions(h, u)
    BY <1>1, <1>2, <1>3 DEF Quiet
<1>10. ASSUME LastBrings(w, u) PROVE LastBrings(t, u) \/ (Quiet(t, u) /\ Brings(h, u))
    <2>1. PICK i \in 1 .. (n + 1) : /\ Brings(w[i], u)
                                    /\ \A j \in 1 .. (n + 1) : j > i => ~Mentions(w[j], u)
        BY <1>1, <1>10 DEF LastBrings
    <2>2. CASE i = 1
        BY <1>1, <1>3, <2>1, <2>2 DEF Quiet
    <2>3. CASE i - 1 \in 1 .. n /\ (i - 1) + 1 = i
        BY <1>1, <1>6, <2>1, <2>3 DEF LastBrings
    <2> QED BY <1>2, <2>2, <2>3
<1>11. ASSUME Quiet(t, u), Brings(h, u) PROVE LastBrings(w, u)
    <2>1. \A j \in 1 .. (n + 1) : j > 1 => ~Mentions(w[j], u)
        <3>1. \A j \in 1 .. (n + 1) : j > 1 => j - 1 \in 1 .. n /\ (j - 1) + 1 = j
            BY <1>1
        <3>2. \A k \in 1 .. n : ~Mentions(w[k + 1], u)
            BY <1>1, <1>11 DEF Quiet
        <3> QED BY <3>1, <3>2
    <2> QED BY <1>1, <1>3, <1>11, <2>1 DEF LastBrings
<1> QED BY <1>7, <1>8, <1>9, <1>10, <1>11 DEF t, h

LEMMA BringsOrTakes ==
    ASSUME NEW X, NEW w \in Seq(X), NEW u
    PROVE  ~(LastBrings(w, u) /\ LastTakes(w, u))
<1> SUFFICES ASSUME LastBrings(w, u), LastTakes(w, u) PROVE FALSE
    OBVIOUS
<1>1. DOMAIN w \in SUBSET Nat
    BY LenProperties
<1>2. PICK i \in DOMAIN w : Brings(w[i], u) /\ \A j \in DOMAIN w : j > i => ~Mentions(w[j], u)
    BY DEF LastBrings
<1>3. PICK k \in DOMAIN w : Takes(w[k], u) /\ \A j \in DOMAIN w : j > k => ~Mentions(w[j], u)
    BY DEF LastTakes
<1>4. ~(k > i) /\ ~(i > k)
    BY <1>2, <1>3 DEF Mentions
<1>5. i = k
    BY <1>1, <1>4
<1> QED BY <1>2, <1>3, <1>5 DEF Brings, Takes

\* A finite set put in a sequence is all there, and nothing of it twice.
LEMMA SequenceOfSet ==
    ASSUME NEW S, IsFiniteSet(S)
    PROVE  LET l == SetToSeq(S)
           IN  /\ l \in Seq(S)
               /\ \A x \in S : \E i \in DOMAIN l : l[i] = x
               /\ \A i, j \in DOMAIN l : l[i] = l[j] => i = j
<1> DEFINE c == Cardinality(S)
           l == SetToSeq(S)
<1>1. c \in Nat /\ ExistsBijection(1 .. c, S)
    BY FS_CardinalityType
<1> HIDE DEF c
<1>2. \E f \in [1 .. c -> S] : IsInjective(f)
    BY <1>1 DEF ExistsBijection, Bijection, Injection
<1>3. l \in [1 .. c -> S] /\ IsInjective(l)
    BY <1>2 DEF SetToSeq, c
<1> HIDE DEF l
<1>4. l \in Surjection(1 .. c, S)
    <2>1. l \in Injection(1 .. c, S)
        BY <1>3 DEF Injection
    <2>2. Cardinality(1 .. c) = c
        BY <1>1, FS_Interval
    <2> QED BY <2>1, <2>2, FS_Injection DEF c
<1>5. \A x \in S : \E i \in 1 .. c : l[i] = x
    BY <1>4 DEF Surjection
<1>6. \A i, j \in 1 .. c : l[i] = l[j] => i = j
    BY <1>3 DEF IsInjective
<1>7. l \in Seq(S) /\ DOMAIN l = 1 .. c
    BY <1>1, <1>3
<1> QED BY <1>5, <1>6, <1>7 DEF l

\* The list of channels that Asterisk answers with.
LEMMA ListIs ==
    ASSUME NEW V, IsFiniteSet(V)
    PROVE  LET l == SetToSeq({Shown(v) : v \in V})
           IN  /\ l \in Seq({Shown(v) : v \in V})
               /\ \A v \in V : \E i \in DOMAIN l : l[i] = Shown(v)
               /\ \A i, j \in DOMAIN l : l[i] = l[j] => i = j
<1> DEFINE S == {Shown(v) : v \in V}
           f == [v \in V |-> Shown(v)]
<1>1. f \in Surjection(V, S)
    BY DEF Surjection
<1>2. IsFiniteSet(S)
    BY <1>1, FS_Surjection
<1>3. \A v \in V : Shown(v) \in S
    OBVIOUS
<1> HIDE DEF S
<1> QED BY <1>2, <1>3, SequenceOfSet DEF S

\* It brings the channels it shows, and says nothing of another.
LEMMA LastOfList ==
    ASSUME NEW X, NEW w \in Seq(X), NEW V, IsFiniteSet(V), {Shown(v) : v \in V} \subseteq X, NEW u
    PROVE  LET a == w \o SetToSeq({Shown(v) : v \in V})
           IN  /\ a \in Seq(X)
               /\ u \in V => LastBrings(a, u)
               /\ u \notin V => /\ LastBrings(a, u) => LastBrings(w, u)
                                /\ LastTakes(a, u) => LastTakes(w, u)
               /\ Quiet(a, u) => Quiet(w, u)
<1> DEFINE S == {Shown(v) : v \in V}
           l == SetToSeq(S)
           a == w \o l
           n == Len(w)
           k == Len(l)
<1>1. l \in Seq(S) /\ (\A v \in V : \E i \in DOMAIN l : l[i] = Shown(v))
      /\ \A i, j \in DOMAIN l : l[i] = l[j] => i = j
    BY ListIs
<1> HIDE DEF l
<1>2. l \in Seq(X)
    BY <1>1, SeqMonotonic
<1>3. a \in Seq(X) /\ n \in Nat /\ k \in Nat
      /\ DOMAIN w = 1 .. n /\ DOMAIN l = 1 .. k /\ DOMAIN a = 1 .. (n + k)
    BY <1>2, ConcatProperties, LenProperties
<1>4. \A i \in 1 .. (n + k) : a[i] = IF i =< n THEN w[i] ELSE l[i - n]
    BY <1>2, ConcatProperties
<1> HIDE DEF a, n, k
<1>5. /\ \A i \in 1 .. n : i \in 1 .. (n + k) /\ a[i] = w[i]
      /\ \A i \in 1 .. k : n + i \in 1 .. (n + k) /\ a[n + i] = l[i]
    <2>1. ASSUME NEW i \in 1 .. n PROVE i \in 1 .. (n + k) /\ a[i] = w[i]
        BY <1>3, <1>4
    <2>2. ASSUME NEW i \in 1 .. k PROVE n + i \in 1 .. (n + k) /\ a[n + i] = l[i]
        <3>1. n + i \in 1 .. (n + k) /\ ~(n + i =< n) /\ (n + i) - n = i
            BY <1>3
        <3> QED BY <1>4, <3>1
    <2> QED BY <2>1, <2>2
<1>6. \A i \in 1 .. (n + k) : i \in 1 .. n \/ (i - n \in 1 .. k /\ n + (i - n) = i)
    BY <1>3
<1>7. \A i \in 1 .. k : \E v \in V : l[i] = Shown(v)
    BY <1>1, <1>3
<1>8. \A v : Brings(Shown(v), u) <=> v = u
    BY DEF Brings, Shown
<1>9. \A v : ~Takes(Shown(v), u)
    BY DEF Takes, Shown
<1>10. Quiet(a, u) => Quiet(w, u)
    BY <1>3, <1>5 DEF Quiet
<1>11. ASSUME u \in V PROVE LastBrings(a, u)
    <2>1. PICK i \in 1 .. k : l[i] = Shown(u)
        BY <1>1, <1>3, <1>11
    <2>2. ASSUME NEW j \in 1 .. (n + k), j > n + i PROVE ~Mentions(a[j], u)
        <3>1. j - n \in 1 .. k /\ n + (j - n) = j /\ j - n # i
            BY <1>3, <2>2
        <3>2. a[j] = l[j - n] /\ l[j - n] # l[i]
            BY <1>1, <1>3, <1>5, <3>1
        <3>3. PICK v \in V : l[j - n] = Shown(v)
            BY <1>7, <3>1
        <3>4. v # u
            BY <2>1, <3>2, <3>3
        <3> QED BY <1>8, <1>9, <3>2, <3>3, <3>4 DEF Mentions
    <2>3. n + i \in 1 .. (n + k) /\ Brings(a[n + i], u)
        BY <1>5, <1>8, <2>1
    <2> QED BY <1>3, <2>2, <2>3 DEF LastBrings
<1>12. ASSUME u \notin V PROVE \A i \in 1 .. k : ~Mentions(a[n + i], u)
    <2> TAKE i \in 1 .. k
    <2>1. PICK v \in V : l[i] = Shown(v)
        BY <1>7
    <2>2. v # u
        BY <1>12
    <2> QED BY <1>5, <1>8, <1>9, <2>1, <2>2 DEF Mentions
<1>13. ASSUME u \notin V, LastBrings(a, u) PROVE LastBrings(w, u)
    <2>1. PICK i \in 1 .. (n + k) : /\ Brings(a[i], u)
                                    /\ \A j \in 1 .. (n + k) : j > i => ~Mentions(a[j], u)
        BY <1>3, <1>13 DEF LastBrings
    <2>2. i \in 1 .. n
        BY <1>6, <1>12, <1>13, <2>1 DEF Mentions
    <2> QED BY <1>3, <1>5, <2>1, <2>2 DEF LastBrings
<1>14. ASSUME u \notin V, LastTakes(a, u) PROVE LastTakes(w, u)
    <2>1. PICK i \in 1 .. (n + k) : /\ Takes(a[i], u)
                                    /\ \A j \in 1 .. (n + k) : j > i => ~Mentions(a[j], u)
        BY <1>3, <1>14 DEF LastTakes
    <2>2. i \in 1 .. n
        BY <1>6, <1>12, <1>14, <2>1 DEF Mentions
    <2> QED BY <1>3, <1>5, <2>1, <2>2 DEF LastTakes
<1> QED BY <1>3, <1>10, <1>11, <1>13, <1>14 DEF a, l
-----------------------------------------------------------------------------
(***************************************************************************)
(* The invariant.                                                          *)
(***************************************************************************)

Frame ==
    [kind : {"Newchannel", "Hangup", "CoreShowChannel"}, uid : Uids]
        \cup {Other} \cup {LoginReply(ok) : ok \in BOOLEAN}

Typed == TypeOK /\ wire \in Seq(Frame)

\* A connection is a session's, and only its event loop starts a reconcile.
SessionsInOrder ==
    /\ Connected => session \in Sessions
    /\ \A n \in Sessions : n > session => recon[n] = "none"
    /\ pc \in {"banner", "login", "await", "subscribe"} => recon[session] = "none"

\* A session past its login response is told of what happens.
LoggedIn ==
    peer = "alive" =>
        /\ pc \in {"subscribe", "top", "reading"} => authed
        /\ \A i \in DOMAIN wire : wire[i] = LoginReply(TRUE) => authed

\* The last frame about a channel says how it is.
WireIsTrue ==
    Told => \A u \in Uids : /\ LastBrings(wire, u) => u \in up
                            /\ LastTakes(wire, u) => u \notin up

\* After the reset, a channel the registry has and no frame mentions exists.
NoGhost ==
    Told /\ recon[session] \in {"ask", "done"}
        => \A u \in known : Quiet(wire, u) => u \in up

\* After the list, a channel that exists is on the wire or in the registry.
NoneLost ==
    InLoop /\ recon[session] = "done" /\ ~asked /\ ~wiped
        => \A u \in up : LastBrings(wire, u) \/ (Quiet(wire, u) /\ u \in known)

ListenerInv == Typed /\ SessionsInOrder /\ LoggedIn /\ WireIsTrue /\ NoGhost /\ NoneLost

LEMMA Implies == ListenerInv => TypeOK /\ InSync
<1> SUFFICES ASSUME ListenerInv,
                    InLoop, recon[session] = "done", ~asked, ~wiped
             PROVE  FoldLeft(dispatch, known, wire) = up
    BY DEF ListenerInv, Typed, InSync
<1>1. wire \in Seq(Frame) /\ known \subseteq Uids /\ up \subseteq Uids
    BY DEF ListenerInv, Typed, TypeOK
<1>2. Told
    BY DEF ListenerInv, LoggedIn, InLoop, Told
<1>3. \A u \in up : LastBrings(wire, u) \/ (Quiet(wire, u) /\ u \in known)
    BY DEF ListenerInv, NoneLost
<1>4. \A u \in known : Quiet(wire, u) => u \in up
    BY <1>2 DEF ListenerInv, NoGhost
<1>5. ASSUME NEW u, LastBrings(wire, u) PROVE u \in Uids
    <2>1. PICK i \in DOMAIN wire : Brings(wire[i], u)
        BY <1>5 DEF LastBrings
    <2>2. wire[i] \in Frame
        BY <1>1
    <2> QED BY <2>1, <2>2 DEF Frame, Brings, Other, LoginReply
<1>6. \A u : LastBrings(wire, u) => u \in up
    BY <1>2, <1>5 DEF ListenerInv, WireIsTrue
<1>7. \A u : u \in FoldLeft(dispatch, known, wire) <=>
                 LastBrings(wire, u) \/ (u \in known /\ Quiet(wire, u))
    BY <1>1, ReplayIs
<1>8. \A u : u \in FoldLeft(dispatch, known, wire) <=> u \in up
    BY <1>3, <1>4, <1>6, <1>7, Zenon
<1> QED
    <2>1. FoldLeft(dispatch, known, wire) \subseteq up /\ up \subseteq FoldLeft(dispatch, known, wire)
        BY <1>8, Zenon
    <2> QED BY <2>1, Zenon

LEMMA FramesAre ==
    /\ \A u \in Uids : New(u) \in Frame /\ Gone(u) \in Frame /\ Shown(u) \in Frame
    /\ Other \in Frame /\ \A ok \in BOOLEAN : LoginReply(ok) \in Frame
    /\ \A f \in Frame : f.kind \in {"Newchannel", "CoreShowChannel", "Hangup"} => f.uid \in Uids
    /\ \A u : New(u) # LoginReply(TRUE) /\ Gone(u) # LoginReply(TRUE) /\ Shown(u) # LoginReply(TRUE)
    /\ Other # LoginReply(TRUE) /\ LoginReply(FALSE) # LoginReply(TRUE)
<1>1. \A u : New(u).kind = "Newchannel" /\ Gone(u).kind = "Hangup" /\ Shown(u).kind = "CoreShowChannel"
    BY DEF New, Gone, Shown
<1>2. Other.kind = "other" /\ \A ok \in BOOLEAN : LoginReply(ok).kind = "Response" /\ LoginReply(ok).ok = ok
    BY DEF Other, LoginReply
<1>3. \A u \in Uids : New(u) \in Frame /\ Gone(u) \in Frame /\ Shown(u) \in Frame
    BY DEF Frame, New, Gone, Shown
<1>4. Other \in Frame /\ \A ok \in BOOLEAN : LoginReply(ok) \in Frame
    BY DEF Frame
<1>5. ASSUME NEW f \in Frame, f.kind \in {"Newchannel", "CoreShowChannel", "Hangup"}
      PROVE  f.uid \in Uids
    BY <1>2, <1>5 DEF Frame
<1>6. \A u : New(u) # LoginReply(TRUE) /\ Gone(u) # LoginReply(TRUE) /\ Shown(u) # LoginReply(TRUE)
    BY <1>1, <1>2
<1>7. Other # LoginReply(TRUE) /\ LoginReply(FALSE) # LoginReply(TRUE)
    BY <1>2
<1> QED BY <1>3, <1>4, <1>5, <1>6, <1>7

LEMMA UpIsFinite == Typed => IsFiniteSet(up)
BY ListenerAssumption, FS_Subset DEF Typed, TypeOK

\* What a channel says that comes up or goes.
LEMMA ChangeSays ==
    ASSUME NEW u, NEW v
    PROVE  /\ Brings(New(u), v) <=> u = v
           /\ ~Takes(New(u), v)
           /\ ~Brings(Gone(u), v)
           /\ Takes(Gone(u), v) <=> u = v
BY DEF Brings, Takes, New, Gone

LEMMA DispatchIsTyped ==
    ASSUME NEW chans \in SUBSET Uids, NEW f \in Frame
    PROVE  dispatch(chans, f) \subseteq Uids
<1>1. f.kind \in {"Newchannel", "CoreShowChannel", "Hangup"} => f.uid \in Uids
    BY FramesAre
<1> QED BY <1>1 DEF dispatch

LEMMA TypedKept == Typed /\ [Next]_vars => Typed'
<1> SUFFICES ASSUME Typed, [Next]_vars PROVE Typed'
    OBVIOUS
<1> USE DEF Typed, TypeOK, Connected
<1>1. wire \in Seq(Frame) /\ (wire # <<>> => Head(wire) \in Frame /\ Tail(wire) \in Seq(Frame))
    BY HeadTailProperties
<1>2. <<>> \in Seq(Frame)
    OBVIOUS
<1>3. CASE DialFails
    BY <1>3 DEF DialFails, connVars, peerVars
<1>4. CASE Dial
    BY <1>2, <1>4, ListenerAssumption DEF Dial, peerVars
<1>5. CASE Banner
    BY <1>5 DEF Banner, connVars, peerVars
<1>6. CASE NoBanner
    BY <1>2, <1>6 DEF NoBanner, Close, peerVars
<1>7. CASE Login
    <2>1. CASE pc' = "await" /\ skipped' = 0 /\ UNCHANGED connVars
        <3>1. skipped' \in 0 .. AwaitLimit - 1
            BY <2>1, ListenerAssumption
        <3> QED BY <1>7, <2>1, <3>1 DEF Login, connVars, peerVars
    <2>2. CASE Close /\ UNCHANGED skipped
        BY <1>2, <1>7, <2>2 DEF Login, Close, peerVars
    <2> QED BY <1>7, <2>1, <2>2 DEF Login
<1>8. CASE AwaitResponse
    <2>1. skipped' \in 0 .. AwaitLimit - 1
        <3>1. skipped' = skipped \/ (skipped + 1 < AwaitLimit /\ skipped' = skipped + 1)
            BY <1>8 DEF AwaitResponse
        <3> QED BY <3>1, ListenerAssumption
    <2>2. wire' \in Seq(Frame)
        BY <1>1, <1>2, <1>8 DEF AwaitResponse, Close
    <2>3. pc' \in {"await", "subscribe", "backoff"} /\ peer' \in {"alive", "silent", "gone"}
          /\ asked' \in BOOLEAN /\ authed' \in BOOLEAN
          /\ (pc' = "backoff" => peer' = "gone" /\ wire' = <<>> /\ ~asked' /\ ~authed')
        BY <1>8 DEF AwaitResponse, Close
    <2> QED BY <1>8, <2>1, <2>2, <2>3 DEF AwaitResponse, peerVars
<1>9. CASE Subscribe
    BY <1>9 DEF Subscribe, connVars, peerVars
<1>10. CASE LoopTop
    BY <1>2, <1>10 DEF LoopTop, Close, connVars, peerVars
<1>11. CASE Read
    <2>1. known' \subseteq Uids
        BY <1>1, <1>11, DispatchIsTyped DEF Read
    <2> QED BY <1>1, <1>11, <2>1 DEF Read, peerVars
<1>12. CASE ReadFails
    BY <1>2, <1>12 DEF ReadFails, Close, peerVars
<1>13. CASE Backoff
    BY <1>13 DEF Backoff, connVars, peerVars
<1>14. ASSUME NEW n \in Sessions, ReconcileReset(n) PROVE Typed'
    BY <1>14 DEF ReconcileReset, runVars, connVars, peerVars
<1>15. ASSUME NEW n \in Sessions, ReconcileAsk(n) PROVE Typed'
    BY <1>15 DEF ReconcileAsk, runVars, peerVars
<1>16. CASE Cancel
    BY <1>16 DEF Cancel, connVars, peerVars
<1>17. CASE AnswerLogin
    <2>1. wire' \in Seq(Frame)
        BY <1>17, FramesAre DEF AnswerLogin
    <2> QED BY <1>17, <2>1 DEF AnswerLogin, runVars, peerVars
<1>18. CASE AnswerChannels
    <2>1. {Shown(v) : v \in up} \subseteq Frame
        BY FramesAre
    <2>2. wire' \in Seq(Frame)
        BY <1>1, <1>18, <2>1, LastOfList, UpIsFinite DEF AnswerChannels
    <2> QED BY <1>18, <2>2 DEF AnswerChannels, runVars, peerVars
<1>19. CASE Change
    <2>1. PICK u \in Uids :
              IF u \in up
              THEN up' = up \ {u} /\ wire' = IF Told THEN Append(wire, Gone(u)) ELSE wire
              ELSE up' = up \cup {u} /\ wire' = IF Told THEN Append(wire, New(u)) ELSE wire
        BY <1>19 DEF Change
    <2>2. up' \subseteq Uids
        BY <2>1
    <2>3. wire' \in Seq(Frame) /\ (~Connected => wire' = <<>>)
        BY <1>1, <2>1, FramesAre, AppendProperties DEF Told
    <2> QED BY <1>19, <2>2, <2>3 DEF Change, runVars
<1>20. CASE Breaks
    <2>1. wire' \in Seq(Frame)
        <3>1. PICK k \in 0 .. Len(wire) : wire' = SubSeq(wire, 1, k)
            BY <1>20 DEF Breaks
        <3>2. \A i \in 1 .. k : wire[i] \in Frame
            BY <1>1, <3>1
        <3> QED BY <3>1, <3>2, SubSeqProperties
    <2> QED BY <1>20, <2>1 DEF Breaks, runVars, peerVars
<1>21. CASE FallsSilent
    BY <1>21 DEF FallsSilent, runVars, peerVars
<1>22. CASE UNCHANGED vars
    BY <1>22 DEF vars
<1> QED
    BY <1>3, <1>4, <1>5, <1>6, <1>7, <1>8, <1>9, <1>10, <1>11, <1>12, <1>13, <1>14, <1>15,
       <1>16, <1>17, <1>18, <1>19, <1>20, <1>21, <1>22 DEF Next, Run, Reconcile, Answers

LEMMA OrderKept == Typed /\ SessionsInOrder /\ [Next]_vars => SessionsInOrder'
<1> SUFFICES ASSUME Typed, SessionsInOrder, [Next]_vars PROVE SessionsInOrder'
    OBVIOUS
<1> USE DEF SessionsInOrder, Connected
<1>1. session \in Nat /\ recon \in [Sessions -> {"none", "reset", "ask", "done"}]
      /\ Sessions = 1 .. MaxSessions /\ MaxSessions \in Nat
    BY ListenerAssumption DEF Typed, TypeOK, Sessions
<1>2. CASE DialFails \/ Banner \/ NoBanner \/ Login \/ AwaitResponse
    BY <1>2 DEF DialFails, Banner, NoBanner, Login, AwaitResponse, Close
<1>3. CASE LoopTop \/ Read \/ ReadFails \/ Backoff \/ Cancel
    BY <1>3 DEF LoopTop, Read, ReadFails, Backoff, Cancel, Close
<1>4. CASE Dial
    <2>1. session' = session + 1 /\ session < MaxSessions /\ recon' = recon
        BY <1>4 DEF Dial
    <2>2. session' \in Sessions /\ recon'[session'] = "none"
        BY <1>1, <2>1
    <2>3. \A n \in Sessions : n > session' => n > session
        BY <1>1, <2>1
    <2> QED BY <2>1, <2>2, <2>3
<1>5. CASE Subscribe
    <2>1. session \in Sessions /\ session' = session /\ recon' = [recon EXCEPT ![session] = "reset"]
          /\ pc' = "top"
        BY <1>5 DEF Subscribe
    <2>2. \A n \in Sessions : n > session => recon'[n] = "none"
        BY <1>1, <2>1
    <2> QED BY <2>1, <2>2
<1>6. ASSUME NEW n \in Sessions, ReconcileReset(n) \/ ReconcileAsk(n) PROVE SessionsInOrder'
    <2>1. /\ recon[n] # "none" /\ session' = session /\ pc' = pc
          /\ \E r : recon' = [recon EXCEPT ![n] = r]
        BY <1>6 DEF ReconcileReset, ReconcileAsk, runVars
    <2>2. \A m \in Sessions : recon[m] = "none" => recon'[m] = "none"
        BY <1>1, <2>1
    <2> QED BY <2>1, <2>2
<1>7. CASE AnswerLogin \/ AnswerChannels \/ Change \/ Breaks \/ FallsSilent \/ UNCHANGED vars
    <2>1. session' = session /\ pc' = pc /\ recon' = recon
        BY <1>7 DEF AnswerLogin, AnswerChannels, Change, Breaks, FallsSilent, vars, runVars
    <2> QED BY <2>1
<1> QED BY <1>2, <1>3, <1>4, <1>5, <1>6, <1>7 DEF Next, Run, Reconcile, Answers

\* What can be found in a queue that has grown.
LEMMA FoundInAppend ==
    ASSUME NEW X, NEW w \in Seq(X), NEW f \in X, NEW e, e # f,
           NEW i \in DOMAIN Append(w, f), Append(w, f)[i] = e
    PROVE  \E j \in DOMAIN w : w[j] = e
<1> DEFINE n == Len(w)
           a == Append(w, f)
<1>1. n \in Nat /\ DOMAIN w = 1 .. n /\ DOMAIN a = 1 .. (n + 1) /\ a[n + 1] = f
      /\ \A j \in 1 .. n : a[j] = w[j]
    BY AppendProperties, LenProperties
<1>2. i \in DOMAIN a /\ a[i] = e
    OBVIOUS
<1> HIDE DEF n, a
<1>3. i \in 1 .. n
    BY <1>1, <1>2
<1> QED BY <1>1, <1>2, <1>3

LEMMA FoundInConcat ==
    ASSUME NEW X, NEW w \in Seq(X), NEW l \in Seq(X), NEW e,
           NEW i \in DOMAIN (w \o l), (w \o l)[i] = e
    PROVE  (\E j \in DOMAIN w : w[j] = e) \/ (\E j \in DOMAIN l : l[j] = e)
<1> DEFINE n == Len(w)
           k == Len(l)
           a == w \o l
<1>1. n \in Nat /\ k \in Nat /\ DOMAIN w = 1 .. n /\ DOMAIN l = 1 .. k /\ DOMAIN a = 1 .. (n + k)
    BY ConcatProperties, LenProperties
<1>2. \A j \in 1 .. (n + k) : a[j] = IF j =< n THEN w[j] ELSE l[j - n]
    BY ConcatProperties
<1>3. i \in DOMAIN a /\ a[i] = e
    OBVIOUS
<1> HIDE DEF n, k, a
<1>4. i \in 1 .. n \/ (i - n \in 1 .. k /\ ~(i =< n))
    BY <1>1, <1>3
<1>5. i \in 1 .. n => i =< n
    BY <1>1
<1> QED BY <1>1, <1>2, <1>3, <1>4, <1>5

LEMMA LoggedInKept == Typed /\ LoggedIn /\ [Next]_vars => LoggedIn'
<1> SUFFICES ASSUME Typed, LoggedIn, [Next]_vars, peer' = "alive"
             PROVE  /\ pc' \in {"subscribe", "top", "reading"} => authed'
                    /\ \A i \in DOMAIN wire' : wire'[i] = LoginReply(TRUE) => authed'
    BY DEF LoggedIn
<1>1. wire \in Seq(Frame)
    BY DEF Typed
<1>2. CASE Dial
    BY <1>2 DEF Dial
<1>3. peer = "alive" \/ Dial
    BY DEF Next, Run, Reconcile, Answers, DialFails, Banner, NoBanner, Login, AwaitResponse, Subscribe,
       LoopTop, Read, ReadFails, Backoff, ReconcileReset, ReconcileAsk, Cancel, AnswerLogin,
       AnswerChannels, Change, Breaks, FallsSilent, Close, connVars, vars
<1> SUFFICES ASSUME peer = "alive"
             PROVE  /\ pc' \in {"subscribe", "top", "reading"} => authed'
                    /\ \A i \in DOMAIN wire' : wire'[i] = LoginReply(TRUE) => authed'
    BY <1>2, <1>3
<1>4. /\ pc \in {"subscribe", "top", "reading"} => authed
      /\ \A i \in DOMAIN wire : wire[i] = LoginReply(TRUE) => authed
    BY DEF LoggedIn
<1>5. CASE DialFails \/ Banner \/ NoBanner \/ Login \/ Subscribe \/ LoopTop \/ ReadFails \/ Backoff
    BY <1>4, <1>5 DEF DialFails, Banner, NoBanner, Login, Subscribe, LoopTop, ReadFails, Backoff,
       Close, connVars
<1>6. wire # <<>> => /\ Head(wire) = wire[1] /\ 1 \in DOMAIN wire
                     /\ \A i \in DOMAIN Tail(wire) : \E j \in DOMAIN wire : Tail(wire)[i] = wire[j]
    <2> SUFFICES ASSUME wire # <<>>
                 PROVE  /\ Head(wire) = wire[1] /\ 1 \in DOMAIN wire
                        /\ \A i \in DOMAIN Tail(wire) : \E j \in DOMAIN wire : Tail(wire)[i] = wire[j]
        OBVIOUS
    <2>1. Head(wire) = wire[1] /\ 1 \in DOMAIN wire
        BY <1>1
    <2>2. \A i \in DOMAIN Tail(wire) : i + 1 \in DOMAIN wire /\ Tail(wire)[i] = wire[i + 1]
        BY <1>1
    <2> QED BY <2>1, <2>2
<1>7. CASE AwaitResponse
    <2>1. wire # <<>> /\ wire' = Tail(wire) /\ authed' = authed
          /\ (pc' = "await" \/ (pc' = "subscribe" /\ Head(wire) = LoginReply(TRUE)))
        BY <1>7 DEF AwaitResponse, Close
    <2> QED BY <1>4, <1>6, <2>1
<1>8. CASE Read
    BY <1>4, <1>6, <1>8 DEF Read
<1>9. ASSUME NEW n \in Sessions, ReconcileReset(n) \/ ReconcileAsk(n)
      PROVE  /\ pc' \in {"subscribe", "top", "reading"} => authed'
             /\ \A i \in DOMAIN wire' : wire'[i] = LoginReply(TRUE) => authed'
    BY <1>4, <1>9 DEF ReconcileReset, ReconcileAsk, runVars, connVars
<1>10. CASE Cancel \/ Breaks \/ FallsSilent \/ UNCHANGED vars
    BY <1>4, <1>10 DEF Cancel, Breaks, FallsSilent, runVars, connVars, vars
<1>11. CASE AnswerLogin
    <2>1. CASE \E ok \in BOOLEAN : wire' = <<LoginReply(ok)>> /\ authed' = ok
        <3>1. PICK ok \in BOOLEAN : wire' = <<LoginReply(ok)>> /\ authed' = ok
            BY <2>1
        <3>2. ok = TRUE \/ ok = FALSE
            OBVIOUS
        <3>3. \A i \in DOMAIN wire' : wire'[i] = LoginReply(ok)
            BY <3>1
        <3>4. pc' = "await"
            BY <1>11 DEF AnswerLogin, runVars
        <3>5. CASE ok = TRUE
            <4>1. authed'
                BY <3>1, <3>5
            <4> QED BY <4>1
        <3>6. CASE ok = FALSE
            <4>1. LoginReply(ok) # LoginReply(TRUE)
                BY <3>6, FramesAre
            <4> QED BY <3>3, <3>4, <4>1
        <3> QED BY <3>2, <3>5, <3>6
    <2>2. CASE wire' = <<Other>>
        <3>1. \A i \in DOMAIN wire' : wire'[i] = Other
            BY <2>2
        <3>2. pc' = "await"
            BY <1>11 DEF AnswerLogin, runVars
        <3> QED BY <3>1, <3>2, FramesAre
    <2> QED BY <1>11, <2>1, <2>2 DEF AnswerLogin
<1>12. CASE AnswerChannels
    <2> DEFINE l == SetToSeq({Shown(v) : v \in up})
    <2>1. l \in Seq({Shown(v) : v \in up})
        BY UpIsFinite, ListIs
    <2>2. {Shown(v) : v \in up} \subseteq Frame
        BY FramesAre DEF Typed, TypeOK
    <2>3. l \in Seq(Frame) /\ wire' = wire \o l
        BY <1>12, <2>1, <2>2, SeqMonotonic DEF AnswerChannels
    <2>4. \A i \in DOMAIN l : l[i] # LoginReply(TRUE)
        <3>1. ASSUME NEW i \in DOMAIN l PROVE l[i] \in {Shown(v) : v \in up}
            <4>1. i \in 1 .. Len(l)
                BY <2>1, LenProperties
            <4> HIDE DEF l
            <4> QED BY <2>1, <4>1, ElementOfSeq
        <3> QED BY <3>1, FramesAre
    <2> HIDE DEF l
    <2>5. ASSUME NEW i \in DOMAIN wire', wire'[i] = LoginReply(TRUE)
          PROVE  \E j \in DOMAIN wire : wire[j] = LoginReply(TRUE)
        <3>1. ~ \E j \in DOMAIN l : l[j] = LoginReply(TRUE)
            BY <2>4
        <3> DEFINE e == LoginReply(TRUE)
        <3>2. i \in DOMAIN (wire \o l) /\ (wire \o l)[i] = e
            BY <2>3, <2>5
        <3> HIDE DEF e
        <3>3. (\E j \in DOMAIN wire : wire[j] = e) \/ (\E j \in DOMAIN l : l[j] = e)
            BY <1>1, <2>3, <3>2, FoundInConcat
        <3> QED BY <3>1, <3>3 DEF e
    <2> QED BY <1>4, <1>12, <2>5 DEF AnswerChannels, runVars
<1>13. CASE Change
    <2>1. authed' = authed /\ pc' = pc
        BY <1>13 DEF Change, runVars
    <2>2. wire' = wire \/ \E u \in Uids : wire' = Append(wire, New(u)) \/ wire' = Append(wire, Gone(u))
        BY <1>13 DEF Change
    <2>3. ASSUME NEW f \in Frame, f # LoginReply(TRUE), NEW i \in DOMAIN Append(wire, f),
                 Append(wire, f)[i] = LoginReply(TRUE)
          PROVE  \E j \in DOMAIN wire : wire[j] = LoginReply(TRUE)
        <3> DEFINE e == LoginReply(TRUE)
        <3>1. e # f /\ Append(wire, f)[i] = e
            BY <2>3
        <3> HIDE DEF e
        <3>2. \E j \in DOMAIN wire : wire[j] = e
            BY <1>1, <3>1, FoundInAppend
        <3> QED BY <3>2 DEF e
    <2> QED BY <1>4, <2>1, <2>2, <2>3, FramesAre
<1> QED BY <1>5, <1>7, <1>8, <1>9, <1>10, <1>11, <1>12, <1>13, <1>2
        DEF Next, Run, Reconcile, Answers

\* What a step may do to a queue that Asterisk writes to.
LEMMA WireSteps ==
    ASSUME Typed, [Next]_vars, Told'
    PROVE  \/ AnswerLogin
           \/ Told /\ \/ AwaitResponse /\ wire # <<>> /\ wire' = Tail(wire)
                      \/ Read \/ AnswerChannels \/ Change \/ Subscribe
                      \/ \E n \in Sessions : ReconcileReset(n) \/ ReconcileAsk(n)
                      \/ UNCHANGED <<known, wire, up, recon, session, asked, wiped>>
<1> USE DEF Told
<1>1. ~Connected => ~authed
    BY DEF Typed, TypeOK
<1>2. CASE DialFails \/ Dial
    BY <1>1, <1>2 DEF DialFails, Dial, Connected, connVars
<1>3. CASE NoBanner \/ ReadFails
    BY <1>3 DEF NoBanner, ReadFails, Close
<1>4. CASE Banner \/ Login \/ LoopTop \/ Backoff
    BY <1>4 DEF Banner, Login, LoopTop, Backoff, Close, connVars, peerVars
<1>5. CASE AwaitResponse
    BY <1>5 DEF AwaitResponse, Close
<1>6. CASE Subscribe \/ Read
    BY <1>6 DEF Subscribe, Read, connVars
<1>7. ASSUME NEW n \in Sessions, ReconcileReset(n) \/ ReconcileAsk(n) PROVE Told
    BY <1>7 DEF ReconcileReset, ReconcileAsk, connVars
<1>8. CASE AnswerChannels \/ Change
    BY <1>8 DEF AnswerChannels, Change
<1>9. CASE Cancel \/ UNCHANGED vars
    BY <1>9 DEF Cancel, connVars, peerVars, vars
<1>10. CASE Breaks \/ FallsSilent
    BY <1>10 DEF Breaks, FallsSilent
<1>11. CASE AnswerLogin
    BY <1>11
<1> QED BY <1>2, <1>3, <1>4, <1>5, <1>6, <1>7, <1>8, <1>9, <1>10, <1>11
        DEF Next, Run, Reconcile, Answers

\* A change, as the listener is told of it.
LEMMA ChangeIs ==
    ASSUME Typed, Change, Told
    PROVE  \E u \in Uids :
              \/ u \in up /\ up' = up \ {u} /\ wire' = Append(wire, Gone(u))
              \/ u \notin up /\ up' = up \cup {u} /\ wire' = Append(wire, New(u))
BY DEF Change

LEMMA WireKept == Typed /\ WireIsTrue /\ [Next]_vars => WireIsTrue'
<1> SUFFICES ASSUME Typed, WireIsTrue, [Next]_vars, Told', NEW u \in Uids
             PROVE  /\ LastBrings(wire', u) => u \in up'
                    /\ LastTakes(wire', u) => u \notin up'
    BY DEF WireIsTrue
<1>1. wire \in Seq(Frame)
    BY DEF Typed
<1>2. CASE AnswerLogin
    <2>1. \E f : wire' = <<f>> /\ f.kind \in {"other", "Response"}
        BY <1>2 DEF AnswerLogin, Other, LoginReply
    <2>2. \A i \in DOMAIN wire' : wire'[i].kind \in {"other", "Response"}
        BY <2>1
    <2> QED BY <2>2 DEF LastBrings, LastTakes, Brings, Takes
<1> SUFFICES ASSUME Told, ~AnswerLogin
             PROVE  /\ LastBrings(wire', u) => u \in up'
                    /\ LastTakes(wire', u) => u \notin up'
    BY <1>2, WireSteps
<1>3. /\ LastBrings(wire, u) => u \in up
      /\ LastTakes(wire, u) => u \notin up
    BY DEF WireIsTrue
<1>4. CASE wire # <<>> /\ wire' = Tail(wire) /\ up' = up
    BY <1>1, <1>3, <1>4, LastOfTail
<1>5. CASE wire' = wire /\ up' = up
    BY <1>3, <1>5
<1>6. CASE AnswerChannels
    <2>1. wire' = wire \o SetToSeq({Shown(v) : v \in up}) /\ up' = up
        BY <1>6 DEF AnswerChannels, peerVars
    <2>2. {Shown(v) : v \in up} \subseteq Frame
        BY FramesAre DEF Typed, TypeOK
    <2>3. /\ wire' \in Seq(Frame)
          /\ u \in up => LastBrings(wire', u)
          /\ u \notin up => (LastBrings(wire', u) => LastBrings(wire, u))
        BY <1>1, <2>1, <2>2, LastOfList, UpIsFinite
    <2> QED BY <1>3, <2>1, <2>3, BringsOrTakes
<1>7. CASE Change
    <2>1. PICK v \in Uids :
              \/ v \in up /\ up' = up \ {v} /\ wire' = Append(wire, Gone(v))
              \/ v \notin up /\ up' = up \cup {v} /\ wire' = Append(wire, New(v))
        BY <1>7, ChangeIs
    <2>2. CASE up' = up \ {v} /\ wire' = Append(wire, Gone(v))
        BY <1>1, <1>3, <2>2, FramesAre, LastOfAppend, ChangeSays DEF Mentions
    <2>3. CASE up' = up \cup {v} /\ wire' = Append(wire, New(v))
        BY <1>1, <1>3, <2>3, FramesAre, LastOfAppend, ChangeSays DEF Mentions
    <2> QED BY <2>1, <2>2, <2>3
<1>8. AwaitResponse \/ Subscribe \/ (\E n \in Sessions : ReconcileReset(n) \/ ReconcileAsk(n)) => up' = up
    BY DEF AwaitResponse, Subscribe, ReconcileReset, ReconcileAsk, peerVars
<1>9. Subscribe \/ (\E n \in Sessions : ReconcileReset(n) \/ ReconcileAsk(n)) => wire' = wire
    BY DEF Subscribe, ReconcileReset, ReconcileAsk, connVars
<1>10. Read => wire # <<>> /\ wire' = Tail(wire) /\ up' = up
    BY DEF Read, peerVars
<1> QED BY <1>4, <1>5, <1>6, <1>7, <1>8, <1>9, <1>10, WireSteps

LEMMA GhostKept == ListenerInv /\ [Next]_vars => NoGhost'
<1> SUFFICES ASSUME ListenerInv, [Next]_vars, Told', recon'[session'] \in {"ask", "done"},
                    NEW u \in known', Quiet(wire', u)
             PROVE  u \in up'
    BY DEF NoGhost
<1>1. Typed /\ wire \in Seq(Frame) /\ known \subseteq Uids /\ up \subseteq Uids
    BY DEF ListenerInv, Typed, TypeOK
<1>2. pc = "await" => recon[session] = "none" /\ session \in Sessions
    BY DEF ListenerInv, SessionsInOrder, Connected
<1>3. ~AnswerLogin /\ ~AwaitResponse
    BY <1>2 DEF AnswerLogin, AwaitResponse, runVars
<1>4. Told
    BY <1>1, <1>3, WireSteps
<1>5. session \in Sessions /\ recon \in [Sessions -> {"none", "reset", "ask", "done"}]
    BY <1>1, <1>4 DEF ListenerInv, SessionsInOrder, Typed, TypeOK, Told
<1>6. ~Subscribe
    BY <1>5 DEF Subscribe
<1>7. recon[session] \in {"ask", "done"} => \A v \in known : Quiet(wire, v) => v \in up
    BY <1>4 DEF ListenerInv, NoGhost
<1>8. CASE UNCHANGED <<known, wire, up, recon, session>>
    BY <1>7, <1>8
<1>9. ASSUME NEW n \in Sessions, ReconcileReset(n) PROVE FALSE
    BY <1>9 DEF ReconcileReset
<1>10. ASSUME NEW n \in Sessions, ReconcileAsk(n) PROVE u \in up'
    <2>1. recon[session] \in {"ask", "done"} /\ known' = known /\ wire' = wire /\ up' = up
        BY <1>5, <1>10 DEF ReconcileAsk, runVars, peerVars
    <2> QED BY <1>7, <2>1
<1>11. recon' = recon /\ session' = session => \A v \in known : Quiet(wire, v) => v \in up
    BY <1>7
<1>12. CASE Read
    <2>1. recon' = recon /\ session' = session /\ up' = up /\ wire # <<>> /\ wire' = Tail(wire)
          /\ known' = dispatch(known, Head(wire))
        BY <1>12 DEF Read, peerVars
    <2>2. Brings(Head(wire), u) \/ (u \in known /\ ~Takes(Head(wire), u))
        BY <2>1, DispatchIs
    <2>3. CASE Brings(Head(wire), u)
        <3>1. LastBrings(wire, u)
            BY <1>1, <2>1, <2>3, LastOfTail
        <3>2. u \in Uids
            BY <1>1, <2>1, <2>3, HeadTailProperties, FramesAre DEF Brings
        <3> QED BY <1>4, <2>1, <3>1, <3>2 DEF ListenerInv, WireIsTrue
    <2>4. CASE u \in known /\ ~Brings(Head(wire), u) /\ ~Takes(Head(wire), u)
        <3>1. Quiet(wire, u)
            BY <1>1, <2>1, <2>4, LastOfTail DEF Mentions
        <3> QED BY <1>11, <2>1, <2>4, <3>1
    <2> QED BY <2>2, <2>3, <2>4
<1>13. CASE AnswerChannels
    <2>1. recon' = recon /\ session' = session /\ up' = up /\ known' = known
          /\ wire' = wire \o SetToSeq({Shown(v) : v \in up})
        BY <1>13 DEF AnswerChannels, peerVars, runVars
    <2>2. {Shown(v) : v \in up} \subseteq Frame
        BY <1>1, FramesAre
    <2>3. Quiet(wire, u)
        BY <1>1, <2>1, <2>2, LastOfList, UpIsFinite
    <2> QED BY <1>11, <2>1, <2>3
<1>14. CASE Change
    <2>1. recon' = recon /\ session' = session /\ known' = known
        BY <1>14 DEF Change, runVars
    <2>2. PICK v \in Uids :
              \/ v \in up /\ up' = up \ {v} /\ wire' = Append(wire, Gone(v))
              \/ v \notin up /\ up' = up \cup {v} /\ wire' = Append(wire, New(v))
        BY <1>1, <1>4, <1>14, ChangeIs
    <2>3. CASE up' = up \ {v} /\ wire' = Append(wire, Gone(v))
        <3>1. Quiet(wire, u) /\ u # v
            BY <1>1, <2>3, FramesAre, LastOfAppend, ChangeSays DEF Mentions
        <3> QED BY <1>11, <2>1, <2>3, <3>1
    <2>4. CASE up' = up \cup {v} /\ wire' = Append(wire, New(v))
        <3>1. Quiet(wire, u)
            BY <1>1, <2>4, FramesAre, LastOfAppend
        <3> QED BY <1>11, <2>1, <2>4, <3>1
    <2> QED BY <2>2, <2>3, <2>4
<1> QED BY <1>1, <1>3, <1>6, <1>8, <1>9, <1>10, <1>12, <1>13, <1>14, WireSteps

\* Nothing but the Events action leads into the event loop.
LEMMA EntersLoop == InLoop' /\ [Next]_vars => InLoop \/ Subscribe
BY DEF InLoop, Next, Run, Reconcile, Answers, DialFails, Dial, Banner, NoBanner, Login, AwaitResponse,
       Subscribe, LoopTop, Read, ReadFails, Backoff, ReconcileReset, ReconcileAsk, Cancel,
       AnswerLogin, AnswerChannels, Change, Breaks, FallsSilent, Close, runVars, connVars, vars

LEMMA NoneLostKept == ListenerInv /\ [Next]_vars => NoneLost'
<1> SUFFICES ASSUME ListenerInv, [Next]_vars,
                    InLoop', recon'[session'] = "done", ~asked', ~wiped', NEW u \in up'
             PROVE  LastBrings(wire', u) \/ (Quiet(wire', u) /\ u \in known')
    BY DEF NoneLost
<1>1. Typed /\ wire \in Seq(Frame) /\ known \subseteq Uids /\ up \subseteq Uids
      /\ recon \in [Sessions -> {"none", "reset", "ask", "done"}]
    BY DEF ListenerInv, Typed, TypeOK
<1>2. Told'
    BY LoggedInKept DEF ListenerInv, LoggedIn, InLoop, Told
<1>3. Connected => session \in Sessions
    BY DEF ListenerInv, SessionsInOrder
<1>4. ~Subscribe
    BY <1>1, <1>3 DEF Subscribe, Connected
<1>5. InLoop
    BY <1>4, EntersLoop
<1>6. session \in Sessions /\ ~AnswerLogin /\ ~AwaitResponse
    BY <1>3, <1>5 DEF InLoop, Connected, AnswerLogin, AwaitResponse
<1>7. Told
    BY <1>1, <1>2, <1>6, WireSteps
<1>8. recon[session] = "done" /\ ~asked /\ ~wiped
        => \A v \in up : LastBrings(wire, v) \/ (Quiet(wire, v) /\ v \in known)
    BY <1>5 DEF ListenerInv, NoneLost
<1>9. CASE UNCHANGED <<known, wire, up, recon, session, asked, wiped>>
    BY <1>8, <1>9
<1>10. ASSUME NEW n \in Sessions, ReconcileReset(n) PROVE FALSE
    <2>1. session' = session /\ recon' = [recon EXCEPT ![n] = "ask"] /\ asked' = asked
          /\ wiped' = (wiped \/ (n # session /\ recon[session] = "done" /\ ~asked))
        BY <1>10 DEF ReconcileReset, runVars, connVars
    <2>2. n # session /\ recon[session] = "done"
        BY <1>1, <1>6, <2>1
    <2> QED BY <2>1, <2>2
<1>11. ASSUME NEW n \in Sessions, ReconcileAsk(n)
       PROVE  LastBrings(wire', u) \/ (Quiet(wire', u) /\ u \in known')
    <2>1. session' = session /\ recon' = [recon EXCEPT ![n] = "done"] /\ wiped' = wiped
          /\ known' = known /\ wire' = wire /\ up' = up
          /\ asked' = (asked \/ (n = session /\ Connected /\ peer # "gone"))
        BY <1>11 DEF ReconcileAsk, runVars, peerVars
    <2>2. ~asked /\ n # session
        BY <1>5, <2>1 DEF InLoop, Connected
    <2>3. recon[session] = "done"
        BY <1>1, <1>6, <2>1, <2>2
    <2> QED BY <1>8, <2>1, <2>2, <2>3
<1>12. CASE Read
    <2>1. recon' = recon /\ session' = session /\ up' = up /\ wire # <<>> /\ wire' = Tail(wire)
          /\ known' = dispatch(known, Head(wire)) /\ asked' = asked /\ wiped' = wiped
        BY <1>12 DEF Read, peerVars
    <2>2. LastBrings(wire, u) \/ (Quiet(wire, u) /\ u \in known)
        BY <1>8, <2>1
    <2>3. u \in known' <=> Brings(Head(wire), u) \/ (u \in known /\ ~Takes(Head(wire), u))
        BY <2>1, DispatchIs
    <2>4. /\ LastBrings(wire, u) => LastBrings(wire', u) \/ (Quiet(wire', u) /\ Brings(Head(wire), u))
          /\ Quiet(wire, u) => Quiet(wire', u) /\ ~Takes(Head(wire), u)
        BY <1>1, <2>1, LastOfTail DEF Mentions
    <2> QED BY <2>2, <2>3, <2>4
<1>13. CASE AnswerChannels
    <2>1. up' = up /\ wire' = wire \o SetToSeq({Shown(v) : v \in up})
        BY <1>13 DEF AnswerChannels, peerVars
    <2>2. {Shown(v) : v \in up} \subseteq Frame
        BY <1>1, FramesAre
    <2> QED BY <1>1, <2>1, <2>2, LastOfList, UpIsFinite
<1>14. CASE Change
    <2>1. recon' = recon /\ session' = session /\ known' = known /\ asked' = asked /\ wiped' = wiped
        BY <1>14 DEF Change, runVars
    <2>2. \A v \in up : LastBrings(wire, v) \/ (Quiet(wire, v) /\ v \in known)
        BY <1>8, <2>1
    <2>3. PICK v \in Uids :
              \/ v \in up /\ up' = up \ {v} /\ wire' = Append(wire, Gone(v))
              \/ v \notin up /\ up' = up \cup {v} /\ wire' = Append(wire, New(v))
        BY <1>1, <1>7, <1>14, ChangeIs
    <2>4. CASE up' = up \ {v} /\ wire' = Append(wire, Gone(v))
        BY <1>1, <2>1, <2>2, <2>4, FramesAre, LastOfAppend, ChangeSays DEF Mentions
    <2>5. CASE up' = up \cup {v} /\ wire' = Append(wire, New(v))
        BY <1>1, <2>1, <2>2, <2>5, FramesAre, LastOfAppend, ChangeSays DEF Mentions
    <2> QED BY <2>3, <2>4, <2>5
<1> QED BY <1>1, <1>2, <1>4, <1>6, <1>9, <1>10, <1>11, <1>12, <1>13, <1>14, WireSteps
-----------------------------------------------------------------------------
(***************************************************************************)
(* The theorems.                                                           *)
(***************************************************************************)

LEMMA Starts == Init => ListenerInv
<1> SUFFICES ASSUME Init PROVE ListenerInv
    OBVIOUS
<1>1. Typed
    <2>1. 0 \in 0 .. MaxSessions /\ 0 \in 0 .. AwaitLimit - 1
        BY ListenerAssumption
    <2>2. wire \in Seq(Frame)
        BY DEF Init
    <2>3. recon \in [Sessions -> {"none", "reset", "ask", "done"}]
        BY DEF Init
    <2> QED BY <2>1, <2>2, <2>3 DEF Init, Typed, TypeOK, Connected
<1>2. SessionsInOrder
    BY DEF Init, SessionsInOrder, Connected
<1>3. LoggedIn /\ WireIsTrue /\ NoGhost /\ NoneLost
    BY DEF Init, LoggedIn, WireIsTrue, NoGhost, NoneLost, Told, InLoop
<1> QED BY <1>1, <1>2, <1>3 DEF ListenerInv

LEMMA Invariant == Spec => []ListenerInv
<1>1. ListenerInv /\ [Next]_vars => ListenerInv'
    BY TypedKept, OrderKept, LoggedInKept, WireKept, GhostKept, NoneLostKept DEF ListenerInv
<1> QED BY <1>1, Starts, PTL DEF Spec

\* Types; and no connection outlives its session (the deferred Close of
\* session).
THEOREM TypeCorrect == Spec => []TypeOK
BY Invariant, Implies, PTL

\* When a session of the listener has reset the registry and Asterisk has
\* listed its channels, the registry and the frames still to be read amount to
\* the channels there are, whatever changed in the meantime and in whatever
\* order the reconcile goroutine and the event loop got to it; only the reset of
\* an earlier session, come late, can spoil it.
THEOREM RegistryIsInSync == Spec => []InSync
BY Invariant, Implies, PTL
===============================================================================
