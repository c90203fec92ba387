-------------------------- MODULE CallStreamProofs --------------------------
(***************************************************************************)
(* Theorems about Registry, for every set of Uniqueids, bridges and field  *)
(* values and every bound on the clock, and about CallStream, for every    *)
(* set of Uniqueids and of pages and every buffer size.                    *)
(***************************************************************************)
EXTENDS CallStream, SequenceTheorems, FiniteSetTheorems, TLAPS

(***************************************************************************)
(* removeString: what is left of a list without repetitions.               *)
(***************************************************************************)

\* Removing a Uniqueid from a list that holds it once leaves a list, without
\* repetitions, of exactly the others, in the order they had (removeString).
LEMMA RemoveStringProperties ==
    ASSUME NEW S, NEW s \in Seq(S), NEW e, IsInjective(s)
    PROVE  /\ removeString(s, e) \in Seq(S)
           /\ IsInjective(removeString(s, e))
           /\ \A x : Contains(removeString(s, e), x) <=> Contains(s, x) /\ x # e
           /\ \A p, q \in DOMAIN removeString(s, e) : p < q =>
                 \E i, j \in DOMAIN s : /\ i < j
                                        /\ removeString(s, e)[p] = s[i]
                                        /\ removeString(s, e)[q] = s[j]
<1> DEFINE r == removeString(s, e)
<1>1. CASE ~ \E i \in 1..Len(s) : s[i] = e
    <2>1. r = s
        BY <1>1 DEF removeString, RemoveFirst
    <2> QED BY <1>1, <2>1 DEF Contains
<1>2. CASE \E i \in 1..Len(s) : s[i] = e
    <2>1. PICK k \in 1..Len(s) : s[k] = e
        BY <1>2
    <2>2. {i \in 1..Len(s) : s[i] = e} = {k}
        BY <2>1 DEF IsInjective
    <2>3. Min({k}) = k
        BY DEF Min
    <2>4. r = SubSeq(s, 1, k-1) \o SubSeq(s, k+1, Len(s))
        BY <1>2, <2>2, <2>3 DEF removeString, RemoveFirst, SelectInSeq, RemoveAt
    <2>5. /\ SubSeq(s, 1, k-1) \in Seq(S)
          /\ Len(SubSeq(s, 1, k-1)) = k-1
          /\ \A i \in 1..k-1 : SubSeq(s, 1, k-1)[i] = s[i]
        BY SubSeqProperties
    <2>6. /\ SubSeq(s, k+1, Len(s)) \in Seq(S)
          /\ Len(SubSeq(s, k+1, Len(s))) = Len(s) - k
          /\ \A i \in 1..Len(s)-k : SubSeq(s, k+1, Len(s))[i] = s[i+k]
        BY SubSeqProperties
    <2>7. /\ r \in Seq(S)
          /\ Len(r) = Len(s) - 1
          /\ \A i \in 1..Len(s)-1 : r[i] = IF i < k THEN s[i] ELSE s[i+1]
        <3> DEFINE a == SubSeq(s, 1, k-1)
                   b == SubSeq(s, k+1, Len(s))
        <3>1. /\ a \o b \in Seq(S)
              /\ Len(a \o b) = Len(a) + Len(b)
              /\ \A i \in 1..Len(a) + Len(b) :
                    (a \o b)[i] = IF i <= Len(a) THEN a[i] ELSE b[i - Len(a)]
            BY <2>5, <2>6, ConcatProperties
        <3>2. Len(s) \in Nat /\ Len(a) = k-1 /\ Len(b) = Len(s) - k
            BY <2>5, <2>6
        <3>3. r = a \o b
            BY <2>4
        <3> HIDE DEF a, b, r
        <3>4. ASSUME NEW i \in 1..Len(s)-1 PROVE r[i] = IF i < k THEN s[i] ELSE s[i+1]
            <4>1. CASE i < k
                <5>1. a[i] = s[i]
                    BY <4>1, <2>5 DEF a
                <5> QED BY <5>1, <4>1, <3>1, <3>2, <3>3
            <4>2. CASE ~(i < k)
                <5>1. i - (k-1) \in 1..Len(s)-k /\ (i - (k-1)) + k = i + 1
                    BY <4>2, <3>2
                <5>2. b[i - (k-1)] = s[i+1]
                    BY <5>1, <2>6 DEF b
                <5> QED BY <5>2, <4>2, <3>1, <3>2, <3>3
            <4> QED BY <4>1, <4>2
        <3>5. r \in Seq(S)
            BY <3>1, <3>3
        <3>6. Len(r) = Len(s) - 1
            BY <3>1, <3>2, <3>3
        <3> QED BY <3>4, <3>5, <3>6
    <2>8. IsInjective(r)
        <3> HIDE DEF r
        <3>1. DOMAIN r = 1..Len(s)-1 /\ DOMAIN s = 1..Len(s) /\ Len(s) \in Nat
            BY <2>7
        <3>2. ASSUME NEW i \in DOMAIN r, NEW j \in DOMAIN r, r[i] = r[j] PROVE i = j
            <4> DEFINE old(n) == IF n < k THEN n ELSE n + 1
            <4>1. /\ old(i) \in DOMAIN s /\ r[i] = s[old(i)]
                  /\ old(j) \in DOMAIN s /\ r[j] = s[old(j)]
                BY <2>7, <3>1
            <4>2. old(i) = old(j)
                <5> HIDE DEF old
                <5> QED BY <3>2, <4>1 DEF IsInjective
            <4> QED BY <3>1, <4>2
        <3> QED BY <3>2 DEF IsInjective
    <2>9. ASSUME NEW x PROVE Contains(r, x) <=> Contains(s, x) /\ x # e
        <3>1. ASSUME NEW i \in 1..Len(s), s[i] = x, x # e PROVE \E j \in 1..Len(r) : r[j] = x
            <4>1. CASE i < k
                BY <4>1, <3>1, <2>7
            <4>2. CASE i > k
                <5>1. i - 1 \in 1..Len(s)-1 /\ ~(i - 1 < k) /\ (i - 1) + 1 = i
                    BY <4>2
                <5> QED BY <5>1, <3>1, <2>7
            <4> QED BY <4>1, <4>2, <3>1, <2>1
        <3>2. ASSUME NEW j \in 1..Len(r), r[j] = x PROVE Contains(s, x) /\ x # e
            <4>1. j \in 1..Len(s) /\ j + 1 \in 1..Len(s)
                BY <2>7
            <4>2. s[j] # e \/ j = k
                BY <2>1, <4>1 DEF IsInjective
            <4>3. s[j+1] # e \/ j + 1 = k
                BY <2>1, <4>1 DEF IsInjective
            <4> QED BY <3>2, <4>1, <4>2, <4>3, <2>7 DEF Contains
        <3> QED BY <3>1, <3>2 DEF Contains
    <2>10. ASSUME NEW p \in DOMAIN r, NEW q \in DOMAIN r, p < q
           PROVE  \E i, j \in DOMAIN s : i < j /\ r[p] = s[i] /\ r[q] = s[j]
        <3> DEFINE at(n) == IF n < k THEN n ELSE n + 1
        <3>1. DOMAIN r = 1..Len(s)-1 /\ DOMAIN s = 1..Len(s) /\ Len(s) \in Nat
            BY <2>7
        <3>2. at(p) \in DOMAIN s /\ at(q) \in DOMAIN s /\ at(p) < at(q)
            BY <2>10, <3>1
        <3>3. r[p] = s[at(p)] /\ r[q] = s[at(q)]
            BY <2>7, <3>1
        <3> QED BY <3>2, <3>3
    <2> QED BY <2>7, <2>8, <2>9, <2>10
<1> QED BY <1>1, <1>2

\* Indexing a Uniqueid adds it to the list, once (channelInCall guards the
\* append in ApplyNewchannel).
LEMMA IndexedProperties ==
    ASSUME NEW S, NEW s \in Seq(S), NEW e \in S, IsInjective(s)
    PROVE  /\ Indexed(s, e) \in Seq(S)
           /\ IsInjective(Indexed(s, e))
           /\ \A x : Contains(Indexed(s, e), x) <=> Contains(s, x) \/ x = e
<1>1. CASE Contains(s, e)
    BY <1>1 DEF Indexed
<1>2. CASE ~Contains(s, e)
    <2> DEFINE t == Append(s, e)
    <2>1. Indexed(s, e) = t
        BY <1>2 DEF Indexed
    <2>2. /\ t \in Seq(S)
          /\ Len(t) = Len(s) + 1
          /\ \A i \in 1..Len(s) : t[i] = s[i]
          /\ t[Len(s) + 1] = e
        BY AppendProperties
    <2>3. Len(s) \in Nat /\ DOMAIN t = 1..Len(s)+1
        BY <2>2
    <2> HIDE DEF t
    <2>4. IsInjective(t)
        BY <1>2, <2>2, <2>3 DEF IsInjective, Contains
    <2>5. \A x : Contains(t, x) <=> Contains(s, x) \/ x = e
        BY <2>2, <2>3 DEF Contains
    <2> QED BY <2>1, <2>2, <2>4, <2>5
<1> QED BY <1>1, <1>2
-----------------------------------------------------------------------------
(***************************************************************************)
(* Types.  The lists hold no Uniqueid twice whatever Asterisk repeats, and *)
(* that is what makes removeString leave a list.                           *)
(***************************************************************************)

TypeInv ==
    /\ TypeOK
    /\ \A l \in Uids : IsInjective(byCall[l])

\* Publishing well-typed events keeps the types of `published' and `mirror'.
LEMMA PublishType ==
    ASSUME NEW evs, Publish(evs), TypeOK,
           \A ev \in evs : /\ ev.type \in {"started", "updated", "ended"}
                           /\ ev.call.linkedid \in Uids
    PROVE  /\ \A ev \in published' : ev.type \in {"started", "updated", "ended"}
           /\ DOMAIN mirror' \subseteq Uids
<1>1. published' = evs
    BY DEF Publish
<1>2. CASE evs = {}
    BY <1>1, <1>2 DEF Publish, TypeOK
<1>3. CASE evs # {}
    <2> DEFINE ev == CHOOSE ev \in evs : TRUE
    <2>1. ev \in evs
        BY <1>3
    <2>2. mirror' = Consume(mirror, ev)
        BY <1>3 DEF Publish
    <2> HIDE DEF ev
    <2>3. DOMAIN mirror' \subseteq DOMAIN mirror \cup {ev.call.linkedid}
        BY <2>2 DEF Consume, Show, Hide
    <2> QED BY <1>1, <2>1, <2>3 DEF TypeOK
<1> QED BY <1>2, <1>3

\* The event of a mutation is about the call that was changed.
LEMMA UpdateOfType ==
    ASSUME NEW chs, NEW index, NEW l, NEW ev \in UpdateOf(chs, index, l)
    PROVE  /\ ev.type = "updated"
           /\ ev.call = callLocked(chs, index, l)
           /\ ev.call.linkedid = l
BY DEF UpdateOf, Event, callLocked, CallOf

\* What the mutations of a known channel do to the types.
LEMMA MutateType ==
    ASSUME TypeInv, NEW u \in Uids, NEW c \in Channel, Mutate(u, c)
    PROVE  TypeInv'
<1> USE DEF TypeInv
<1>1. channels' \in [Uids -> Channel \cup {None}]
    BY DEF Mutate, TypeOK
<1>2. c.linkedid \in Uids
    BY DEF Channel
<1>3. Publish(UpdateOf(channels', byCall, c.linkedid))
    BY DEF Mutate
<1>4. /\ \A ev \in published' : ev.type \in {"started", "updated", "ended"}
      /\ DOMAIN mirror' \subseteq Uids
    BY <1>2, <1>3, PublishType, UpdateOfType
<1> QED BY <1>1, <1>4 DEF Mutate, TypeOK

\* A changed field of a stored channel leaves a channel.
LEMMA MutateChannelType ==
    ASSUME TypeInv, ConstantsAssumption, NEW u \in Uids, NEW attr, NEW v \in Field,
           mutateChannel(u, attr, v)
    PROVE  TypeInv'
<1>1. channels[u] \in Channel
    BY DEF mutateChannel, Mutate, TypeInv, TypeOK
<1>2. attr \in Attrs
    BY DEF mutateChannel
<1>3. [channels[u] EXCEPT !.attrs[attr] = v] \in Channel
    BY <1>1, <1>2 DEF Channel
<1>4. CASE v = None
    BY <1>1, <1>4, MutateType DEF mutateChannel
<1>5. CASE v # None
    BY <1>3, <1>5, MutateType DEF mutateChannel
<1> QED BY <1>4, <1>5

\* What Describe does: one descriptive field of one channel takes a value.
LEMMA DescribeMutates ==
    ASSUME NEW u \in Uids, Describe(u)
    PROVE  \E attr \in AllAttrs, v \in Field : mutateChannel(u, attr, v)
<1>1. \A v \in Field \cup {Unknown} : normaliseUnknown(v) \in Field
    BY DEF normaliseUnknown, Field
<1> QED BY <1>1 DEF Describe, ApplyNewstate, ApplyExtension, ApplyCallerID,
                    ApplyConnectedLine, AllAttrs

\* Every step keeps the types.
LEMMA NextType == ASSUME ConstantsAssumption, TypeInv, [Next]_vars PROVE TypeInv'
<1>1. CASE Newchannel
    <2>1. PICK u \in Uids, linkedid \in Uids \cup {None}, b \in BridgeID, f \in RawAttrs :
            ApplyNewchannel(u, linkedid, b, f)
        BY <1>1 DEF Newchannel
    <2> DEFINE l == IF linkedid = None THEN u ELSE linkedid
               c == [uid |-> u, linkedid |-> l, createdAt |-> clock, bridge |-> b,
                     attrs |-> [a \in Attrs |-> IF a \in CleanedAttrs
                                                THEN normaliseUnknown(f[a])
                                                ELSE f[a]]]
               call == callLocked(channels', byCall', l)
               ev == Event(NewchannelType(channels[u] # None, call), call)
    <2>2. l \in Uids
        BY DEF ConstantsAssumption
    <2>3. c \in Channel
        <3>1. \A a \in Attrs : (IF a \in CleanedAttrs THEN normaliseUnknown(f[a]) ELSE f[a])
                               \in Field
            BY DEF RawAttrs, RawField, normaliseUnknown, Field
        <3> QED BY <2>2, <3>1 DEF Channel, TypeInv, TypeOK
    <2>4. /\ channels' = [channels EXCEPT ![u] = c]
          /\ byCall' = [byCall EXCEPT ![l] = Indexed(@, u)]
          /\ Publish({ev})
          /\ clock' = clock
        BY <2>1 DEF ApplyNewchannel
    <2>5. /\ ev.type \in {"started", "updated", "ended"}
          /\ ev.call.linkedid = l
        BY DEF Event, NewchannelType, callLocked, CallOf
    <2>6. channels' \in [Uids -> Channel \cup {None}]
        BY <2>3, <2>4 DEF TypeInv, TypeOK
    <2>7. Indexed(byCall[l], u) \in Seq(Uids) /\ IsInjective(Indexed(byCall[l], u))
        BY <2>2, IndexedProperties DEF TypeInv, TypeOK
    <2>8. byCall' \in [Uids -> Seq(Uids)] /\ \A k \in Uids : IsInjective(byCall'[k])
        BY <2>2, <2>4, <2>7 DEF TypeInv, TypeOK
    <2>9. /\ \A e \in published' : e.type \in {"started", "updated", "ended"}
          /\ DOMAIN mirror' \subseteq Uids
        <3> HIDE DEF ev
        <3> QED BY <2>2, <2>4, <2>5, PublishType DEF TypeInv
    <2> QED BY <2>4, <2>6, <2>8, <2>9 DEF TypeInv, TypeOK
<1>2. ASSUME NEW u \in Uids, Describe(u) PROVE TypeInv'
    <2>1. PICK attr \in AllAttrs, v \in Field : mutateChannel(u, attr, v)
        BY <1>2, DescribeMutates
    <2> QED BY <2>1, MutateChannelType
<1>3. ASSUME NEW u \in Uids, NEW b \in BridgeID, updateBridge(u, b) PROVE TypeInv'
    <2>1. channels[u] \in Channel
        BY <1>3 DEF updateBridge, Mutate, TypeInv, TypeOK
    <2>2. [channels[u] EXCEPT !.bridge = b] \in Channel
        BY <2>1 DEF Channel
    <2> QED BY <1>3, <2>2, MutateType DEF updateBridge
<1>4. ASSUME NEW u \in Uids, ApplyHangup(u) PROVE TypeInv'
    <2> DEFINE l == channels[u].linkedid
               evs == IF byCall'[l] = <<>>
                      THEN {Event("ended", EndedCall(l, channels[u]))}
                      ELSE UpdateOf(channels', byCall', l)
    <2>1. /\ channels' = [channels EXCEPT ![u] = None]
          /\ byCall' = [byCall EXCEPT ![l] = removeString(@, u)]
          /\ Publish(evs)
          /\ clock' = clock
        BY <1>4 DEF ApplyHangup
    <2>2. l \in Uids
        BY <1>4 DEF ApplyHangup, TypeInv, TypeOK, Channel
    <2>3. \A ev \in evs : ev.type \in {"started", "updated", "ended"} /\ ev.call.linkedid = l
        <3>1. \A ev \in UpdateOf(channels', byCall', l) :
                ev.type \in {"started", "updated", "ended"} /\ ev.call.linkedid = l
            BY UpdateOfType
        <3>2. LET ev == Event("ended", EndedCall(l, channels[u]))
              IN  ev.type = "ended" /\ ev.call.linkedid = l
            BY DEF Event, EndedCall
        <3> QED BY <3>1, <3>2
    <2>4. removeString(byCall[l], u) \in Seq(Uids) /\ IsInjective(removeString(byCall[l], u))
        BY <2>2, RemoveStringProperties DEF TypeInv, TypeOK
    <2>5. /\ channels' \in [Uids -> Channel \cup {None}]
          /\ byCall' \in [Uids -> Seq(Uids)] /\ \A k \in Uids : IsInjective(byCall'[k])
        BY <2>1, <2>2, <2>4 DEF TypeInv, TypeOK
    <2>6. /\ \A ev \in published' : ev.type \in {"started", "updated", "ended"}
          /\ DOMAIN mirror' \subseteq Uids
        <3> HIDE DEF evs
        <3> QED BY <2>1, <2>2, <2>3, PublishType DEF TypeInv
    <2> QED BY <2>1, <2>5, <2>6 DEF TypeInv, TypeOK
<1>5. CASE Reset
    <2>1. byCall' \in [Uids -> Seq(Uids)] /\ \A k \in Uids : IsInjective(byCall'[k])
        BY <1>5 DEF Reset, IsInjective
    <2>2. published' = {} /\ mirror' = mirror
        BY <1>5 DEF Reset, Publish
    <2> QED BY <1>5, <2>1, <2>2 DEF Reset, TypeInv, TypeOK
<1>6. CASE Tick
    <2>1. published' = {} /\ mirror' = mirror
        BY <1>6 DEF Tick, Publish
    <2> QED BY <1>6, <2>1 DEF Tick, TypeInv, TypeOK
<1>7. CASE UNCHANGED vars
    BY <1>7 DEF vars, TypeInv, TypeOK
<1>8. \A u \in Uids : ApplyBridgeLeave(u) => updateBridge(u, None) /\ None \in BridgeID
    BY DEF ApplyBridgeLeave, BridgeID
<1> QED BY <1>1, <1>2, <1>3, <1>4, <1>5, <1>6, <1>7, <1>8 DEF Next, ApplyBridgeEnter

LEMMA InitType == Init => TypeInv
BY DEF Init, TypeInv, TypeOK, IsInjective

\* Type correctness, whatever Asterisk repeats or relinks.
THEOREM TypeCorrect == Spec => []TypeOK
<1>1. Spec => []TypeInv
    BY InitType, NextType, ConstantsAssumption, PTL DEF Spec
<1>2. TypeInv => TypeOK
    BY DEF TypeInv
<1> QED BY <1>1, <1>2, PTL
-----------------------------------------------------------------------------
(***************************************************************************)
(* The index.  While no Uniqueid changes its Linkedid, membership in a     *)
(* list is the same thing as being a live channel of that Linkedid.        *)
(***************************************************************************)

Agree ==
    \A l, u \in Uids :
        Contains(byCall[l], u) <=> channels[u] # None /\ channels[u].linkedid = l

IndexInv == TypeInv /\ Agree

\* The two ways of saying that the maps agree.
LEMMA AgreeIsIndexAgrees == IndexInv => IndexAgrees
<1> SUFFICES ASSUME IndexInv PROVE IndexAgrees
    OBVIOUS
<1>1. \A l \in Uids : byCall[l] \in Seq(Uids) /\ IsInjective(byCall[l])
    BY DEF IndexInv, TypeInv, TypeOK
<1>2. ASSUME NEW l \in Uids, NEW i \in DOMAIN byCall[l]
      PROVE  LET c == channels[byCall[l][i]] IN c # None /\ c.linkedid = l
    <2>1. byCall[l][i] \in Uids /\ Contains(byCall[l], byCall[l][i])
        BY <1>1 DEF Contains
    <2> QED BY <2>1 DEF IndexInv, Agree
<1>3. ASSUME NEW u \in Uids, channels[u] # None
      PROVE  Contains(byCall[channels[u].linkedid], u)
    <2>1. channels[u].linkedid \in Uids
        BY <1>3 DEF IndexInv, TypeInv, TypeOK, Channel
    <2> QED BY <1>3, <2>1 DEF IndexInv, Agree
<1> QED BY <1>1, <1>2, <1>3 DEF IndexAgrees

\* When a step changes one channel and the list it is in, and the list holds
\* that channel afterwards exactly when it is still there, the index agrees.
LEMMA AgreeStep ==
    ASSUME NEW u \in Uids, NEW l \in Uids, Agree,
           channels[u] # None => channels[u].linkedid = l,
           channels'[u] # None => channels'[u].linkedid = l,
           \A x \in Uids : x # u => channels'[x] = channels[x],
           \A k \in Uids : k # l => byCall'[k] = byCall[k],
           \A x \in Uids :
              Contains(byCall'[l], x)
              <=> IF x = u THEN channels'[u] # None ELSE Contains(byCall[l], x)
    PROVE  Agree'
<1> SUFFICES ASSUME NEW k \in Uids, NEW x \in Uids
             PROVE  Contains(byCall'[k], x)
                    <=> channels'[x] # None /\ channels'[x].linkedid = k
    BY DEF Agree
<1>1. CASE k = l /\ x = u
    BY <1>1
<1>2. CASE k = l /\ x # u
    BY <1>2 DEF Agree
<1>3. CASE k # l /\ x = u
    BY <1>3 DEF Agree
<1>4. CASE k # l /\ x # u
    BY <1>4 DEF Agree
<1> QED BY <1>1, <1>2, <1>3, <1>4

\* What a call with the given contents of the maps is made of.
LEMMA FrameView ==
    ASSUME NEW chs, NEW chs2, NEW index, NEW index2, NEW l, index2[l] = index[l],
           \A i \in DOMAIN index[l] : chs2[index[l][i]] = chs[index[l][i]]
    PROVE  /\ callLocked(chs2, index2, l) = callLocked(chs, index, l)
           /\ callFound(chs2, index2, l) <=> callFound(chs, index, l)
<1>1. Legs(chs2, index2[l]) = Legs(chs, index[l])
    BY DEF Legs
<1> QED BY <1>1 DEF callLocked, callFound

\* A call is there while its list is not empty.
LiveMatches ==
    \A l \in Uids : /\ l \in Live <=> \E u \in Uids : Contains(byCall[l], u)
                    /\ l \in Live <=> byCall[l] # <<>>

LEMMA LiveIsIndexed == IndexInv => LiveMatches
<1> SUFFICES ASSUME IndexInv, NEW l \in Uids
             PROVE  /\ l \in Live <=> \E u \in Uids : Contains(byCall[l], u)
                    /\ l \in Live <=> byCall[l] # <<>>
    BY DEF LiveMatches
<1>1. byCall[l] \in Seq(Uids) /\ DOMAIN byCall[l] = 1..Len(byCall[l])
    BY DEF IndexInv, TypeInv, TypeOK
<1>2. \A i \in DOMAIN byCall[l] : channels[byCall[l][i]] # None
    BY AgreeIsIndexAgrees DEF IndexAgrees
<1>3. l \in Live <=> \E i \in DOMAIN byCall[l] : TRUE
    BY <1>2 DEF Live, callFound
<1>4. byCall[l] # <<>> <=> \E i \in DOMAIN byCall[l] : TRUE
    <2>1. byCall[l] # <<>> => Len(byCall[l]) \in Nat \ {0}
        BY <1>1, EmptySeq
    <2>2. byCall[l] = <<>> => Len(byCall[l]) = 0
        BY EmptySeq
    <2>3. byCall[l] # <<>> => 1 \in DOMAIN byCall[l]
        BY <1>1, <2>1
    <2>4. byCall[l] = <<>> => DOMAIN byCall[l] = {}
        BY <1>1, <2>2
    <2> QED BY <2>3, <2>4
<1>5. (\E i \in DOMAIN byCall[l] : TRUE) <=> \E u \in Uids : Contains(byCall[l], u)
    BY <1>1 DEF Contains
<1> QED BY <1>3, <1>4, <1>5

LEMMA LiveIsIndexedNext == IndexInv' => LiveMatches'
BY LiveIsIndexed, PTL

(***************************************************************************)
(* The consumer.  A step that changes one call and publishes it, or its    *)
(* end, keeps the consumer's map in step with the registry.                *)
(***************************************************************************)

LEMMA PublishOne ==
    ASSUME NEW ev, Publish({ev})
    PROVE  published' = {ev} /\ mirror' = Consume(mirror, ev)
<1>1. (CHOOSE e \in {ev} : TRUE) = ev
    OBVIOUS
<1> QED BY <1>1 DEF Publish

\* The step changed call l alone, and what its event says of l holds after it.
Announced ==
    \E ev \in published' :
        LET l == ev.call.linkedid
        IN  /\ published' = {ev}
            /\ l \in Uids
            /\ IF ev.type = "ended" THEN l \notin Live' ELSE l \in Live' /\ ev.call = View(l)'
            /\ \A k \in Uids \ {l} : (k \in Live' <=> k \in Live) /\ View(k)' = View(k)

LEMMA MirrorStep ==
    ASSUME IndexInv, IndexInv', NEW u \in Uids, NEW l \in Uids,
           \A x \in Uids : x # u => channels'[x] = channels[x],
           \A k \in Uids : k # l => byCall'[k] = byCall[k] /\ ~Contains(byCall[k], u),
           NEW ev, Publish({ev}), ev.call.linkedid = l,
           \/ l \in Live' /\ ev.type # "ended" /\ ev.call = callLocked(channels', byCall', l)
           \/ l \notin Live' /\ ev.type = "ended"
    PROVE  /\ LiveCallsMirrored => LiveCallsMirrored'
           /\ NothingLingers => NothingLingers'
           /\ Announced
<1>1. mirror' = Consume(mirror, ev) /\ published' = {ev}
    BY PublishOne
<1>2. ASSUME NEW k \in Uids, k # l
      PROVE  /\ k \in Live' <=> k \in Live
             /\ View(k)' = View(k)
             /\ k \in DOMAIN mirror' <=> k \in DOMAIN mirror
             /\ k \in DOMAIN mirror => mirror'[k] = mirror[k]
    <2>1. byCall[k] \in Seq(Uids) /\ byCall'[k] = byCall[k]
        BY <1>2 DEF IndexInv, TypeInv, TypeOK
    <2>2. \A i \in DOMAIN byCall[k] : channels'[byCall[k][i]] = channels[byCall[k][i]]
        BY <1>2, <2>1 DEF Contains
    <2>3. /\ callLocked(channels', byCall', k) = callLocked(channels, byCall, k)
          /\ callFound(channels', byCall', k) <=> callFound(channels, byCall, k)
        BY <2>1, <2>2, FrameView
    <2> QED BY <1>1, <1>2, <2>3 DEF Live, View, Consume, Show, Hide
<1>3. Announced
    BY <1>1, <1>2 DEF Announced, View
<1>4. CASE l \in Live' /\ ev.type # "ended" /\ ev.call = callLocked(channels', byCall', l)
    <2>1. l \in DOMAIN mirror' /\ mirror'[l] = View(l)'
        BY <1>1, <1>4 DEF Consume, Show, View
    <2>2. DOMAIN mirror' \subseteq DOMAIN mirror \cup {l}
        BY <1>1, <1>4 DEF Consume, Show
    <2>3. Live \subseteq Uids /\ Live' \subseteq Uids
        BY DEF Live
    <2> QED BY <1>2, <1>3, <1>4, <2>1, <2>2, <2>3 DEF LiveCallsMirrored, NothingLingers
<1>5. CASE l \notin Live' /\ ev.type = "ended"
    <2>1. DOMAIN mirror' = DOMAIN mirror \ {l}
        BY <1>1, <1>5 DEF Consume, Hide
    <2>2. Live \subseteq Uids /\ Live' \subseteq Uids
        BY DEF Live
    <2> QED BY <1>2, <1>3, <1>5, <2>1, <2>2 DEF LiveCallsMirrored, NothingLingers
<1> QED BY <1>4, <1>5
-----------------------------------------------------------------------------
(***************************************************************************)
(* The steps, one lemma per way of changing the maps.                      *)
(***************************************************************************)

\* What each Apply* keeps: the index, and the consumer's agreement with it,
\* which it owes to announcing the one call it changes.
Kept ==
    /\ Agree'
    /\ Announced
    /\ LiveCallsMirrored => LiveCallsMirrored'
    /\ NothingLingers => NothingLingers'

LEMMA MutateKeeps ==
    ASSUME ConstantsAssumption, IndexInv, TypeInv', NEW u \in Uids, NEW c \in Channel,
           c.linkedid = channels[u].linkedid, Mutate(u, c)
    PROVE  Kept
<1> DEFINE l == c.linkedid
           ev == Event("updated", callLocked(channels', byCall', l))
<1>1. /\ channels[u] # None
      /\ channels' = [channels EXCEPT ![u] = c]
      /\ byCall' = byCall
      /\ Publish(UpdateOf(channels', byCall', l))
    BY DEF Mutate
<1>2. l \in Uids /\ c # None
    BY DEF Channel, ConstantsAssumption
<1>3. Contains(byCall[l], u)
    BY <1>1, <1>2 DEF IndexInv, Agree
<1>4. /\ channels'[u] = c
      /\ \A x \in Uids : x # u => channels'[x] = channels[x]
    BY <1>1 DEF IndexInv, TypeInv, TypeOK
<1>5. Agree'
    BY <1>1, <1>2, <1>3, <1>4, AgreeStep DEF IndexInv
<1>6. IndexInv'
    BY <1>5 DEF IndexInv
<1>7. l \in Live'
    BY <1>1, <1>2, <1>3, <1>6, LiveIsIndexedNext DEF LiveMatches
<1>8. Publish({ev})
    BY <1>1, <1>7 DEF UpdateOf, Live
<1>9. ev.type # "ended" /\ ev.call = callLocked(channels', byCall', l) /\ ev.call.linkedid = l
    BY DEF Event, callLocked, CallOf
<1>10. \A k \in Uids : k # l => byCall'[k] = byCall[k] /\ ~Contains(byCall[k], u)
    BY <1>1, <1>2 DEF IndexInv, Agree
<1> HIDE DEF ev, l
<1>11. /\ LiveCallsMirrored => LiveCallsMirrored'
       /\ NothingLingers => NothingLingers'
       /\ Announced
    BY <1>2, <1>4, <1>6, <1>7, <1>8, <1>9, <1>10, MirrorStep
<1> QED BY <1>5, <1>11 DEF Kept

LEMMA NewchannelKeeps ==
    ASSUME ConstantsAssumption, ~Relinks, IndexInv, TypeInv',
           NEW u \in Uids, NEW linkedid \in Uids \cup {None}, NEW b \in BridgeID,
           NEW f \in RawAttrs, MayAnnounce(u, linkedid), ApplyNewchannel(u, linkedid, b, f)
    PROVE  Kept
<1> DEFINE l == IF linkedid = None THEN u ELSE linkedid
           c == [uid |-> u, linkedid |-> l, createdAt |-> clock, bridge |-> b,
                 attrs |-> [a \in Attrs |-> IF a \in CleanedAttrs
                                            THEN normaliseUnknown(f[a])
                                            ELSE f[a]]]
           call == callLocked(channels', byCall', l)
           ev == Event(NewchannelType(channels[u] # None, call), call)
<1>1. channels' = [channels EXCEPT ![u] = c] /\ c.linkedid = l
    BY DEF ApplyNewchannel
<1>2. /\ byCall' = [byCall EXCEPT ![l] = Indexed(@, u)]
      /\ Publish({ev})
    BY DEF ApplyNewchannel
<1>3. l \in Uids
    BY DEF ConstantsAssumption
<1>4. channels[u] # None => channels[u].linkedid = l
    BY DEF MayAnnounce
<1>5. /\ channels'[u] = c
      /\ \A x \in Uids : x # u => channels'[x] = channels[x]
    BY <1>1 DEF IndexInv, TypeInv, TypeOK
<1>6. c # None
    <2>2. \A a \in Attrs : (IF a \in CleanedAttrs THEN normaliseUnknown(f[a]) ELSE f[a])
                           \in Field
        BY DEF RawAttrs, RawField, normaliseUnknown, Field
    <2>3. c \in Channel
        BY <1>3, <2>2 DEF Channel, IndexInv, TypeInv, TypeOK
    <2> QED BY <2>3 DEF ConstantsAssumption
<1>7. /\ byCall'[l] = Indexed(byCall[l], u)
      /\ \A k \in Uids : k # l => byCall'[k] = byCall[k]
    BY <1>2, <1>3 DEF IndexInv, TypeInv, TypeOK
<1>8. \A x \in Uids : Contains(byCall'[l], x) <=> Contains(byCall[l], x) \/ x = u
    <2>1. byCall[l] \in Seq(Uids) /\ IsInjective(byCall[l])
        BY <1>3 DEF IndexInv, TypeInv, TypeOK
    <2> HIDE DEF l, c, call, ev
    <2>2. \A x : Contains(Indexed(byCall[l], u), x) <=> Contains(byCall[l], x) \/ x = u
        BY <2>1, IndexedProperties
    <2> QED BY <1>7, <2>2
<1>9. Agree'
    <2>1. channels'[u].linkedid = l
        BY <1>1, <1>5
    <2> HIDE DEF l, ev, call, c
    <2> QED BY <1>3, <1>4, <1>5, <1>6, <1>7, <1>8, <2>1, AgreeStep DEF IndexInv
<1>10. IndexInv'
    BY <1>9 DEF IndexInv
<1>11. l \in Live'
    BY <1>3, <1>8, <1>10, LiveIsIndexedNext DEF LiveMatches
<1>12. ev.type # "ended" /\ ev.call = callLocked(channels', byCall', l) /\ ev.call.linkedid = l
    BY DEF Event, NewchannelType, callLocked, CallOf
<1>13. \A k \in Uids : k # l => byCall'[k] = byCall[k] /\ ~Contains(byCall[k], u)
    BY <1>4, <1>7 DEF IndexInv, Agree
<1> HIDE DEF ev, l, call, c
<1>14. /\ LiveCallsMirrored => LiveCallsMirrored'
       /\ NothingLingers => NothingLingers'
       /\ Announced
    BY <1>2, <1>3, <1>5, <1>10, <1>11, <1>12, <1>13, MirrorStep
<1> QED BY <1>9, <1>14 DEF Kept

LEMMA HangupKeeps ==
    ASSUME IndexInv, TypeInv', NEW u \in Uids, ApplyHangup(u)
    PROVE  Kept
<1> DEFINE l == channels[u].linkedid
           last == Event("ended", EndedCall(l, channels[u]))
           updated == Event("updated", callLocked(channels', byCall', l))
<1>1. /\ channels[u] # None
      /\ channels' = [channels EXCEPT ![u] = None]
      /\ byCall' = [byCall EXCEPT ![l] = removeString(@, u)]
      /\ Publish(IF byCall'[l] = <<>> THEN {last} ELSE UpdateOf(channels', byCall', l))
    BY DEF ApplyHangup
<1>2. l \in Uids
    BY <1>1 DEF IndexInv, TypeInv, TypeOK, Channel
<1>3. /\ channels'[u] = None
      /\ \A x \in Uids : x # u => channels'[x] = channels[x]
    BY <1>1 DEF IndexInv, TypeInv, TypeOK
<1>4. /\ byCall'[l] = removeString(byCall[l], u)
      /\ \A k \in Uids : k # l => byCall'[k] = byCall[k]
    BY <1>1, <1>2 DEF IndexInv, TypeInv, TypeOK
<1>5. \A x \in Uids : Contains(byCall'[l], x) <=> Contains(byCall[l], x) /\ x # u
    BY <1>2, <1>4, RemoveStringProperties DEF IndexInv, TypeInv, TypeOK
<1>6. Agree'
    <2> HIDE DEF l
    <2> QED BY <1>1, <1>2, <1>3, <1>4, <1>5, AgreeStep DEF IndexInv, l
<1>7. IndexInv'
    BY <1>6 DEF IndexInv
<1>8. l \in Live' <=> byCall'[l] # <<>>
    BY <1>2, <1>7, LiveIsIndexedNext DEF LiveMatches
<1>9. \A k \in Uids : k # l => byCall'[k] = byCall[k] /\ ~Contains(byCall[k], u)
    BY <1>1, <1>4 DEF IndexInv, Agree
<1>10. /\ last.type = "ended" /\ last.call.linkedid = l
       /\ updated.type # "ended" /\ updated.call = callLocked(channels', byCall', l)
       /\ updated.call.linkedid = l
    BY DEF Event, EndedCall, callLocked, CallOf
<1>11. CASE l \in Live'
    <2>1. Publish({updated})
        BY <1>1, <1>8, <1>11 DEF UpdateOf, Live
    <2> HIDE DEF l, updated
    <2>2. /\ LiveCallsMirrored => LiveCallsMirrored'
          /\ NothingLingers => NothingLingers'
          /\ Announced
        BY <1>2, <1>3, <1>7, <1>9, <1>10, <1>11, <2>1, MirrorStep
    <2> QED BY <1>6, <2>2 DEF Kept
<1>12. CASE l \notin Live'
    <2>1. Publish({last})
        BY <1>1, <1>8, <1>12
    <2> HIDE DEF l, last
    <2>2. /\ LiveCallsMirrored => LiveCallsMirrored'
          /\ NothingLingers => NothingLingers'
          /\ Announced
        BY <1>2, <1>3, <1>7, <1>9, <1>10, <1>12, <2>1, MirrorStep
    <2> QED BY <1>6, <2>2 DEF Kept
<1> QED BY <1>11, <1>12

\* One of the Apply* methods.
AppliesOne ==
    \/ Newchannel
    \/ \E u \in Uids : Describe(u) \/ ApplyBridgeLeave(u) \/ ApplyHangup(u)
    \/ \E u \in Uids, b \in BridgeID : ApplyBridgeEnter(u, b)

LEMMA ApplyKeeps ==
    ASSUME ConstantsAssumption, ~Relinks, IndexInv, TypeInv', AppliesOne
    PROVE  Kept
<1>1. CASE Newchannel
    BY <1>1, NewchannelKeeps DEF Newchannel
<1>2. ASSUME NEW u \in Uids, Describe(u) PROVE Kept
    <2>1. PICK attr \in AllAttrs, v \in Field : mutateChannel(u, attr, v)
        BY <1>2, DescribeMutates
    <2>2. channels[u] \in Channel /\ attr \in Attrs
        BY <2>1 DEF mutateChannel, Mutate, IndexInv, TypeInv, TypeOK
    <2>3. CASE v = None
        BY <2>1, <2>2, <2>3, MutateKeeps DEF mutateChannel
    <2>4. CASE v # None
        <3>1. /\ [channels[u] EXCEPT !.attrs[attr] = v] \in Channel
              /\ [channels[u] EXCEPT !.attrs[attr] = v].linkedid = channels[u].linkedid
            BY <2>2 DEF Channel
        <3> QED BY <2>1, <2>4, <3>1, MutateKeeps DEF mutateChannel
    <2> QED BY <2>3, <2>4
<1>3. ASSUME NEW u \in Uids, NEW b \in BridgeID, updateBridge(u, b) PROVE Kept
    <2>1. channels[u] \in Channel
        BY <1>3 DEF updateBridge, Mutate, IndexInv, TypeInv, TypeOK
    <2>2. /\ [channels[u] EXCEPT !.bridge = b] \in Channel
          /\ [channels[u] EXCEPT !.bridge = b].linkedid = channels[u].linkedid
        BY <2>1 DEF Channel
    <2> QED BY <1>3, <2>2, MutateKeeps DEF updateBridge
<1>4. ASSUME NEW u \in Uids, ApplyHangup(u) PROVE Kept
    BY <1>4, HangupKeeps
<1>5. \A u \in Uids : ApplyBridgeLeave(u) => updateBridge(u, None) /\ None \in BridgeID
    BY DEF ApplyBridgeLeave, BridgeID
<1> QED BY <1>1, <1>2, <1>3, <1>4, <1>5 DEF AppliesOne, ApplyBridgeEnter

LEMMA NextKeeps ==
    ASSUME ConstantsAssumption, ~Relinks, IndexInv, TypeInv', [Next]_vars
    PROVE  /\ Agree'
           /\ LiveCallsMirrored => LiveCallsMirrored'
           /\ ~Resets => (NothingLingers => NothingLingers')
<1>1. CASE AppliesOne
    BY <1>1, ApplyKeeps DEF Kept
<1>2. CASE Resets /\ Reset
    <2>1. /\ channels' = [x \in Uids |-> None]
          /\ byCall' = [x \in Uids |-> <<>>]
        BY <1>2 DEF Reset
    <2>2. \A k \in Uids : byCall'[k] = <<>> /\ Len(byCall'[k]) = 0
        BY <2>1
    <2>3. Agree'
        BY <2>1, <2>2 DEF Agree, Contains
    <2>4. Live' = {}
        BY <2>1, <2>2 DEF Live, callFound
    <2> QED BY <1>2, <2>3, <2>4 DEF LiveCallsMirrored
<1>3. CASE channels' = channels /\ byCall' = byCall /\ mirror' = mirror
    <2>1. Live' = Live
        BY <1>3 DEF Live
    <2>2. \A l \in Uids : View(l)' = View(l)
        BY <1>3 DEF View
    <2>3. Live \subseteq Uids
        BY DEF Live
    <2> QED BY <1>3, <2>1, <2>2, <2>3 DEF IndexInv, Agree, LiveCallsMirrored, NothingLingers
<1>4. Tick \/ UNCHANGED vars => channels' = channels /\ byCall' = byCall /\ mirror' = mirror
    BY DEF Tick, Publish, vars
<1> QED BY <1>1, <1>2, <1>3, <1>4 DEF Next, AppliesOne

\* The strengthening the theorems below are proved from.
IInv ==
    /\ IndexInv
    /\ LiveCallsMirrored
    /\ ~Resets => NothingLingers

LEMMA InitIInv == Init => IInv
<1> SUFFICES ASSUME Init PROVE IInv
    OBVIOUS
<1>1. TypeInv
    BY InitType
<1>2. \A l \in Uids : byCall[l] = <<>> /\ Len(byCall[l]) = 0
    BY DEF Init
<1>3. Agree
    BY <1>2 DEF Init, Agree, Contains
<1>4. Live = {}
    BY <1>2 DEF Live, callFound
<1>5. DOMAIN mirror = {}
    BY DEF Init
<1> QED BY <1>1, <1>3, <1>4, <1>5 DEF IInv, IndexInv, LiveCallsMirrored, NothingLingers

LEMMA NextIInv == ASSUME ConstantsAssumption, ~Relinks, IInv, [Next]_vars PROVE IInv'
<1>1. TypeInv'
    BY NextType DEF IInv, IndexInv
<1>2. Agree' /\ LiveCallsMirrored' /\ (~Resets => NothingLingers')
    BY <1>1, NextKeeps DEF IInv
<1> QED BY <1>1, <1>2 DEF IInv, IndexInv

LEMMA InvariantIInv == ASSUME ~Relinks PROVE Spec => []IInv
<1>1. ~Relinks /\ IInv /\ [Next]_vars => IInv'
    BY NextIInv, ConstantsAssumption
<1> QED BY <1>1, InitIInv, PTL DEF Spec

\* If no Uniqueid changes its Linkedid, every live leg is indexed under its
\* own Linkedid, once, and nothing else is indexed.
THEOREM IndexCorrect == ASSUME ~Relinks PROVE Spec => []IndexAgrees
<1>1. IInv => IndexAgrees
    BY AgreeIsIndexAgrees DEF IInv
<1> QED BY <1>1, InvariantIInv, PTL

\* If no Uniqueid changes its Linkedid, a consumer of every event shows each
\* live call exactly as Snapshot does, resets and refreshes included.
THEOREM MirrorCorrect == ASSUME ~Relinks PROVE Spec => []LiveCallsMirrored
<1>1. IInv => LiveCallsMirrored
    BY DEF IInv
<1> QED BY <1>1, InvariantIInv, PTL

\* If moreover the session is never re-established, it shows nothing else.
THEOREM NothingLingersWithoutReset ==
    ASSUME ~Relinks, ~Resets PROVE Spec => []NothingLingers
<1>1. ~Resets /\ IInv => NothingLingers
    BY DEF IInv
<1> QED BY <1>1, InvariantIInv, PTL
-----------------------------------------------------------------------------
(***************************************************************************)
(* The legs of a call, as sortChannelsByCreatedAt leaves them.             *)
(***************************************************************************)

\* Every channel an index entry names is there, so a call has as many legs as
\* its index entry.
LEMMA EveryLegShows ==
    ASSUME IndexInv, NEW l \in Uids
    PROVE  /\ Present(Legs(channels, byCall[l])) = DOMAIN byCall[l]
           /\ Len(View(l).legs) = Len(byCall[l])
<1> DEFINE legs == Legs(channels, byCall[l])
<1>1. byCall[l] \in Seq(Uids) /\ DOMAIN byCall[l] = 1..Len(byCall[l]) /\ Len(byCall[l]) \in Nat
    BY DEF IndexInv, TypeInv, TypeOK
<1>2. \A i \in DOMAIN byCall[l] : channels[byCall[l][i]] # None
    BY AgreeIsIndexAgrees DEF IndexAgrees
<1>3. Present(legs) = DOMAIN byCall[l]
    BY <1>2 DEF Present, Legs
<1>4. Cardinality(Present(legs)) = Len(byCall[l])
    BY <1>1, <1>3, FS_Interval
<1>5. View(l).legs = OldestFirst(legs)
    BY DEF View, callLocked, CallOf
<1>6. Len(OldestFirst(legs)) = Cardinality(Present(legs))
    BY <1>1, <1>4 DEF OldestFirst
<1> QED BY <1>3, <1>4, <1>5, <1>6

LegsMatch == \A l \in Uids : Len(View(l).legs) = Len(byCall[l])

LEMMA EveryLegShowsNext == IndexInv' => LegsMatch'
<1>1. IndexInv => LegsMatch
    BY EveryLegShows DEF LegsMatch
<1> QED BY <1>1, PTL

(***************************************************************************)
(* What each kind of event says of the call it is about.                   *)
(***************************************************************************)

\* The call of the event of this step was unknown to the consumer only if it
\* starts, and, where the consumer shows nothing but live calls, exactly then.
News ==
    \A ev \in published' :
        /\ ev.call.linkedid \notin DOMAIN mirror => ev.type = "started"
        /\ NothingLingers /\ ev.type = "started" => ev.call.linkedid \notin DOMAIN mirror

\* A change of a known leg is no news.
LEMMA MutateNews ==
    ASSUME ConstantsAssumption, IInv, NEW u \in Uids, NEW c,
           c.linkedid = channels[u].linkedid, Mutate(u, c)
    PROVE  News
<1> DEFINE l == c.linkedid
<1>1. channels[u] # None /\ Publish(UpdateOf(channels', byCall', l))
    BY DEF Mutate
<1>2. l \in Uids
    BY <1>1 DEF IInv, IndexInv, TypeInv, TypeOK, Channel
<1>3. l \in Live
    BY <1>1, <1>2, LiveIsIndexed DEF IInv, IndexInv, Agree, LiveMatches
<1>4. l \in DOMAIN mirror
    BY <1>3 DEF IInv, LiveCallsMirrored
<1>5. published' = UpdateOf(channels', byCall', l)
    BY <1>1 DEF Publish
<1>6. \A ev \in published' : ev.type = "updated" /\ ev.call.linkedid = l
    BY <1>5, UpdateOfType
<1> QED BY <1>4, <1>6 DEF News

\* The first leg of a call starts it, and no other does (ApplyNewchannel).
LEMMA NewchannelNews ==
    ASSUME ConstantsAssumption, ~Relinks, IInv, IInv',
           NEW u \in Uids, NEW linkedid \in Uids \cup {None}, NEW b \in BridgeID,
           NEW f \in RawAttrs, MayAnnounce(u, linkedid), ApplyNewchannel(u, linkedid, b, f)
    PROVE  News
<1> DEFINE l == IF linkedid = None THEN u ELSE linkedid
           call == callLocked(channels', byCall', l)
           ev == Event(NewchannelType(channels[u] # None, call), call)
<1>1. byCall' = [byCall EXCEPT ![l] = Indexed(@, u)] /\ Publish({ev})
    BY DEF ApplyNewchannel
<1>2. l \in Uids
    BY DEF ConstantsAssumption
<1>3. published' = {ev}
    BY <1>1, PublishOne
<1>4. ev.call.linkedid = l /\ ev.type = NewchannelType(channels[u] # None, call)
    BY DEF Event, callLocked, CallOf
<1>5. byCall[l] \in Seq(Uids) /\ Len(byCall[l]) \in Nat /\ byCall'[l] = Indexed(byCall[l], u)
    BY <1>1, <1>2 DEF IInv, IndexInv, TypeInv, TypeOK
<1>6. Len(call.legs) = Len(byCall'[l])
    BY <1>2, EveryLegShowsNext DEF IInv, LegsMatch, View
<1>7. l \in Live <=> byCall[l] # <<>>
    BY <1>2, LiveIsIndexed DEF IInv, LiveMatches
<1>8. l \in Live => l \in DOMAIN mirror
    BY DEF IInv, LiveCallsMirrored
<1> HIDE DEF ev, call, l
<1>9. CASE channels[u] # None
    <2>1. channels[u].linkedid = l
        BY <1>9 DEF MayAnnounce, l
    <2>2. l \in Live
        BY <1>2, <1>9, <2>1, LiveIsIndexed DEF IInv, IndexInv, Agree, LiveMatches
    <2>3. ev.type = "updated"
        BY <1>4, <1>9 DEF NewchannelType
    <2> QED BY <1>3, <1>4, <1>8, <2>2, <2>3 DEF News
<1>10. CASE channels[u] = None
    <2>1. ~Contains(byCall[l], u)
        BY <1>2, <1>10 DEF IInv, IndexInv, Agree
    <2>2. Len(byCall'[l]) = Len(byCall[l]) + 1
        BY <1>5, <2>1, AppendProperties DEF Indexed
    <2>3. byCall[l] = <<>> <=> Len(byCall[l]) = 0
        BY <1>5, EmptySeq
    <2>4. ev.type = IF l \in Live THEN "updated" ELSE "started"
        BY <1>4, <1>5, <1>6, <1>7, <1>10, <2>2, <2>3 DEF NewchannelType
    <2>5. NothingLingers => (l \in DOMAIN mirror => l \in Live)
        BY DEF NothingLingers
    <2> QED BY <1>3, <1>4, <1>8, <2>4, <2>5 DEF News
<1> QED BY <1>9, <1>10

\* A leg that goes, the last one or another, is of a known call.
LEMMA HangupNews ==
    ASSUME IInv, NEW u \in Uids, ApplyHangup(u)
    PROVE  News
<1> DEFINE l == channels[u].linkedid
<1>1. /\ channels[u] # None
      /\ Publish(IF byCall'[l] = <<>> THEN {Event("ended", EndedCall(l, channels[u]))}
                 ELSE UpdateOf(channels', byCall', l))
    BY DEF ApplyHangup
<1>2. l \in Uids
    BY <1>1 DEF IInv, IndexInv, TypeInv, TypeOK, Channel
<1>3. l \in Live
    BY <1>1, <1>2, LiveIsIndexed DEF IInv, IndexInv, Agree, LiveMatches
<1>4. l \in DOMAIN mirror
    BY <1>3 DEF IInv, LiveCallsMirrored
<1>5. \A ev \in published' : ev.type # "started" /\ ev.call.linkedid = l
    <2>1. published' = IF byCall'[l] = <<>> THEN {Event("ended", EndedCall(l, channels[u]))}
                       ELSE UpdateOf(channels', byCall', l)
        BY <1>1 DEF Publish
    <2>2. LET e == Event("ended", EndedCall(l, channels[u]))
          IN  e.type # "started" /\ e.call.linkedid = l
        BY DEF Event, EndedCall
    <2> QED BY <2>1, <2>2, UpdateOfType
<1> QED BY <1>4, <1>5 DEF News

LEMMA NextNews ==
    ASSUME ConstantsAssumption, ~Relinks, IInv, IInv', Next
    PROVE  News
<1>1. CASE Newchannel
    BY <1>1, NewchannelNews DEF Newchannel
<1>2. ASSUME NEW u \in Uids, Describe(u) PROVE News
    <2>1. PICK attr \in AllAttrs, v \in Field : mutateChannel(u, attr, v)
        BY <1>2, DescribeMutates
    <2>2. channels[u] \in Channel
        BY <2>1 DEF mutateChannel, Mutate, IInv, IndexInv, TypeInv, TypeOK
    <2>3. [channels[u] EXCEPT !.attrs[attr] = v].linkedid = channels[u].linkedid
        BY <2>2 DEF Channel
    <2> QED BY <2>1, <2>3, MutateNews DEF mutateChannel
<1>3. ASSUME NEW u \in Uids, NEW b \in BridgeID, updateBridge(u, b) PROVE News
    <2>1. channels[u] \in Channel
        BY <1>3 DEF updateBridge, Mutate, IInv, IndexInv, TypeInv, TypeOK
    <2>2. [channels[u] EXCEPT !.bridge = b].linkedid = channels[u].linkedid
        BY <2>1 DEF Channel
    <2> QED BY <1>3, <2>2, MutateNews DEF updateBridge
<1>4. CASE \E u \in Uids : ApplyHangup(u)
    BY <1>4, HangupNews
<1>5. CASE Reset \/ Tick
    <2>1. published' = {}
        BY <1>5 DEF Reset, Tick, Publish
    <2> QED BY <2>1 DEF News
<1>6. \A u \in Uids : ApplyBridgeLeave(u) => updateBridge(u, None) /\ None \in BridgeID
    BY DEF ApplyBridgeLeave, BridgeID
<1> QED BY <1>1, <1>2, <1>3, <1>4, <1>5, <1>6 DEF Next, ApplyBridgeEnter

\* A consumer never first hears of a call by an update or an end, across
\* refreshes and resets.
THEOREM NewsStarts == ASSUME ~Relinks PROVE Spec => NewsIsStarted
<1>1. IInv /\ IInv' /\ Next =>
          \A ev \in published' : ev.call.linkedid \notin DOMAIN mirror => ev.type = "started"
    BY NextNews, ConstantsAssumption DEF News
<1> QED BY <1>1, InvariantIInv, PTL DEF Spec, NewsIsStarted

\* Without resets, a call is announced as started exactly when it is news.
THEOREM StartIsNews == ASSUME ~Relinks, ~Resets PROVE Spec => StartedIsNews
<1>1. IInv /\ IInv' /\ Next =>
          \A ev \in published' : ev.type = "started" <=> ev.call.linkedid \notin DOMAIN mirror
    BY NextNews, ConstantsAssumption DEF News, IInv
<1> QED BY <1>1, InvariantIInv, PTL DEF Spec, StartedIsNews

\* The hangup of the last leg of a Linkedid takes the call out of the registry
\* and announces its end.
LEMMA LastHangup ==
    ASSUME IInv, IInv', NEW u \in Uids, ApplyHangup(u), LastLeg(u)
    PROVE  LET l == channels[u].linkedid
           IN  /\ l \notin Live'
               /\ \E ev \in published' : ev.type = "ended" /\ ev.call.linkedid = l
<1> DEFINE l == channels[u].linkedid
           last == Event("ended", EndedCall(l, channels[u]))
<1>1. /\ channels[u] # None
      /\ byCall' = [byCall EXCEPT ![l] = removeString(@, u)]
      /\ Publish(IF byCall'[l] = <<>> THEN {last} ELSE UpdateOf(channels', byCall', l))
    BY DEF ApplyHangup
<1>2. l \in Uids
    BY <1>1 DEF IInv, IndexInv, TypeInv, TypeOK, Channel
<1>3. \A x \in Uids : ~Contains(byCall'[l], x)
    <2>1. byCall[l] \in Seq(Uids) /\ IsInjective(byCall[l]) /\ byCall'[l] = removeString(byCall[l], u)
        BY <1>1, <1>2 DEF IInv, IndexInv, TypeInv, TypeOK
    <2>2. \A x : Contains(byCall'[l], x) <=> Contains(byCall[l], x) /\ x # u
        BY <2>1, RemoveStringProperties
    <2>3. \A x \in Uids \ {u} : ~Contains(byCall[l], x)
        BY <1>2 DEF IInv, IndexInv, Agree, LastLeg
    <2> QED BY <2>2, <2>3
<1>4. l \notin Live' /\ byCall'[l] = <<>>
    BY <1>2, <1>3, LiveIsIndexedNext DEF IInv, LiveMatches
<1>5. published' = {last}
    BY <1>1, <1>4, PublishOne
<1>6. last.type = "ended" /\ last.call.linkedid = l
    BY DEF Event, EndedCall
<1> QED BY <1>4, <1>5, <1>6

\* The last leg of a Linkedid to hang up ends the call, across refreshes and
\* resets (the comment on ApplyHangup).
THEOREM LastHangupEndsCall == ASSUME ~Relinks PROVE Spec => LastHangupEnds
<1>1. IInv /\ IInv' =>
          \A u, l \in Uids :
              ApplyHangup(u) /\ l = channels[u].linkedid /\ LastLeg(u)
              => /\ l \notin Live'
                 /\ \E ev \in published' : ev.type = "ended" /\ ev.call.linkedid = l
    BY LastHangup
<1> QED BY <1>1, InvariantIInv, PTL DEF Spec, LastHangupEnds
-----------------------------------------------------------------------------
(***************************************************************************)
(* The originating leg.  Without refreshes a list is in the order of       *)
(* creation, for removeString keeps it and a new leg is the youngest.      *)
(***************************************************************************)

OrderInv ==
    /\ \A u \in Uids : channels[u] # None =>
          channels[u].uid = u /\ channels[u].createdAt =< clock
    /\ \A l \in Uids : \A i, j \in DOMAIN byCall[l] :
          i < j => channels[byCall[l][i]].createdAt =< channels[byCall[l][j]].createdAt

\* The first of a list in the order of creation is the first of the call.
LEMMA FirstIsOldest ==
    ASSUME IInv, OrderInv, NEW l \in Live
    PROVE  View(l).legs[1].uid = Head(byCall[l])
<1> DEFINE legs == Legs(channels, byCall[l])
           Before(i, j) == \/ legs[i].createdAt < legs[j].createdAt
                           \/ legs[i].createdAt = legs[j].createdAt /\ i =< j
           Rank(j) == Cardinality({i \in Present(legs) : Before(i, j)})
           first == CHOOSE j \in Present(legs) : Rank(j) = 1
<1>1. l \in Uids /\ byCall[l] \in Seq(Uids) /\ byCall[l] # <<>>
    BY LiveIsIndexed DEF IInv, IndexInv, TypeInv, TypeOK, LiveMatches, Live
<1>2. /\ DOMAIN byCall[l] = 1..Len(byCall[l]) /\ Len(byCall[l]) \in Nat \ {0}
      /\ 1 \in DOMAIN byCall[l]
    BY <1>1, EmptySeq
<1>3. Present(legs) = DOMAIN byCall[l]
    BY <1>1, EveryLegShows DEF IInv
<1>4. \A i \in DOMAIN byCall[l] :
          /\ byCall[l][i] \in Uids /\ channels[byCall[l][i]] \in Channel
          /\ legs[i] = channels[byCall[l][i]]
          /\ legs[i].createdAt \in Nat
    <2>1. ASSUME NEW i \in DOMAIN byCall[l]
          PROVE  byCall[l][i] \in Uids /\ channels[byCall[l][i]] \in Channel
        <3>1. byCall[l][i] \in Uids
            BY <1>1
        <3>2. channels[byCall[l][i]] # None
            BY <1>1, AgreeIsIndexAgrees DEF IInv, IndexAgrees
        <3> QED BY <3>1, <3>2 DEF IInv, IndexInv, TypeInv, TypeOK
    <2> QED BY <2>1 DEF Legs, Channel
<1>5. View(l).legs[1] = legs[first]
    <2>1. Cardinality(Present(legs)) = Len(byCall[l])
        BY <1>2, <1>3, FS_Interval
    <2>2. 1 \in 1 .. Cardinality(Present(legs))
        BY <1>2, <2>1
    <2>3. View(l).legs = OldestFirst(legs)
        BY DEF View, callLocked, CallOf
    <2> QED BY <2>2, <2>3 DEF OldestFirst
<1> HIDE DEF legs
<1>6. \A i, j \in DOMAIN byCall[l] : i < j => legs[i].createdAt =< legs[j].createdAt
    BY <1>1, <1>4 DEF OrderInv
<1>7. Rank(1) = 1
    <2>1. {i \in Present(legs) : Before(i, 1)} = {1}
        BY <1>2, <1>3, <1>4, <1>6
    <2> QED BY <2>1, FS_Singleton
<1>8. ASSUME NEW j \in Present(legs), Rank(j) = 1 PROVE j = 1
    <2> DEFINE S == {i \in Present(legs) : Before(i, j)}
    <2>1. IsFiniteSet(S)
        <3>1. IsFiniteSet(1 .. Len(byCall[l]))
            <4>1. 1 \in Int /\ Len(byCall[l]) \in Int
                BY <1>2
            <4> HIDE <1>8
            <4> QED BY <4>1, FS_Interval
        <3>2. S \in SUBSET (1 .. Len(byCall[l]))
            BY <1>2, <1>3
        <3> QED BY <3>1, <3>2, FS_Subset
    <2>2. PICK x : S = {x}
        BY <1>8, <2>1, FS_Singleton
    <2>3. j \in S
        BY <1>2, <1>3, <1>4
    <2>4. 1 \in S
        BY <1>2, <1>3, <1>4, <1>6
    <2> QED BY <2>2, <2>3, <2>4
<1>9. first = 1
    BY <1>2, <1>3, <1>7, <1>8
<1>10. legs[1].uid = byCall[l][1]
    BY <1>1, <1>2, <1>4, AgreeIsIndexAgrees DEF IInv, IndexAgrees, OrderInv
<1>11. Head(byCall[l]) = byCall[l][1]
    BY <1>1
<1> HIDE DEF first
<1> QED BY <1>5, <1>9, <1>10, <1>11

\* Channels that keep their place and time, and a clock that does not go back.
LEMMA OrderFrame ==
    ASSUME IInv, OrderInv, byCall' = byCall, clock \in Nat, clock' \in Nat, clock =< clock',
           channels \in [Uids -> Channel \cup {None}],
           \A x \in Uids : channels[x] # None =>
               channels'[x].uid = channels[x].uid /\ channels'[x].createdAt = channels[x].createdAt,
           \A x \in Uids : channels'[x] # None => channels[x] # None
    PROVE  OrderInv'
<1>1. ASSUME NEW x \in Uids, channels'[x] # None
      PROVE  channels'[x].uid = x /\ channels'[x].createdAt =< clock'
    <2>1. channels[x] \in Channel /\ channels[x].createdAt \in Nat
        BY <1>1 DEF Channel
    <2> QED BY <1>1, <2>1 DEF OrderInv
<1>2. ASSUME NEW l \in Uids, NEW i \in DOMAIN byCall[l] PROVE
          byCall[l][i] \in Uids /\ channels[byCall[l][i]] # None
    BY AgreeIsIndexAgrees DEF IInv, IndexInv, TypeInv, TypeOK, IndexAgrees
<1> QED BY <1>1, <1>2 DEF OrderInv

LEMMA MutateOrder ==
    ASSUME IInv, OrderInv, NEW u \in Uids, NEW c,
           c.uid = channels[u].uid, c.createdAt = channels[u].createdAt, Mutate(u, c)
    PROVE  OrderInv'
<1>1. /\ channels[u] # None /\ channels' = [channels EXCEPT ![u] = c]
      /\ byCall' = byCall /\ clock' = clock
    BY DEF Mutate
<1>2. channels \in [Uids -> Channel \cup {None}] /\ clock \in Nat
    BY DEF IInv, IndexInv, TypeInv, TypeOK
<1>3. /\ channels'[u] = c
      /\ \A x \in Uids : x # u => channels'[x] = channels[x]
    BY <1>1, <1>2
<1> QED BY <1>1, <1>2, <1>3, OrderFrame

\* A new leg is the youngest and comes last.
LEMMA NewchannelOrder ==
    ASSUME ConstantsAssumption, IInv, OrderInv, NEW u \in Uids, NEW linkedid \in Uids \cup {None},
           NEW b, NEW f, channels[u] = None, ApplyNewchannel(u, linkedid, b, f)
    PROVE  OrderInv'
<1> DEFINE l == IF linkedid = None THEN u ELSE linkedid
<1> DEFINE c == [uid |-> u, linkedid |-> l, createdAt |-> clock, bridge |-> b,
                 attrs |-> [a \in Attrs |-> IF a \in CleanedAttrs THEN normaliseUnknown(f[a])
                                            ELSE f[a]]]
<1>1. /\ channels' = [channels EXCEPT ![u] = c]
      /\ c.uid = u /\ c.createdAt = clock
    BY DEF ApplyNewchannel
<1>2. byCall' = [byCall EXCEPT ![l] = Indexed(@, u)] /\ clock' = clock
    BY DEF ApplyNewchannel
<1>3. l \in Uids
    BY DEF ConstantsAssumption
<1> HIDE DEF l, c
<1>4. channels \in [Uids -> Channel \cup {None}] /\ clock \in Nat /\ byCall \in [Uids -> Seq(Uids)]
    BY DEF IInv, IndexInv, TypeInv, TypeOK
<1>5. /\ channels'[u] = c
      /\ \A x \in Uids : x # u => channels'[x] = channels[x]
    BY <1>1, <1>4
<1>6. \A k \in Uids : ~Contains(byCall[k], u)
    BY DEF IInv, IndexInv, Agree
<1>7. \A k \in Uids : \A i \in DOMAIN byCall[k] :
          /\ byCall[k][i] \in Uids \ {u} /\ channels[byCall[k][i]] \in Channel
          /\ channels[byCall[k][i]].createdAt \in Nat /\ channels[byCall[k][i]].createdAt =< clock
    <2> SUFFICES ASSUME NEW k \in Uids, NEW i \in DOMAIN byCall[k]
                 PROVE  /\ byCall[k][i] \in Uids \ {u} /\ channels[byCall[k][i]] \in Channel
                        /\ channels[byCall[k][i]].createdAt \in Nat
                        /\ channels[byCall[k][i]].createdAt =< clock
        OBVIOUS
    <2>1. byCall[k][i] \in Uids \ {u}
        BY <1>4, <1>6 DEF Contains
    <2>2. channels[byCall[k][i]] # None
        BY AgreeIsIndexAgrees DEF IInv, IndexAgrees
    <2>3. channels[byCall[k][i]] \in Channel
        BY <1>4, <2>1, <2>2
    <2> QED BY <2>1, <2>2, <2>3 DEF OrderInv, Channel
<1>8. ASSUME NEW x \in Uids, channels'[x] # None
      PROVE  channels'[x].uid = x /\ channels'[x].createdAt =< clock'
    <2>1. CASE x = u
        BY <1>1, <1>2, <1>4, <1>5, <2>1
    <2>2. CASE x # u
        BY <1>2, <1>5, <1>8, <2>2 DEF OrderInv
    <2> QED BY <2>1, <2>2
<1>9. ASSUME NEW k \in Uids, NEW i \in DOMAIN byCall'[k], NEW j \in DOMAIN byCall'[k], i < j
      PROVE  channels'[byCall'[k][i]].createdAt =< channels'[byCall'[k][j]].createdAt
    <2>1. CASE k # l
        <3>1. byCall'[k] = byCall[k]
            BY <1>2, <1>4, <2>1
        <3> QED BY <1>5, <1>7, <1>9, <3>1 DEF OrderInv
    <2>2. CASE k = l
        <3>1. byCall'[k] = Append(byCall[k], u) /\ byCall[k] \in Seq(Uids)
            BY <1>2, <1>3, <1>4, <1>6, <2>2 DEF Indexed
        <3>2. /\ DOMAIN byCall'[k] = 1 .. Len(byCall[k]) + 1 /\ Len(byCall[k]) \in Nat
              /\ DOMAIN byCall[k] = 1 .. Len(byCall[k])
              /\ \A n \in 1 .. Len(byCall[k]) : byCall'[k][n] = byCall[k][n]
              /\ byCall'[k][Len(byCall[k]) + 1] = u
            BY <3>1, AppendProperties
        <3>3. i \in DOMAIN byCall[k] /\ byCall'[k][i] = byCall[k][i]
            BY <1>9, <3>2
        <3>4. CASE j \in DOMAIN byCall[k]
            BY <1>5, <1>7, <1>9, <3>2, <3>3, <3>4 DEF OrderInv
        <3>5. CASE j = Len(byCall[k]) + 1
            BY <1>1, <1>5, <1>7, <3>2, <3>3, <3>5
        <3> QED BY <3>2, <3>4, <3>5
    <2> QED BY <2>1, <2>2
<1> QED BY <1>8, <1>9 DEF OrderInv

\* A leg that goes leaves the others in their order.
LEMMA HangupOrder ==
    ASSUME IInv, OrderInv, NEW u \in Uids, ApplyHangup(u)
    PROVE  OrderInv'
<1> DEFINE l == channels[u].linkedid
<1>1. /\ channels[u] # None
      /\ channels' = [channels EXCEPT ![u] = None]
      /\ byCall' = [byCall EXCEPT ![l] = removeString(@, u)]
      /\ clock' = clock
    BY DEF ApplyHangup
<1>2. channels \in [Uids -> Channel \cup {None}] /\ byCall \in [Uids -> Seq(Uids)]
    BY DEF IInv, IndexInv, TypeInv, TypeOK
<1>3. l \in Uids
    BY <1>1, <1>2 DEF Channel
<1>4. /\ channels'[u] = None
      /\ \A x \in Uids : x # u => channels'[x] = channels[x]
    BY <1>1, <1>2
<1>5. \A k \in Uids : k # l => byCall'[k] = byCall[k] /\ ~Contains(byCall[k], u)
    BY <1>1, <1>2 DEF IInv, IndexInv, Agree
<1>6. /\ byCall'[l] \in Seq(Uids)
      /\ \A x : Contains(byCall'[l], x) <=> Contains(byCall[l], x) /\ x # u
      /\ \A p, q \in DOMAIN byCall'[l] : p < q =>
            \E i, j \in DOMAIN byCall[l] : /\ i < j
                                           /\ byCall'[l][p] = byCall[l][i]
                                           /\ byCall'[l][q] = byCall[l][j]
    <2>1. byCall[l] \in Seq(Uids) /\ IsInjective(byCall[l]) /\ byCall'[l] = removeString(byCall[l], u)
        BY <1>1, <1>2, <1>3 DEF IInv, IndexInv, TypeInv
    <2> DEFINE list == byCall[l]
    <2>2. /\ removeString(list, u) \in Seq(Uids)
          /\ \A x : Contains(removeString(list, u), x) <=> Contains(list, x) /\ x # u
          /\ \A p, q \in DOMAIN removeString(list, u) : p < q =>
                \E i, j \in DOMAIN list : /\ i < j
                                         /\ removeString(list, u)[p] = list[i]
                                         /\ removeString(list, u)[q] = list[j]
        <3> list \in Seq(Uids) /\ IsInjective(list)
            BY <2>1
        <3> HIDE DEF list
        <3> QED BY RemoveStringProperties
    <2> HIDE DEF l
    <2> QED BY <2>1, <2>2
<1> HIDE DEF l
<1>7. ASSUME NEW k \in Uids, NEW i \in DOMAIN byCall'[k]
      PROVE  byCall'[k][i] \in Uids \ {u}
    <2>1. CASE k = l
        <3>1. Contains(byCall'[l], byCall'[l][i]) /\ byCall'[l][i] \in Uids
            BY <1>6, <1>7, <2>1 DEF Contains
        <3> QED BY <1>6, <2>1, <3>1
    <2>2. CASE k # l
        BY <1>2, <1>5, <1>7, <2>2 DEF Contains
    <2> QED BY <2>1, <2>2
<1>8. ASSUME NEW k \in Uids, NEW p \in DOMAIN byCall'[k], NEW q \in DOMAIN byCall'[k], p < q
      PROVE  channels'[byCall'[k][p]].createdAt =< channels'[byCall'[k][q]].createdAt
    <2>1. \E i, j \in DOMAIN byCall[k] : i < j /\ byCall'[k][p] = byCall[k][i]
                                               /\ byCall'[k][q] = byCall[k][j]
        BY <1>5, <1>6, <1>8
    <2> QED BY <1>4, <1>7, <1>8, <2>1 DEF OrderInv
<1>9. \A x \in Uids : channels'[x] # None =>
          channels'[x].uid = x /\ channels'[x].createdAt =< clock'
    BY <1>1, <1>4 DEF OrderInv
<1> QED BY <1>8, <1>9 DEF OrderInv

LEMMA NextOrder ==
    ASSUME ConstantsAssumption, ~Refreshes, IInv, OrderInv, [Next]_vars
    PROVE  OrderInv'
<1>1. CASE Newchannel
    <2>1. PICK u \in Uids, linkedid \in Uids \cup {None}, b \in BridgeID, f \in RawAttrs :
            MayAnnounce(u, linkedid) /\ ApplyNewchannel(u, linkedid, b, f)
        BY <1>1 DEF Newchannel
    <2>2. channels[u] = None
        BY <2>1 DEF MayAnnounce
    <2> QED BY <2>1, <2>2, NewchannelOrder
<1>2. ASSUME NEW u \in Uids, Describe(u) PROVE OrderInv'
    <2>1. PICK attr \in AllAttrs, v \in Field : mutateChannel(u, attr, v)
        BY <1>2, DescribeMutates
    <2>2. channels[u] \in Channel
        BY <2>1 DEF mutateChannel, Mutate, IInv, IndexInv, TypeInv, TypeOK
    <2>3. /\ [channels[u] EXCEPT !.attrs[attr] = v].uid = channels[u].uid
          /\ [channels[u] EXCEPT !.attrs[attr] = v].createdAt = channels[u].createdAt
        BY <2>2 DEF Channel
    <2> QED BY <2>1, <2>3, MutateOrder DEF mutateChannel
<1>3. ASSUME NEW u \in Uids, NEW b \in BridgeID, updateBridge(u, b) PROVE OrderInv'
    <2>1. channels[u] \in Channel
        BY <1>3 DEF updateBridge, Mutate, IInv, IndexInv, TypeInv, TypeOK
    <2>2. /\ [channels[u] EXCEPT !.bridge = b].uid = channels[u].uid
          /\ [channels[u] EXCEPT !.bridge = b].createdAt = channels[u].createdAt
        BY <2>1 DEF Channel
    <2> QED BY <1>3, <2>2, MutateOrder DEF updateBridge
<1>4. CASE \E u \in Uids : ApplyHangup(u)
    BY <1>4, HangupOrder
<1>5. CASE Reset
    <2>1. \A l \in Uids : byCall'[l] = <<>> /\ DOMAIN byCall'[l] = {}
        BY <1>5 DEF Reset
    <2>2. \A u \in Uids : channels'[u] = None
        BY <1>5 DEF Reset
    <2> QED BY <2>1, <2>2 DEF OrderInv
<1>6. CASE Tick \/ UNCHANGED vars
    <2>1. /\ channels' = channels /\ byCall' = byCall
          /\ clock \in Nat /\ clock' \in Nat /\ clock =< clock'
          /\ channels \in [Uids -> Channel \cup {None}]
        BY <1>6 DEF Tick, vars, IInv, IndexInv, TypeInv, TypeOK
    <2> QED BY <2>1, OrderFrame
<1>7. \A u \in Uids : ApplyBridgeLeave(u) => updateBridge(u, None) /\ None \in BridgeID
    BY DEF ApplyBridgeLeave, BridgeID
<1> QED BY <1>1, <1>2, <1>3, <1>4, <1>5, <1>6, <1>7 DEF Next, ApplyBridgeEnter

\* As long as Asterisk announces each leg once, the leg a call shows first is
\* the one the registry heard of first, however its legs come and go.
THEOREM OriginatingLegComesFirst ==
    ASSUME ~Relinks, ~Refreshes PROVE Spec => []OriginatingLegFirst
<1>1. Init => OrderInv
    <2> SUFFICES ASSUME Init PROVE OrderInv
        OBVIOUS
    <2>1. \A l \in Uids : byCall[l] = <<>> /\ DOMAIN byCall[l] = {}
        BY DEF Init
    <2> QED BY <2>1 DEF Init, OrderInv
<1>2. ~Refreshes /\ IInv /\ OrderInv /\ [Next]_vars => OrderInv'
    BY NextOrder, ConstantsAssumption
<1>3. IInv /\ OrderInv => OriginatingLegFirst
    BY FirstIsOldest DEF OriginatingLegFirst
<1> QED BY <1>1, <1>2, <1>3, InvariantIInv, PTL DEF Spec
-----------------------------------------------------------------------------
(***************************************************************************)
(* The stream and its pages.  That no Uniqueid changes its Linkedid        *)
(* (~Relinks) is all the theorems assume of Asterisk; resets,              *)
(* reconnections, cut streams, late REST answers and calls that come back  *)
(* are all allowed for.                                                    *)
(*                                                                         *)
(* The invariant says where a page's knowledge of a call is.  It is in the *)
(* last frame on its way to the page that mentions the call, or, if there  *)
(* is none, in the page's own row; unless the registry has changed the     *)
(* call and not handed the event over yet, or the page is in doubt of it.  *)
(***************************************************************************)

CallsAbout(calls, l) == {c \in calls : c.linkedid = l}

\* The calls of a Linkedid: one, or none.
Current(l) == IF l \in Live THEN {View(l)} ELSE {}

\* A frame mentions call l; what it says is right if `now' are its calls.
Mentions(frame, l) == IsEvent(frame) => frame.call.linkedid = l

Tells(frame, l, now) ==
    IF ~IsEvent(frame) THEN CallsAbout(frame.calls, l) = now
    ELSE IF frame.type = "ended" THEN now = {}
    ELSE now = {frame.call}

\* The last frame of q that mentions l is the i-th; there is none.
LastWord(q, l, i) ==
    /\ i \in DOMAIN q
    /\ Mentions(q[i], l)
    /\ \A j \in DOMAIN q : j > i => ~Mentions(q[j], l)

Silent(q, l) == \A i \in DOMAIN q : ~Mentions(q[i], l)

\* A page with rows r and timers t is right about call l.
Shows(r, t, l, now) ==
    IF now = {} THEN l \in DOMAIN r => r[l].over /\ l \in t
    ELSE l \in DOMAIN r /\ \A c \in now : r[l] = Row(c, FALSE)

\* It will be, once it has read its queue q.
Knows(q, r, t, l, now) ==
    \/ \E i \in DOMAIN q : LastWord(q, l, i) /\ Tells(q[i], l, now)
    \/ Silent(q, l) /\ Shows(r, t, l, now)

\* A change of call l that is still to be handed over.
Pending(l) == \E ev \in outgoing : ev.call.linkedid = l /\ Tells(ev, l, Current(l))

WordInv ==
    \A p \in Pages : stream[p] \in {"snapshot", "open"} =>
        \A l \in Uids \ doubt[p] :
            Pending(l) \/ Knows(queue[p], rows[p], timers[p], l, Current(l))

\* The types, as far as the proofs need them.
IsFrame(frame) ==
    IF IsEvent(frame) THEN frame.call.linkedid \in Uids
    ELSE \A c \in frame.calls : c.linkedid \in Uids

\* A snapshot comes first in its stream.
IsQueue(q) ==
    /\ \E Frames : q \in Seq(Frames)
    /\ \A i \in DOMAIN q : IsFrame(q[i]) /\ (i > 1 => IsEvent(q[i]))

IsRest(r) == DOMAIN r = {"state", "calls"} /\ \A c \in r.calls : c.linkedid \in Uids

PageTypes ==
    /\ DOMAIN stream = Pages /\ DOMAIN queue = Pages /\ DOMAIN rows = Pages
    /\ DOMAIN timers = Pages /\ DOMAIN rest = Pages /\ DOMAIN doubt = Pages

OutgoingTypes == \A ev \in outgoing : outgoing = {ev} /\ IsEvent(ev) /\ IsFrame(ev)

QueueTypes ==
    \A p \in Pages :
        /\ stream[p] \in {"down", "snapshot", "open", "cut"}
        /\ stream[p] = "down" => queue[p] = <<>>
        /\ IsQueue(queue[p])

RowTypes == \A p \in Pages : IsRest(rest[p]) /\ DOMAIN rows[p] \subseteq Uids

StreamInv ==
    /\ IInv
    /\ PageTypes
    /\ OutgoingTypes
    /\ QueueTypes
    /\ RowTypes
    /\ WordInv
-----------------------------------------------------------------------------
(***************************************************************************)
(* What the model's operators say of one call.                             *)
(***************************************************************************)

\* What a snapshot of the registry says of one call (Snapshot, callLocked).
LEMMA SnapshotAbout == \A l \in Uids : CallsAbout(Snapshot, l) = Current(l)
<1>1. \A k \in Uids : View(k).linkedid = k
    BY DEF View, callLocked, CallOf
<1> QED BY <1>1 DEF CallsAbout, Snapshot, Current, Live

LEMMA SnapshotTypes == \A c \in Snapshot : c.linkedid \in Uids
BY DEF Snapshot, Live, View, callLocked, CallOf

LEMMA CurrentAbout == \A l \in Uids : \A c \in Current(l) : c.linkedid = l
BY DEF Current, View, callLocked, CallOf

\* What an event says of its call (Truthful).
LEMMA TruthfulTells ==
    ASSUME NEW ev, IsEvent(ev)
    PROVE  Truthful(ev) <=> Tells(ev, ev.call.linkedid, Current(ev.call.linkedid))
BY DEF Truthful, Tells, Current

\* When a page shows a call as it is (Agrees).
LEMMA AgreesShows ==
    ASSUME NEW p, NEW l
    PROVE  Agrees(p, l) <=> Shows(rows[p], timers[p], l, Current(l))
BY DEF Agrees, Shows, Current

(***************************************************************************)
(* Queues.                                                                 *)
(***************************************************************************)

LEMMA QueueLength ==
    ASSUME NEW q, IsQueue(q)
    PROVE  Len(q) \in Nat /\ DOMAIN q = 1 .. Len(q)
BY DEF IsQueue

\* What Append makes of a queue.
LEMMA QueueAppend ==
    ASSUME NEW q, IsQueue(q), NEW frame, IsEvent(frame), IsFrame(frame)
    PROVE  /\ IsQueue(Append(q, frame))
           /\ DOMAIN Append(q, frame) = 1 .. Len(q) + 1
           /\ \A i \in DOMAIN q : Append(q, frame)[i] = q[i]
           /\ Append(q, frame)[Len(q) + 1] = frame
<1>1. PICK Frames : q \in Seq(Frames)
    BY DEF IsQueue
<1>2. q \in Seq(Frames \cup {frame})
    BY <1>1
<1>3. /\ Append(q, frame) \in Seq(Frames \cup {frame})
      /\ Len(Append(q, frame)) = Len(q) + 1
      /\ \A i \in 1 .. Len(q) : Append(q, frame)[i] = q[i]
      /\ Append(q, frame)[Len(q) + 1] = frame
    BY <1>2, AppendProperties
<1>4. DOMAIN q = 1 .. Len(q) /\ Len(q) \in Nat
    BY <1>1
<1>5. DOMAIN Append(q, frame) = 1 .. Len(q) + 1
    BY <1>3
<1>6. \A i \in DOMAIN Append(q, frame) : i \in DOMAIN q \/ i = Len(q) + 1
    BY <1>4, <1>5
<1> DEFINE new == Append(q, frame)
<1> HIDE DEF new
<1>7. \A i \in DOMAIN new : IsFrame(new[i]) /\ (i > 1 => IsEvent(new[i]))
    BY <1>3, <1>4, <1>6 DEF IsQueue, new
<1>8. IsQueue(new)
    BY <1>3, <1>7 DEF IsQueue, new
<1> QED BY <1>3, <1>4, <1>5, <1>8 DEF new

\* What Head and Tail make of one.
LEMMA QueueTail ==
    ASSUME NEW q, IsQueue(q), q # <<>>
    PROVE  /\ IsQueue(Tail(q))
           /\ 1 \in DOMAIN q /\ Head(q) = q[1]
           /\ \A i \in DOMAIN Tail(q) : /\ IsEvent(Tail(q)[i])
                                        /\ i \in Nat \ {0}
                                        /\ i + 1 \in DOMAIN q /\ Tail(q)[i] = q[i + 1]
           /\ \A i \in DOMAIN q : i # 1 => /\ i \in Nat /\ i > 1
                                           /\ i - 1 \in DOMAIN Tail(q)
<1>1. PICK Frames : q \in Seq(Frames)
    BY DEF IsQueue
<1>2. Len(q) \in Nat \ {0} /\ DOMAIN q = 1 .. Len(q) /\ Head(q) = q[1]
    BY <1>1, EmptySeq
<1>3. /\ Tail(q) \in Seq(Frames)
      /\ Len(Tail(q)) = Len(q) - 1
      /\ DOMAIN Tail(q) = 1 .. Len(q) - 1
      /\ \A i \in 1 .. Len(q) - 1 : Tail(q)[i] = q[i + 1]
    BY <1>1, <1>2
<1> DEFINE new == Tail(q)
<1> HIDE DEF new
<1>4. \A i \in DOMAIN new : IsFrame(new[i]) /\ IsEvent(new[i])
    <2> SUFFICES ASSUME NEW i \in DOMAIN new PROVE IsFrame(new[i]) /\ IsEvent(new[i])
        OBVIOUS
    <2>1. i + 1 \in DOMAIN q /\ i + 1 > 1 /\ new[i] = q[i + 1]
        BY <1>2, <1>3 DEF new
    <2> QED BY <2>1 DEF IsQueue
<1>5. IsQueue(new)
    BY <1>3, <1>4 DEF IsQueue, new
<1> QED BY <1>2, <1>3, <1>4, <1>5 DEF new
-----------------------------------------------------------------------------
(***************************************************************************)
(* What each step does to what a page knows of a call.                     *)
(***************************************************************************)

\* An event about another call comes behind what the queue says of this one.
LEMMA KnowsBesides ==
    ASSUME NEW q, IsQueue(q), NEW ev, IsEvent(ev), IsFrame(ev),
           NEW r, NEW t, NEW l, ev.call.linkedid # l, NEW now, Knows(q, r, t, l, now)
    PROVE  Knows(Append(q, ev), r, t, l, now)
<1> DEFINE new == Append(q, ev)
<1>1. /\ DOMAIN q = 1 .. Len(q) /\ Len(q) \in Nat /\ DOMAIN new = 1 .. Len(q) + 1
      /\ \A i \in DOMAIN q : new[i] = q[i]
      /\ new[Len(q) + 1] = ev
    BY QueueLength, QueueAppend
<1> HIDE DEF new
<1>2. ~Mentions(ev, l)
    BY DEF Mentions
<1>3. \A i \in DOMAIN new : i \in DOMAIN q \/ i = Len(q) + 1
    BY <1>1
<1>4. \A i \in DOMAIN q : i \in DOMAIN new
    BY <1>1
<1>5. ASSUME NEW i \in DOMAIN q, LastWord(q, l, i), Tells(q[i], l, now)
      PROVE  LastWord(new, l, i) /\ Tells(new[i], l, now)
    BY <1>1, <1>2, <1>3, <1>4, <1>5 DEF LastWord
<1>6. Silent(q, l) => Silent(new, l)
    BY <1>1, <1>2, <1>3 DEF Silent
<1> QED BY <1>4, <1>5, <1>6 DEF Knows, new

\* An event about this call is the last word of it.
LEMMA KnowsTold ==
    ASSUME NEW q, IsQueue(q), NEW ev, IsEvent(ev), IsFrame(ev),
           NEW r, NEW t, NEW l, ev.call.linkedid = l, NEW now, Tells(ev, l, now)
    PROVE  Knows(Append(q, ev), r, t, l, now)
<1> DEFINE new == Append(q, ev)
<1>1. Len(q) \in Nat /\ DOMAIN new = 1 .. Len(q) + 1 /\ new[Len(q) + 1] = ev
    BY QueueLength, QueueAppend
<1> HIDE DEF new
<1>2. LastWord(new, l, Len(q) + 1)
    BY <1>1 DEF LastWord, Mentions
<1>3. Len(q) + 1 \in DOMAIN new
    BY <1>1
<1> QED BY <1>1, <1>2, <1>3 DEF Knows, new

\* Neither the rows nor the timers of other calls matter.
LEMMA KnowsRows ==
    ASSUME NEW q, NEW r, NEW t, NEW r2, NEW t2, NEW l, NEW now, Knows(q, r, t, l, now),
           Shows(r, t, l, now) => Shows(r2, t2, l, now)
    PROVE  Knows(q, r2, t2, l, now)
BY DEF Knows

\* The snapshot of a new stream says all there is to know.
LEMMA KnowsAll ==
    ASSUME NEW calls, NEW r, NEW t, NEW l, NEW now, CallsAbout(calls, l) = now
    PROVE  Knows(<<[type |-> "snapshot", calls |-> calls]>>, r, t, l, now)
<1> DEFINE frame == [type |-> "snapshot", calls |-> calls]
           q == <<frame>>
<1>1. DOMAIN q = {1} /\ q[1] = frame
    OBVIOUS
<1>2. ~IsEvent(frame) /\ frame.calls = calls
    BY DEF IsEvent
<1> HIDE DEF q, frame
<1>3. LastWord(q, l, 1) /\ Tells(q[1], l, now)
    BY <1>1, <1>2 DEF LastWord, Mentions, Tells
<1> QED BY <1>1, <1>3 DEF Knows, q, frame

\* What a snapshot leaves of the rows (applySnapshot).
LEMMA SnapshotShows ==
    ASSUME NEW calls, NEW t, NEW l, NEW now, CallsAbout(calls, l) = now,
           now = {} \/ \E c : now = {c}
    PROVE  Shows(applySnapshot(calls), t, l, now)
<1> DEFINE r == applySnapshot(calls)
<1>1. DOMAIN r = {c.linkedid : c \in calls}
    BY DEF applySnapshot
<1>2. l \in DOMAIN r => r[l] = Row(CHOOSE c \in calls : c.linkedid = l, FALSE)
    BY DEF applySnapshot
<1> HIDE DEF r
<1>3. CASE now = {}
    BY <1>1, <1>3 DEF CallsAbout, Shows, r
<1>4. CASE \E c : now = {c}
    <2>1. PICK c : now = {c}
        BY <1>4
    <2>2. \A d : d \in calls /\ d.linkedid = l <=> d = c
        BY <2>1 DEF CallsAbout
    <2>3. (CHOOSE d \in calls : d.linkedid = l) = c
        BY <2>2
    <2>4. l \in DOMAIN r
        BY <1>1, <2>2
    <2> QED BY <1>2, <2>1, <2>3, <2>4 DEF Shows, r
<1> QED BY <1>3, <1>4

\* What an event leaves of the rows (applyEvent, and the timer it starts).
LEMMA EventShows ==
    ASSUME NEW ev, IsEvent(ev), NEW r, NEW t, NEW l, NEW now,
           IF ev.call.linkedid = l THEN Tells(ev, l, now) ELSE Shows(r, t, l, now)
    PROVE  Shows(applyEvent(r, ev), timersAfter(t, ev), l, now)
<1> DEFINE new == applyEvent(r, ev)
<1>1. DOMAIN new = DOMAIN r \cup {ev.call.linkedid}
    BY DEF applyEvent
<1>2. /\ new[ev.call.linkedid] = Row(ev.call, ev.type = "ended")
      /\ \A k \in DOMAIN r : k # ev.call.linkedid => new[k] = r[k]
    BY DEF applyEvent
<1> HIDE DEF new
<1>3. t \subseteq timersAfter(t, ev)
    BY DEF timersAfter
<1>4. CASE ev.call.linkedid # l
    BY <1>1, <1>2, <1>3, <1>4 DEF Shows, new
<1>5. CASE ev.call.linkedid = l /\ ev.type = "ended"
    <2>1. now = {} /\ l \in timersAfter(t, ev)
        BY <1>5 DEF Tells, timersAfter
    <2>2. new[l].over
        <3>1. (ev.type = "ended") = TRUE
            BY <1>5
        <3>2. new[l] = Row(ev.call, TRUE)
            BY <1>2, <1>5, <3>1
        <3> QED BY <3>2 DEF Row
    <2> QED BY <2>1, <2>2 DEF Shows, new
<1>6. CASE ev.call.linkedid = l /\ ev.type # "ended"
    <2>1. now = {ev.call}
        BY <1>6 DEF Tells
    <2>2. l \in DOMAIN new /\ new[l] = Row(ev.call, FALSE)
        BY <1>1, <1>2, <1>6
    <2> QED BY <2>1, <2>2 DEF Shows, new
<1> QED BY <1>4, <1>5, <1>6

\* Reading a frame leaves the page knowing what it knew (Deliver).
LEMMA KnowsRead ==
    ASSUME NEW q, IsQueue(q), q # <<>>, NEW r, NEW t, NEW l, NEW now, Knows(q, r, t, l, now),
           now = {} \/ \E c : now = {c}
    PROVE  LET frame == Head(q)
           IN  Knows(Tail(q),
                     IF IsEvent(frame) THEN applyEvent(r, frame) ELSE applySnapshot(frame.calls),
                     IF IsEvent(frame) THEN timersAfter(t, frame) ELSE t,
                     l, now)
<1> DEFINE frame == Head(q)
           r2 == IF IsEvent(frame) THEN applyEvent(r, frame) ELSE applySnapshot(frame.calls)
           t2 == IF IsEvent(frame) THEN timersAfter(t, frame) ELSE t
           new == Tail(q)
<1>1. 1 \in DOMAIN q /\ frame = q[1]
    BY QueueTail
<1>2. \A i \in DOMAIN new : i \in Nat \ {0} /\ i + 1 \in DOMAIN q /\ new[i] = q[i + 1]
    BY QueueTail
<1>3. \A i \in DOMAIN q : i # 1 => i \in Nat /\ i > 1 /\ i - 1 \in DOMAIN new
    BY QueueTail
<1>4. /\ IsEvent(frame) /\ (IF frame.call.linkedid = l THEN Tells(frame, l, now)
                                                       ELSE Shows(r, t, l, now))
         => Shows(r2, t2, l, now)
      /\ ~IsEvent(frame) /\ Tells(frame, l, now) => Shows(r2, t2, l, now)
    <2> HIDE DEF frame
    <2>1. CASE IsEvent(frame)
        BY <2>1, EventShows
    <2>2. CASE ~IsEvent(frame)
        BY <2>2, SnapshotShows DEF Tells
    <2> QED BY <2>1, <2>2
<1> HIDE DEF frame, r2, t2, new
<1>5. ASSUME Silent(q, l), Shows(r, t, l, now)
      PROVE  Knows(new, r2, t2, l, now)
    <2>1. Silent(new, l)
        BY <1>2, <1>5 DEF Silent
    <2>2. ~Mentions(frame, l)
        BY <1>1, <1>5 DEF Silent
    <2>3. Shows(r2, t2, l, now)
        BY <1>4, <1>5, <2>2 DEF Mentions
    <2> QED BY <2>1, <2>3 DEF Knows
<1>6. ASSUME NEW i \in DOMAIN q, LastWord(q, l, i), Tells(q[i], l, now)
      PROVE  Knows(new, r2, t2, l, now)
    <2>1. CASE i = 1
        <3>1. \A j \in DOMAIN new : ~Mentions(new[j], l)
            <4> SUFFICES ASSUME NEW j \in DOMAIN new PROVE ~Mentions(new[j], l)
                OBVIOUS
            <4>1. j + 1 \in DOMAIN q /\ j \in Nat \ {0} /\ new[j] = q[j + 1]
                BY <1>2
            <4>2. j + 1 > 1
                BY <4>1
            <4> QED BY <1>6, <2>1, <4>1, <4>2 DEF LastWord
        <3>2. Tells(frame, l, now) /\ Mentions(frame, l)
            BY <1>1, <1>6, <2>1 DEF LastWord
        <3>3. Shows(r2, t2, l, now)
            BY <1>4, <3>2 DEF Mentions
        <3> QED BY <3>1, <3>3 DEF Knows, Silent
    <2>2. CASE i # 1
        <3>1. i \in Nat /\ i > 1 /\ i - 1 \in DOMAIN new /\ new[i - 1] = q[i]
            BY <1>2, <1>3, <2>2
        <3>2. \A j \in DOMAIN new : j > i - 1 => ~Mentions(new[j], l)
            BY <1>2, <1>6, <3>1 DEF LastWord
        <3>3. LastWord(new, l, i - 1) /\ Tells(new[i - 1], l, now)
            BY <1>6, <3>1, <3>2 DEF LastWord
        <3> QED BY <3>1, <3>3 DEF Knows
    <2> QED BY <2>1, <2>2
<1>7. \/ \E i \in DOMAIN q : LastWord(q, l, i) /\ Tells(q[i], l, now)
      \/ Silent(q, l) /\ Shows(r, t, l, now)
    BY DEF Knows
<1>8. Knows(new, r2, t2, l, now)
    BY <1>5, <1>6, <1>7
<1> QED BY <1>8 DEF new, r2, t2, frame
-----------------------------------------------------------------------------
(***************************************************************************)
(* The steps, one lemma each.                                              *)
(***************************************************************************)

\* What the steps keep beside the registry's own invariant.
PagesInv ==
    /\ PageTypes
    /\ OutgoingTypes
    /\ QueueTypes
    /\ RowTypes
    /\ WordInv

LEMMA CurrentFrame ==
    ASSUME UNCHANGED vars PROVE \A l : Current(l)' = Current(l)
BY DEF vars, Current, Live, View

LEMMA CurrentOne == \A l : Current(l) = {} \/ \E c : Current(l) = {c}
BY DEF Current

\* An Apply* changes one call, and its event is on its way.
LEMMA ApplyStep ==
    ASSUME ~Relinks, StreamInv, IInv', Apply
    PROVE  PagesInv'
<1>1. AppliesOne /\ outgoing = {} /\ outgoing' = published' /\ UNCHANGED pageVars
    BY DEF Apply, AppliesOne
<1>2. Kept
    BY <1>1, ApplyKeeps, ConstantsAssumption DEF StreamInv, IInv, IndexInv
<1>3. PICK ev \in published' : Announced!(ev)
    BY <1>2 DEF Kept, Announced
<1> DEFINE l == ev.call.linkedid
<1>4. outgoing' = {ev} /\ l \in Uids
    BY <1>1, <1>3
<1>5. IsEvent(ev) /\ IsFrame(ev)
    <2>1. ev.type # "snapshot"
        BY DEF IInv, IndexInv, TypeInv, TypeOK
    <2> QED BY <1>4, <2>1 DEF IsEvent, IsFrame
<1>6. \A k \in Uids \ {l} : Current(k)' = Current(k)
    BY <1>3 DEF Current
<1>7. \A k : k = l => Tells(ev, k, Current(k)')
    BY <1>3, <1>5 DEF Tells, Current
<1>8. \A k : k = l => Pending(k)'
    BY <1>4, <1>7 DEF Pending
<1>9. WordInv'
    <2> SUFFICES ASSUME NEW p \in Pages, stream'[p] \in {"snapshot", "open"},
                        NEW k \in Uids \ doubt'[p], k # l
                 PROVE  Knows(queue'[p], rows'[p], timers'[p], k, Current(k)')
        BY <1>8 DEF WordInv
    <2>1. /\ stream'[p] = stream[p] /\ queue'[p] = queue[p] /\ rows'[p] = rows[p]
          /\ timers'[p] = timers[p] /\ doubt'[p] = doubt[p]
        BY <1>1 DEF pageVars
    <2>2. ~Pending(k)
        BY <1>1 DEF Pending
    <2>3. Knows(queue[p], rows[p], timers[p], k, Current(k))
        BY <2>1, <2>2 DEF StreamInv, WordInv
    <2> QED BY <1>6, <2>1, <2>3
<1>10. OutgoingTypes'
    BY <1>4, <1>5 DEF OutgoingTypes
<1>11. (PageTypes /\ QueueTypes /\ RowTypes)'
    BY <1>1 DEF StreamInv, PageTypes, QueueTypes, RowTypes, pageVars
<1> QED BY <1>9, <1>10, <1>11 DEF PagesInv

\* publish tells every open page, or cuts it off, and the others fall in doubt.
LEMMA HandOverStep ==
    ASSUME StreamInv, HandOver
    PROVE  PagesInv'
<1>1. PICK ev \in outgoing :
        /\ FanOut(ev)
        /\ doubt' = [p \in Pages |->
                        IF stream[p] = "open" /\ Truthful(ev)
                        THEN doubt[p] \ {ev.call.linkedid}
                        ELSE doubt[p] \cup {ev.call.linkedid}]
    BY DEF HandOver
<1>2. /\ outgoing' = {} /\ UNCHANGED vars
      /\ rows' = rows /\ timers' = timers /\ rest' = rest
    BY DEF HandOver
<1>3. outgoing = {ev} /\ IsEvent(ev) /\ IsFrame(ev)
    BY DEF StreamInv, OutgoingTypes
<1>4. \A p \in Pages :
        /\ queue'[p] = IF stream[p] = "open" /\ Room(p) THEN Append(queue[p], ev) ELSE queue[p]
        /\ stream'[p] = IF stream[p] = "open" /\ ~Room(p) THEN "cut" ELSE stream[p]
    BY <1>1 DEF FanOut
<1>5. PageTypes'
    BY <1>1, <1>2 DEF FanOut, StreamInv, PageTypes
<1>6. QueueTypes'
    <2> SUFFICES ASSUME NEW p \in Pages
                 PROVE  /\ stream'[p] \in {"down", "snapshot", "open", "cut"}
                        /\ stream'[p] = "down" => queue'[p] = <<>>
                        /\ IsQueue(queue'[p])
        BY DEF QueueTypes
    <2>1. /\ stream[p] \in {"down", "snapshot", "open", "cut"}
          /\ stream[p] = "down" => queue[p] = <<>>
          /\ IsQueue(queue[p])
        BY DEF StreamInv, QueueTypes
    <2>2. IsQueue(Append(queue[p], ev))
        BY <1>3, <2>1, QueueAppend
    <2> QED BY <1>4, <2>1, <2>2
<1>7. WordInv'
    <2> SUFFICES ASSUME NEW p \in Pages, stream'[p] \in {"snapshot", "open"},
                        NEW l \in Uids \ doubt'[p]
                 PROVE  Knows(queue'[p], rows'[p], timers'[p], l, Current(l)')
        BY DEF WordInv
    <2> DEFINE c == ev.call.linkedid
    <2>1. Current(l)' = Current(l) /\ rows'[p] = rows[p] /\ timers'[p] = timers[p]
        BY <1>2, CurrentFrame
    <2>2. doubt'[p] = IF stream[p] = "open" /\ Truthful(ev) THEN doubt[p] \ {c} ELSE doubt[p] \cup {c}
        BY <1>1
    <2>3. stream'[p] = stream[p] /\ IsQueue(queue[p])
        BY <1>4 DEF StreamInv, QueueTypes
    <2>4. ASSUME l # c
          PROVE  l \notin doubt[p] /\ Knows(queue[p], rows[p], timers[p], l, Current(l))
        <3>1. ~Pending(l)
            BY <1>3, <2>4 DEF Pending
        <3> QED BY <2>2, <2>3, <2>4, <3>1 DEF StreamInv, WordInv
    <2>5. CASE stream[p] = "open"
        <3>1. queue'[p] = Append(queue[p], ev)
            BY <1>4, <2>3, <2>5
        <3>2. CASE l = c
            <4>1. Truthful(ev)
                BY <2>2, <3>2
            <4>2. Tells(ev, l, Current(l))
                BY <1>3, <3>2, <4>1, TruthfulTells
            <4>3. Knows(Append(queue[p], ev), rows[p], timers[p], l, Current(l))
                <5>1. ev.call.linkedid = l /\ IsQueue(queue[p])
                    BY <2>3, <3>2
                <5> QED BY <1>3, <4>2, <5>1, KnowsTold
            <4> QED BY <2>1, <3>1, <4>3
        <3>3. CASE l # c
            BY <1>3, <2>1, <2>3, <2>4, <3>1, <3>3, KnowsBesides
        <3> QED BY <3>2, <3>3
    <2>6. CASE stream[p] # "open"
        <3>1. l # c /\ queue'[p] = queue[p]
            BY <1>4, <2>2, <2>6
        <3> QED BY <2>1, <2>4, <3>1
    <2> QED BY <2>5, <2>6
<1>8. OutgoingTypes' /\ RowTypes'
    BY <1>2 DEF OutgoingTypes, StreamInv, RowTypes
<1> QED BY <1>5, <1>6, <1>7, <1>8 DEF PagesInv

\* After a Reset every page is in doubt of every call.
LEMMA ResetKeeps ==
    ASSUME StreamInv, ResetStep
    PROVE  PagesInv'
<1>1. /\ doubt' = [p \in Pages |-> Uids] /\ outgoing' = outgoing /\ stream' = stream
      /\ queue' = queue /\ rows' = rows /\ timers' = timers /\ rest' = rest
    BY DEF ResetStep
<1>2. \A p \in Pages : Uids \ doubt'[p] = {}
    BY <1>1
<1>3. WordInv'
    BY <1>2 DEF WordInv
<1> QED BY <1>1, <1>3 DEF PagesInv, StreamInv, PageTypes, OutgoingTypes, QueueTypes, RowTypes

\* The steps of a page leave the registry and the event alone.
LEMMA PageFrame ==
    ASSUME StreamInv, UNCHANGED vars, outgoing' = outgoing
    PROVE  /\ OutgoingTypes'
           /\ \A l : Current(l)' = Current(l) /\ (Pending(l)' <=> Pending(l))
BY CurrentFrame DEF StreamInv, OutgoingTypes, Pending

\* What WordInv says before the step, for use after it.
LEMMA WordBefore ==
    ASSUME StreamInv, NEW p \in Pages, stream[p] \in {"snapshot", "open"},
           NEW l \in Uids, l \notin doubt[p]
    PROVE  Pending(l) \/ Knows(queue[p], rows[p], timers[p], l, Current(l))
BY DEF StreamInv, WordInv

\* A new stream starts from a snapshot.
LEMMA OpenStreamStep ==
    ASSUME StreamInv, NEW p \in Pages, OpenStream(p)
    PROVE  PagesInv'
<1> DEFINE first == <<[type |-> "snapshot", calls |-> Snapshot]>>
<1>1. /\ UNCHANGED vars /\ outgoing' = outgoing
      /\ stream' = [stream EXCEPT ![p] = "snapshot"]
      /\ queue' = [queue EXCEPT ![p] = first]
      /\ doubt' = [doubt EXCEPT ![p] = {}]
      /\ rows' = rows /\ timers' = timers /\ rest' = rest
    BY DEF OpenStream
<1>2. IsQueue(first)
    <2> DEFINE frame == [type |-> "snapshot", calls |-> Snapshot]
    <2>1. ~IsEvent(frame) /\ frame.calls = Snapshot
        BY DEF IsEvent
    <2> HIDE DEF frame
    <2>2. IsFrame(frame)
        BY <2>1, SnapshotTypes DEF IsFrame
    <2>3. <<frame>> \in Seq({frame}) /\ DOMAIN <<frame>> = {1} /\ <<frame>>[1] = frame
        OBVIOUS
    <2> DEFINE q == <<frame>>
    <2> HIDE DEF q
    <2>4. \E Frames : q \in Seq(Frames)
        BY <2>3 DEF q
    <2>5. DOMAIN q = {1} /\ q[1] = frame
        BY <2>3 DEF q
    <2>6. IsQueue(q)
        BY <2>2, <2>4, <2>5 DEF IsQueue
    <2> QED BY <2>6 DEF frame, q
<1>3. \A l \in Uids : Knows(first, rows[p], timers[p], l, Current(l))
    BY SnapshotAbout, KnowsAll
<1> HIDE DEF first
<1>4. PageTypes /\ PageTypes'
    BY <1>1 DEF StreamInv, PageTypes
<1>5. QueueTypes'
    BY <1>1, <1>2, <1>4 DEF StreamInv, QueueTypes, PageTypes
<1>6. WordInv'
    <2> SUFFICES ASSUME NEW o \in Pages, stream'[o] \in {"snapshot", "open"},
                        NEW l \in Uids \ doubt'[o]
                 PROVE  Pending(l)' \/ Knows(queue'[o], rows'[o], timers'[o], l, Current(l)')
        BY DEF WordInv
    <2>1. CASE o = p
        BY <1>1, <1>3, <1>4, <2>1, PageFrame DEF PageTypes
    <2>2. CASE o # p
        <3>1. stream'[o] = stream[o] /\ queue'[o] = queue[o] /\ doubt'[o] = doubt[o]
            BY <1>1, <1>4, <2>2 DEF PageTypes
        <3> QED BY <1>1, <3>1, PageFrame, WordBefore
    <2> QED BY <2>1, <2>2
<1>7. OutgoingTypes' /\ RowTypes'
    BY <1>1, PageFrame DEF StreamInv, RowTypes
<1> QED BY <1>4, <1>5, <1>6, <1>7 DEF PagesInv

\* Neither subscribing nor losing the connection changes what is known.
LEMMA ConnectionStep ==
    ASSUME StreamInv, NEW p \in Pages, SubscribeStream(p) \/ Disconnect(p)
    PROVE  PagesInv'
<1>1. /\ UNCHANGED vars /\ outgoing' = outgoing
      /\ rows' = rows /\ timers' = timers /\ rest' = rest /\ doubt' = doubt
      /\ \/ stream[p] = "snapshot" /\ stream' = [stream EXCEPT ![p] = "open"] /\ queue' = queue
         \/ /\ stream' = [stream EXCEPT ![p] = "down"]
            /\ queue' = [queue EXCEPT ![p] = <<>>]
    BY DEF SubscribeStream, Disconnect
<1>2. IsQueue(<<>>)
    BY DEF IsQueue
<1>3. PageTypes /\ PageTypes'
    BY <1>1 DEF StreamInv, PageTypes
<1>4. QueueTypes'
    BY <1>1, <1>2, <1>3 DEF StreamInv, QueueTypes, PageTypes
<1>5. WordInv'
    <2> SUFFICES ASSUME NEW o \in Pages, stream'[o] \in {"snapshot", "open"},
                        NEW l \in Uids \ doubt'[o]
                 PROVE  Pending(l)' \/ Knows(queue'[o], rows'[o], timers'[o], l, Current(l)')
        BY DEF WordInv
    <2>1. stream[o] \in {"snapshot", "open"} /\ queue'[o] = queue[o]
        BY <1>1, <1>3 DEF PageTypes
    <2> QED BY <1>1, <2>1, PageFrame, WordBefore
<1>6. OutgoingTypes' /\ RowTypes'
    BY <1>1, PageFrame DEF StreamInv, RowTypes
<1> QED BY <1>3, <1>4, <1>5, <1>6 DEF PagesInv

\* The page reads a frame.
LEMMA DeliverStep ==
    ASSUME StreamInv, NEW p \in Pages, Deliver(p)
    PROVE  PagesInv'
<1> DEFINE frame == Head(queue[p])
           r2 == IF IsEvent(frame) THEN applyEvent(rows[p], frame) ELSE applySnapshot(frame.calls)
           t2 == IF IsEvent(frame) THEN timersAfter(timers[p], frame) ELSE timers[p]
<1>1. /\ UNCHANGED vars /\ outgoing' = outgoing /\ queue[p] # <<>>
      /\ rows' = [rows EXCEPT ![p] = r2]
      /\ timers' = [timers EXCEPT ![p] = t2]
      /\ queue' = [queue EXCEPT ![p] = Tail(queue[p])]
      /\ stream' = stream /\ rest' = rest /\ doubt' = doubt
    BY DEF Deliver
<1>2. IsQueue(queue[p])
    BY DEF StreamInv, QueueTypes
<1>3. IsQueue(Tail(queue[p])) /\ IsFrame(frame)
    BY <1>1, <1>2, QueueTail DEF IsQueue
<1>4. DOMAIN r2 \subseteq Uids
    <2> HIDE DEF frame
    <2>1. DOMAIN rows[p] \subseteq Uids
        BY DEF StreamInv, RowTypes
    <2> QED BY <1>3, <2>1 DEF applyEvent, applySnapshot, IsFrame
<1>5. \A l \in Uids : Knows(queue[p], rows[p], timers[p], l, Current(l))
                      => Knows(Tail(queue[p]), r2, t2, l, Current(l))
    BY <1>1, <1>2, CurrentOne, KnowsRead
<1> HIDE DEF frame, r2, t2
<1>6. PageTypes /\ PageTypes'
    BY <1>1 DEF StreamInv, PageTypes
<1>7. QueueTypes'
    BY <1>1, <1>3, <1>6 DEF StreamInv, QueueTypes, PageTypes
<1>8. RowTypes'
    BY <1>1, <1>4, <1>6 DEF StreamInv, RowTypes, PageTypes
<1>9. WordInv'
    <2> SUFFICES ASSUME NEW o \in Pages, stream'[o] \in {"snapshot", "open"},
                        NEW l \in Uids \ doubt'[o]
                 PROVE  Pending(l)' \/ Knows(queue'[o], rows'[o], timers'[o], l, Current(l)')
        BY DEF WordInv
    <2>1. Pending(l) \/ Knows(queue[o], rows[o], timers[o], l, Current(l))
        BY <1>1, WordBefore
    <2>2. CASE o = p
        <3>1. queue'[p] = Tail(queue[p]) /\ rows'[p] = r2 /\ timers'[p] = t2
            BY <1>1, <1>6 DEF PageTypes
        <3> QED BY <1>1, <1>5, <2>1, <2>2, <3>1, PageFrame
    <2>3. CASE o # p
        <3>1. queue'[o] = queue[o] /\ rows'[o] = rows[o] /\ timers'[o] = timers[o]
            BY <1>1, <1>6, <2>3 DEF PageTypes
        <3> QED BY <1>1, <2>1, <3>1, PageFrame
    <2> QED BY <2>2, <2>3
<1>10. OutgoingTypes'
    BY <1>1, PageFrame
<1> QED BY <1>6, <1>7, <1>8, <1>9, <1>10 DEF PagesInv

\* The timer of an ended row fires.
LEMMA TimerStep ==
    ASSUME StreamInv, NEW p \in Pages, TimerFires(p)
    PROVE  PagesInv'
<1>1. PICK k \in timers[p] :
        /\ timers' = [timers EXCEPT ![p] = timers[p] \ {k}]
        /\ rows' = [rows EXCEPT ![p] = removeRow(rows[p], k)]
        /\ doubt' = [doubt EXCEPT ![p] = IF k \in Live THEN doubt[p] \cup {k} ELSE doubt[p]]
    BY DEF TimerFires
<1>2. /\ UNCHANGED vars /\ outgoing' = outgoing
      /\ stream' = stream /\ queue' = queue /\ rest' = rest
    BY DEF TimerFires
<1> DEFINE r2 == removeRow(rows[p], k)
           t2 == timers[p] \ {k}
<1>3. /\ DOMAIN r2 = DOMAIN rows[p] \ {k}
      /\ \A l \in DOMAIN r2 : r2[l] = rows[p][l]
    BY DEF removeRow
<1> HIDE DEF r2, t2
<1>4. PageTypes /\ PageTypes'
    BY <1>1, <1>2 DEF StreamInv, PageTypes
<1>5. /\ timers'[p] = t2 /\ rows'[p] = r2
      /\ doubt'[p] = IF k \in Live THEN doubt[p] \cup {k} ELSE doubt[p]
    BY <1>1, <1>4 DEF PageTypes, r2, t2
<1>6. RowTypes'
    <2>1. \A o \in Pages : DOMAIN rows'[o] \subseteq DOMAIN rows[o]
        BY <1>1, <1>3, <1>4, <1>5 DEF PageTypes
    <2> QED BY <1>2, <2>1 DEF StreamInv, RowTypes
<1>7. \A l \in Uids : ~(l = k /\ l \in Live) =>
          (Shows(rows[p], timers[p], l, Current(l)) => Shows(r2, t2, l, Current(l)))
    BY <1>3 DEF Shows, Current, t2
<1>8. WordInv'
    <2> SUFFICES ASSUME NEW o \in Pages, stream'[o] \in {"snapshot", "open"},
                        NEW l \in Uids \ doubt'[o]
                 PROVE  Pending(l)' \/ Knows(queue'[o], rows'[o], timers'[o], l, Current(l)')
        BY DEF WordInv
    <2>1. CASE o = p
        <3>1. l \notin doubt[p] /\ ~(l = k /\ l \in Live)
            BY <1>5, <2>1
        <3>2. Pending(l) \/ Knows(queue[p], rows[p], timers[p], l, Current(l))
            BY <1>2, <2>1, <3>1, WordBefore
        <3>3. Knows(queue[p], rows[p], timers[p], l, Current(l))
              => Knows(queue[p], r2, t2, l, Current(l))
            BY <1>7, <3>1, KnowsRows
        <3> QED BY <1>2, <1>5, <2>1, <3>2, <3>3, PageFrame
    <2>2. CASE o # p
        <3>1. doubt'[o] = doubt[o] /\ rows'[o] = rows[o] /\ timers'[o] = timers[o]
            BY <1>1, <1>4, <2>2 DEF PageTypes
        <3> QED BY <1>2, <3>1, PageFrame, WordBefore
    <2> QED BY <2>1, <2>2
<1>9. OutgoingTypes' /\ QueueTypes'
    BY <1>2, PageFrame DEF StreamInv, QueueTypes
<1> QED BY <1>4, <1>6, <1>8, <1>9 DEF PagesInv

\* The REST request is asked, or answered from the registry.
LEMMA RestStep ==
    ASSUME StreamInv, NEW p \in Pages, AskRest(p) \/ ListActiveCalls(p)
    PROVE  PagesInv'
<1>1. /\ UNCHANGED vars /\ outgoing' = outgoing /\ stream' = stream /\ queue' = queue
      /\ rows' = rows /\ timers' = timers /\ doubt' = doubt
      /\ \/ rest' = [rest EXCEPT ![p].state = "asked"]
         \/ rest' = [rest EXCEPT ![p] = [state |-> "answered", calls |-> Snapshot]]
    BY DEF AskRest, ListActiveCalls
<1>2. PageTypes /\ PageTypes'
    BY <1>1 DEF StreamInv, PageTypes
<1>3. \A o \in Pages : IsRest(rest[o])
    BY DEF StreamInv, RowTypes
<1>4. \A o \in Pages : IsRest(rest'[o])
    <2>1. CASE rest' = [rest EXCEPT ![p].state = "asked"]
        <3>1. \A o \in Pages : DOMAIN rest'[o] = DOMAIN rest[o] /\ rest'[o].calls = rest[o].calls
            BY <1>2, <1>3, <2>1 DEF PageTypes, IsRest
        <3> QED BY <1>3, <3>1 DEF IsRest
    <2>2. CASE rest' = [rest EXCEPT ![p] = [state |-> "answered", calls |-> Snapshot]]
        <3>1. IsRest([state |-> "answered", calls |-> Snapshot])
            BY SnapshotTypes DEF IsRest
        <3> QED BY <1>2, <1>3, <2>2, <3>1 DEF PageTypes
    <2> QED BY <1>1, <2>1, <2>2
<1>5. WordInv'
    <2> SUFFICES ASSUME NEW o \in Pages, stream'[o] \in {"snapshot", "open"},
                        NEW l \in Uids \ doubt'[o]
                 PROVE  Pending(l)' \/ Knows(queue'[o], rows'[o], timers'[o], l, Current(l)')
        BY DEF WordInv
    <2> QED BY <1>1, PageFrame, WordBefore
<1>6. OutgoingTypes' /\ QueueTypes' /\ RowTypes'
    BY <1>1, <1>4, PageFrame DEF StreamInv, QueueTypes, RowTypes
<1> QED BY <1>2, <1>5, <1>6 DEF PagesInv

\* ... and applied: the page is in doubt of whatever has changed since.
LEMMA ApplyRestStep ==
    ASSUME StreamInv, NEW p \in Pages, ApplyRest(p)
    PROVE  PagesInv'
<1> DEFINE calls == rest[p].calls
           r2 == applySnapshot(calls)
<1>1. /\ UNCHANGED vars /\ outgoing' = outgoing /\ stream' = stream /\ queue' = queue
      /\ timers' = timers
      /\ rows' = [rows EXCEPT ![p] = r2]
      /\ rest' = [rest EXCEPT ![p] = [state |-> "applied", calls |-> {}]]
      /\ doubt' = [doubt EXCEPT ![p] =
                      doubt[p] \cup {l \in Uids : CallsAbout(calls, l) # CallsAbout(Snapshot, l)}]
    BY DEF ApplyRest, CallsAbout
<1>2. PageTypes /\ PageTypes'
    BY <1>1 DEF StreamInv, PageTypes
<1>3. \A o \in Pages : IsRest(rest[o]) /\ DOMAIN rows[o] \subseteq Uids
    BY DEF StreamInv, RowTypes
<1>4. DOMAIN r2 \subseteq Uids
    BY <1>3 DEF applySnapshot, IsRest
<1>5. \A l \in Uids \ doubt'[p] : l \notin doubt[p] /\ Shows(r2, timers[p], l, Current(l))
    <2> SUFFICES ASSUME NEW l \in Uids \ doubt'[p]
                 PROVE  l \notin doubt[p] /\ Shows(r2, timers[p], l, Current(l))
        OBVIOUS
    <2>1. doubt'[p] = doubt[p] \cup {k \in Uids : CallsAbout(calls, k) # CallsAbout(Snapshot, k)}
        BY <1>1, <1>2 DEF PageTypes
    <2>2. l \notin doubt[p] /\ CallsAbout(calls, l) = Current(l)
        BY <2>1, SnapshotAbout
    <2> HIDE DEF calls
    <2> QED BY <2>2, CurrentOne, SnapshotShows
<1> HIDE DEF r2, calls
<1>6. RowTypes'
    <2>1. IsRest([state |-> "applied", calls |-> {}])
        BY DEF IsRest
    <2>2. \A o \in Pages : IsRest(rest'[o])
        BY <1>1, <1>2, <1>3, <2>1 DEF PageTypes
    <2>3. \A o \in Pages : DOMAIN rows'[o] \subseteq Uids
        BY <1>1, <1>2, <1>3, <1>4 DEF PageTypes
    <2> QED BY <2>2, <2>3 DEF RowTypes
<1>7. WordInv'
    <2> SUFFICES ASSUME NEW o \in Pages, stream'[o] \in {"snapshot", "open"},
                        NEW l \in Uids \ doubt'[o]
                 PROVE  Pending(l)' \/ Knows(queue'[o], rows'[o], timers'[o], l, Current(l)')
        BY DEF WordInv
    <2>1. CASE o = p
        <3>1. Shows(r2, timers[p], l, Current(l)) /\ rows'[p] = r2
            BY <1>1, <1>2, <1>5, <2>1 DEF PageTypes
        <3>2. Pending(l) \/ Knows(queue[p], rows[p], timers[p], l, Current(l))
            BY <1>1, <1>5, <2>1, WordBefore
        <3>3. Knows(queue[p], rows[p], timers[p], l, Current(l))
              => Knows(queue[p], r2, timers[p], l, Current(l))
            BY <3>1, KnowsRows
        <3> QED BY <1>1, <2>1, <3>1, <3>2, <3>3, PageFrame
    <2>2. CASE o # p
        <3>1. doubt'[o] = doubt[o] /\ rows'[o] = rows[o]
            BY <1>1, <1>2, <2>2 DEF PageTypes
        <3> QED BY <1>1, <3>1, PageFrame, WordBefore
    <2> QED BY <2>1, <2>2
<1>8. OutgoingTypes' /\ QueueTypes'
    BY <1>1, PageFrame DEF StreamInv, QueueTypes
<1> QED BY <1>2, <1>6, <1>7, <1>8 DEF PagesInv
-----------------------------------------------------------------------------
(***************************************************************************)
(* The theorems.                                                           *)
(***************************************************************************)

LEMMA StreamInitInv == StreamInit => StreamInv
<1> SUFFICES ASSUME StreamInit PROVE StreamInv
    OBVIOUS
<1>1. IInv
    BY InitIInv DEF StreamInit
<1>2. /\ outgoing = {} /\ stream = [p \in Pages |-> "down"] /\ queue = [p \in Pages |-> <<>>]
      /\ rows = [p \in Pages |-> NoRows] /\ timers = [p \in Pages |-> {}]
      /\ rest = [p \in Pages |-> [state |-> "none", calls |-> {}]] /\ doubt = [p \in Pages |-> {}]
    BY DEF StreamInit
<1>3. IsQueue(<<>>) /\ IsRest([state |-> "none", calls |-> {}]) /\ DOMAIN NoRows = {}
    BY DEF IsQueue, IsRest, NoRows
<1>4. PageTypes /\ OutgoingTypes /\ QueueTypes /\ RowTypes
    BY <1>2, <1>3 DEF PageTypes, OutgoingTypes, QueueTypes, RowTypes
<1>5. WordInv
    BY <1>2 DEF WordInv
<1> QED BY <1>1, <1>4, <1>5 DEF StreamInv

\* A step of the whole is a step of the registry, or none.
LEMMA StreamNextIsNext == StreamNext => [Next]_vars
BY DEF StreamNext, Apply, HandOver, ResetStep, Page, OpenStream, SubscribeStream, Disconnect,
       Deliver, TimerFires, AskRest, ListActiveCalls, ApplyRest, Next

LEMMA StreamNextInv == ASSUME ~Relinks, StreamInv, [StreamNext]_allVars PROVE StreamInv'
<1>1. IInv'
    <2>1. [Next]_vars
        BY StreamNextIsNext DEF allVars
    <2> QED BY <2>1, NextIInv, ConstantsAssumption DEF StreamInv
<1> SUFFICES PagesInv'
    BY <1>1 DEF StreamInv, PagesInv
<1>2. CASE Apply
    BY <1>1, <1>2, ApplyStep
<1>3. CASE HandOver
    BY <1>3, HandOverStep
<1>4. CASE ResetStep
    BY <1>4, ResetKeeps
<1>5. ASSUME NEW p \in Pages, Page(p) PROVE PagesInv'
    BY <1>5, OpenStreamStep, ConnectionStep, DeliverStep, TimerStep, RestStep, ApplyRestStep
    DEF Page
<1>6. CASE UNCHANGED allVars
    <2>1. /\ UNCHANGED vars /\ outgoing' = outgoing /\ stream' = stream /\ queue' = queue
          /\ rows' = rows /\ timers' = timers /\ rest' = rest /\ doubt' = doubt
        BY <1>6 DEF allVars, streamVars
    <2>2. WordInv'
        BY <2>1, PageFrame DEF StreamInv, WordInv
    <2> QED BY <2>1, <2>2, PageFrame
            DEF StreamInv, PagesInv, PageTypes, QueueTypes, RowTypes
<1> QED BY <1>2, <1>3, <1>4, <1>5, <1>6 DEF StreamNext

LEMMA InvariantStreamInv == ASSUME ~Relinks PROVE StreamSpec => []StreamInv
<1>1. ~Relinks /\ StreamInv /\ [StreamNext]_allVars => StreamInv'
    BY StreamNextInv
<1> QED BY <1>1, StreamInitInv, PTL DEF StreamSpec

\* A settled page shows every live call as the registry has it and no ended
\* call as a live one, the calls it is in doubt of aside: any number of pages,
\* any buffer, whatever is reset, cut off, reconnected or answered late.
THEOREM SettledPageIsRight == ASSUME ~Relinks PROVE StreamSpec => []ShownIsLive
<1>1. StreamInv => ShownIsLive
    <2> SUFFICES ASSUME StreamInv, NEW p \in Pages, Settled(p), NEW l \in Uids \ doubt[p]
                 PROVE  Agrees(p, l)
        BY DEF ShownIsLive
    <2>1. stream[p] = "open" /\ queue[p] = <<>> /\ outgoing = {}
        BY DEF Settled
    <2>2. ~Pending(l)
        BY <2>1 DEF Pending
    <2>3. Knows(queue[p], rows[p], timers[p], l, Current(l))
        BY <2>1, <2>2, WordBefore
    <2>4. DOMAIN queue[p] = {}
        BY <2>1
    <2> QED BY <2>3, <2>4, AgreesShows DEF Knows
<1> QED BY <1>1, InvariantStreamInv, PTL

\* What turns an ended row of a page into a live one again.
LEMMA RowRevived ==
    ASSUME StreamInv, StreamNext, NEW p \in Pages, NEW l \in DOMAIN rows[p] \cap DOMAIN rows'[p],
           rows[p][l].over, ~rows'[p][l].over, l \notin Live, l \notin doubt'[p],
           stream[p] # "cut"
    PROVE  EndUnderWay(p, l)
<1>1. l \in Uids /\ Current(l) = {} /\ PageTypes /\ rows[p] # rows'[p]
    BY DEF StreamInv, RowTypes, Current
<1>2. ~ \E o \in Pages : TimerFires(o)
    <2> SUFFICES ASSUME NEW o \in Pages, TimerFires(o) PROVE FALSE
        OBVIOUS
    <2>1. PICK k \in timers[o] : rows' = [rows EXCEPT ![o] = removeRow(rows[o], k)]
        BY DEF TimerFires
    <2>2. o = p
        BY <1>1, <2>1 DEF PageTypes
    <2>3. rows'[p] = removeRow(rows[p], k)
        BY <1>1, <2>1, <2>2 DEF PageTypes
    <2>4. rows'[p][l] = rows[p][l]
        BY <2>3 DEF removeRow
    <2> QED BY <2>4
<1>3. ~ \E o \in Pages : ApplyRest(o)
    <2> SUFFICES ASSUME NEW o \in Pages, ApplyRest(o) PROVE FALSE
        OBVIOUS
    <2>1. /\ rows' = [rows EXCEPT ![o] = applySnapshot(rest[o].calls)]
          /\ doubt' = [doubt EXCEPT ![o] =
                doubt[o] \cup {k \in Uids : CallsAbout(rest[o].calls, k) # CallsAbout(Snapshot, k)}]
        BY DEF ApplyRest, CallsAbout
    <2>2. o = p
        BY <1>1, <2>1 DEF PageTypes
    <2>3. l \in DOMAIN applySnapshot(rest[p].calls)
        BY <1>1, <2>1, <2>2 DEF PageTypes
    <2>4. CallsAbout(rest[p].calls, l) # {}
        BY <2>3 DEF applySnapshot, CallsAbout
    <2>5. CallsAbout(rest[p].calls, l) = CallsAbout(Snapshot, l)
        BY <1>1, <2>1, <2>2 DEF PageTypes
    <2> QED BY <1>1, <2>4, <2>5, SnapshotAbout
<1>4. PICK o \in Pages : Deliver(o)
    BY <1>1, <1>2, <1>3 DEF StreamNext, Apply, pageVars, HandOver, ResetStep, Page, OpenStream,
           SubscribeStream, Disconnect, AskRest, ListActiveCalls
<1> DEFINE frame == Head(queue[p])
<1>5. /\ queue[p] # <<>> /\ doubt' = doubt
      /\ rows'[p] = IF IsEvent(frame) THEN applyEvent(rows[p], frame)
                                      ELSE applySnapshot(frame.calls)
    <2>1. /\ queue[o] # <<>> /\ doubt' = doubt
          /\ rows' = [rows EXCEPT ![o] = IF IsEvent(Head(queue[o]))
                                         THEN applyEvent(rows[o], Head(queue[o]))
                                         ELSE applySnapshot(Head(queue[o]).calls)]
        BY <1>4 DEF Deliver
    <2>2. o = p
        BY <1>1, <2>1 DEF PageTypes
    <2> QED BY <1>1, <2>1, <2>2 DEF PageTypes
<1>6. IsQueue(queue[p]) /\ 1 \in DOMAIN queue[p] /\ frame = queue[p][1]
    BY <1>5, QueueTail DEF StreamInv, QueueTypes
<1>7. stream[p] \in {"snapshot", "open"}
    BY <1>5 DEF StreamInv, QueueTypes
<1> HIDE DEF frame
\* The head of the queue says of the call that it lives.
<1>8. Mentions(frame, l) /\ ~Tells(frame, l, {})
    <2>1. CASE IsEvent(frame)
        <3>1. frame.call.linkedid = l
            BY <1>5, <2>1 DEF applyEvent
        <3>2. rows'[p][l] = Row(frame.call, frame.type = "ended")
            BY <1>5, <2>1, <3>1 DEF applyEvent
        <3>3. frame.type # "ended"
            <4>1. ASSUME frame.type = "ended" PROVE FALSE
                <5>1. (frame.type = "ended") = TRUE
                    BY <4>1
                <5>2. rows'[p][l] = Row(frame.call, TRUE)
                    BY <3>2, <5>1
                <5> QED BY <5>2 DEF Row
            <4> QED BY <4>1
        <3> QED BY <2>1, <3>1, <3>3 DEF Mentions, Tells
    <2>2. CASE ~IsEvent(frame)
        <3>1. l \in DOMAIN applySnapshot(frame.calls)
            BY <1>5, <2>2
        <3>2. CallsAbout(frame.calls, l) # {}
            BY <3>1 DEF applySnapshot, CallsAbout
        <3> QED BY <2>2, <3>2 DEF Mentions, Tells
    <2> QED BY <2>1, <2>2
<1>9. Pending(l) \/ Knows(queue[p], rows[p], timers[p], l, {})
    BY <1>1, <1>5, <1>7, WordBefore
<1>10. CASE Pending(l)
    <2>1. PICK ev \in outgoing : ev.call.linkedid = l /\ Tells(ev, l, {})
        BY <1>1, <1>10 DEF Pending
    <2>2. ev.type = "ended"
        BY <2>1 DEF Tells, StreamInv, OutgoingTypes
    <2> QED BY <2>1, <2>2 DEF EndUnderWay
<1>11. CASE Knows(queue[p], rows[p], timers[p], l, {})
    <2>1. PICK i \in DOMAIN queue[p] : LastWord(queue[p], l, i) /\ Tells(queue[p][i], l, {})
        BY <1>6, <1>8, <1>11 DEF Knows, Silent
    <2>2. i > 1
        BY <1>6, <1>8, <2>1, QueueLength
    <2>3. IsEvent(queue[p][i]) /\ queue[p][i].type = "ended" /\ queue[p][i].call.linkedid = l
        BY <1>6, <2>1, <2>2 DEF IsQueue, Tells, LastWord, Mentions
    <2>4. queue[p][i] \in ToSet(queue[p])
        BY <2>1 DEF ToSet
    <2> QED BY <2>3, <2>4 DEF EndUnderWay
<1> QED BY <1>9, <1>10, <1>11

\* The row of an ended call comes back to life only for a call that lives, or
\* whose end the page has yet to be told of, or that it is in doubt of.
THEOREM EndedRowStaysEnded == ASSUME ~Relinks PROVE StreamSpec => EndedStaysEnded
<1>1. StreamInv /\ [StreamNext]_allVars =>
          \A p \in Pages : \A l \in DOMAIN rows[p] \cap DOMAIN rows'[p] :
              rows[p][l].over /\ ~rows'[p][l].over
              => l \in Live \cup doubt'[p] \/ EndUnderWay(p, l) \/ stream[p] = "cut"
    <2>1. UNCHANGED allVars => rows' = rows
        BY DEF allVars, streamVars
    <2> QED BY <2>1, RowRevived
<1> QED BY <1>1, InvariantStreamInv, PTL DEF StreamSpec, EndedStaysEnded
=============================================================================
