--------------------------- MODULE BroadcastProofs ---------------------------
(***************************************************************************)
(* Theorems about Broadcast, for any number of subscribers, buffer size    *)
(* and number of events.                                                   *)
(***************************************************************************)
EXTENDS Broadcast, SequenceTheorems, TLAPS

(***************************************************************************)
(* The publisher's bookkeeping: what it still has to visit is in the map   *)
(* (no one can leave it while the read lock is held), what is in the map   *)
(* is open, and a handler that is done is not in it.                       *)
(***************************************************************************)
MapInv ==
    /\ \A s \in subs : ~closed[s] /\ pc[s] \notin {"new", "done"}
    /\ pubpc = "fanout" => todo \subseteq subs /\ dead \subseteq subs
    /\ pubpc # "fanout" => todo = {}
    /\ pubpc = "idle" => dead = {}
    /\ todo \cap dead = {}
    /\ \A s \in dead : pc[s] # "new"
    /\ ~panicked

(***************************************************************************)
(* Where each subscriber's events are.  sent counts them; the ones in got, *)
(* the one being written and the buffered ones are numbered on from        *)
(* joined.                                                                 *)
(***************************************************************************)
InHand(s) == IF cur[s] # 0 THEN 1 ELSE 0
InGot(s) == Len(got[s])
InBuf(s) == Len(buf[s])

sent(s) == InGot(s) + InHand(s) + InBuf(s)

Numbered(s) ==
    /\ \A i \in 1 .. InGot(s) : got[s][i] = joined[s] + i
    /\ cur[s] # 0 => cur[s] = joined[s] + InGot(s) + 1
    /\ \A i \in 1 .. InBuf(s) : buf[s][i] = joined[s] + InGot(s) + InHand(s) + i
    /\ pc[s] \in {"new", "waiting"} => cur[s] = 0
    /\ pc[s] = "new" => InBuf(s) = 0 /\ InGot(s) = 0 /\ ~closed[s]
    /\ joined[s] + sent(s) =< published

\* A subscriber in the map lacks at most the event being published, and only
\* until it is visited or if it is going to be dropped.
Missing(s) ==
    joined[s] + sent(s) = IF s \in todo \cup dead THEN published - 1 ELSE published

DeliveryInv ==
    /\ \A s \in Subs : Numbered(s)
    /\ \A s \in subs : Missing(s)

IInv == TypeOK /\ MapInv /\ DeliveryInv
-----------------------------------------------------------------------------
(* Types and bookkeeping.                                                  *)

LEMMA InitIInv == Init => IInv
<1> SUFFICES ASSUME Init PROVE IInv
    OBVIOUS
<1> USE DEF Init
<1>1. TypeOK
    <2>1. <<>> \in Seq(Nat) /\ Len(<<>>) = 0
        BY EmptySeq
    <2>2. buf \in [Subs -> Seq(Nat)] /\ got \in [Subs -> Seq(Nat)]
        BY <2>1
    <2>3. \A s \in Subs : Len(buf[s]) =< Cap
        BY <2>1, CapAssumption
    <2> QED BY <2>2, <2>3 DEF TypeOK
<1>2. MapInv
    BY DEF MapInv
<1>3. \A s \in Subs : InGot(s) = 0 /\ InBuf(s) = 0 /\ InHand(s) = 0
    BY EmptySeq DEF InGot, InBuf, InHand
<1>4. DeliveryInv
    BY <1>3 DEF DeliveryInv, Numbered, Missing, sent
<1> QED BY <1>1, <1>2, <1>4 DEF IInv

\* One send of the publisher: onto the end of a buffer with room, or s noted.
LEMMA SendCases ==
    ASSUME IInv, NEW s \in Subs, Send(s)
    PROVE  /\ ~panicked'
           /\ s \in subs
           /\ \/ /\ Len(buf[s]) < Cap
                 /\ buf' = [buf EXCEPT ![s] = Append(@, published)]
                 /\ dead' = dead
              \/ /\ buf' = buf
                 /\ dead' = dead \cup {s}
BY DEF IInv, MapInv, Send, TrySend

LEMMA TypeStep == ASSUME TypeOK, [Next]_vars PROVE TypeOK'
<1> USE DEF TypeOK, pubVars, handlerVars
<1>1. CASE BeginPublish
    BY <1>1 DEF BeginPublish
<1>2. ASSUME NEW s \in Subs, Send(s) PROVE TypeOK'
    <2>1. CASE closed[s]
        BY <1>2, <2>1 DEF Send, TrySend
    <2>2. CASE ~closed[s] /\ Len(buf[s]) < Cap
        <3>1. /\ Append(buf[s], published) \in Seq(Nat)
              /\ Len(Append(buf[s], published)) = Len(buf[s]) + 1
              /\ Len(buf[s]) \in Nat
            BY AppendProperties
        <3>2. buf' = [buf EXCEPT ![s] = Append(@, published)]
            BY <1>2, <2>2 DEF Send, TrySend
        <3>3. \A r \in Subs : Len(buf'[r]) =< Cap
            BY <2>2, <3>1, <3>2, CapAssumption
        <3>4. buf' \in [Subs -> Seq(Nat)]
            BY <3>1, <3>2
        <3> QED BY <1>2, <2>2, <3>3, <3>4 DEF Send, TrySend
    <2>3. CASE ~closed[s] /\ ~(Len(buf[s]) < Cap)
        BY <1>2, <2>3 DEF Send, TrySend
    <2> QED BY <2>1, <2>2, <2>3
<1>3. CASE EndFanout \/ EndPublish
    BY <1>3 DEF EndFanout, EndPublish
<1>4. ASSUME NEW s \in Subs, Reap(s) PROVE TypeOK'
    BY <1>4 DEF Reap, Unsubscribe
<1>5. ASSUME NEW s \in Subs, Subscribe(s) PROVE TypeOK'
    BY <1>5 DEF Subscribe
<1>6. ASSUME NEW s \in Subs, Receive(s) PROVE TypeOK'
    <2>1. /\ Head(buf[s]) \in Nat
          /\ Tail(buf[s]) \in Seq(Nat)
          /\ Len(Tail(buf[s])) = Len(buf[s]) - 1
          /\ Len(buf[s]) \in Nat
        BY <1>6, HeadTailProperties DEF Receive
    <2>2. buf' = [buf EXCEPT ![s] = Tail(@)]
        BY <1>6 DEF Receive
    <2>3. buf' \in [Subs -> Seq(Nat)] /\ \A r \in Subs : Len(buf'[r]) =< Cap
        BY <2>1, <2>2, CapAssumption
    <2> QED BY <1>6, <2>1, <2>3 DEF Receive
<1>7. ASSUME NEW s \in Subs, Keepalive(s) PROVE TypeOK'
    BY <1>7 DEF Keepalive
<1>8. ASSUME NEW s \in Subs, Written(s) PROVE TypeOK'
    <2>1. Append(got[s], cur[s]) \in Seq(Nat)
        BY AppendProperties
    <2>2. got' \in [Subs -> Seq(Nat)]
        BY <1>8, <2>1 DEF Written
    <2> QED BY <1>8, <2>2 DEF Written
<1>9. ASSUME NEW s \in Subs, Stop(s) PROVE TypeOK'
    BY <1>9 DEF Stop
<1>10. ASSUME NEW s \in Subs, Leave(s) PROVE TypeOK'
    BY <1>10 DEF Leave, Unsubscribe
<1>11. CASE UNCHANGED vars
    BY <1>11 DEF vars
<1> QED
    BY <1>1, <1>2, <1>3, <1>4, <1>5, <1>6, <1>7, <1>8, <1>9, <1>10, <1>11
    DEF Next, Publisher, Handler, WriteFails, ContextDone, SeesClosed

LEMMA MapStep == ASSUME IInv, [Next]_vars PROVE MapInv'
<1> USE DEF IInv, TypeOK, MapInv, pubVars, handlerVars
<1>1. CASE BeginPublish
    BY <1>1 DEF BeginPublish
<1>2. ASSUME NEW s \in Subs, Send(s) PROVE MapInv'
    BY <1>2 DEF Send, TrySend
<1>3. CASE EndFanout \/ EndPublish
    BY <1>3 DEF EndFanout, EndPublish
<1>4. ASSUME NEW s \in Subs, Reap(s) PROVE MapInv'
    BY <1>4 DEF Reap, Unsubscribe
<1>5. ASSUME NEW s \in Subs, Subscribe(s) PROVE MapInv'
    <2>1. ~closed[s]
        BY <1>5 DEF Subscribe, DeliveryInv, Numbered
    <2> QED BY <1>5, <2>1 DEF Subscribe, Unlocked
<1>6. ASSUME NEW s \in Subs, Receive(s) \/ Keepalive(s) \/ Written(s) \/ Stop(s) PROVE MapInv'
    BY <1>6 DEF Receive, Keepalive, Written, Stop
<1>7. ASSUME NEW s \in Subs, Leave(s) PROVE MapInv'
    BY <1>7 DEF Leave, Unsubscribe, Unlocked
<1>8. CASE UNCHANGED vars
    BY <1>8 DEF vars
<1> QED
    BY <1>1, <1>2, <1>3, <1>4, <1>5, <1>6, <1>7, <1>8
    DEF Next, Publisher, Handler, WriteFails, ContextDone, SeesClosed
-----------------------------------------------------------------------------
(* Delivery.                                                               *)

LEMMA Counts ==
    ASSUME TypeOK, NEW r \in Subs
    PROVE  /\ InGot(r) \in Nat /\ InBuf(r) \in Nat /\ InHand(r) \in Nat
           /\ joined[r] \in Nat /\ cur[r] \in Nat /\ published \in Nat
           /\ sent(r) \in Nat /\ joined[r] + sent(r) \in Nat
<1>1. InGot(r) \in Nat /\ InBuf(r) \in Nat
    BY LenProperties DEF TypeOK, InGot, InBuf
<1>2. InHand(r) \in Nat
    BY DEF InHand
<1> QED BY <1>1, <1>2 DEF TypeOK, sent

\* A subscriber that a step leaves alone keeps its numbering, the count of
\* published events not falling.
Alone(r) ==
    /\ joined'[r] = joined[r] /\ got'[r] = got[r] /\ cur'[r] = cur[r]
    /\ buf'[r] = buf[r] /\ pc'[r] = pc[r]
    /\ closed'[r] = closed[r] \/ pc[r] # "new"
    /\ published' \in {published, published + 1}

LEMMA Untouched ==
    ASSUME TypeOK, DeliveryInv, NEW r \in Subs, Alone(r)
    PROVE  Numbered(r)' /\ sent(r)' = sent(r)
<1>1. InGot(r)' = InGot(r) /\ InBuf(r)' = InBuf(r) /\ InHand(r)' = InHand(r)
    BY DEF Alone, InGot, InBuf, InHand
<1>2. sent(r)' = sent(r)
    BY <1>1 DEF sent
<1>3. Numbered(r)
    BY DEF DeliveryInv
<1>4. joined'[r] + sent(r)' =< published'
    BY <1>2, <1>3, Counts DEF Alone, Numbered
<1>5. Numbered(r)'
    BY <1>1, <1>2, <1>3, <1>4 DEF Alone, Numbered
<1> QED BY <1>2, <1>5

LEMMA DeliveryStep == ASSUME IInv, [Next]_vars PROVE DeliveryInv'
<1> USE DEF IInv
<1>1. CASE BeginPublish
    <2>0. \A r \in Subs : Alone(r)
        BY <1>1 DEF BeginPublish, handlerVars, Alone, TypeOK
    <2>1. \A r \in Subs : Numbered(r)' /\ sent(r)' = sent(r)
        BY <2>0, Untouched
    <2>2. \A r \in subs : joined[r] + sent(r) = published
        BY <1>1 DEF BeginPublish, DeliveryInv, Missing, MapInv
    <2>3. \A r \in subs' : Missing(r)'
        BY <1>1, <2>1, <2>2 DEF BeginPublish, handlerVars, Missing, TypeOK
    <2> QED BY <2>1, <2>3 DEF DeliveryInv
<1>2. ASSUME NEW s \in Subs, Send(s) PROVE DeliveryInv'
    <2>1. s \in subs /\ s \in todo /\ s \notin dead /\ pc[s] # "new"
        BY <1>2, SendCases DEF Send, MapInv
    <2>a. /\ \A r \in Subs \ {s} : buf'[r] = buf[r]
          /\ published' = published /\ joined' = joined /\ got' = got
          /\ cur' = cur /\ pc' = pc /\ closed' = closed /\ subs' = subs
          /\ todo' = todo \ {s}
        BY <1>2, SendCases DEF Send, handlerVars, TypeOK
    <2>2. \A r \in Subs \ {s} : Numbered(r)' /\ sent(r)' = sent(r)
        <3>1. \A r \in Subs \ {s} : Alone(r)
            BY <2>a DEF Alone
        <3> QED BY <3>1, Untouched
    <2>3. joined[s] + sent(s) = published - 1
        BY <2>1 DEF DeliveryInv, Missing
    <2>4. CASE Len(buf[s]) < Cap /\ buf' = [buf EXCEPT ![s] = Append(@, published)]
                                 /\ dead' = dead
        <3>1. /\ Len(Append(buf[s], published)) = Len(buf[s]) + 1
              /\ \A i \in 1 .. Len(buf[s]) : Append(buf[s], published)[i] = buf[s][i]
              /\ Append(buf[s], published)[Len(buf[s]) + 1] = published
            BY AppendProperties DEF TypeOK
        <3>2. buf'[s] = Append(buf[s], published)
            BY <2>4 DEF TypeOK
        <3>a. InBuf(s)' = InBuf(s) + 1 /\ InGot(s)' = InGot(s) /\ InHand(s)' = InHand(s)
            BY <1>2, <3>1, <3>2 DEF Send, handlerVars, InBuf, InGot, InHand
        <3>3. sent(s)' = sent(s) + 1
            BY <3>a, Counts DEF sent
        <3>4. Numbered(s)'
            <4>1. Numbered(s)
                BY DEF DeliveryInv
            <4>2. published = joined[s] + InGot(s) + InHand(s) + (InBuf(s) + 1)
                BY <2>3, Counts DEF sent
            <4>3. \A i \in 1 .. InBuf(s) : buf'[s][i] = buf[s][i]
                BY <3>1, <3>2 DEF InBuf
            <4>4. buf'[s][InBuf(s) + 1] = published
                BY <3>1, <3>2 DEF InBuf
            <4>5. \A i \in 1 .. InBuf(s) + 1 :
                    buf'[s][i] = joined[s] + InGot(s) + InHand(s) + i
                <5> SUFFICES ASSUME NEW i \in 1 .. InBuf(s) + 1
                             PROVE  buf'[s][i] = joined[s] + InGot(s) + InHand(s) + i
                    OBVIOUS
                <5>1. CASE i = InBuf(s) + 1
                    BY <4>2, <4>4, <5>1
                <5>2. CASE i \in 1 .. InBuf(s)
                    BY <4>1, <4>3, <5>2 DEF Numbered
                <5> QED BY <5>1, <5>2, Counts
            <4> QED BY <1>2, <2>1, <2>3, <3>a, <3>3, <4>1, <4>5, Counts
                    DEF Send, handlerVars, Numbered
        <3>5. \A r \in subs' : Missing(r)'
            <4> SUFFICES ASSUME NEW r \in subs' PROVE Missing(r)'
                OBVIOUS
            <4>1. CASE r = s
                <5>1. joined[s] + sent(s)' = published
                    BY <2>3, <3>3, Counts
                <5>2. s \notin todo' /\ s \notin dead'
                    BY <2>1, <2>4, <2>a
                <5> QED BY <2>a, <4>1, <5>1, <5>2 DEF Missing
            <4>2. CASE r # s
                <5>1. r \in Subs \ {s} /\ Missing(r)
                    BY <2>a, <4>2 DEF DeliveryInv, TypeOK
                <5> QED BY <2>a, <2>2, <2>4, <4>2, <5>1 DEF Missing
            <4> QED BY <4>1, <4>2
        <3> QED BY <2>2, <3>4, <3>5 DEF DeliveryInv
    <2>5. CASE buf' = buf /\ dead' = dead \cup {s}
        <3>0. Alone(s)
            BY <2>a, <2>5 DEF Alone
        <3>1. Numbered(s)' /\ sent(s)' = sent(s)
            BY <3>0, Untouched
        <3>2. \A r \in subs' : Missing(r)'
            BY <1>2, <2>2, <2>3, <2>5, <3>1 DEF Send, handlerVars, Missing, DeliveryInv, TypeOK
        <3> QED BY <2>2, <3>1, <3>2 DEF DeliveryInv
    <2> QED BY <1>2, <2>4, <2>5, SendCases
<1>3. CASE EndFanout \/ EndPublish \/ UNCHANGED vars
    <2>0. \A r \in Subs : Alone(r)
        BY <1>3 DEF EndFanout, EndPublish, vars, handlerVars, Alone, TypeOK
    <2>1. \A r \in Subs : Numbered(r)' /\ sent(r)' = sent(r)
        BY <2>0, Untouched
    <2>2. \A r \in subs' : Missing(r)'
        BY <1>3, <2>1 DEF EndFanout, EndPublish, vars, handlerVars, Missing, DeliveryInv, TypeOK
    <2> QED BY <2>1, <2>2 DEF DeliveryInv
<1>4. ASSUME NEW s \in Subs, Reap(s) PROVE DeliveryInv'
    <2>1. \A r \in Subs : closed'[r] = closed[r] \/ pc[r] # "new"
        BY <1>4 DEF Reap, Unsubscribe, MapInv, TypeOK
    <2>a. \A r \in Subs : Alone(r)
        BY <1>4, <2>1 DEF Reap, handlerVars, Alone, TypeOK
    <2>2. \A r \in Subs : Numbered(r)' /\ sent(r)' = sent(r)
        BY <2>a, Untouched
    <2>3. subs' \subseteq subs \ {s}
        BY <1>4 DEF Reap, Unsubscribe
    <2>4. \A r \in subs' : Missing(r)'
        BY <1>4, <2>2, <2>3 DEF Reap, handlerVars, Missing, DeliveryInv, TypeOK
    <2> QED BY <2>2, <2>4 DEF DeliveryInv
<1>5. ASSUME NEW s \in Subs, Subscribe(s) PROVE DeliveryInv'
    <2>0. \A r \in Subs \ {s} : Alone(r)
        BY <1>5 DEF Subscribe, pubVars, Alone, TypeOK
    <2>1. \A r \in Subs \ {s} : Numbered(r)' /\ sent(r)' = sent(r)
        BY <2>0, Untouched
    <2>2. InGot(s) = 0 /\ InBuf(s) = 0 /\ cur[s] = 0
        BY <1>5 DEF Subscribe, DeliveryInv, Numbered
    <2>a. InGot(s)' = 0 /\ InBuf(s)' = 0 /\ InHand(s)' = 0
        BY <1>5, <2>2 DEF Subscribe, InGot, InBuf, InHand
    <2>3. sent(s)' = 0 /\ joined'[s] = published
        BY <1>5, <2>a DEF Subscribe, TypeOK, sent
    <2>4. Numbered(s)'
        BY <1>5, <2>2, <2>a, <2>3 DEF Subscribe, pubVars, Numbered, TypeOK
    <2>5. s \notin todo \cup dead
        BY <1>5 DEF Subscribe, Unlocked, MapInv, DeliveryInv
    <2>6. \A r \in subs' : Missing(r)'
        BY <1>5, <2>1, <2>3, <2>5 DEF Subscribe, pubVars, Missing, DeliveryInv, TypeOK
    <2> QED BY <2>1, <2>4, <2>6 DEF DeliveryInv
<1>6. ASSUME NEW s \in Subs, Receive(s) PROVE DeliveryInv'
    <2>0. \A r \in Subs \ {s} : Alone(r)
        BY <1>6 DEF Receive, pubVars, Alone, TypeOK
    <2>1. \A r \in Subs \ {s} : Numbered(r)' /\ sent(r)' = sent(r)
        BY <2>0, Untouched
    <2>2. /\ Len(Tail(buf[s])) = InBuf(s) - 1
          /\ InBuf(s) \in Nat \ {0}
          /\ Head(buf[s]) = buf[s][1]
          /\ \A i \in 1 .. InBuf(s) - 1 : Tail(buf[s])[i] = buf[s][i+1]
        BY <1>6, HeadTailProperties, EmptySeq DEF Receive, TypeOK, InBuf
    <2>3. cur[s] = 0 /\ InHand(s) = 0 /\ Numbered(s)
        BY <1>6 DEF Receive, DeliveryInv, Numbered, InHand
    <2>4. \A i \in 1 .. InBuf(s) : buf[s][i] = joined[s] + InGot(s) + i
        BY <2>3, Counts DEF Numbered
    <2>5. /\ cur'[s] = buf[s][1] /\ buf'[s] = Tail(buf[s])
          /\ got' = got /\ joined' = joined
          /\ published' = published /\ pc'[s] = "writing"
        BY <1>6, <2>2 DEF Receive, pubVars, TypeOK
    <2>a. cur'[s] = joined[s] + InGot(s) + 1 /\ cur'[s] # 0
        BY <2>2, <2>4, <2>5, Counts
    <2>b. InGot(s)' = InGot(s) /\ InBuf(s)' = InBuf(s) - 1 /\ InHand(s)' = 1
        BY <2>2, <2>5, <2>a DEF InGot, InBuf, InHand
    <2>6. sent(s)' = sent(s)
        BY <2>2, <2>3, <2>b, Counts DEF sent
    <2>7. \A i \in 1 .. InBuf(s) - 1 : buf'[s][i] = joined[s] + InGot(s) + 1 + i
        <3> SUFFICES ASSUME NEW i \in 1 .. InBuf(s) - 1
                     PROVE  buf'[s][i] = joined[s] + InGot(s) + 1 + i
            OBVIOUS
        <3>1. i + 1 \in 1 .. InBuf(s)
            BY <2>2
        <3>2. buf'[s][i] = buf[s][i+1]
            BY <2>2, <2>5
        <3>3. buf[s][i+1] = joined[s] + InGot(s) + (i + 1)
            BY <2>4, <3>1
        <3>4. joined[s] \in Nat /\ InGot(s) \in Nat /\ i \in Nat
            BY Counts
        <3>5. joined[s] + InGot(s) + (i + 1) = joined[s] + InGot(s) + 1 + i
            BY <3>4
        <3> QED BY <3>2, <3>3, <3>5
    <2>8. Numbered(s)'
        BY <2>3, <2>5, <2>a, <2>b, <2>6, <2>7 DEF Numbered
    <2>9. \A r \in subs' : Missing(r)'
        BY <1>6, <2>1, <2>6 DEF Receive, pubVars, Missing, DeliveryInv, TypeOK
    <2> QED BY <2>1, <2>8, <2>9 DEF DeliveryInv
<1>7. ASSUME NEW s \in Subs, Keepalive(s) \/ Stop(s) \/ Leave(s) PROVE DeliveryInv'
    <2>1. /\ subs' \subseteq subs
          /\ got' = got /\ buf' = buf /\ joined' = joined
          /\ \A r \in Subs : closed'[r] = closed[r] \/ pc[r] # "new"
          /\ published' = published /\ todo' = todo /\ dead' = dead
        BY <1>7 DEF Keepalive, Stop, Leave, Unsubscribe, pubVars, MapInv, TypeOK
    <2>2. cur' = cur
        BY <1>7 DEF Keepalive, Stop, Leave, DeliveryInv, Numbered, TypeOK
    <2>3. \A r \in Subs \ {s} : pc'[r] = pc[r]
        BY <1>7 DEF Keepalive, Stop, Leave, TypeOK
    <2>4. \A r \in Subs \ {s} : Numbered(r)' /\ sent(r)' = sent(r)
        <3>1. \A r \in Subs \ {s} : Alone(r)
            BY <2>1, <2>2, <2>3 DEF Alone
        <3> QED BY <3>1, Untouched
    <2>a. InGot(s)' = InGot(s) /\ InBuf(s)' = InBuf(s) /\ InHand(s)' = InHand(s)
        BY <2>1, <2>2 DEF InGot, InBuf, InHand
    <2>5. sent(s)' = sent(s)
        BY <2>a DEF sent
    <2>6. pc'[s] \notin {"new", "waiting"}
        BY <1>7 DEF Keepalive, Stop, Leave, TypeOK
    <2>7. Numbered(s)'
        BY <2>1, <2>2, <2>a, <2>5, <2>6 DEF DeliveryInv, Numbered
    <2>8. \A r \in subs' : Missing(r)'
        BY <2>1, <2>4, <2>5 DEF Missing, DeliveryInv, TypeOK
    <2> QED BY <2>4, <2>7, <2>8 DEF DeliveryInv
<1>8. ASSUME NEW s \in Subs, Written(s) PROVE DeliveryInv'
    <2>0. \A r \in Subs \ {s} : Alone(r)
        BY <1>8 DEF Written, pubVars, Alone, TypeOK
    <2>1. \A r \in Subs \ {s} : Numbered(r)' /\ sent(r)' = sent(r)
        BY <2>0, Untouched
    <2>2. /\ buf' = buf /\ joined' = joined /\ published' = published
          /\ closed' = closed /\ cur'[s] = 0 /\ pc'[s] = "waiting"
          /\ got'[s] = IF cur[s] = 0 THEN got[s] ELSE Append(got[s], cur[s])
        BY <1>8 DEF Written, pubVars, TypeOK
    <2>3. /\ Len(Append(got[s], cur[s])) = InGot(s) + 1
          /\ \A i \in 1 .. InGot(s) : Append(got[s], cur[s])[i] = got[s][i]
          /\ Append(got[s], cur[s])[InGot(s) + 1] = cur[s]
        BY AppendProperties DEF TypeOK, InGot
    <2>4. Numbered(s)
        BY DEF DeliveryInv
    <2>5. InBuf(s)' = InBuf(s) /\ InHand(s)' = 0
        BY <2>2 DEF InBuf, InHand
    <2>6. ASSUME cur[s] = 0 PROVE Numbered(s)' /\ sent(s)' = sent(s)
        <3>1. InGot(s)' = InGot(s) /\ InHand(s) = 0 /\ got'[s] = got[s]
            BY <2>2, <2>6 DEF InGot, InHand
        <3>2. sent(s)' = sent(s)
            BY <2>5, <3>1 DEF sent
        <3> QED BY <2>2, <2>4, <2>5, <2>6, <3>1, <3>2 DEF Numbered
    <2>7. ASSUME cur[s] # 0 PROVE Numbered(s)' /\ sent(s)' = sent(s)
        <3>1. InGot(s)' = InGot(s) + 1 /\ InHand(s) = 1
            BY <2>2, <2>3, <2>7 DEF InGot, InHand
        <3>2. sent(s)' = sent(s)
            BY <2>5, <3>1, Counts DEF sent
        <3>3. cur[s] = joined[s] + (InGot(s) + 1)
            BY <2>4, <2>7, Counts DEF Numbered
        <3>4. \A i \in 1 .. InGot(s) + 1 : got'[s][i] = joined[s] + i
            <4> SUFFICES ASSUME NEW i \in 1 .. InGot(s) + 1 PROVE got'[s][i] = joined[s] + i
                OBVIOUS
            <4>1. CASE i = InGot(s) + 1
                BY <2>2, <2>3, <2>7, <3>3, <4>1
            <4>2. CASE i \in 1 .. InGot(s)
                BY <2>2, <2>3, <2>4, <2>7, <4>2 DEF Numbered
            <4> QED BY <4>1, <4>2, Counts
        <3>5. \A i \in 1 .. InBuf(s) : buf[s][i] = joined[s] + (InGot(s) + 1) + 0 + i
            BY <2>4, <3>1, Counts DEF Numbered
        <3> QED BY <2>2, <2>4, <2>5, <3>1, <3>2, <3>4, <3>5 DEF Numbered
    <2>9. Numbered(s)' /\ sent(s)' = sent(s)
        BY <2>6, <2>7
    <2>10. \A r \in subs' : Missing(r)'
        BY <1>8, <2>1, <2>9 DEF Written, pubVars, Missing, DeliveryInv, TypeOK
    <2> QED BY <2>1, <2>9, <2>10 DEF DeliveryInv
<1> QED
    BY <1>1, <1>2, <1>3, <1>4, <1>5, <1>6, <1>7, <1>8
    DEF Next, Publisher, Handler, WriteFails, ContextDone, SeesClosed
-----------------------------------------------------------------------------
(* The safety properties.                                                  *)

THEOREM Invariant == Spec => []IInv
<1>1. Init => IInv
    BY InitIInv
<1>2. IInv /\ [Next]_vars => IInv'
    BY TypeStep, MapStep, DeliveryStep DEF IInv
<1> QED BY <1>1, <1>2, PTL DEF Spec

\* Two runs of numbers, the second going on where the first ends, make one.
LEMMA RunConcat ==
    ASSUME NEW a \in Seq(Nat), NEW b \in Seq(Nat), NEW j \in Nat,
           \A i \in 1 .. Len(a) : a[i] = j + i,
           \A i \in 1 .. Len(b) : b[i] = j + Len(a) + i
    PROVE  /\ a \o b \in Seq(Nat)
           /\ Len(a \o b) = Len(a) + Len(b)
           /\ \A i \in 1 .. Len(a) + Len(b) : (a \o b)[i] = j + i
<1>1. Len(a) \in Nat /\ Len(b) \in Nat
    BY LenProperties
<1>2. /\ a \o b \in Seq(Nat)
      /\ Len(a \o b) = Len(a) + Len(b)
      /\ \A i \in 1 .. Len(a) + Len(b) :
            (a \o b)[i] = IF i <= Len(a) THEN a[i] ELSE b[i - Len(a)]
    BY ConcatProperties
<1>3. ASSUME NEW i \in 1 .. Len(a) + Len(b) PROVE (a \o b)[i] = j + i
    <2>1. CASE i <= Len(a)
        BY <1>1, <1>2, <2>1
    <2>2. CASE ~(i <= Len(a))
        <3> DEFINE k == i - Len(a)
        <3>1. k \in 1 .. Len(b) /\ j + Len(a) + k = j + i
            BY <1>1, <2>2
        <3>2. b[k] = j + Len(a) + k
            BY <3>1
        <3>3. (a \o b)[i] = b[k]
            BY <1>2, <2>2
        <3> QED BY <3>1, <3>2, <3>3
    <2> QED BY <2>1, <2>2
<1> QED BY <1>2, <1>3

\* What a subscriber received, as numbers.
LEMMA ReceivedIs ==
    ASSUME IInv, NEW s \in Subs
    PROVE  /\ Len(Received(s)) = sent(s)
           /\ DOMAIN Received(s) = 1 .. sent(s)
           /\ \A i \in 1 .. sent(s) : Received(s)[i] = joined[s] + i
<1>1. /\ got[s] \in Seq(Nat) /\ buf[s] \in Seq(Nat) /\ cur[s] \in Nat
      /\ Numbered(s) /\ joined[s] \in Nat
    BY DEF IInv, TypeOK, DeliveryInv
<1>2. /\ Writing(s) \in Seq(Nat) /\ Len(Writing(s)) = InHand(s)
      /\ \A i \in 1 .. InHand(s) : Writing(s)[i] = joined[s] + InGot(s) + i
    <2>1. CASE cur[s] = 0
        BY <2>1, EmptySeq DEF Writing, InHand
    <2>2. CASE cur[s] # 0
        <3>1. Writing(s) = <<cur[s]>>
            BY <1>1, <2>2 DEF Writing, Numbered, IInv, TypeOK
        <3>2. Writing(s) \in Seq(Nat) /\ Len(Writing(s)) = 1 /\ Writing(s)[1] = cur[s]
            BY <1>1, <3>1
        <3>3. InHand(s) = 1 /\ cur[s] = joined[s] + InGot(s) + 1
            BY <1>1, <2>2 DEF InHand, Numbered
        <3>4. \A i \in 1 .. 1 : i = 1
            OBVIOUS
        <3> QED BY <3>2, <3>3, <3>4
    <2> QED BY <2>1, <2>2
<1>3. /\ got[s] \o Writing(s) \in Seq(Nat)
      /\ Len(got[s] \o Writing(s)) = InGot(s) + InHand(s)
      /\ \A i \in 1 .. InGot(s) + InHand(s) : (got[s] \o Writing(s))[i] = joined[s] + i
    <2>1. \A i \in 1 .. Len(got[s]) : got[s][i] = joined[s] + i
        BY <1>1 DEF Numbered, InGot
    <2>2. \A i \in 1 .. Len(Writing(s)) : Writing(s)[i] = joined[s] + Len(got[s]) + i
        BY <1>2 DEF InGot
    <2>3. /\ got[s] \o Writing(s) \in Seq(Nat)
          /\ Len(got[s] \o Writing(s)) = Len(got[s]) + Len(Writing(s))
          /\ \A i \in 1 .. Len(got[s]) + Len(Writing(s)) :
                (got[s] \o Writing(s))[i] = joined[s] + i
        BY <1>1, <1>2, <2>1, <2>2, RunConcat, Zenon
    <2> QED BY <1>2, <2>3 DEF InGot
<1>4. \A i \in 1 .. InBuf(s) : buf[s][i] = joined[s] + (InGot(s) + InHand(s)) + i
    BY <1>1, Counts DEF Numbered, IInv
<1>5. /\ Received(s) \in Seq(Nat)
      /\ Len(Received(s)) = InGot(s) + InHand(s) + InBuf(s)
      /\ \A i \in 1 .. InGot(s) + InHand(s) + InBuf(s) : Received(s)[i] = joined[s] + i
    <2> DEFINE before == got[s] \o Writing(s)
    <2>1. before \in Seq(Nat) /\ \A i \in 1 .. Len(before) : before[i] = joined[s] + i
        BY <1>3
    <2>2. \A i \in 1 .. Len(buf[s]) : buf[s][i] = joined[s] + Len(before) + i
        BY <1>3, <1>4 DEF InBuf
    <2>3. Len(before) = InGot(s) + InHand(s)
        BY <1>3
    <2>4. Received(s) = before \o buf[s]
        BY DEF Received
    <2> HIDE DEF before
    <2>5. /\ before \o buf[s] \in Seq(Nat)
          /\ Len(before \o buf[s]) = Len(before) + Len(buf[s])
          /\ \A i \in 1 .. Len(before) + Len(buf[s]) : (before \o buf[s])[i] = joined[s] + i
        BY <1>1, <2>1, <2>2, RunConcat, Zenon
    <2> QED BY <2>3, <2>4, <2>5 DEF InBuf
<1>6. DOMAIN Received(s) = 1 .. sent(s)
    BY <1>5, LenProperties DEF sent
<1> QED BY <1>5, <1>6 DEF sent

\* Every variable keeps its type; in particular no buffer holds more than
\* subBufferSize events.
THEOREM TypeCorrect == Spec => []TypeOK
BY Invariant, PTL DEF IInv

\* publish and Unsubscribe never send on a closed channel or close one twice.
THEOREM NeverPanics == Spec => []NoPanic
<1>1. IInv => NoPanic
    BY DEF IInv, MapInv, NoPanic
<1> QED BY <1>1, Invariant, PTL

\* ServeHTTP leaves nothing in the map behind when it returns.
THEOREM NeverLeaks == Spec => []NoLeak
<1>1. IInv => NoLeak
    BY DEF IInv, TypeOK, MapInv, NoLeak
<1> QED BY <1>1, Invariant, PTL

\* What publish has put into a subscriber's channel is an unbroken run.
THEOREM DeliversInOrder == Spec => []GapFree
<1>1. IInv => GapFree
    <2> SUFFICES ASSUME IInv, NEW s \in Subs
                 PROVE  /\ \A i \in DOMAIN Received(s) : Received(s)[i] = joined[s] + i
                        /\ joined[s] + Len(Received(s)) =< published
        BY DEF GapFree
    <2>1. joined[s] + sent(s) =< published
        BY DEF IInv, DeliveryInv, Numbered
    <2> QED BY <2>1, ReceivedIs
<1> QED BY <1>1, Invariant, PTL

\* publish drops every subscriber for which it had no room.
THEOREM MissingOneDrops == Spec => []MissMeansDrop
<1>1. IInv => MissMeansDrop
    <2> SUFFICES ASSUME IInv, pubpc = "idle", NEW s \in subs
                 PROVE  joined[s] + Len(Received(s)) = published
        BY DEF MissMeansDrop
    <2>1. s \in Subs /\ s \notin todo \cup dead
        BY DEF IInv, TypeOK, MapInv
    <2>2. joined[s] + sent(s) = published
        BY <2>1 DEF IInv, DeliveryInv, Missing
    <2> QED BY <2>1, <2>2, ReceivedIs
<1> QED BY <1>1, Invariant, PTL


\* publish closes the channel of no subscriber that has everything.
THEOREM DropsOnlyWhoMissed == Spec => DropMeansMiss
<1> DEFINE Dropped(s) == closed'[s] /\ ~closed[s] /\ pc[s] # "leaving"
<1>1. ASSUME IInv, [Next]_vars, NEW s \in Subs, Dropped(s)
      PROVE  joined[s] + Len(Received(s)) < published
    <2>1. \A r \in Subs : closed'[r] # closed[r] => Reap(r) \/ Leave(r)
        BY <1>1 DEF IInv, TypeOK, Next, vars, Publisher, Handler, BeginPublish, EndFanout,
                    EndPublish, Send, Reap, Unsubscribe, Subscribe, Receive, Keepalive,
                    Written, Stop, WriteFails, ContextDone, SeesClosed, Leave
    <2>2. s \in dead /\ s \in subs
        BY <1>1, <2>1 DEF Reap, Leave, Unsubscribe, IInv, TypeOK
    <2>3. joined[s] + sent(s) = published - 1
        BY <1>1, <2>2 DEF IInv, DeliveryInv, Missing
    <2>4. joined[s] + sent(s) < published
        BY <1>1, <2>3, Counts DEF IInv
    <2> QED BY <1>1, <2>4, ReceivedIs
<1>2. IInv /\ [Next]_vars => [\A s \in Subs : Dropped(s)
                                => joined[s] + Len(Received(s)) < published]_vars
    BY <1>1
<1> QED BY <1>2, Invariant, PTL DEF Spec, DropMeansMiss
-----------------------------------------------------------------------------
(* The refinement of Feed.                                                 *)

\* The feed's cursors, as the mapping gives them.
Phase == [s \in Subs |-> FeedPhase(s)]
To == [s \in Subs |-> joined[s] + InGot(s)]
Limit == [s \in Subs |-> IF FeedPhase(s) = "cut" THEN joined[s] + sent(s) ELSE 0]

MappingAgrees ==
    /\ To = [s \in Subs |-> joined[s] + Len(got[s])]
    /\ Limit = [s \in Subs |-> IF FeedPhase(s) = "cut"
                               THEN joined[s] + Len(Received(s)) ELSE 0]

LEMMA Mapped == IInv => MappingAgrees
BY ReceivedIs DEF To, Limit, InGot, MappingAgrees

LEMMA MappedAfter == IInv' => MappingAgrees'
BY Mapped, PTL

\* The feed's next-state relation over those cursors.
FeedStep ==
    \/ /\ published < MaxEvents
       /\ published' = published + 1
       /\ Phase' = Phase /\ joined' = joined /\ To' = To /\ Limit' = Limit
    \/ \E r \in Subs :
        \/ /\ Phase[r] = "off"
           /\ Phase' = [Phase EXCEPT ![r] = "on"]
           /\ joined' = [joined EXCEPT ![r] = published]
           /\ To' = [To EXCEPT ![r] = published]
           /\ published' = published /\ Limit' = Limit
        \/ /\ \/ Phase[r] = "on" /\ To[r] < published
              \/ Phase[r] = "cut" /\ To[r] < Limit[r]
           /\ To' = [To EXCEPT ![r] = To[r] + 1]
           /\ published' = published /\ Phase' = Phase /\ joined' = joined /\ Limit' = Limit
        \/ /\ Phase[r] = "on"
           /\ \E n \in To[r] .. published - 1 : Limit' = [Limit EXCEPT ![r] = n]
           /\ Phase' = [Phase EXCEPT ![r] = "cut"]
           /\ published' = published /\ joined' = joined /\ To' = To
        \/ /\ Phase[r] \in {"on", "cut"}
           /\ Phase' = [Phase EXCEPT ![r] = "gone"]
           /\ Limit' = [Limit EXCEPT ![r] = 0]
           /\ published' = published /\ joined' = joined /\ To' = To

FeedStutter ==
    published' = published /\ Phase' = Phase /\ joined' = joined /\ To' = To /\ Limit' = Limit

\* A step that keeps phases, arrivals, cursors and, of those cut off, what is
\* still to come keeps the mapped state.
LEMMA SamePhase ==
    ASSUME \A r \in Subs : FeedPhase(r)' = FeedPhase(r)
    PROVE  Phase' = Phase
BY DEF Phase

LEMMA SameTo ==
    ASSUME joined' = joined, \A r \in Subs : InGot(r)' = InGot(r)
    PROVE  To' = To
BY DEF To

LEMMA SameLimit ==
    ASSUME joined' = joined, \A r \in Subs : FeedPhase(r)' = FeedPhase(r),
           \A r \in Subs : FeedPhase(r) = "cut" => sent(r)' = sent(r)
    PROVE  Limit' = Limit
BY DEF Limit

LEMMA FeedRefines == ASSUME IInv, [Next]_vars PROVE FeedStep \/ FeedStutter
<1> USE DEF IInv
<1>1. CASE BeginPublish
    <2>1. /\ published < MaxEvents /\ published' = published + 1
          /\ joined' = joined /\ pc' = pc /\ closed' = closed
          /\ got' = got /\ cur' = cur /\ buf' = buf
        BY <1>1 DEF BeginPublish, handlerVars
    <2>2. \A r \in Subs : /\ FeedPhase(r)' = FeedPhase(r)
                          /\ InGot(r)' = InGot(r) /\ sent(r)' = sent(r)
        BY <2>1 DEF FeedPhase, sent, InGot, InHand, InBuf
    <2> QED BY <2>1, <2>2, SamePhase, SameTo, SameLimit DEF FeedStep
<1>2. ASSUME NEW s \in Subs, Send(s) PROVE FeedStutter
    <2>1. /\ published' = published /\ joined' = joined /\ pc' = pc /\ closed' = closed
          /\ got' = got /\ cur' = cur
          /\ \A r \in Subs \ {s} : buf'[r] = buf[r]
        BY <1>2, SendCases DEF Send, handlerVars, TypeOK
    <2>2. FeedPhase(s) # "cut"
        BY <1>2 DEF Send, MapInv, FeedPhase
    <2>3. \A r \in Subs : FeedPhase(r)' = FeedPhase(r) /\ InGot(r)' = InGot(r)
        BY <2>1 DEF FeedPhase, InGot
    <2>4. \A r \in Subs : FeedPhase(r) = "cut" => sent(r)' = sent(r)
        BY <2>1, <2>2 DEF sent, InGot, InHand, InBuf
    <2> QED BY <2>1, <2>3, <2>4, SamePhase, SameTo, SameLimit DEF FeedStutter
<1>3. CASE EndFanout \/ EndPublish \/ UNCHANGED vars
    <2>1. /\ published' = published /\ joined' = joined /\ pc' = pc /\ closed' = closed
          /\ got' = got /\ cur' = cur /\ buf' = buf
        BY <1>3 DEF EndFanout, EndPublish, vars, handlerVars
    <2>2. \A r \in Subs : /\ FeedPhase(r)' = FeedPhase(r)
                          /\ InGot(r)' = InGot(r) /\ sent(r)' = sent(r)
        BY <2>1 DEF FeedPhase, sent, InGot, InHand, InBuf
    <2> QED BY <2>1, <2>2, SamePhase, SameTo, SameLimit DEF FeedStutter
<1>4. ASSUME NEW s \in Subs, Reap(s) PROVE FeedStep \/ FeedStutter
    <2>1. /\ published' = published /\ joined' = joined /\ pc' = pc
          /\ got' = got /\ cur' = cur /\ buf' = buf
        BY <1>4 DEF Reap, handlerVars
    <2>2. \A r \in Subs : InGot(r)' = InGot(r) /\ sent(r)' = sent(r)
        BY <2>1 DEF sent, InGot, InHand, InBuf
    <2>3. To' = To
        BY <2>1, <2>2, SameTo
    <2>4. \A r \in Subs \ {s} : FeedPhase(r)' = FeedPhase(r)
        BY <1>4, <2>1 DEF Reap, Unsubscribe, FeedPhase, TypeOK
    <2>5. CASE s \notin subs \/ pc[s] = "leaving"
        <3>1. FeedPhase(s)' = FeedPhase(s)
            BY <1>4, <2>1, <2>5 DEF Reap, Unsubscribe, FeedPhase, TypeOK
        <3> QED BY <2>1, <2>2, <2>3, <2>4, <3>1, SamePhase, SameLimit DEF FeedStutter
    <2>6. CASE s \in subs /\ pc[s] # "leaving"
        <3>1. FeedPhase(s) = "on" /\ FeedPhase(s)' = "cut"
            BY <1>4, <2>1, <2>6 DEF Reap, Unsubscribe, FeedPhase, TypeOK, MapInv
        <3>2. joined[s] + sent(s) = published - 1
            BY <1>4, <2>6 DEF Reap, DeliveryInv, Missing
        <3>3. To[s] \in Nat /\ To[s] =< published - 1
            <4>1. To[s] = joined[s] + InGot(s)
                BY DEF To
            <4> QED BY <3>2, <4>1, Counts DEF sent
        <3>4. published - 1 \in To[s] .. published - 1
            BY <3>3, Counts
        <3>5. Phase' = [Phase EXCEPT ![s] = "cut"]
            BY <2>4, <3>1 DEF Phase
        <3>6. Limit' = [Limit EXCEPT ![s] = published - 1]
            BY <2>1, <2>2, <2>4, <3>1, <3>2 DEF Limit
        <3>7. Phase[s] = "on"
            BY <3>1 DEF Phase
        <3> QED BY <2>1, <2>3, <3>4, <3>5, <3>6, <3>7 DEF FeedStep
    <2> QED BY <2>5, <2>6
<1>5. ASSUME NEW s \in Subs, Subscribe(s) PROVE FeedStep
    <2>1. /\ published' = published /\ joined' = [joined EXCEPT ![s] = published]
          /\ pc' = [pc EXCEPT ![s] = "waiting"] /\ pc[s] = "new"
          /\ closed' = closed /\ got' = got /\ cur' = cur /\ buf' = buf
        BY <1>5 DEF Subscribe, pubVars
    <2>2. ~closed[s] /\ InGot(s) = 0
        BY <2>1 DEF DeliveryInv, Numbered
    <2>3. \A r \in Subs : InGot(r)' = InGot(r) /\ sent(r)' = sent(r)
        BY <2>1 DEF sent, InGot, InHand, InBuf
    <2>4. FeedPhase(s) = "off" /\ FeedPhase(s)' = "on"
        BY <2>1, <2>2 DEF FeedPhase, TypeOK
    <2>5. \A r \in Subs \ {s} : FeedPhase(r)' = FeedPhase(r) /\ joined'[r] = joined[r]
        BY <2>1 DEF FeedPhase, TypeOK
    <2>6. joined'[s] + InGot(s)' = published
        BY <2>1, <2>2, <2>3, Counts DEF TypeOK
    <2>7. Phase[s] = "off" /\ Phase' = [Phase EXCEPT ![s] = "on"]
        BY <2>4, <2>5 DEF Phase
    <2>8. To' = [To EXCEPT ![s] = published]
        BY <2>3, <2>5, <2>6 DEF To
    <2>9. Limit' = Limit
        BY <2>3, <2>4, <2>5 DEF Limit
    <2> QED BY <2>1, <2>7, <2>8, <2>9 DEF FeedStep
<1>6. ASSUME NEW s \in Subs, Receive(s) \/ Keepalive(s) PROVE FeedStutter
    <2>1. /\ published' = published /\ joined' = joined /\ closed' = closed /\ got' = got
          /\ pc' = [pc EXCEPT ![s] = "writing"] /\ pc[s] = "waiting"
          /\ \A r \in Subs \ {s} : cur'[r] = cur[r] /\ buf'[r] = buf[r]
        BY <1>6 DEF Receive, Keepalive, pubVars, TypeOK
    <2>2. \A r \in Subs : FeedPhase(r)' = FeedPhase(r) /\ InGot(r)' = InGot(r)
        BY <2>1 DEF FeedPhase, InGot, TypeOK
    <2>3. \A r \in Subs \ {s} : sent(r)' = sent(r)
        BY <2>1 DEF sent, InGot, InHand, InBuf
    <2>4. cur[s] = 0 /\ InHand(s) = 0
        BY <2>1 DEF DeliveryInv, Numbered, InHand
    <2>5. sent(s)' = sent(s)
        <3>1. CASE Keepalive(s)
            <4>1. cur'[s] = 0 /\ buf' = buf
                BY <3>1 DEF Keepalive, TypeOK
            <4>2. InHand(s)' = 0 /\ InBuf(s)' = InBuf(s)
                BY <4>1 DEF InHand, InBuf
            <4> QED BY <2>2, <2>4, <4>2 DEF sent
        <3>2. CASE Receive(s)
            <4>1. /\ Len(Tail(buf[s])) = InBuf(s) - 1
                  /\ InBuf(s) \in Nat \ {0}
                  /\ Head(buf[s]) = buf[s][1]
                BY <3>2, HeadTailProperties, EmptySeq DEF Receive, TypeOK, InBuf
            <4>2. cur'[s] = buf[s][1] /\ buf'[s] = Tail(buf[s])
                BY <3>2, <4>1 DEF Receive, TypeOK
            <4>3. buf[s][1] = joined[s] + InGot(s) + InHand(s) + 1
                BY <4>1 DEF DeliveryInv, Numbered
            <4>4. cur'[s] # 0
                BY <4>2, <4>3, Counts
            <4>5. InHand(s)' = 1 /\ InBuf(s)' = InBuf(s) - 1
                BY <4>1, <4>2, <4>4 DEF InHand, InBuf
            <4> QED BY <2>2, <2>4, <4>1, <4>5, Counts DEF sent
        <3> QED BY <1>6, <3>1, <3>2
    <2> QED BY <2>1, <2>2, <2>3, <2>5, SamePhase, SameTo, SameLimit DEF FeedStutter
<1>7. ASSUME NEW s \in Subs, Written(s) PROVE FeedStep \/ FeedStutter
    <2>1. /\ published' = published /\ joined' = joined /\ closed' = closed /\ buf' = buf
          /\ pc' = [pc EXCEPT ![s] = "waiting"] /\ pc[s] = "writing"
          /\ cur' = [cur EXCEPT ![s] = 0]
          /\ \A r \in Subs \ {s} : got'[r] = got[r]
        BY <1>7 DEF Written, pubVars, TypeOK
    <2>2. \A r \in Subs : FeedPhase(r)' = FeedPhase(r)
        BY <2>1 DEF FeedPhase, TypeOK
    <2>3. \A r \in Subs \ {s} : InGot(r)' = InGot(r) /\ sent(r)' = sent(r)
        BY <2>1 DEF sent, InGot, InHand, InBuf, TypeOK
    <2>4. InHand(s)' = 0 /\ InBuf(s)' = InBuf(s)
        BY <2>1 DEF InHand, InBuf, TypeOK
    <2>5. CASE cur[s] = 0
        <3>1. InHand(s) = 0 /\ InGot(s)' = InGot(s)
            BY <1>7, <2>5 DEF Written, InHand, InGot
        <3>2. sent(s)' = sent(s)
            BY <2>4, <3>1 DEF sent
        <3> QED BY <2>1, <2>2, <2>3, <3>1, <3>2, SamePhase, SameTo, SameLimit DEF FeedStutter
    <2>6. CASE cur[s] # 0
        <3>1. Len(Append(got[s], cur[s])) = InGot(s) + 1 /\ got'[s] = Append(got[s], cur[s])
            BY <1>7, <2>6, AppendProperties DEF Written, TypeOK, InGot
        <3>2. InHand(s) = 1 /\ InGot(s)' = InGot(s) + 1
            BY <2>6, <3>1 DEF InHand, InGot
        <3>3. sent(s)' = sent(s)
            BY <2>4, <3>2, Counts DEF sent
        <3>4. Phase' = Phase /\ Limit' = Limit
            BY <2>1, <2>2, <2>3, <3>3, SamePhase, SameLimit
        <3>5. To[s] = joined[s] + InGot(s) /\ To' = [To EXCEPT ![s] = To[s] + 1]
            <4>1. joined[s] + (InGot(s) + 1) = (joined[s] + InGot(s)) + 1
                BY Counts
            <4> QED BY <2>1, <2>3, <3>2, <4>1 DEF To
        <3>6. To[s] < joined[s] + sent(s)
            BY <3>2, <3>5, Counts DEF sent
        <3>7. joined[s] + sent(s) =< published
            BY DEF DeliveryInv, Numbered
        <3>8. \/ Phase[s] = "on" /\ To[s] < published
              \/ Phase[s] = "cut" /\ To[s] < Limit[s]
            <4>1. To[s] < published
                BY <3>5, <3>6, <3>7, Counts
            <4>2. FeedPhase(s) \in {"on", "cut"}
                BY <2>1 DEF FeedPhase
            <4> QED BY <3>6, <4>1, <4>2 DEF Phase, Limit
        <3> QED BY <2>1, <3>4, <3>5, <3>8 DEF FeedStep
    <2> QED BY <2>5, <2>6
<1>8. ASSUME NEW s \in Subs, Stop(s), pc[s] \in {"waiting", "writing"} PROVE FeedStep
    <2>1. /\ published' = published /\ joined' = joined /\ closed' = closed /\ buf' = buf
          /\ cur' = cur /\ got' = got /\ pc' = [pc EXCEPT ![s] = "leaving"]
        BY <1>8 DEF Stop, pubVars
    <2>2. \A r \in Subs : InGot(r)' = InGot(r) /\ sent(r)' = sent(r)
        BY <2>1 DEF sent, InGot, InHand, InBuf
    <2>3. \A r \in Subs \ {s} : FeedPhase(r)' = FeedPhase(r)
        BY <2>1 DEF FeedPhase, TypeOK
    <2>4. FeedPhase(s) \in {"on", "cut"} /\ FeedPhase(s)' = "gone"
        BY <1>8, <2>1 DEF FeedPhase, TypeOK
    <2>5. Phase[s] \in {"on", "cut"} /\ Phase' = [Phase EXCEPT ![s] = "gone"]
        BY <2>3, <2>4 DEF Phase
    <2>6. Limit' = [Limit EXCEPT ![s] = 0]
        BY <2>1, <2>2, <2>3, <2>4 DEF Limit
    <2>7. To' = To
        BY <2>1, <2>2, SameTo
    <2> QED BY <2>1, <2>5, <2>6, <2>7 DEF FeedStep
<1>9. ASSUME NEW s \in Subs, Leave(s) PROVE FeedStutter
    <2>1. /\ published' = published /\ joined' = joined /\ buf' = buf
          /\ cur' = cur /\ got' = got /\ pc' = [pc EXCEPT ![s] = "done"] /\ pc[s] = "leaving"
          /\ \A r \in Subs \ {s} : closed'[r] = closed[r]
        BY <1>9 DEF Leave, Unsubscribe, pubVars, TypeOK
    <2>2. \A r \in Subs : InGot(r)' = InGot(r) /\ sent(r)' = sent(r)
        BY <2>1 DEF sent, InGot, InHand, InBuf
    <2>3. \A r \in Subs : FeedPhase(r)' = FeedPhase(r)
        BY <2>1 DEF FeedPhase, TypeOK
    <2> QED BY <2>1, <2>2, <2>3, SamePhase, SameTo, SameLimit DEF FeedStutter
<1> QED
    BY <1>1, <1>2, <1>3, <1>4, <1>5, <1>6, <1>7, <1>8, <1>9
    DEF Next, Publisher, Handler, WriteFails, ContextDone, SeesClosed

\* The same, over the expressions of the INSTANCE.
LEMMA FeedSimulation ==
    ASSUME IInv, IInv', FeedStep \/ FeedStutter
    PROVE  [Stream!FeedNext]_(Stream!feedVars)
<1> DEFINE T == [s \in Subs |-> joined[s] + Len(got[s])]
           L == [s \in Subs |-> IF FeedPhase(s) = "cut" THEN joined[s] + Len(Received(s)) ELSE 0]
           P == [s \in Subs |-> FeedPhase(s)]
<1>3. To = T /\ Limit = L /\ To' = T' /\ Limit' = L' /\ Phase = P /\ Phase' = P'
    BY Mapped, MappedAfter DEF Phase, MappingAgrees
<1> HIDE DEF T, L, P
<1>4. CASE FeedStutter
    <2>1. published' = published /\ P' = P /\ joined' = joined /\ T' = T /\ L' = L
        BY <1>3, <1>4 DEF FeedStutter
    <2> QED BY <2>1 DEF Stream!feedVars, T, L, P
<1>5. CASE FeedStep
    <2>1. Stream!FeedNext
        BY <1>3, <1>5 DEF FeedStep, Stream!FeedNext, Stream!Append1, Stream!Join,
                          Stream!Advance, Stream!Read, Stream!Cut, Stream!Depart, T, L, P
    <2> QED BY <2>1
<1> QED BY <1>4, <1>5

\* The registry's fan-out with its stream handlers is a live stream in the
\* sense of Feed: what the comments of Subscribe and publish promise.
THEOREM RefinesFeed == Spec => ImplementsFeed
<1>1. Init => Stream!FeedInit
    <2> SUFFICES ASSUME Init PROVE Stream!FeedInit
        OBVIOUS
    <2>1. [s \in Subs |-> joined[s] + Len(got[s])] = [s \in Subs |-> 0]
        BY EmptySeq DEF Init
    <2>2. \A s \in Subs : FeedPhase(s) = "off"
        BY DEF Init, FeedPhase
    <2> QED BY <2>1, <2>2 DEF Init, Stream!FeedInit
<1>2. IInv /\ IInv' /\ [Next]_vars => [Stream!FeedNext]_(Stream!feedVars)
    BY FeedRefines, FeedSimulation
<1> QED BY <1>1, <1>2, Invariant, PTL DEF Spec, ImplementsFeed, Stream!FeedSafety
=============================================================================
