---------------------------- MODULE ScrapeProofs ----------------------------
(***************************************************************************)
(* Proofs about Scrape and Exposition: for any number of requests, any     *)
(* lists, any timeout and any number of rows, whatever Asterisk answers    *)
(* and whenever the connection breaks, what is reported of a list is what  *)
(* Asterisk listed, `up' is true, no connection is left behind, c.mu is    *)
(* held no longer than twice the timeout, and the samples made of the rows *)
(* add up.                                                                 *)
(***************************************************************************)
EXTENDS Exposition, SequenceTheorems, FunctionTheorems, FiniteSetTheorems, TLAPS

(***************************************************************************)
(* The inductive invariant.                                                *)
(***************************************************************************)

Active == {"send", "first", "list"}

\* Where a scrape is, and what it holds there.
ControlInv ==
    /\ holder = Nobody <=> at = "idle"
    /\ conn = "closed" <=> at \in {"idle", "dial", "report"}
    /\ sessions = IF conn = "closed" THEN 0 ELSE 1
    /\ at \in {"dial", "banner"} => k = 0
    /\ at \in Active => k # 0
    /\ at = "list" => Script[k] \in ListPhases

\* Only the wait for a banner may pass the deadline, and it begins before it.
TimeInv ==
    /\ elapsed =< 2 * Timeout
    /\ at = "banner" => since < Timeout /\ elapsed =< since + Timeout
    /\ at \in {"dial", "first", "list"} => elapsed =< Timeout
    /\ at \in {"dial", "banner"} \/ elapsed > Timeout => emitted = Nothing

\* After its first s messages w is the rest of a list with n rows left, of which
\* less arrives if the connection has broken.
Rest(w, s, n) ==
    /\ Len(w) =< s + n + 1
    /\ conn = "open" => Len(w) = s + n + 1
    /\ \A i \in 1 .. Len(w) :
          i > s => w[i] = Msg(k, IF i =< s + n THEN "item" ELSE "complete")

\* What a verdict says is what Asterisk has of the list.
Says(kind, p) ==
    \/ kind = "ok" /\ listed[p] >= 0 /\ Rest(wire, 1, listed[p])
    \/ kind = "refused" /\ listed[p] = -3 /\ Len(wire) = 1
    \/ kind = "unavailable" /\ listed[p] = -2 /\ Len(wire) = 1

\* The answer to action k is the only one there can be.
Awaits ==
    \/ asked = <<k>> /\ wire = <<>>
    \/ asked = <<>> /\ wire = <<>> /\ conn = "broken"
    \/ /\ asked = <<>> /\ wire # <<>>
       /\ wire[1].id = k
       /\ IF Script[k] \in ListPhases THEN Says(wire[1].kind, Script[k]) ELSE Len(wire) = 1

Message == [id : Nat, kind : {"ok", "item", "complete", "refused", "unavailable"}]

\* What Asterisk and the connection hold: as long as there is time, nothing of
\* an earlier action.
WireInv ==
    /\ wire \in Seq(Message)
    /\ \/ asked = <<>>
       \/ conn = "open" /\ \E j \in 1 .. k :
              /\ asked = <<j>> /\ (at = "send" => j < k)
              /\ Script[j] \in ListPhases => listed[Script[j]] = -1
    /\ at \notin Active \/ (at = "send" /\ elapsed < Timeout) => asked = <<>> /\ wire = <<>>
    /\ at \in {"send", "first"} => items = 0
    /\ at = "first" => Awaits
    /\ at = "list" => /\ asked = <<>>
                      /\ items =< listed[Script[k]]
                      /\ Rest(wire, 0, listed[Script[k]] - items)

\* No list is asked for before its turn.
TurnInv ==
    \A j \in 1 .. Len(Script) :
        j > k \/ (j = k /\ at = "send") => (Script[j] \in ListPhases => listed[Script[j]] = -1)

\* What has become of the lists that are done with.
RowsInv ==
    /\ \A p \in ListPhases : emitted[p] # -1 => emitted[p] = listed[p]
    /\ conn = "open" /\ elapsed < Timeout =>
           \A j \in 1 .. k - 1 : Script[j] \in ListPhases =>
               /\ listed[Script[j]] # -1
               /\ listed[Script[j]] >= 0 => emitted[Script[j]] = listed[Script[j]]

\* A phase still to come has not failed, and without a failure nothing is missing.
ErrInv ==
    at # "idle" =>
        /\ \A p \in DOMAIN errors : errors[p] - before[p] \in {0, 1}
        /\ firstErr <=> errors # before
        /\ at # "report" =>
               /\ errors["dial"] = before["dial"]
               /\ \A j \in 1 .. Len(Script) - 1 :
                      j >= k => errors[PhaseOf(j)] = before[PhaseOf(j)]
        /\ ~firstErr =>
               /\ at = "report" => k = Len(Script)
               /\ k >= 4 => emitted["core_status"] # -1
               /\ \A j \in 1 .. k - 1 : Script[j] \in ListPhases =>
                      \/ emitted[Script[j]] # -1
                      \/ listed[Script[j]] = -2 /\ TakesUnavailable(Script[j])

IInv == TypeOK /\ ControlInv /\ TimeInv /\ WireInv /\ TurnInv /\ RowsInv /\ ErrInv
-----------------------------------------------------------------------------
\* The script: login, the core figures, each list once, logoff.
LEMMA ScriptShape ==
    /\ Len(Script) \in Nat /\ Len(Script) >= 4
    /\ Script[1] = "Login" /\ Script[2] = "CoreSettings" /\ Script[3] = "CoreStatus"
    /\ Script[Len(Script)] = "Logoff"
    /\ \A j \in 4 .. Len(Script) - 1 : Script[j] \in ListPhases
    /\ ListPhases \subseteq {"channels", "sip_peers", "pjsip_endpoints", "pjsip_contacts", "queues"}
    /\ \A i, j \in 1 .. Len(Script) : Script[i] = Script[j] => i = j
    /\ \A p \in ListPhases : \E j \in 4 .. Len(Script) - 1 : Script[j] = p
<1> DEFINE names == {"channels", "sip_peers", "pjsip_endpoints", "pjsip_contacts", "queues"}
           words == names \cup {"Login", "CoreSettings", "CoreStatus", "Logoff"}
           head == <<"Login", "CoreSettings", "CoreStatus">>
           body == head \o Lists
<1>1. Lists \in Seq(names)
    BY ScrapeAssumption
<1>2. head \in Seq(words) /\ Len(head) = 3 /\ <<"Logoff">> \in Seq(words) /\ Len(<<"Logoff">>) = 1
    OBVIOUS
<1>3. Len(Lists) \in Nat /\ DOMAIN Lists = 1 .. Len(Lists) /\ Lists \in Seq(words)
    BY <1>1
<1> HIDE DEF head, words
<1>4. /\ body \in Seq(words) /\ Len(body) = Len(Lists) + 3
      /\ \A i \in 1 .. 3 : body[i] = head[i]
      /\ \A i \in 4 .. Len(Lists) + 3 : body[i] = Lists[i - 3]
    <2>1. /\ body \in Seq(words) /\ Len(body) = Len(head) + Len(Lists)
          /\ \A i \in 1 .. Len(head) + Len(Lists) :
                 body[i] = IF i =< Len(head) THEN head[i] ELSE Lists[i - Len(head)]
        BY <1>2, <1>3, ConcatProperties
    <2> QED BY <1>2, <1>3, <2>1
<1> HIDE DEF body
<1>5. /\ Script \in Seq(words) /\ Len(Script) = Len(Lists) + 4
      /\ \A i \in 1 .. Len(Lists) + 3 : Script[i] = body[i]
      /\ Script[Len(Lists) + 4] = "Logoff"
    <2>1. Script = body \o <<"Logoff">>
        BY DEF Script, body, head
    <2> QED BY <1>2, <1>3, <1>4, <2>1, ConcatProperties
<1>6. head[1] = "Login" /\ head[2] = "CoreSettings" /\ head[3] = "CoreStatus"
    BY DEF head
<1>7. /\ Script[1] = "Login" /\ Script[2] = "CoreSettings" /\ Script[3] = "CoreStatus"
      /\ \A i \in 4 .. Len(Lists) + 3 : Script[i] = Lists[i - 3]
    BY <1>3, <1>4, <1>5, <1>6
<1>8. ListPhases = {Lists[i] : i \in 1 .. Len(Lists)}
    BY <1>3 DEF ListPhases, ToSet
<1>9. ListPhases \subseteq names
    BY <1>1, <1>3, <1>8
<1>10. \A j \in 4 .. Len(Script) - 1 : Script[j] \in ListPhases
    BY <1>3, <1>5, <1>7, <1>8
<1>11. ASSUME NEW i \in 1 .. Len(Script), NEW j \in 1 .. Len(Script), Script[i] = Script[j]
       PROVE  i = j
    <2>1. \A n \in 1 .. Len(Lists), m \in 1 .. Len(Lists) : Lists[n] = Lists[m] => n = m
        BY <1>3, ScrapeAssumption DEF IsInjective
    <2>2. CASE i \in 4 .. Len(Script) - 1 /\ j \in 4 .. Len(Script) - 1
        BY <1>3, <1>5, <1>7, <1>11, <2>1, <2>2
    <2>3. CASE ~(i \in 4 .. Len(Script) - 1 /\ j \in 4 .. Len(Script) - 1)
        <3>1. \A n \in 4 .. Len(Script) - 1 :
                  Script[n] \notin {"Login", "CoreSettings", "CoreStatus", "Logoff"}
            BY <1>9, <1>10
        <3>2. \A n \in 1 .. Len(Script) :
                  n \in 4 .. Len(Script) - 1 \/ n \in {1, 2, 3, Len(Script)}
            BY <1>3, <1>5
        <3> QED BY <1>3, <1>5, <1>7, <1>11, <2>3, <3>1, <3>2
    <2> QED BY <2>2, <2>3
<1>12. ASSUME NEW p \in ListPhases PROVE \E j \in 4 .. Len(Script) - 1 : Script[j] = p
    <2>1. PICK i \in 1 .. Len(Lists) : p = Lists[i]
        BY <1>8
    <2>2. i + 3 \in 4 .. Len(Script) - 1 /\ Script[i + 3] = p
        BY <1>3, <1>5, <1>7, <2>1
    <2> QED BY <2>2
<1> QED BY <1>3, <1>5, <1>7, <1>9, <1>10, <1>11, <1>12

\* What of it the actions tell apart.
LEMMA ScriptFacts ==
    /\ Len(Script) \in Nat /\ Len(Script) >= 4
    /\ \A j \in 1 .. Len(Script) :
          /\ Script[j] = "Login" <=> j = 1
          /\ Script[j] = "CoreSettings" <=> j = 2
          /\ Script[j] = "CoreStatus" <=> j = 3
          /\ Script[j] = "Logoff" <=> j = Len(Script)
          /\ Script[j] \in ListPhases <=> j \in 4 .. Len(Script) - 1
    /\ \A i, j \in 1 .. Len(Script) : Script[i] = Script[j] => i = j
    /\ \A p \in ListPhases : \E j \in 4 .. Len(Script) - 1 : Script[j] = p
    /\ \A w \in {"dial", "login", "core_status", "Login", "CoreSettings", "CoreStatus", "Logoff"} :
          w \notin ListPhases
<1>1. \A w \in {"dial", "login", "core_status", "Login", "CoreSettings", "CoreStatus", "Logoff"} :
          w \notin ListPhases
    BY ScriptShape
<1>2. ASSUME NEW j \in 1 .. Len(Script)
      PROVE  Script[j] \in ListPhases <=> j \in 4 .. Len(Script) - 1
    <2>1. Len(Script) \in Nat /\ Len(Script) >= 4
        BY ScriptShape
    <2>2. j \in 4 .. Len(Script) - 1 \/ (j \in {1, 2, 3, Len(Script)} /\ j \notin 4 .. Len(Script) - 1)
        BY <2>1
    <2>3. j \in {1, 2, 3, Len(Script)} => Script[j] \in {"Login", "CoreSettings", "CoreStatus", "Logoff"}
        BY ScriptShape
    <2> QED BY <1>1, <2>2, <2>3, ScriptShape
<1>3. 1 \in 1 .. Len(Script) /\ 2 \in 1 .. Len(Script) /\ 3 \in 1 .. Len(Script) /\ Len(Script) \in 1 .. Len(Script)
    BY ScriptShape
<1>4. ASSUME NEW j \in 1 .. Len(Script)
      PROVE  /\ Script[j] = "Login" <=> j = 1
             /\ Script[j] = "CoreSettings" <=> j = 2
             /\ Script[j] = "CoreStatus" <=> j = 3
             /\ Script[j] = "Logoff" <=> j = Len(Script)
    BY <1>3, ScriptShape
<1> QED BY <1>1, <1>2, <1>4, ScriptShape
-----------------------------------------------------------------------------
\* No phase has emitted, or has been asked for.
LEMMA NothingTyped ==
    Nothing \in [Phases -> -1 .. MaxItems] /\ Nothing \in [Phases -> -3 .. MaxItems]
<1>1. -1 \in -1 .. MaxItems /\ -1 \in -3 .. MaxItems
    BY ScrapeAssumption
<1> QED BY <1>1 DEF Nothing

\* Every action but the login and the logoff belongs to a phase, and no two to
\* one but those of collectCore.
LEMMA PhaseFacts ==
    /\ PhaseOf(1) = "login"
    /\ \A j \in 1 .. Len(Script) - 1 :
          /\ j \in {2, 3} => PhaseOf(j) = "core_status"
          /\ j >= 4 => PhaseOf(j) = Script[j]
          /\ j >= 2 => PhaseOf(j) \in Phases
          /\ PhaseOf(j) # "dial"
    /\ \A i, j \in 1 .. Len(Script) - 1 :
          PhaseOf(i) = PhaseOf(j) => i = j \/ (i \in {2, 3} /\ j \in {2, 3})
<1>1. Len(Script) \in Nat /\ Len(Script) >= 4
    BY ScriptFacts
<1>2. PhaseOf(1) = "login"
    BY <1>1, ScriptFacts DEF PhaseOf
<1>3. ASSUME NEW j \in 1 .. Len(Script) - 1
      PROVE  /\ j \in {2, 3} => PhaseOf(j) = "core_status"
             /\ j >= 4 => PhaseOf(j) = Script[j] /\ Script[j] \in ListPhases
    BY <1>1, ScriptFacts DEF PhaseOf
<1>4. ASSUME NEW j \in 1 .. Len(Script) - 1
      PROVE  (j >= 2 => PhaseOf(j) \in Phases) /\ PhaseOf(j) # "dial"
    <2>1. j = 1 \/ j \in {2, 3} \/ j >= 4
        BY <1>1
    <2>2. CASE j = 1
        BY <1>2, <2>2
    <2>3. CASE j \in {2, 3}
        BY <1>3, <2>3 DEF Phases
    <2>4. CASE j >= 4
        <3>1. PhaseOf(j) \in ListPhases
            BY <1>3, <2>4
        <3>2. "dial" \notin ListPhases
            BY ScriptFacts
        <3> QED BY <3>1, <3>2 DEF Phases
    <2> QED BY <2>1, <2>2, <2>3, <2>4
<1>5. ASSUME NEW i \in 1 .. Len(Script) - 1, NEW j \in 1 .. Len(Script) - 1, PhaseOf(i) = PhaseOf(j)
      PROVE  i = j \/ (i \in {2, 3} /\ j \in {2, 3})
    <2>1. (i = 1 \/ i \in {2, 3} \/ i >= 4) /\ (j = 1 \/ j \in {2, 3} \/ j >= 4)
        BY <1>1
    <2>2. i \in 1 .. Len(Script) /\ j \in 1 .. Len(Script)
        BY <1>1
    <2>3. /\ "login" \notin ListPhases /\ "core_status" \notin ListPhases
          /\ \A m, n \in 1 .. Len(Script) : Script[m] = Script[n] => m = n
        BY ScriptFacts
    <2>4. CASE i = 1 \/ j = 1
        BY <1>2, <1>3, <1>5, <2>1, <2>3, <2>4
    <2>5. CASE i \in {2, 3} /\ j \in {2, 3}
        BY <2>5
    <2>6. CASE (i \in {2, 3} /\ j >= 4) \/ (i >= 4 /\ j \in {2, 3})
        BY <1>3, <1>5, <2>3, <2>6
    <2>7. CASE i >= 4 /\ j >= 4
        BY <1>3, <1>5, <2>2, <2>3, <2>7
    <2> QED BY <2>1, <2>4, <2>5, <2>6, <2>7
<1> QED BY <1>2, <1>3, <1>4, <1>5

LEMMA InitIInv == Init => IInv
<1> SUFFICES ASSUME Init PROVE IInv
    OBVIOUS
<1>1. TypeOK
    <2>1. 0 \in 0 .. Len(Script) /\ 0 \in 0 .. MaxItems
        BY ScriptFacts, ScrapeAssumption
    <2>2. Nothing \in [Phases -> -1 .. MaxItems] /\ Nothing \in [Phases -> -3 .. MaxItems]
        BY NothingTyped
    <2>3. [p \in Phases \cup {"dial", "login"} |-> 0] \in [Phases \cup {"dial", "login"} -> Nat]
        OBVIOUS
    <2>4. [r \in Requests |-> "new"] \in [Requests -> {"new", "waiting", "collecting", "done"}]
        OBVIOUS
    <2> HIDE DEF Nothing
    <2>5. pc \in [Requests -> {"new", "waiting", "collecting", "done"}]
        BY <2>4 DEF Init
    <2>6. /\ errors \in [Phases \cup {"dial", "login"} -> Nat]
          /\ before \in [Phases \cup {"dial", "login"} -> Nat]
        BY <2>3 DEF Init
    <2>7. emitted \in [Phases -> -1 .. MaxItems] /\ listed \in [Phases -> -3 .. MaxItems]
        BY <2>2 DEF Init
    <2>8. /\ k \in 0 .. Len(Script) /\ elapsed \in Nat /\ since \in 0 .. elapsed
          /\ items \in 0 .. MaxItems
        BY <2>1 DEF Init
    <2> QED BY <2>5, <2>6, <2>7, <2>8 DEF Init, TypeOK
<1>2. ControlInv
    BY DEF Init, ControlInv, Active
<1>3. TimeInv
    BY ScrapeAssumption DEF Init, TimeInv
<1>4. WireInv
    BY DEF Init, WireInv, Active
<1>5. TurnInv
    BY DEF Init, TurnInv, Nothing, Phases
<1>6. RowsInv
    BY DEF Init, RowsInv, Nothing, Phases
<1>7. ErrInv
    BY DEF Init, ErrInv
<1> QED BY <1>1, <1>2, <1>3, <1>4, <1>5, <1>6, <1>7 DEF IInv

\* What an error does: it ends the scrape at the login and at the logoff, and
\* counts but for the logoff.
LEMMA FailsShape ==
    ASSUME IInv, at \in Active, NEW rest, Fails(rest)
    PROVE  \/ /\ k = 1 \/ k = Len(Script)
              /\ IF k = 1 THEN Count("login") /\ firstErr' = TRUE ELSE UNCHANGED <<firstErr, errors>>
              /\ Close
              /\ UNCHANGED <<k, since, items>>
           \/ /\ k \notin {1, Len(Script)}
              /\ Count(PhaseOf(k)) /\ firstErr' = TRUE
              /\ Advance(IF k = 2 THEN 4 ELSE k + 1)
              /\ wire' = rest
              /\ UNCHANGED <<conn, sessions, asked, listed>>
<1>1. k \in 1 .. Len(Script) /\ 1 # Len(Script)
    BY ScriptFacts DEF IInv, TypeOK, ControlInv
<1>2. /\ Script[k] = "Login" <=> k = 1
      /\ Script[k] = "CoreSettings" <=> k = 2
      /\ Script[k] = "Logoff" <=> k = Len(Script)
    BY <1>1, ScriptFacts
<1>3. CASE k = 1
    BY <1>1, <1>2, <1>3 DEF Fails
<1>4. CASE k = Len(Script)
    BY <1>1, <1>2, <1>4 DEF Fails
<1>5. CASE k \notin {1, Len(Script)}
    BY <1>1, <1>2, <1>5 DEF Fails
<1> QED BY <1>3, <1>4, <1>5

\* The connection is closed exactly when no scrape has one.
LEMMA NextControl == IInv /\ [Next]_vars => ControlInv'
<1> SUFFICES ASSUME IInv, [Next]_vars PROVE ControlInv'
    OBVIOUS
<1> USE DEF IInv, ControlInv, Active
<1>1. ASSUME NEW r \in Requests, Ask(r) PROVE ControlInv'
    BY <1>1 DEF Ask, connVars, scrapeVars
<1>2. ASSUME NEW r \in Requests, Lock(r) PROVE ControlInv'
    BY <1>2, ScrapeAssumption DEF Lock
<1>3. CASE Dial
    BY <1>3 DEF Dial
<1>4. CASE DialFails
    BY <1>4 DEF DialFails, Close, connVars
<1>5. CASE Banner
    BY <1>5 DEF Banner, Advance, connVars
<1>6. CASE Send
    BY <1>6 DEF Send
<1>7. ASSUME NEW rest, at \in Active, Fails(rest), holder' = holder PROVE ControlInv'
    <2>1. k \in 1 .. Len(Script) /\ Len(Script) >= 4 /\ Len(Script) \in Nat
        BY <1>7, ScriptFacts DEF TypeOK
    <2>2. \/ /\ Close /\ UNCHANGED k
          \/ /\ Advance(IF k = 2 THEN 4 ELSE k + 1) /\ UNCHANGED <<conn, sessions>>
        BY <1>7, FailsShape
    <2>3. sessions = 1 /\ at \notin {"idle", "dial", "report"} /\ holder # Nobody
        BY <1>7
    <2>4. CASE Close /\ UNCHANGED k
        BY <1>7, <2>3, <2>4 DEF Close
    <2>5. CASE Advance(IF k = 2 THEN 4 ELSE k + 1) /\ UNCHANGED <<conn, sessions>>
        BY <1>7, <2>1, <2>3, <2>5 DEF Advance
    <2> QED BY <2>2, <2>4, <2>5
<1>8. CASE TimesOut
    BY <1>7, <1>8 DEF TimesOut
<1>9. CASE ReadResponse
    BY <1>7, <1>9, ScriptFacts DEF ReadResponse, Close, Advance, TypeOK
<1>10. CASE ReadFirst
    BY <1>7, <1>10, ScriptFacts DEF ReadFirst, Advance, TypeOK
<1>11. CASE ReadRow
    BY <1>11, ScriptFacts DEF ReadRow, Advance, TypeOK
<1>12. CASE Report
    BY <1>12 DEF Report, connVars, scrapeVars
<1>13. CASE Tick
    BY <1>13 DEF Tick, connVars
<1>14. CASE Accept
    BY <1>14 DEF Accept, scrapeVars
<1>15. CASE Reject
    BY <1>15 DEF Reject, scrapeVars
<1>16. CASE Breaks
    BY <1>16 DEF Breaks, scrapeVars
<1>17. CASE UNCHANGED vars
    BY <1>17 DEF vars
<1> QED BY <1>1, <1>2, <1>3, <1>4, <1>5, <1>6, <1>8, <1>9, <1>10, <1>11, <1>12, <1>13, <1>14,
           <1>15, <1>16, <1>17 DEF Next, Steps

\* Past the deadline only a banner is awaited, and nothing is emitted.
LEMMA NextTime == IInv /\ [Next]_vars => TimeInv'
<1> SUFFICES ASSUME IInv, [Next]_vars PROVE TimeInv'
    OBVIOUS
<1>0. elapsed \in Nat /\ since \in Nat /\ Timeout \in Nat \ {0}
    BY ScrapeAssumption DEF IInv, TypeOK
<1> USE <1>0 DEF IInv, TimeInv
<1>1. ASSUME NEW r \in Requests, Ask(r) PROVE TimeInv'
    BY <1>1 DEF Ask, connVars, scrapeVars
<1>2. ASSUME NEW r \in Requests, Lock(r) PROVE TimeInv'
    BY <1>2 DEF Lock, Nothing
<1>3. CASE Dial
    BY <1>3 DEF Dial, Limit, Nothing
<1>4. CASE DialFails
    BY <1>4 DEF DialFails, Close, connVars, Nothing
<1>5. CASE Banner
    BY <1>5 DEF Banner, Advance, connVars, Nothing
<1>6. CASE Send
    BY <1>6 DEF Send, Limit, Nothing
<1>7. ASSUME NEW rest, at \in Active, Fails(rest), UNCHANGED <<elapsed, emitted>> PROVE TimeInv'
    BY <1>7, FailsShape DEF Close, Advance, Nothing, Active
<1>8. CASE TimesOut
    BY <1>7, <1>8 DEF TimesOut, Active
<1>9. CASE ReadResponse
    BY <1>7, <1>9 DEF ReadResponse, Close, Advance, Nothing, Active
<1>10. CASE ReadFirst
    BY <1>7, <1>10 DEF ReadFirst, Advance, Nothing, Active
<1>11. CASE ReadRow
    BY <1>11 DEF ReadRow, Advance, Nothing
<1>12. CASE Report
    BY <1>12 DEF Report, connVars, scrapeVars
<1>13. CASE Tick
    BY <1>13 DEF Tick, connVars, Limit, Nothing
<1>14. CASE Accept
    BY <1>14 DEF Accept, scrapeVars
<1>15. CASE Reject
    BY <1>15 DEF Reject, scrapeVars
<1>16. CASE Breaks
    BY <1>16 DEF Breaks, scrapeVars
<1>17. CASE UNCHANGED vars
    BY <1>17 DEF vars
<1> QED BY <1>1, <1>2, <1>3, <1>4, <1>5, <1>6, <1>8, <1>9, <1>10, <1>11, <1>12, <1>13, <1>14,
           <1>15, <1>16, <1>17 DEF Next, Steps

\* A list that is being read has no more rows than Asterisk has listed.
LEMMA RowCounts ==
    ASSUME IInv, at = "list", wire # <<>>
    PROVE  /\ k \in 4 .. Len(Script) - 1 /\ Script[k] \in ListPhases /\ Script[k] \in Phases
           /\ listed[Script[k]] \in -3 .. MaxItems /\ items \in 0 .. MaxItems
           /\ items =< listed[Script[k]]
           /\ Head(wire) \in {Msg(k, "item"), Msg(k, "complete")}
           /\ Head(wire) = Msg(k, "complete") <=> items = listed[Script[k]]
<1>1. k \in 1 .. Len(Script) /\ Script[k] \in ListPhases
    BY ScriptFacts DEF IInv, TypeOK, ControlInv, Active
<1>2. listed[Script[k]] \in -3 .. MaxItems /\ items \in 0 .. MaxItems
    BY <1>1 DEF IInv, TypeOK, Phases
<1>3. wire \in Seq(Message) /\ items =< listed[Script[k]] /\ Rest(wire, 0, listed[Script[k]] - items)
    BY DEF IInv, WireInv
<1>4. Len(wire) \in Nat /\ Len(wire) >= 1 /\ Head(wire) = wire[1]
    BY <1>3, EmptySeq
<1>5. Head(wire) = Msg(k, IF 1 =< 0 + (listed[Script[k]] - items) THEN "item" ELSE "complete")
    BY <1>3, <1>4 DEF Rest
<1>6. Msg(k, "item") # Msg(k, "complete")
    BY DEF Msg
<1>7. k \in 4 .. Len(Script) - 1 /\ Script[k] \in Phases
    BY <1>1, ScriptFacts DEF Phases
<1>8. CASE items = listed[Script[k]]
    <2>1. ~ (1 =< 0 + (listed[Script[k]] - items))
        BY <1>2, <1>8
    <2>2. Head(wire) = Msg(k, "complete")
        BY <1>5, <2>1, Zenon
    <2> QED BY <1>1, <1>2, <1>7, <1>8, <2>2
<1>9. CASE items < listed[Script[k]]
    <2>1. 1 =< 0 + (listed[Script[k]] - items)
        BY <1>2, <1>9
    <2>2. Head(wire) = Msg(k, "item")
        BY <1>5, <2>1, Zenon
    <2> QED BY <1>1, <1>2, <1>6, <1>7, <1>9, <2>2
<1> QED BY <1>2, <1>3, <1>8, <1>9

LEMMA CountTyped ==
    ASSUME TypeOK, NEW p \in Phases \cup {"dial", "login"}, Count(p)
    PROVE  errors' \in [Phases \cup {"dial", "login"} -> Nat]
<1>1. errors' = [errors EXCEPT ![p] = errors[p] + 1] /\ errors[p] + 1 \in Nat
    BY DEF Count, TypeOK
<1> QED BY <1>1 DEF TypeOK

LEMMA NextTypes == IInv /\ [Next]_vars => TypeOK'
<1> SUFFICES ASSUME IInv, [Next]_vars PROVE TypeOK'
    OBVIOUS
<1>0. MaxItems \in Nat /\ Len(Script) \in Nat /\ Len(Script) >= 4
    BY ScrapeAssumption, ScriptFacts
<1> USE <1>0 DEF IInv, TypeOK
<1>1. ASSUME NEW r \in Requests, Ask(r) PROVE TypeOK'
    BY <1>1 DEF Ask, connVars, scrapeVars
<1>2. ASSUME NEW r \in Requests, Lock(r) PROVE TypeOK'
    <2>1. /\ emitted' \in [Phases -> -1 .. MaxItems] /\ listed' \in [Phases -> -3 .. MaxItems]
          /\ before' \in [Phases \cup {"dial", "login"} -> Nat]
        BY <1>2, NothingTyped DEF Lock
    <2>2. /\ k' \in 0 .. Len(Script) /\ items' \in 0 .. MaxItems
          /\ elapsed' \in Nat /\ since' \in 0 .. elapsed'
        BY <1>2 DEF Lock
    <2> QED BY <1>2, <2>1, <2>2 DEF Lock
<1>3. CASE Dial
    BY <1>3 DEF Dial
<1>4. CASE DialFails
    <2>1. errors' \in [Phases \cup {"dial", "login"} -> Nat]
        BY <1>4, CountTyped DEF DialFails
    <2> QED BY <1>4, <2>1 DEF DialFails, Close, connVars
<1>5. CASE Banner
    BY <1>5 DEF Banner, Advance, connVars
<1>6. CASE Send
    BY <1>6 DEF Send
<1>7. ASSUME NEW rest, at \in Active, Fails(rest),
             UNCHANGED <<pc, holder, elapsed, emitted, before>>
      PROVE  TypeOK'
    <2>1. k \in 1 .. Len(Script)
        BY <1>7 DEF ControlInv
    <2>2. CASE (k = 1 \/ k = Len(Script)) /\ Close /\ UNCHANGED <<k, since, items>>
        <3>1. firstErr' \in BOOLEAN /\ errors' \in [Phases \cup {"dial", "login"} -> Nat]
            BY <1>7, <2>2, FailsShape, CountTyped
        <3> QED BY <1>7, <2>2, <3>1 DEF Close
    <2>3. CASE /\ k \notin {1, Len(Script)} /\ Count(PhaseOf(k)) /\ firstErr' = TRUE
               /\ Advance(IF k = 2 THEN 4 ELSE k + 1) /\ UNCHANGED <<conn, listed>>
        <3>1. PhaseOf(k) \in Phases
            BY <2>1, <2>3, PhaseFacts
        <3>2. errors' \in [Phases \cup {"dial", "login"} -> Nat]
            BY <2>3, <3>1, CountTyped
        <3>3. k' \in 0 .. Len(Script) /\ items' = 0 /\ since' = elapsed /\ at' = "send"
            BY <2>1, <2>3 DEF Advance
        <3> QED BY <1>7, <2>3, <3>2, <3>3
    <2> QED BY <1>7, <2>2, <2>3, FailsShape
<1>8. CASE TimesOut
    BY <1>7, <1>8 DEF TimesOut, Active
<1>9. CASE ReadResponse
    <2>1. k \in 1 .. Len(Script) /\ (Script[k] # "Logoff" => k + 1 \in 0 .. Len(Script))
        <3>1. k \in 0 .. Len(Script) /\ k # 0
            BY <1>9 DEF ReadResponse, ControlInv, Active, TypeOK
        <3> QED BY <3>1, ScriptFacts
    <2>2. CASE Fails(Tail(wire)) /\ UNCHANGED emitted
        <3>1. at \in Active /\ UNCHANGED <<pc, holder, elapsed, emitted, before>>
            BY <1>9, <2>2 DEF ReadResponse, Active
        <3> QED BY <1>7, <2>2, <3>1
    <2>3. CASE ~(Fails(Tail(wire)) /\ UNCHANGED emitted)
        <3>1. UNCHANGED <<pc, holder, elapsed, before, firstErr, errors, listed>>
            BY <1>9, <2>3 DEF ReadResponse, Close
        <3>2. /\ k' \in 0 .. Len(Script) /\ items' \in 0 .. MaxItems /\ since' \in 0 .. elapsed
              /\ at' \in {"send", "report"} /\ conn' \in {"closed", conn}
            BY <1>9, <2>1, <2>3 DEF ReadResponse, Close, Advance
        <3>3. emitted' \in [Phases -> -1 .. MaxItems]
            <4>1. 0 \in -1 .. MaxItems
                OBVIOUS
            <4> QED BY <1>9, <2>3, <4>1 DEF ReadResponse, EmitCore
        <3> QED BY <3>1, <3>2, <3>3
    <2> QED BY <2>2, <2>3
<1>10. CASE ReadFirst
    <2>1. k \in 1 .. Len(Script) /\ k + 1 \in 0 .. Len(Script)
        BY <1>10, ScriptFacts DEF ReadFirst, ControlInv, Active
    <2>2. CASE Fails(Tail(wire))
        <3>1. at \in Active /\ UNCHANGED <<pc, holder, elapsed, emitted, before>>
            BY <1>10 DEF ReadFirst, Active
        <3> QED BY <1>7, <2>2, <3>1
    <2>3. CASE ~Fails(Tail(wire))
        <3>1. UNCHANGED <<pc, holder, elapsed, emitted, before, firstErr, errors, listed, conn>>
            BY <1>10, <2>3 DEF ReadFirst
        <3>2. /\ k' \in 0 .. Len(Script) /\ items' \in 0 .. MaxItems /\ since' \in 0 .. elapsed
              /\ at' \in {"send", "list"}
            BY <1>10, <2>1, <2>3 DEF ReadFirst, Advance
        <3> QED BY <3>1, <3>2
    <2> QED BY <2>2, <2>3
<1>11. CASE ReadRow
    <2>1. /\ k + 1 \in 0 .. Len(Script) /\ Script[k] \in Phases
          /\ items \in -1 .. MaxItems /\ items =< listed[Script[k]] /\ listed[Script[k]] \in -3 .. MaxItems
        BY <1>11, RowCounts DEF ReadRow
    <2>2. CASE Head(wire) = Msg(k, "complete")
        <3>1. emitted' \in [Phases -> -1 .. MaxItems]
            BY <1>11, <2>1, <2>2 DEF ReadRow, EmitList
        <3>2. UNCHANGED <<pc, holder, elapsed, before, firstErr, errors, listed, conn>>
            BY <1>11 DEF ReadRow
        <3>3. k' = k + 1 /\ items' = 0 /\ since' = elapsed /\ at' = "send"
            BY <1>11, <2>2 DEF ReadRow, Advance
        <3> QED BY <2>1, <3>1, <3>2, <3>3
    <2>3. CASE Head(wire) # Msg(k, "complete")
        <3>1. items + 1 \in 0 .. MaxItems
            <4>1. items \in 0 .. MaxItems /\ items # listed[Script[k]]
                BY <1>11, <2>3, RowCounts DEF ReadRow
            <4> QED BY <2>1, <4>1, ScrapeAssumption
        <3> QED BY <1>11, <2>3, <3>1 DEF ReadRow
    <2> QED BY <2>2, <2>3
<1>12. CASE Report
    BY <1>12 DEF Report, connVars, scrapeVars
<1>13. CASE Tick
    BY <1>13 DEF Tick, connVars
<1>14. CASE Accept
    <2>1. listed' \in [Phases -> -3 .. MaxItems]
        <3>1. \A n \in 0 .. MaxItems : n \in -3 .. MaxItems
            OBVIOUS
        <3> QED BY <1>14, <3>1 DEF Accept
    <2> QED BY <1>14, <2>1 DEF Accept, scrapeVars
<1>15. CASE Reject
    <2>1. -2 \in -3 .. MaxItems /\ -3 \in -3 .. MaxItems
        OBVIOUS
    <2>2. listed' \in [Phases -> -3 .. MaxItems]
        BY <1>15, <2>1 DEF Reject
    <2> QED BY <1>15, <2>2 DEF Reject, scrapeVars
<1>16. CASE Breaks
    BY <1>16 DEF Breaks, scrapeVars
<1>17. CASE UNCHANGED vars
    BY <1>17 DEF vars
<1> QED BY <1>1, <1>2, <1>3, <1>4, <1>5, <1>6, <1>8, <1>9, <1>10, <1>11, <1>12, <1>13, <1>14,
           <1>15, <1>16, <1>17 DEF Next, Steps

\* The lists that are still to come stay untouched.
LEMMA NextTurn == IInv /\ [Next]_vars => TurnInv'
<1> SUFFICES ASSUME IInv, [Next]_vars PROVE TurnInv'
    OBVIOUS
<1>0. Len(Script) \in Nat /\ k \in 0 .. Len(Script)
    BY ScriptFacts DEF IInv, TypeOK
<1> USE <1>0 DEF IInv, TurnInv
<1>1. ASSUME NEW r \in Requests, Ask(r) PROVE TurnInv'
    BY <1>1 DEF Ask, connVars, scrapeVars
<1>2. ASSUME NEW r \in Requests, Lock(r) PROVE TurnInv'
    BY <1>2 DEF Lock, Nothing, Phases
<1>3. CASE Dial
    BY <1>3 DEF Dial
<1>4. CASE DialFails
    BY <1>4 DEF DialFails, Close, connVars
<1>5. CASE Banner
    BY <1>5 DEF Banner, Advance, connVars, ControlInv
<1>6. CASE Send
    BY <1>6 DEF Send
<1>7. ASSUME NEW rest, at \in Active, Fails(rest) PROVE TurnInv'
    <2>1. /\ listed' = listed
          /\ (k' = k /\ at' = "report") \/ k' = IF k = 2 THEN 4 ELSE k + 1
        BY <1>7, FailsShape DEF Close, Advance
    <2>2. ASSUME NEW j \in 1 .. Len(Script), j > k' \/ (j = k' /\ at' = "send") PROVE j > k
        BY <2>1, <2>2
    <2> QED BY <2>1, <2>2
<1>8. CASE TimesOut
    BY <1>7, <1>8 DEF TimesOut, Active
<1>9. CASE ReadResponse
    <2>1. CASE Fails(Tail(wire))
        BY <1>7, <1>9, <2>1 DEF ReadResponse, Active
    <2>2. CASE ~Fails(Tail(wire))
        BY <1>9, <2>2 DEF ReadResponse, Close, Advance
    <2> QED BY <2>1, <2>2
<1>10. CASE ReadFirst
    <2>1. CASE Fails(Tail(wire))
        BY <1>7, <1>10, <2>1 DEF ReadFirst, Active
    <2>2. CASE ~Fails(Tail(wire))
        BY <1>10, <2>2 DEF ReadFirst, Advance
    <2> QED BY <2>1, <2>2
<1>11. CASE ReadRow
    BY <1>11 DEF ReadRow, Advance
<1>12. CASE Report
    BY <1>12 DEF Report, connVars, scrapeVars
<1>13. CASE Tick
    BY <1>13 DEF Tick, connVars
<1>14. ASSUME NEW v, NEW j \in 1 .. k, asked = <<j>>, UNCHANGED <<at, k>>,
              \/ UNCHANGED listed
              \/ Script[j] \in ListPhases /\ listed' = [listed EXCEPT ![Script[j]] = v]
       PROVE  TurnInv'
    <2>1. at = "send" => j < k
        BY <1>14 DEF WireInv
    <2>2. ASSUME NEW i \in 1 .. Len(Script), i > k \/ (i = k /\ at = "send"), Script[i] \in ListPhases
          PROVE  listed'[Script[i]] = -1
        <3>1. i # j /\ Script[i] # Script[j]
            BY <1>14, <2>1, <2>2, ScriptFacts
        <3> QED BY <1>14, <2>2, <3>1 DEF TypeOK, Phases
    <2> QED BY <1>14, <2>2
<1>15. asked # <<>> => \E j \in 1 .. k : asked = <<j>>
    BY DEF WireInv
<1>16. CASE Accept
    <2>1. PICK j \in 1 .. k : asked = <<j>> /\ Head(asked) = j
        <3>1. PICK j \in 1 .. k : asked = <<j>>
            BY <1>15, <1>16 DEF Accept
        <3> QED BY <3>1
    <2>2. \/ UNCHANGED listed
          \/ \E n \in 0 .. MaxItems :
                 Script[j] \in ListPhases /\ listed' = [listed EXCEPT ![Script[j]] = n]
        BY <1>16, <2>1 DEF Accept
    <2> QED BY <1>14, <1>16, <2>1, <2>2 DEF Accept, scrapeVars
<1>17. CASE Reject
    <2>1. PICK j \in 1 .. k : asked = <<j>> /\ Head(asked) = j
        <3>1. PICK j \in 1 .. k : asked = <<j>>
            BY <1>15, <1>17 DEF Reject
        <3> QED BY <3>1
    <2>2. \/ UNCHANGED listed
          \/ \E n \in {-2, -3} :
                 Script[j] \in ListPhases /\ listed' = [listed EXCEPT ![Script[j]] = n]
        BY <1>17, <2>1 DEF Reject
    <2> QED BY <1>14, <1>17, <2>1, <2>2 DEF Reject, scrapeVars
<1>18. CASE Breaks
    BY <1>18 DEF Breaks, scrapeVars
<1>19. CASE UNCHANGED vars
    BY <1>19 DEF vars
<1> QED BY <1>1, <1>2, <1>3, <1>4, <1>5, <1>6, <1>8, <1>9, <1>10, <1>11, <1>12, <1>13, <1>16,
           <1>17, <1>18, <1>19 DEF Next, Steps

\* What Asterisk writes when it accepts a list action, after what is there.
ListAnswer(w, j, n) ==
    w \o <<Msg(j, "ok")>> \o [i \in 1 .. n |-> Msg(j, "item")] \o <<Msg(j, "complete")>>

LEMMA ListWritten ==
    ASSUME NEW j \in Nat, NEW n \in Nat, NEW w \in Seq(Message)
    PROVE  /\ ListAnswer(w, j, n) \in Seq(Message)
           /\ w = <<>> => /\ Len(ListAnswer(w, j, n)) = n + 2
                          /\ ListAnswer(w, j, n)[1] = Msg(j, "ok")
                          /\ \A i \in 2 .. n + 2 :
                                ListAnswer(w, j, n)[i]
                                    = Msg(j, IF i =< n + 1 THEN "item" ELSE "complete")
<1> DEFINE answer == ListAnswer(w, j, n)
           s1 == w \o <<Msg(j, "ok")>>
           rows == [i \in 1 .. n |-> Msg(j, "item")]
           s2 == s1 \o rows
<1>1. \A kind \in {"ok", "item", "complete"} : Msg(j, kind) \in Message
    BY DEF Msg, Message
<1>2. <<Msg(j, "ok")>> \in Seq(Message) /\ <<Msg(j, "complete")>> \in Seq(Message)
    BY <1>1
<1>3. rows \in Seq(Message) /\ Len(rows) = n /\ \A i \in 1 .. n : rows[i] = Msg(j, "item")
    BY <1>1
<1>4. s1 \in Seq(Message) /\ (w = <<>> => Len(s1) = 1 /\ s1[1] = Msg(j, "ok"))
    BY <1>2, ConcatProperties
<1> HIDE DEF s1, rows
<1>5. /\ s2 \in Seq(Message) /\ Len(s2) = Len(s1) + n
      /\ \A i \in 1 .. Len(s1) + n : s2[i] = IF i =< Len(s1) THEN s1[i] ELSE rows[i - Len(s1)]
    BY <1>3, <1>4, ConcatProperties
<1> HIDE DEF s2
<1>6. answer = s2 \o <<Msg(j, "complete")>>
    BY DEF s1, rows, s2, ListAnswer
<1> HIDE DEF answer
<1>7. /\ answer \in Seq(Message) /\ Len(answer) = Len(s2) + 1
      /\ \A i \in 1 .. Len(s2) + 1 :
             answer[i] = IF i =< Len(s2) THEN s2[i] ELSE <<Msg(j, "complete")>>[i - Len(s2)]
    <2> DEFINE last == <<Msg(j, "complete")>>
    <2>1. last \in Seq(Message) /\ Len(last) = 1
        BY <1>2
    <2> HIDE DEF last
    <2>2. /\ s2 \o last \in Seq(Message) /\ Len(s2 \o last) = Len(s2) + Len(last)
          /\ \A i \in 1 .. Len(s2) + Len(last) :
                 (s2 \o last)[i] = IF i =< Len(s2) THEN s2[i] ELSE last[i - Len(s2)]
        BY <1>5, <2>1, ConcatProperties
    <2>3. answer = s2 \o last
        BY <1>6 DEF last
    <2> QED BY <2>1, <2>2, <2>3 DEF last
<1>8. ASSUME w = <<>>
      PROVE  /\ Len(answer) = n + 2
             /\ answer[1] = Msg(j, "ok")
             /\ \A i \in 2 .. n + 2 :
                   answer[i] = Msg(j, IF i =< n + 1 THEN "item" ELSE "complete")
    <2>1. Len(s1) = 1 /\ s1[1] = Msg(j, "ok") /\ Len(s2) = n + 1 /\ Len(answer) = n + 2
        <3>1. Len(s1) = 1 /\ s1[1] = Msg(j, "ok")
            BY <1>4, <1>8
        <3>2. Len(s2) = n + 1
            BY <1>5, <3>1
        <3> QED BY <1>7, <3>1, <3>2
    <2>2. answer[1] = Msg(j, "ok")
        BY <1>5, <1>7, <2>1
    <2>3. ASSUME NEW i \in 2 .. n + 1 PROVE answer[i] = Msg(j, "item")
        <3>1. i \in 1 .. Len(s2) + 1 /\ i =< Len(s2) /\ i \in 1 .. Len(s1) + n /\ ~(i =< Len(s1))
            BY <2>1
        <3>2. i - Len(s1) \in 1 .. n
            BY <2>1
        <3>3. answer[i] = s2[i] /\ s2[i] = rows[i - Len(s1)]
            BY <1>5, <1>7, <3>1
        <3> QED BY <1>3, <3>2, <3>3
    <2>4. answer[n + 2] = Msg(j, "complete")
        BY <1>7, <2>1
    <2> QED BY <2>1, <2>2, <2>3, <2>4
<1> QED BY <1>7, <1>8 DEF answer

\* As long as the scrape is not reading there is nothing between it and Asterisk,
\* and while it reads there is only the answer it waits for.
LEMMA FailsWire ==
    ASSUME IInv, at \in Active, NEW rest \in Seq(Message), Fails(rest), elapsed' = elapsed,
           elapsed < Timeout => asked = <<>> /\ rest = <<>>
    PROVE  WireInv'
<1>1. k \in 1 .. Len(Script)
    BY DEF IInv, TypeOK, ControlInv, Active
<1>2. CASE Close
    BY <1>2 DEF Close, WireInv, Active
<1>3. CASE /\ Advance(IF k = 2 THEN 4 ELSE k + 1) /\ wire' = rest
           /\ UNCHANGED <<conn, sessions, asked, listed>>
    <2>1. at' = "send" /\ items' = 0 /\ k' = IF k = 2 THEN 4 ELSE k + 1
        BY <1>3 DEF Advance
    <2>2. \/ asked = <<>>
          \/ conn = "open" /\ \E j \in 1 .. k :
                 asked = <<j>> /\ (Script[j] \in ListPhases => listed[Script[j]] = -1)
        BY DEF IInv, WireInv
    <2>3. \A j \in 1 .. k : j \in 1 .. k' /\ j < k'
        BY <1>1, <2>1
    <2> QED BY <1>3, <2>1, <2>2, <2>3 DEF WireInv, Active
<1> QED BY <1>2, <1>3, FailsShape

\* Action has a single answer, and what follows a verdict of a list is its rows
\* or nothing.
LEMMA AnswerRead ==
    ASSUME IInv, at = "first", wire # <<>>
    PROVE  /\ asked = <<>> /\ Tail(wire) \in Seq(Message) /\ Head(wire) = wire[1]
           /\ Head(wire).id = k
           /\ Script[k] \notin ListPhases => Tail(wire) = <<>>
           /\ Script[k] \in ListPhases =>
                 \/ /\ Head(wire).kind = "ok" /\ listed[Script[k]] >= 0
                    /\ Rest(Tail(wire), 0, listed[Script[k]])
                 \/ /\ Tail(wire) = <<>>
                    /\ \/ Head(wire).kind = "refused" /\ listed[Script[k]] = -3
                       \/ Head(wire).kind = "unavailable" /\ listed[Script[k]] = -2
<1>1. /\ asked = <<>> /\ wire[1].id = k /\ wire \in Seq(Message)
      /\ IF Script[k] \in ListPhases THEN Says(wire[1].kind, Script[k]) ELSE Len(wire) = 1
    BY DEF IInv, WireInv, Awaits
<1>2. /\ Tail(wire) \in Seq(Message) /\ Len(Tail(wire)) = Len(wire) - 1 /\ Head(wire) = wire[1]
      /\ \A i \in 1 .. Len(Tail(wire)) : Tail(wire)[i] = wire[i + 1]
      /\ Len(wire) \in Nat
    BY <1>1, HeadTailProperties
<1>3. ASSUME Len(wire) = 1 PROVE Tail(wire) = <<>>
    <2>1. Len(Tail(wire)) = 0 /\ Tail(wire) \in Seq(Message)
        BY <1>2, <1>3
    <2> QED BY <2>1, EmptySeq
<1>4. ASSUME Script[k] \in ListPhases, listed[Script[k]] >= 0, Rest(wire, 1, listed[Script[k]])
      PROVE  Rest(Tail(wire), 0, listed[Script[k]])
    <2>1. listed[Script[k]] \in Nat
        BY <1>4 DEF IInv, TypeOK, Phases
    <2>2. ASSUME NEW i \in 1 .. Len(Tail(wire)), i > 0
          PROVE  Tail(wire)[i] = Msg(k, IF i =< 0 + listed[Script[k]] THEN "item" ELSE "complete")
        <3>1. i + 1 \in 1 .. Len(wire) /\ i + 1 > 1
            BY <1>2
        <3>2. wire[i + 1] = Msg(k, IF i + 1 =< 1 + listed[Script[k]] THEN "item" ELSE "complete")
            BY <1>4, <3>1 DEF Rest
        <3>3. i + 1 =< 1 + listed[Script[k]] <=> i =< 0 + listed[Script[k]]
            BY <1>2, <2>1
        <3>4. Tail(wire)[i] = wire[i + 1]
            BY <1>2
        <3> QED BY <3>2, <3>3, <3>4
    <2> QED BY <1>2, <1>4, <2>1, <2>2 DEF Rest
<1> QED BY <1>1, <1>2, <1>3, <1>4 DEF Says

\* Rows are read one by one.
LEMMA RowRead ==
    ASSUME IInv, at = "list", wire # <<>>
    PROVE  /\ asked = <<>> /\ Tail(wire) \in Seq(Message)
           /\ Head(wire) = Msg(k, "complete") => Tail(wire) = <<>>
           /\ Head(wire) # Msg(k, "complete") =>
                 Rest(Tail(wire), 0, listed[Script[k]] - (items + 1))
<1> DEFINE n == listed[Script[k]] - items
<1>1. asked = <<>> /\ wire \in Seq(Message) /\ Rest(wire, 0, n)
    BY DEF IInv, WireInv
<1>2. /\ Tail(wire) \in Seq(Message) /\ Len(Tail(wire)) = Len(wire) - 1
      /\ \A i \in 1 .. Len(Tail(wire)) : Tail(wire)[i] = wire[i + 1]
      /\ Len(wire) \in Nat
    BY <1>1, HeadTailProperties
<1>3. listed[Script[k]] \in Nat /\ items \in Nat /\ (Head(wire) = Msg(k, "complete") <=> n = 0)
      /\ n \in Nat
    BY RowCounts, ScrapeAssumption
<1>4. ASSUME Head(wire) = Msg(k, "complete") PROVE Tail(wire) = <<>>
    <2>1. Len(wire) =< 1
        BY <1>1, <1>3, <1>4 DEF Rest
    <2> QED BY <1>2, <2>1, EmptySeq
<1>5. ASSUME Head(wire) # Msg(k, "complete") PROVE Rest(Tail(wire), 0, n - 1)
    <2>1. ASSUME NEW i \in 1 .. Len(Tail(wire)), i > 0
          PROVE  Tail(wire)[i] = Msg(k, IF i =< 0 + (n - 1) THEN "item" ELSE "complete")
        <3>1. i + 1 \in 1 .. Len(wire) /\ i + 1 > 0
            BY <1>2
        <3>2. wire[i + 1] = Msg(k, IF i + 1 =< 0 + n THEN "item" ELSE "complete")
            BY <1>1, <3>1 DEF Rest
        <3> HIDE DEF n
        <3>3. i + 1 =< 0 + n <=> i =< 0 + (n - 1)
            BY <1>2, <1>3
        <3>4. Tail(wire)[i] = wire[i + 1]
            BY <1>2
        <3> QED BY <3>2, <3>3, <3>4
    <2> DEFINE long == Len(wire)
               short == Len(Tail(wire))
    <2>2. long =< 0 + n + 1 /\ (conn = "open" => long = 0 + n + 1)
        BY <1>1 DEF Rest
    <2>3. n \in Nat /\ long \in Nat /\ short = long - 1
        BY <1>2, <1>3
    <2> HIDE DEF n, long, short
    <2>4. short =< 0 + (n - 1) + 1 /\ (conn = "open" => short = 0 + (n - 1) + 1)
        BY <2>2, <2>3
    <2> QED BY <2>1, <2>4 DEF Rest, short
<1>6. n - 1 = listed[Script[k]] - (items + 1)
    BY <1>3
<1> QED BY <1>1, <1>2, <1>4, <1>5, <1>6

\* Of an accepted action there is now the whole answer; of a rejected one the
\* verdict.
LEMMA AcceptWire ==
    ASSUME IInv, Accept PROVE WireInv'
<1>1. PICK j \in 1 .. k : asked = <<j>> /\ (Script[j] \in ListPhases => listed[Script[j]] = -1)
    BY DEF IInv, WireInv, Accept
<1>2. /\ asked' = <<>> /\ Head(asked) = j /\ UNCHANGED <<at, conn, k, items, elapsed>>
      /\ j \in Nat /\ k \in 1 .. Len(Script) /\ wire \in Seq(Message)
    BY <1>1, ScriptFacts DEF Accept, scrapeVars, IInv, WireInv, TypeOK
<1>3. at \in Active /\ at # "list" /\ (at = "send" => ~(elapsed < Timeout)) /\ items = 0
    BY <1>1 DEF IInv, WireInv, Active
<1>4. wire' \in Seq(Message)
    <2>1. CASE Script[j] \in ListPhases
        <3>1. PICK n \in 0 .. MaxItems : wire' = ListAnswer(wire, j, n)
            BY <1>2, <2>1 DEF Accept, ListAnswer
        <3>2. n \in Nat
            BY ScrapeAssumption
        <3> QED BY <1>2, <3>1, <3>2, ListWritten
    <2>2. CASE Script[j] \notin ListPhases
        <3>1. Msg(j, "ok") \in Message
            BY <1>2 DEF Msg, Message
        <3>2. wire' = Append(wire, Msg(j, "ok"))
            BY <1>2, <2>2 DEF Accept
        <3> QED BY <1>2, <3>1, <3>2, AppendProperties
    <2> QED BY <2>1, <2>2
<1>5. ASSUME at = "first" PROVE Awaits'
    <2>1. j = k /\ wire = <<>>
        <3>1. asked = <<k>> /\ wire = <<>>
            BY <1>1, <1>5 DEF IInv, WireInv, Awaits
        <3> QED BY <1>1, <3>1
    <2>2. CASE Script[k] \in ListPhases
        <3>1. PICK n \in 0 .. MaxItems :
                  wire' = ListAnswer(wire, k, n) /\ listed' = [listed EXCEPT ![Script[k]] = n]
            BY <1>2, <2>1, <2>2 DEF Accept, ListAnswer
        <3>n. n \in Nat /\ k \in Nat
            BY <1>2, <2>1, ScrapeAssumption
        <3>2. /\ Len(wire') = n + 2 /\ wire'[1] = Msg(k, "ok")
              /\ \A i \in 2 .. n + 2 : wire'[i] = Msg(k, IF i =< n + 1 THEN "item" ELSE "complete")
            <4>1. wire \in Seq(Message) /\ wire = <<>>
                BY <1>2, <2>1
            <4> QED BY <3>1, <3>n, <4>1, ListWritten
        <3>3. listed'[Script[k]] = n /\ n \in Nat
            BY <2>2, <3>1, ScrapeAssumption DEF IInv, TypeOK, Phases
        <3>4. Rest(wire, 1, listed[Script[k]])'
            <4>1. Len(wire') =< 1 + n + 1 /\ Len(wire') = 1 + n + 1
                BY <3>2, <3>3
            <4>2. \A i \in 1 .. Len(wire') :
                      i > 1 => wire'[i] = Msg(k, IF i =< 1 + n THEN "item" ELSE "complete")
                BY <3>2, <3>3
            <4> QED BY <1>2, <3>3, <4>1, <4>2 DEF Rest
        <3>5. wire' # <<>> /\ wire'[1].id = k /\ wire'[1].kind = "ok"
            BY <3>2, <3>3 DEF Msg
        <3> QED BY <1>2, <2>2, <3>3, <3>4, <3>5 DEF Awaits, Says
    <2>3. CASE Script[k] \notin ListPhases
        <3>1. wire' = <<Msg(k, "ok")>>
            BY <1>2, <2>1, <2>3 DEF Accept
        <3> QED BY <1>2, <2>3, <3>1 DEF Awaits, Msg
    <2> QED BY <2>2, <2>3
<1> QED BY <1>2, <1>3, <1>4, <1>5 DEF WireInv

LEMMA RejectWire ==
    ASSUME IInv, Reject PROVE WireInv'
<1>1. PICK j \in 1 .. k : asked = <<j>> /\ (Script[j] \in ListPhases => listed[Script[j]] = -1)
    BY DEF IInv, WireInv, Reject
<1>2. /\ asked' = <<>> /\ Head(asked) = j /\ UNCHANGED <<at, conn, k, items, elapsed>>
      /\ j \in Nat /\ k \in 1 .. Len(Script) /\ wire \in Seq(Message)
    BY <1>1, ScriptFacts DEF Reject, scrapeVars, IInv, WireInv, TypeOK
<1>3. at \in Active /\ at # "list" /\ (at = "send" => ~(elapsed < Timeout)) /\ items = 0
    BY <1>1 DEF IInv, WireInv, Active
<1>4. PICK kind \in {"refused", "unavailable"} :
          /\ wire' = Append(wire, Msg(j, kind))
          /\ Script[j] \in ListPhases =>
                 listed' = [listed EXCEPT ![Script[j]] = IF kind = "refused" THEN -3 ELSE -2]
    BY <1>2 DEF Reject
<1>5. wire' \in Seq(Message)
    <2>1. Msg(j, kind) \in Message
        BY <1>2 DEF Msg, Message
    <2> QED BY <1>2, <1>4, <2>1, AppendProperties
<1>6. ASSUME at = "first" PROVE Awaits'
    <2>1. j = k /\ wire = <<>>
        <3>1. asked = <<k>> /\ wire = <<>>
            BY <1>1, <1>6 DEF IInv, WireInv, Awaits
        <3> QED BY <1>1, <3>1
    <2>2. wire' = <<Msg(k, kind)>>
        BY <1>4, <2>1
    <2>3. wire' # <<>> /\ Len(wire') = 1 /\ wire'[1].id = k /\ wire'[1].kind = kind
        BY <2>2 DEF Msg
    <2>4. CASE Script[k] \in ListPhases
        <3>1. listed'[Script[k]] = IF kind = "refused" THEN -3 ELSE -2
            BY <1>4, <2>1, <2>4 DEF IInv, TypeOK, Phases
        <3> QED BY <1>2, <2>3, <2>4, <3>1 DEF Awaits, Says
    <2>5. CASE Script[k] \notin ListPhases
        BY <1>2, <2>3, <2>5 DEF Awaits
    <2> QED BY <2>4, <2>5
<1> QED BY <1>2, <1>3, <1>5, <1>6 DEF WireInv

\* A broken connection delivers a first part of what was on it.
LEMMA BreaksWire ==
    ASSUME IInv, Breaks PROVE WireInv'
<1>1. /\ conn = "open" /\ conn' = "broken" /\ asked' = <<>>
      /\ UNCHANGED <<at, k, items, elapsed, listed>>
    BY DEF Breaks, scrapeVars
<1>2. PICK n \in 0 .. Len(wire) : wire' = SubSeq(wire, 1, n)
    BY DEF Breaks
<1>3. wire \in Seq(Message) /\ Len(wire) \in Nat
    BY DEF IInv, WireInv
<1>4. /\ wire' \in Seq(Message) /\ Len(wire') = n
      /\ \A i \in 1 .. n : wire'[i] = wire[i]
    <2>1. \A i \in 1 .. n : wire[i] \in Message
        BY <1>3
    <2>2. 1 \in Int /\ n \in Int
        BY <1>3
    <2>3. /\ SubSeq(wire, 1, n) \in Seq(Message)
          /\ Len(SubSeq(wire, 1, n)) = IF 1 <= n THEN n - 1 + 1 ELSE 0
          /\ \A i \in 1 .. n - 1 + 1 : SubSeq(wire, 1, n)[i] = wire[1 + i - 1]
        BY <2>1, <2>2, SubSeqProperties
    <2>4. \A i \in 1 .. n : wire'[i] = wire[i]
        BY <1>2, <2>2, <2>3
    <2> QED BY <1>2, <1>3, <2>3, <2>4
<1>5. (Len(wire) = 0 <=> wire = <<>>) /\ (n = 0 <=> wire' = <<>>)
    BY <1>3, <1>4, EmptySeq
<1>6. ASSUME NEW s \in {0, 1}, NEW m \in Nat, Rest(wire, s, m) PROVE Rest(wire, s, m)'
    <2>1. \A i \in 1 .. Len(wire') :
              i > s => wire'[i] = Msg(k', IF i =< s + m THEN "item" ELSE "complete")
        BY <1>1, <1>3, <1>4, <1>6 DEF Rest
    <2>2. Len(wire') =< s + m + 1
        <3>1. Len(wire) =< s + m + 1
            BY <1>6 DEF Rest
        <3> QED BY <1>3, <1>4, <3>1
    <2> QED BY <1>1, <2>1, <2>2 DEF Rest
<1>7. ASSUME at = "first" PROVE Awaits'
    <2>1. CASE n = 0
        BY <1>1, <1>5, <2>1 DEF Awaits
    <2>2. CASE n # 0
        <3>1. /\ wire # <<>> /\ wire' # <<>> /\ wire'[1] = wire[1]
            BY <1>3, <1>4, <1>5, <2>2
        <3>2. /\ wire[1].id = k
              /\ IF Script[k] \in ListPhases THEN Says(wire[1].kind, Script[k]) ELSE Len(wire) = 1
            BY <1>7, <3>1 DEF IInv, WireInv, Awaits
        <3>3. Len(wire) = 1 => Len(wire') = 1
            BY <1>3, <1>4, <2>2
        <3>4. CASE Script[k] \in ListPhases
            <4>1. listed[Script[k]] >= 0 => listed[Script[k]] \in Nat
                BY <3>4 DEF IInv, TypeOK, Phases
            <4>2. Says(wire[1].kind, Script[k])'
                BY <1>1, <1>6, <3>1, <3>2, <3>3, <3>4, <4>1 DEF Says
            <4> QED BY <1>1, <3>1, <3>2, <3>4, <4>2 DEF Awaits
        <3>5. CASE Script[k] \notin ListPhases
            BY <1>1, <3>1, <3>2, <3>3, <3>5 DEF Awaits
        <3> QED BY <3>4, <3>5
    <2> QED BY <2>1, <2>2
<1>8. ASSUME at = "list" PROVE Rest(wire, 0, listed[Script[k]] - items)'
    <2>1. /\ Rest(wire, 0, listed[Script[k]] - items) /\ items =< listed[Script[k]]
          /\ items \in Nat /\ listed[Script[k]] \in Int
        BY <1>8 DEF IInv, WireInv, TypeOK, ControlInv, Phases
    <2>2. listed[Script[k]] - items \in Nat
        BY <2>1
    <2> QED BY <1>1, <1>6, <2>1, <2>2
<1>9. at \notin Active \/ (at = "send" /\ elapsed < Timeout) => wire' = <<>>
    BY <1>3, <1>5 DEF IInv, WireInv
<1>10. (at \in {"send", "first"} => items = 0) /\ (at = "list" => items =< listed[Script[k]])
    BY DEF IInv, WireInv
<1> QED BY <1>1, <1>4, <1>7, <1>8, <1>9, <1>10 DEF WireInv

\* Steps that touch neither the wire nor what it is read for.
LEMMA SameWire ==
    ASSUME IInv, UNCHANGED <<at, k, items, conn, asked, wire, listed>>,
           elapsed' < Timeout => elapsed < Timeout
    PROVE  WireInv'
<1>1. \A s, n : Rest(wire, s, n)' <=> Rest(wire, s, n)
    BY DEF Rest
<1>2. \A kind, p : Says(kind, p)' <=> Says(kind, p)
    BY DEF Says, Rest
<1>3. Awaits' <=> Awaits
    BY <1>2 DEF Awaits
<1> QED BY <1>1, <1>3 DEF IInv, WireInv

LEMMA NextWire == IInv /\ [Next]_vars => WireInv'
<1> SUFFICES ASSUME IInv, [Next]_vars PROVE WireInv'
    OBVIOUS
<1>0. /\ Len(Script) \in Nat /\ k \in 0 .. Len(Script) /\ wire \in Seq(Message)
      /\ elapsed \in Nat /\ Timeout \in Nat
    BY ScriptFacts, ScrapeAssumption DEF IInv, TypeOK, WireInv
<1>1. ASSUME NEW r \in Requests, Ask(r) PROVE WireInv'
    BY <1>1, SameWire DEF Ask, connVars, scrapeVars
<1>2. ASSUME NEW r \in Requests, Lock(r) PROVE WireInv'
    BY <1>2 DEF Lock, IInv, WireInv, ControlInv, Active
<1>3. CASE Dial
    BY <1>3 DEF Dial, IInv, WireInv, Active
<1>4. CASE DialFails
    BY <1>4 DEF DialFails, Close, connVars, IInv, WireInv, Active
<1>5. CASE Banner
    BY <1>5 DEF Banner, Advance, connVars, IInv, WireInv, Active
<1>6. CASE Send
    <2>1. /\ at = "send" /\ at' = "first" /\ asked = <<>> /\ wire = <<>> /\ items = 0
          /\ k \in 1 .. Len(Script) /\ conn \in {"open", "broken"}
          /\ UNCHANGED <<k, items, conn, wire, listed>>
        BY <1>0, <1>6 DEF Send, Limit, IInv, WireInv, ControlInv, TypeOK, Active
    <2>2. Script[k] \in ListPhases => listed[Script[k]] = -1
        BY <2>1 DEF IInv, TurnInv
    <2>3. CASE conn = "open"
        <3>1. asked' = <<k>>
            BY <1>6, <2>1, <2>3 DEF Send
        <3> QED BY <2>1, <2>2, <2>3, <3>1 DEF WireInv, Awaits, Active
    <2>4. CASE conn = "broken"
        <3>1. asked' = <<>>
            BY <1>6, <2>1, <2>4 DEF Send
        <3> QED BY <2>1, <2>4, <3>1 DEF WireInv, Awaits, Active
    <2> QED BY <2>1, <2>3, <2>4
<1>7. CASE TimesOut
    <2>1. elapsed < Timeout => asked = <<>> /\ wire = <<>>
        BY <1>0, <1>7 DEF TimesOut, Limit, IInv, WireInv
    <2>2. at \in Active /\ Fails(wire) /\ elapsed' = elapsed
        BY <1>7 DEF TimesOut, Active
    <2> QED BY <1>0, <2>1, <2>2, FailsWire
<1>8. CASE ReadResponse
    <2>1. at = "first" /\ wire # <<>> /\ Script[k] \notin ListPhases /\ elapsed' = elapsed /\ at \in Active
        BY <1>8 DEF ReadResponse, Active
    <2>2. asked = <<>> /\ Tail(wire) = <<>> /\ Tail(wire) \in Seq(Message)
        BY <2>1, AnswerRead
    <2>3. CASE Fails(Tail(wire))
        BY <2>1, <2>2, <2>3, FailsWire
    <2>4. CASE Close
        BY <2>4 DEF Close, WireInv, Active
    <2>5. CASE Advance(k + 1) /\ wire' = Tail(wire) /\ UNCHANGED asked
        BY <2>2, <2>5 DEF Advance, WireInv, Active
    <2> QED BY <1>8, <2>3, <2>4, <2>5 DEF ReadResponse
<1>9. CASE ReadFirst
    <2>1. at = "first" /\ wire # <<>> /\ Script[k] \in ListPhases /\ elapsed' = elapsed /\ at \in Active
        BY <1>9 DEF ReadFirst, Active
    <2>2. CASE Fails(Tail(wire))
        <3>1. Head(wire).kind # "ok"
            BY <1>9, <2>1, <2>2, FailsShape DEF ReadFirst, Close, Advance
        <3>2. asked = <<>> /\ Tail(wire) = <<>> /\ Tail(wire) \in Seq(Message)
            BY <2>1, <3>1, AnswerRead
        <3> QED BY <2>1, <2>2, <3>2, FailsWire
    <2>3. CASE ~Fails(Tail(wire)) /\ Head(wire).kind = "ok"
        <3>1. /\ at' = "list" /\ wire' = Tail(wire)
              /\ UNCHANGED <<k, items, asked, conn, listed>>
            BY <1>9, <2>3 DEF ReadFirst
        <3>2. /\ items = 0 /\ asked = <<>> /\ Tail(wire) \in Seq(Message)
              /\ listed[Script[k]] >= 0 /\ listed[Script[k]] \in Int
              /\ Rest(Tail(wire), 0, listed[Script[k]])
            BY <2>1, <2>3, AnswerRead DEF IInv, WireInv, TypeOK, Phases
        <3>3. Rest(wire, 0, listed[Script[k]])'
            BY <3>1, <3>2 DEF Rest
        <3>4. listed'[Script[k']] - items' = listed'[Script[k']] /\ items' =< listed'[Script[k']]
            BY <3>1, <3>2
        <3> QED BY <3>1, <3>2, <3>3, <3>4 DEF WireInv, Active
    <2>4. CASE ~Fails(Tail(wire)) /\ Head(wire).kind # "ok"
        <3>1. Advance(k + 1) /\ wire' = Tail(wire) /\ UNCHANGED asked
            BY <1>9, <2>4 DEF ReadFirst
        <3>2. asked = <<>> /\ Tail(wire) = <<>> /\ Tail(wire) \in Seq(Message)
            BY <2>1, <2>4, AnswerRead
        <3> QED BY <3>1, <3>2 DEF Advance, WireInv, Active
    <2> QED BY <2>2, <2>3, <2>4
<1>10. CASE ReadRow
    <2>1. at = "list" /\ wire # <<>> /\ wire' = Tail(wire) /\ UNCHANGED <<asked, conn, listed, elapsed>>
        BY <1>10 DEF ReadRow
    <2>2. asked = <<>> /\ Tail(wire) \in Seq(Message)
        BY <2>1, RowRead
    <2>3. CASE Head(wire) = Msg(k, "complete")
        <3>1. Tail(wire) = <<>>
            BY <2>1, <2>3, RowRead
        <3> QED BY <1>10, <2>1, <2>2, <2>3, <3>1 DEF ReadRow, Advance, WireInv, Active
    <2>4. CASE Head(wire) # Msg(k, "complete")
        <3>1. at' = "list" /\ k' = k /\ items' = items + 1
            BY <1>10, <2>1, <2>4, RowCounts DEF ReadRow
        <3>2. Rest(wire, 0, listed[Script[k]] - items)'
            BY <2>1, <2>4, <3>1, RowRead DEF Rest
        <3>3. items + 1 =< listed[Script[k]]
            BY <2>1, <2>4, RowCounts, ScrapeAssumption
        <3> QED BY <2>1, <2>2, <3>1, <3>2, <3>3 DEF WireInv, Active
    <2> QED BY <2>3, <2>4
<1>11. CASE Report
    BY <1>11 DEF Report, connVars, scrapeVars, IInv, WireInv, Active
<1>12. CASE Tick
    BY <1>0, <1>12, SameWire DEF Tick, connVars
<1>13. CASE UNCHANGED vars
    BY <1>13, SameWire DEF vars
<1> QED BY <1>1, <1>2, <1>3, <1>4, <1>5, <1>6, <1>7, <1>8, <1>9, <1>10, <1>11, <1>12, <1>13,
           AcceptWire, RejectWire, BreaksWire DEF Next, Steps

\* What has been reported of a list is what was listed, and as long as there is
\* a connection and time every list so far has been.
LEMMA NextRows == IInv /\ [Next]_vars => RowsInv'
<1> SUFFICES ASSUME IInv, [Next]_vars PROVE RowsInv'
    OBVIOUS
<1>0. /\ Len(Script) \in Nat /\ k \in 0 .. Len(Script)
      /\ elapsed \in Nat /\ Timeout \in Nat
    BY ScriptFacts, ScrapeAssumption DEF IInv, TypeOK
<1>s. ASSUME UNCHANGED <<emitted, listed>>,
             conn' = "open" /\ elapsed' < Timeout => conn = "open" /\ elapsed < Timeout,
             \/ k' = k
             \/ k' = k + 1 /\ Script[k] \notin ListPhases
      PROVE  RowsInv'
    <2>1. \A j \in 1 .. k' - 1 : j \in 1 .. k - 1 \/ (j = k /\ k' = k + 1)
        BY <1>0, <1>s
    <2> QED BY <1>s, <2>1 DEF IInv, RowsInv
<1>1. ASSUME NEW r \in Requests, Ask(r) PROVE RowsInv'
    BY <1>1, <1>s DEF Ask, connVars, scrapeVars
<1>2. ASSUME NEW r \in Requests, Lock(r) PROVE RowsInv'
    BY <1>2 DEF Lock, Nothing, Phases, RowsInv
<1>3. CASE Dial
    <2>1. k = 0
        BY <1>3 DEF Dial, IInv, ControlInv
    <2> QED BY <1>3, <2>1 DEF Dial, IInv, RowsInv
<1>4. CASE DialFails
    BY <1>4, <1>s DEF DialFails, Close, connVars
<1>5. CASE Banner
    <2>1. k' = 1 /\ UNCHANGED <<emitted, listed>>
        BY <1>5 DEF Banner, Advance, connVars
    <2> QED BY <2>1 DEF IInv, RowsInv
<1>6. CASE Send
    BY <1>6, <1>s DEF Send
<1>7. CASE Close /\ UNCHANGED emitted
    BY <1>7 DEF Close, IInv, RowsInv
<1>8. CASE TimesOut
    <2>1. at \in Active /\ Fails(wire) /\ UNCHANGED <<emitted, elapsed>>
        BY <1>8 DEF TimesOut, Active
    <2>2. CASE UNCHANGED <<conn, listed>>
        <3>1. ~(conn' = "open" /\ elapsed' < Timeout)
            BY <1>0, <1>8, <2>1, <2>2 DEF TimesOut, Limit
        <3> QED BY <2>1, <2>2, <3>1 DEF IInv, RowsInv
    <2> QED BY <1>7, <2>1, <2>2, FailsShape
<1>9. CASE ReadResponse
    <2>1. /\ at = "first" /\ wire # <<>> /\ at \in Active
          /\ Script[k] \notin ListPhases /\ UNCHANGED elapsed
        BY <1>9 DEF ReadResponse, Active
    <2>2. k \in 1 .. Len(Script) /\ Head(wire).id = k
        BY <2>1, <1>0, AnswerRead DEF IInv, ControlInv
    <2>3. CASE Script[k] = "Login" /\ Head(wire).kind # "ok"
        <3>1. k = 1 /\ Fails(Tail(wire)) /\ UNCHANGED emitted
            BY <1>9, <2>2, <2>3, ScriptFacts DEF ReadResponse
        <3> QED BY <1>7, <2>1, <3>1, FailsShape
    <2>4. ASSUME UNCHANGED emitted \/ EmitCore, Close \/ (Advance(k + 1) /\ UNCHANGED <<conn, listed>>)
          PROVE  RowsInv'
        <3>1. \A p \in ListPhases : emitted'[p] = emitted[p]
            <4>1. \A p \in ListPhases : p # "core_status"
                BY ScriptFacts
            <4> QED BY <2>4, <4>1 DEF EmitCore, IInv, TypeOK, Phases
        <3>2. CASE Close
            BY <3>1, <3>2 DEF Close, IInv, RowsInv
        <3>3. CASE Advance(k + 1) /\ UNCHANGED <<conn, listed>>
            <4>1. k' = k + 1
                BY <3>3 DEF Advance
            <4>2. \A j \in 1 .. k' - 1 : j \in 1 .. k - 1 \/ j = k
                BY <2>2, <4>1
            <4> QED BY <2>1, <3>1, <3>3, <4>1, <4>2 DEF IInv, RowsInv
        <3> QED BY <2>4, <3>2, <3>3
    <2> QED BY <1>9, <2>2, <2>3, <2>4 DEF ReadResponse
<1>10. CASE ReadFirst
    <2>1. /\ at = "first" /\ wire # <<>> /\ at \in Active
          /\ Script[k] \in ListPhases /\ UNCHANGED <<elapsed, emitted>>
        BY <1>10 DEF ReadFirst, Active
    <2>2. k \in 4 .. Len(Script) - 1
        BY <2>1, <1>0, ScriptFacts DEF IInv, ControlInv
    <2>3. CASE Head(wire).kind = "ok"
        BY <1>10, <1>s, <2>1, <2>3 DEF ReadFirst
    <2>4. CASE Head(wire).kind # "ok"
        <3>1. listed[Script[k]] \in {-2, -3}
            BY <2>1, <2>4, AnswerRead
        <3>2. Advance(k + 1) /\ UNCHANGED <<conn, listed>>
            <4>1. CASE Fails(Tail(wire))
                <5>1. k \notin {1, Len(Script)} /\ (IF k = 2 THEN 4 ELSE k + 1) = k + 1
                    BY <1>0, <2>2
                <5> QED BY <2>1, <4>1, <5>1, FailsShape DEF Advance
            <4>2. CASE ~Fails(Tail(wire))
                BY <1>10, <2>4, <4>2 DEF ReadFirst
            <4> QED BY <4>1, <4>2
        <3>3. k' = k + 1 /\ \A j \in 1 .. k' - 1 : j \in 1 .. k - 1 \/ j = k
            BY <2>2, <3>2 DEF Advance
        <3> QED BY <2>1, <3>1, <3>2, <3>3 DEF IInv, RowsInv
    <2> QED BY <2>3, <2>4
<1>11. CASE ReadRow
    <2>1. at = "list" /\ wire # <<>> /\ UNCHANGED <<conn, listed, elapsed>>
        BY <1>11 DEF ReadRow
    <2>2. CASE Head(wire) = Msg(k, "complete")
        <3>1. /\ k' = k + 1 /\ emitted' = [emitted EXCEPT ![Script[k]] = items]
              /\ items = listed[Script[k]] /\ items \in Nat
              /\ k \in 4 .. Len(Script) - 1 /\ Script[k] \in Phases
            BY <1>11, <2>1, <2>2, RowCounts, ScrapeAssumption DEF ReadRow, EmitList, Advance
        <3>2. /\ emitted'[Script[k]] = listed[Script[k]] /\ listed[Script[k]] # -1
              /\ \A p \in ListPhases : p # Script[k] => emitted'[p] = emitted[p]
            BY <3>1 DEF IInv, TypeOK, Phases
        <3>3. \A j \in 1 .. k' - 1 : j \in 1 .. k - 1 \/ j = k
            BY <3>1
        <3>4. \A j \in 1 .. k - 1 : Script[j] # Script[k]
            BY <3>1, ScriptFacts
        <3> QED BY <2>1, <3>2, <3>3, <3>4 DEF IInv, RowsInv
    <2>3. CASE Head(wire) # Msg(k, "complete")
        BY <1>11, <1>s, <2>1, <2>3 DEF ReadRow
    <2> QED BY <2>2, <2>3
<1>12. CASE Report
    BY <1>12, <1>s DEF Report, connVars, scrapeVars
<1>13. CASE Tick
    BY <1>0, <1>13, <1>s DEF Tick, connVars
<1>14. ASSUME NEW v, NEW j \in 1 .. k, asked = <<j>>, UNCHANGED <<k, emitted, elapsed, conn>>,
              \/ UNCHANGED listed
              \/ Script[j] \in ListPhases /\ listed' = [listed EXCEPT ![Script[j]] = v]
       PROVE  RowsInv'
    <2>1. CASE UNCHANGED listed
        BY <1>14, <1>s, <2>1
    <2>2. CASE Script[j] \in ListPhases /\ listed' = [listed EXCEPT ![Script[j]] = v]
        <3>1. /\ listed[Script[j]] = -1
              /\ at = "send" => ~(elapsed < Timeout)
              /\ at \in Active /\ (at = "first" => j = k) /\ at # "list"
            <4>1. asked # <<>> /\ \A i : asked = <<i>> => i = j
                BY <1>14
            <4> QED BY <1>14, <2>2, <4>1 DEF IInv, WireInv, Awaits, Active
        <3>2. /\ emitted[Script[j]] = -1
              /\ \A p \in ListPhases : p # Script[j] => listed'[p] = listed[p]
            BY <2>2, <3>1 DEF IInv, RowsInv, TypeOK, Phases
        <3>3. ASSUME conn = "open", elapsed < Timeout, NEW i \in 1 .. k - 1, Script[i] \in ListPhases
              PROVE  Script[i] # Script[j]
            BY <1>0, <1>14, <3>1, <3>3, ScriptFacts DEF Active
        <3> QED BY <1>14, <3>2, <3>3 DEF IInv, RowsInv
    <2> QED BY <1>14, <2>1, <2>2
<1>15. asked # <<>> => \E j \in 1 .. k : asked = <<j>>
    BY DEF IInv, WireInv
<1>16. CASE Accept
    <2>1. PICK j \in 1 .. k : asked = <<j>> /\ Head(asked) = j
        <3>1. PICK j \in 1 .. k : asked = <<j>>
            BY <1>15, <1>16 DEF Accept
        <3> QED BY <3>1
    <2>2. \/ UNCHANGED listed
          \/ \E n \in 0 .. MaxItems :
                 Script[j] \in ListPhases /\ listed' = [listed EXCEPT ![Script[j]] = n]
        BY <1>16, <2>1 DEF Accept
    <2> QED BY <1>14, <1>16, <2>1, <2>2 DEF Accept, scrapeVars
<1>17. CASE Reject
    <2>1. PICK j \in 1 .. k : asked = <<j>> /\ Head(asked) = j
        <3>1. PICK j \in 1 .. k : asked = <<j>>
            BY <1>15, <1>17 DEF Reject
        <3> QED BY <3>1
    <2>2. \/ UNCHANGED listed
          \/ \E n \in {-2, -3} :
                 Script[j] \in ListPhases /\ listed' = [listed EXCEPT ![Script[j]] = n]
        BY <1>17, <2>1 DEF Reject
    <2> QED BY <1>14, <1>17, <2>1, <2>2 DEF Reject, scrapeVars
<1>18. CASE Breaks
    BY <1>18, <1>s DEF Breaks, scrapeVars
<1>19. CASE UNCHANGED vars
    BY <1>19, <1>s DEF vars
<1> QED BY <1>1, <1>2, <1>3, <1>4, <1>5, <1>6, <1>8, <1>9, <1>10, <1>11, <1>12, <1>13, <1>16,
           <1>17, <1>18, <1>19 DEF Next, Steps

\* A phase that had not failed is counted.
LEMMA Counted ==
    ASSUME IInv, at \notin {"idle", "report"}, NEW p \in Phases \cup {"dial", "login"},
           errors[p] = before[p], Count(p), before' = before
    PROVE  /\ DOMAIN errors' = DOMAIN errors
           /\ \A q \in DOMAIN errors : errors'[q] - before'[q] \in {0, 1}
           /\ \A q \in DOMAIN errors : q # p => errors'[q] = errors[q]
           /\ errors' # before'
<1>1. /\ errors \in [Phases \cup {"dial", "login"} -> Nat]
      /\ before \in [Phases \cup {"dial", "login"} -> Nat]
    BY DEF IInv, TypeOK
<1>2. /\ DOMAIN errors' = DOMAIN errors /\ errors'[p] = before[p] + 1
      /\ \A q \in DOMAIN errors : q # p => errors'[q] = errors[q]
    BY <1>1 DEF Count
<1>3. \A q \in DOMAIN errors : errors[q] - before[q] \in {0, 1}
    BY DEF IInv, ErrInv
<1>4. before[p] \in Nat
    BY <1>1
<1>5. errors'[p] - before[p] = 1 /\ errors'[p] # before[p]
    BY <1>2, <1>4
<1> QED BY <1>2, <1>3, <1>5

\* firstErr and the counters tell the same story, and without an error nothing
\* is missing so far.
LEMMA NextErr == IInv /\ [Next]_vars => ErrInv'
<1> SUFFICES ASSUME IInv, [Next]_vars PROVE ErrInv'
    OBVIOUS
<1>0. Len(Script) \in Nat /\ Len(Script) >= 4 /\ k \in 0 .. Len(Script)
    BY ScriptFacts DEF IInv, TypeOK
<1>s. ASSUME UNCHANGED <<k, emitted, listed, errors, before, firstErr>>,
             \/ at' = at
             \/ at \in {"dial", "banner"} \cup Active /\ at' \in {"banner"} \cup Active
      PROVE  ErrInv'
    BY <1>s DEF IInv, ErrInv, Active
<1>1. ASSUME NEW r \in Requests, Ask(r) PROVE ErrInv'
    BY <1>1, <1>s DEF Ask, connVars, scrapeVars
<1>2. ASSUME NEW r \in Requests, Lock(r) PROVE ErrInv'
    <2>1. /\ at' = "dial" /\ k' = 0 /\ errors' = errors /\ before' = errors /\ firstErr' = FALSE
        BY <1>2 DEF Lock
    <2>2. \A p \in DOMAIN errors : errors[p] \in Nat /\ errors[p] - errors[p] = 0
        BY DEF IInv, TypeOK
    <2> QED BY <2>1, <2>2 DEF ErrInv
<1>3. CASE Dial
    BY <1>3, <1>s DEF Dial
<1>4. CASE DialFails
    <2>1. /\ at \in {"dial", "banner"} /\ at' = "report" /\ firstErr' = TRUE /\ Count("dial")
          /\ before' = before
        BY <1>4 DEF DialFails, Close
    <2>2. errors["dial"] = before["dial"]
        BY <2>1 DEF IInv, ErrInv
    <2> QED BY <2>1, <2>2, Counted DEF ErrInv
<1>5. CASE Banner
    <2>1. /\ at = "banner" /\ k = 0 /\ at' = "send" /\ k' = 1
          /\ UNCHANGED <<emitted, listed, errors, before, firstErr>>
        BY <1>5 DEF Banner, Advance, connVars, IInv, ControlInv
    <2>2. \A j \in 1 .. Len(Script) - 1 : j >= 0
        OBVIOUS
    <2> QED BY <2>1, <2>2 DEF IInv, ErrInv
<1>6. CASE Send
    BY <1>6, <1>s DEF Send, Active
<1>7. ASSUME NEW rest, at \in Active, Fails(rest), UNCHANGED <<emitted, before>> PROVE ErrInv'
    <2>0. k \in 1 .. Len(Script) /\ at \notin {"idle", "report"}
        BY <1>0, <1>7 DEF IInv, ControlInv, Active
    <2>1. CASE k = 1
        <3>1. at' = "report" /\ firstErr' = TRUE /\ Count("login")
            BY <1>0, <1>7, <2>1, FailsShape DEF Close
        <3>2. errors["login"] = before["login"]
            BY <1>0, <2>0, <2>1, PhaseFacts DEF IInv, ErrInv
        <3> QED BY <1>7, <2>0, <3>1, <3>2, Counted DEF ErrInv
    <2>2. CASE k = Len(Script)
        <3>1. at' = "report" /\ UNCHANGED <<k, listed, firstErr, errors>>
            <4>1. k # 1 /\ ~(k \notin {1, Len(Script)})
                BY <1>0, <2>2
            <4>2. Close /\ UNCHANGED <<k, firstErr, errors>>
                BY <1>7, <4>1, FailsShape
            <4> QED BY <4>2 DEF Close
        <3> QED BY <1>7, <2>0, <2>2, <3>1 DEF IInv, ErrInv
    <2>3. CASE k \notin {1, Len(Script)}
        <3>1. /\ Count(PhaseOf(k)) /\ firstErr' = TRUE /\ at' = "send"
              /\ k' = IF k = 2 THEN 4 ELSE k + 1
            BY <1>7, <2>3, FailsShape DEF Advance
        <3>2. k \in 1 .. Len(Script) - 1 /\ PhaseOf(k) \in Phases /\ PhaseOf(k) # "dial"
            BY <1>0, <2>0, <2>3, PhaseFacts
        <3>3. errors[PhaseOf(k)] = before[PhaseOf(k)]
            BY <2>0, <3>2 DEF IInv, ErrInv
        <3>4. /\ DOMAIN errors' = DOMAIN errors
              /\ \A q \in DOMAIN errors : errors'[q] - before'[q] \in {0, 1}
              /\ \A q \in DOMAIN errors : q # PhaseOf(k) => errors'[q] = errors[q]
              /\ errors' # before'
            BY <1>7, <2>0, <3>1, <3>2, <3>3, Counted
        <3>5. ASSUME NEW j \in 1 .. Len(Script) - 1, j >= k'
              PROVE  errors'[PhaseOf(j)] = before'[PhaseOf(j)]
            <4>1. j >= k /\ j >= 2 /\ j # k /\ ~(k \in {2, 3} /\ j \in {2, 3})
                BY <1>0, <2>0, <2>3, <3>1, <3>5
            <4>2. PhaseOf(j) # PhaseOf(k) /\ PhaseOf(j) \in Phases
                BY <3>2, <4>1, PhaseFacts
            <4>3. errors[PhaseOf(j)] = before[PhaseOf(j)]
                BY <2>0, <4>1 DEF IInv, ErrInv
            <4> QED BY <1>7, <3>4, <4>2, <4>3 DEF IInv, TypeOK
        <3>6. errors'["dial"] = before'["dial"]
            BY <1>7, <2>0, <3>2, <3>4 DEF IInv, ErrInv, TypeOK
        <3> QED BY <3>1, <3>4, <3>5, <3>6 DEF ErrInv
    <2> QED BY <2>1, <2>2, <2>3
\* Goes on without an error from an action that has what it must have.
<1>8. ASSUME at \in Active, k \in 1 .. Len(Script) - 1, at' = "send", k' = k + 1,
             UNCHANGED <<listed, errors, before, firstErr>>,
             \A p \in Phases : emitted[p] # -1 => emitted'[p] # -1,
             k = 3 => emitted'["core_status"] # -1,
             Script[k] \in ListPhases =>
                 \/ emitted'[Script[k]] # -1
                 \/ listed[Script[k]] = -2 /\ TakesUnavailable(Script[k])
      PROVE  ErrInv'
    <2>1. at \notin {"idle", "report"}
        BY <1>8 DEF Active
    <2>2. \A j \in 1 .. Len(Script) - 1 : j >= k' => j >= k
        BY <1>0, <1>8
    <2>3. ASSUME ~firstErr
          PROVE  /\ k' >= 4 => emitted'["core_status"] # -1
                 /\ \A j \in 1 .. k' - 1 : Script[j] \in ListPhases =>
                       \/ emitted'[Script[j]] # -1
                       \/ listed[Script[j]] = -2 /\ TakesUnavailable(Script[j])
        <3>1. k' >= 4 => k = 3 \/ k >= 4
            BY <1>0, <1>8
        <3>2. \A j \in 1 .. k' - 1 : j \in 1 .. k - 1 \/ j = k
            BY <1>0, <1>8
        <3> QED BY <1>8, <2>1, <2>3, <3>1, <3>2 DEF IInv, ErrInv, Phases
    <2> QED BY <1>8, <2>1, <2>2, <2>3 DEF IInv, ErrInv
<1>9. CASE TimesOut
    BY <1>7, <1>9 DEF TimesOut, Active
<1>10. CASE ReadResponse
    <2>1. /\ at = "first" /\ wire # <<>> /\ at \in Active
          /\ Script[k] \notin ListPhases /\ before' = before
        BY <1>10 DEF ReadResponse, Active
    <2>2. k \in 1 .. Len(Script)
        BY <1>0, <2>1 DEF IInv, ControlInv
    <2>3. CASE Fails(Tail(wire)) /\ UNCHANGED emitted
        BY <1>7, <2>1, <2>3
    <2>4. CASE ~(Fails(Tail(wire)) /\ UNCHANGED emitted)
        <3>1. /\ UNCHANGED <<listed, errors, before, firstErr>>
              /\ IF Script[k] = "CoreStatus" THEN EmitCore ELSE UNCHANGED emitted
            BY <1>10, <2>4 DEF ReadResponse, Close
        <3>2. CASE Script[k] = "Logoff"
            <4>1. k = Len(Script) /\ at' = "report" /\ UNCHANGED <<k, emitted>>
                BY <1>10, <2>2, <2>4, <3>1, <3>2, ScriptFacts DEF ReadResponse, Close
            <4> QED BY <2>1, <3>1, <4>1 DEF IInv, ErrInv
        <3>3. CASE Script[k] # "Logoff"
            <4>1. k \in 1 .. Len(Script) - 1 /\ at' = "send" /\ k' = k + 1
                BY <1>0, <1>10, <2>2, <2>4, <3>3, ScriptFacts DEF ReadResponse, Advance
            <4>2. \A p \in Phases : emitted[p] # -1 => emitted'[p] # -1
                BY <3>1 DEF EmitCore, IInv, TypeOK
            <4>3. k = 3 => emitted'["core_status"] # -1
                <5>1. "core_status" \in Phases
                    BY DEF Phases
                <5> QED BY <2>2, <3>1, <5>1, ScriptFacts DEF EmitCore, IInv, TypeOK
            <4> QED BY <1>8, <2>1, <3>1, <4>1, <4>2, <4>3
        <3> QED BY <3>2, <3>3
    <2> QED BY <2>3, <2>4
<1>11. CASE ReadFirst
    <2>1. /\ at = "first" /\ wire # <<>> /\ at \in Active
          /\ Script[k] \in ListPhases /\ UNCHANGED <<emitted, before>>
        BY <1>11 DEF ReadFirst, Active
    <2>2. k \in 1 .. Len(Script) - 1 /\ k # 3
        BY <1>0, <2>1, ScriptFacts DEF IInv, ControlInv
    <2>3. CASE Fails(Tail(wire))
        BY <1>7, <2>1, <2>3
    <2>4. CASE ~Fails(Tail(wire)) /\ Head(wire).kind = "ok"
        BY <1>11, <1>s, <2>1, <2>4 DEF ReadFirst, Active
    <2>5. CASE ~Fails(Tail(wire)) /\ Head(wire).kind # "ok"
        <3>1. /\ IsEmptyResult(Script[k], Head(wire).kind)
              /\ at' = "send" /\ k' = k + 1 /\ UNCHANGED <<listed, errors, firstErr>>
            BY <1>11, <2>5 DEF ReadFirst, Advance
        <3>2. listed[Script[k]] = -2 /\ TakesUnavailable(Script[k])
            BY <2>1, <3>1, AnswerRead DEF IsEmptyResult
        <3> QED BY <1>8, <2>1, <2>2, <3>1, <3>2
    <2> QED BY <2>3, <2>4, <2>5
<1>12. CASE ReadRow
    <2>1. /\ at = "list" /\ wire # <<>> /\ at \in Active
          /\ UNCHANGED <<listed, errors, before, firstErr>>
        BY <1>12 DEF ReadRow, Active
    <2>2. CASE Head(wire) = Msg(k, "complete")
        <3>1. /\ k' = k + 1 /\ at' = "send" /\ emitted' = [emitted EXCEPT ![Script[k]] = items]
              /\ items \in Nat /\ k \in 4 .. Len(Script) - 1 /\ Script[k] \in Phases
            BY <1>12, <2>1, <2>2, RowCounts, ScrapeAssumption DEF ReadRow, EmitList, Advance
        <3>2. /\ \A p \in Phases : emitted[p] # -1 => emitted'[p] # -1
              /\ emitted'[Script[k]] # -1
            BY <3>1 DEF IInv, TypeOK
        <3>3. k \in 1 .. Len(Script) - 1 /\ k # 3
            BY <1>0, <3>1
        <3> QED BY <1>8, <2>1, <3>1, <3>2, <3>3
    <2>3. CASE Head(wire) # Msg(k, "complete")
        BY <1>12, <1>s, <2>1, <2>3 DEF ReadRow
    <2> QED BY <2>2, <2>3
<1>13. CASE Report
    BY <1>13 DEF Report, ErrInv
<1>14. CASE Tick
    BY <1>14, <1>s DEF Tick, connVars
<1>15. ASSUME asked # <<>>,
              UNCHANGED <<at, k, emitted, errors, before, firstErr>>,
              \/ UNCHANGED listed
              \/ /\ Script[Head(asked)] \in ListPhases
                 /\ \E v : listed' = [listed EXCEPT ![Script[Head(asked)]] = v]
       PROVE  ErrInv'
    <2>1. CASE UNCHANGED listed
        BY <1>15, <1>s, <2>1
    <2>2. CASE /\ Script[Head(asked)] \in ListPhases
               /\ \E v : listed' = [listed EXCEPT ![Script[Head(asked)]] = v]
        <3> DEFINE p == Script[Head(asked)]
        <3>1. PICK j \in 1 .. k : asked = <<j>> /\ (Script[j] \in ListPhases => listed[Script[j]] = -1)
            BY <1>15 DEF IInv, WireInv
        <3>2. Head(asked) = j
            BY <3>1
        <3>3. listed[p] = -1 /\ p \in ListPhases
            BY <2>2, <3>1, <3>2
        <3>4. emitted[p] = -1
            BY <3>3 DEF IInv, RowsInv
        <3>5. \A q \in ListPhases : q # p => listed'[q] = listed[q]
            BY <2>2 DEF IInv, TypeOK, Phases
        <3> HIDE DEF p
        <3>6. ASSUME at # "idle", ~firstErr, NEW i \in 1 .. k - 1, Script[i] \in ListPhases
              PROVE  listed'[Script[i]] = listed[Script[i]]
            <4>1. \/ emitted[Script[i]] # -1
                  \/ listed[Script[i]] = -2
                BY <3>6 DEF IInv, ErrInv
            <4> QED BY <3>3, <3>4, <3>5, <3>6, <4>1
        <3> QED BY <1>15, <3>6 DEF IInv, ErrInv
    <2> QED BY <1>15, <2>1, <2>2
<1>16. CASE Accept
    BY <1>15, <1>16 DEF Accept, scrapeVars
<1>17. CASE Reject
    BY <1>15, <1>17 DEF Reject, scrapeVars
<1>18. CASE Breaks
    BY <1>18, <1>s DEF Breaks, scrapeVars
<1>19. CASE UNCHANGED vars
    BY <1>19, <1>s DEF vars
<1> QED BY <1>1, <1>2, <1>3, <1>4, <1>5, <1>6, <1>9, <1>10, <1>11, <1>12, <1>13, <1>14, <1>16,
           <1>17, <1>18, <1>19 DEF Next, Steps

LEMMA InvariantIInv == Spec => []IInv
<1>1. IInv /\ [Next]_vars => IInv'
    BY NextTypes, NextControl, NextTime, NextWire, NextTurn, NextRows, NextErr DEF IInv
<1> QED BY InitIInv, <1>1, PTL DEF Spec
-----------------------------------------------------------------------------
(***************************************************************************)
(* What follows, for every behaviour of Asterisk and of the network.       *)
(***************************************************************************)

\* Type correctness.
THEOREM TypeCorrect == Spec => []TypeOK
<1>1. IInv => TypeOK
    BY DEF IInv
<1> QED BY <1>1, InvariantIInv, PTL

\* scrape closes its connection on every path before Collect goes on, and never
\* has two.
THEOREM ClosesItsConnection == Spec => []OneSession
<1>1. IInv => OneSession
    BY DEF IInv, ControlInv, OneSession
<1> QED BY <1>1, InvariantIInv, PTL

\* What is reported of a list is what Asterisk listed, and a rejected phase costs
\* no other phase its rows.
THEOREM ReportsWholeLists == Spec => []RowsAreWhole
<1>1. ASSUME IInv PROVE RowsAreWhole
    <2>1. ASSUME NEW p \in ListPhases, k = Len(Script), conn = "open", elapsed < Timeout
          PROVE  listed[p] # -1 /\ (listed[p] >= 0 => emitted[p] = listed[p])
        <3>1. PICK j \in 4 .. Len(Script) - 1 : Script[j] = p
            BY ScriptFacts
        <3>2. j \in 1 .. k - 1
            BY <2>1, <3>1, ScriptFacts
        <3> QED BY <1>1, <2>1, <3>1, <3>2 DEF IInv, RowsInv
    <2> QED BY <1>1, <2>1 DEF RowsAreWhole, IInv, RowsInv
<1> QED BY <1>1, InvariantIInv, PTL

\* up = 1 says that nothing is missing, and up = 0 that a counter has gone up.
THEOREM UpTellsTheTruth == Spec => []UpIsTrue
<1>1. ASSUME IInv, at = "report"
      PROVE  /\ ~firstErr =>
                    /\ emitted["core_status"] # -1
                    /\ \A p \in ListPhases :
                           emitted[p] # -1 \/ (listed[p] = -2 /\ TakesUnavailable(p))
             /\ firstErr <=> errors # before
             /\ \A p \in DOMAIN errors : errors[p] - before[p] \in {0, 1}
    <2>1. ErrInv /\ Len(Script) \in Nat /\ Len(Script) >= 4
        BY <1>1, ScriptFacts DEF IInv
    <2>2. ASSUME ~firstErr, NEW p \in ListPhases
          PROVE  emitted[p] # -1 \/ (listed[p] = -2 /\ TakesUnavailable(p))
        <3>1. PICK j \in 4 .. Len(Script) - 1 : Script[j] = p
            BY ScriptFacts
        <3>2. k = Len(Script)
            BY <1>1, <2>1, <2>2 DEF ErrInv
        <3>3. j \in 1 .. k - 1
            BY <2>1, <3>1, <3>2
        <3> QED BY <1>1, <2>1, <2>2, <3>1, <3>3 DEF ErrInv
    <2> QED BY <1>1, <2>1, <2>2 DEF ErrInv
<1>2. IInv => UpIsTrue
    BY <1>1 DEF UpIsTrue
<1> QED BY <1>2, InvariantIInv, PTL

\* c.mu is held no longer than twice the timeout, and longer than once only to
\* wait for a banner that then costs the whole report.
THEOREM HoldsTheLockBriefly == Spec => []InTime
<1>1. IInv => InTime
    BY DEF IInv, TimeInv, InTime
<1> QED BY <1>1, InvariantIInv, PTL
-----------------------------------------------------------------------------
(***************************************************************************)
(* What is sent of the rows of a list.  A total counts the pairs of a      *)
(* sample and a number up to its value; a list that is grouped has as many *)
(* of these as rows, for the rows of a group can be numbered.              *)
(***************************************************************************)

\* The values of a function on a finite set.
LEMMA SizeOfImage ==
    ASSUME NEW I, IsFiniteSet(I), NEW f, f = [i \in I |-> f[i]]
    PROVE  /\ IsFiniteSet({f[i] : i \in I}) /\ Cardinality({f[i] : i \in I}) =< Cardinality(I)
           /\ IsInjective(f) => Cardinality({f[i] : i \in I}) = Cardinality(I)
<1> DEFINE T == {f[i] : i \in I}
<1>1. f \in [I -> T]
    OBVIOUS
<1>2. f \in Surjection(I, T)
    BY <1>1 DEF Surjection
<1>3. IsInjective(f) => f \in Injection(I, T)
    BY <1>1 DEF Injection
<1> HIDE DEF T
<1>4. IsFiniteSet(T) /\ Cardinality(T) =< Cardinality(I) /\ (Cardinality(T) = Cardinality(I) <=> f \in Injection(I, T))
    BY <1>2, FS_Surjection
<1> QED BY <1>3, <1>4 DEF T

\* The elements of a finite set can be numbered.
LEMMA Numbered ==
    ASSUME NEW I, IsFiniteSet(I)
    PROVE  \E e \in [I -> 1 .. Cardinality(I)] :
              /\ \A i, j \in I : e[i] = e[j] => i = j
              /\ \A n \in 1 .. Cardinality(I) : \E i \in I : e[i] = n
<1>1. ExistsBijection(I, 1 .. Cardinality(I))
    BY FS_CardinalityType, Fun_ExistsBijSymmetric
<1>2. PICK e : e \in Bijection(I, 1 .. Cardinality(I))
    BY <1>1 DEF ExistsBijection
<1> QED BY <1>2 DEF Bijection, Injection, Surjection, IsInjective

Group(labels, group) == {i \in DOMAIN labels : labels[i] = group}

\* The sample of the group a row is in.
GroupOf(metric, labels, i) == Sample(metric, labels[i], Cardinality(Group(labels, labels[i])))

LEMMA SampleIs ==
    \A m, l, v : /\ Sample(m, l, v).metric = m
                 /\ Sample(m, l, v).labels = l
                 /\ Sample(m, l, v).value = v
BY DEF Sample

LEMMA GroupedIs ==
    ASSUME NEW metric, NEW labels
    PROVE  Grouped(metric, labels) = {GroupOf(metric, labels, i) : i \in DOMAIN labels}
BY DEF Grouped, GroupOf, Group

\* The samples of a list that is grouped add up to its rows.
LEMMA GroupsAddUp ==
    ASSUME NEW metric, NEW labels, IsFiniteSet(DOMAIN labels), NEW samples,
           Series(samples, metric) = Grouped(metric, labels)
    PROVE  Total(samples, metric) = Cardinality(DOMAIN labels)
<1> DEFINE D == DOMAIN labels
           of(i) == GroupOf(metric, labels, i)
           G == {of(i) : i \in D}
           Numbers(g, e) == /\ e \in [Group(labels, g.labels) -> 1 .. g.value]
                            /\ \A i, j \in Group(labels, g.labels) : e[i] = e[j] => i = j
                            /\ \A n \in 1 .. g.value : \E i \in Group(labels, g.labels) : e[i] = n
           number == [g \in G |-> CHOOSE e : Numbers(g, e)]
           h == [i \in D |-> <<of(i), number[of(i)][i]>>]
<1>1. Series(samples, metric) = G
    BY GroupedIs
<1>2. \A i \in D : of(i).labels = labels[i] /\ of(i).value = Cardinality(Group(labels, labels[i]))
                   /\ i \in Group(labels, labels[i])
    BY SampleIs DEF GroupOf, Group
<1>3. ASSUME NEW g \in G PROVE Numbers(g, number[g])
    <2>1. PICK i \in D : g = of(i)
        OBVIOUS
    <2>2. IsFiniteSet(Group(labels, labels[i]))
        BY FS_Subset DEF Group
    <2>3. g.labels = labels[i] /\ g.value = Cardinality(Group(labels, labels[i]))
        BY <1>2, <2>1
    <2>4. \E e : Numbers(g, e)
        BY <2>2, <2>3, Numbered
    <2>5. Numbers(g, CHOOSE e : Numbers(g, e))
        <3> HIDE DEF Numbers
        <3> QED BY <2>4, Zenon
    <2> QED BY <2>5
<1> HIDE DEF number
<1>4. ASSUME NEW i \in D, NEW j \in D, h[i] = h[j] PROVE i = j
    <2>1. of(i) = of(j) /\ number[of(i)][i] = number[of(j)][j]
        BY <1>4
    <2>2. labels[i] = labels[j]
        BY <1>2, <2>1
    <2>3. i \in Group(labels, of(i).labels) /\ j \in Group(labels, of(i).labels)
        BY <1>2, <2>2
    <2>4. of(i) \in G
        OBVIOUS
    <2> QED BY <1>3, <2>1, <2>3, <2>4
<1>5. UNION {{g} \X (1 .. g.value) : g \in G} = {h[i] : i \in D}
    <2>1. ASSUME NEW g \in G, NEW n \in 1 .. g.value PROVE \E i \in D : <<g, n>> = h[i]
        <3>1. PICK i \in Group(labels, g.labels) : number[g][i] = n
            BY <1>3
        <3>2. i \in D /\ labels[i] = g.labels
            BY DEF Group
        <3>3. of(i) = g
            <4>1. PICK j \in D : g = of(j)
                OBVIOUS
            <4>2. labels[i] = labels[j]
                BY <1>2, <3>2, <4>1
            <4> QED BY <4>1, <4>2 DEF GroupOf
        <3> QED BY <3>1, <3>2, <3>3
    <2>2. ASSUME NEW i \in D PROVE \E g \in G : h[i] \in {g} \X (1 .. g.value)
        <3>1. of(i) \in G /\ i \in Group(labels, of(i).labels)
            BY <1>2
        <3>2. number[of(i)][i] \in 1 .. of(i).value
            BY <1>3, <3>1
        <3> QED BY <3>1, <3>2
    <2> HIDE DEF G, h
    <2>3. \A x : x \in UNION {{g} \X (1 .. g.value) : g \in G} <=> \E g \in G : \E n \in 1 .. g.value : x = <<g, n>>
        OBVIOUS
    <2>4. \A i \in D : \E g \in G : \E n \in 1 .. g.value : h[i] = <<g, n>>
        BY <2>2
    <2> QED BY <2>1, <2>3, <2>4
<1>6. Cardinality({h[i] : i \in D}) = Cardinality(D)
    <2>1. IsInjective(h) /\ h = [i \in D |-> h[i]]
        BY <1>4 DEF IsInjective
    <2> HIDE DEF h
    <2> QED BY <2>1, SizeOfImage
<1> QED BY <1>1, <1>5, <1>6 DEF Total

\* The total of a metric of one sample is its value.
LEMMA SingleTotal ==
    ASSUME NEW samples, NEW metric, NEW s, s.value \in Nat, Series(samples, metric) = {s}
    PROVE  Total(samples, metric) = s.value
<1> DEFINE h == [n \in 1 .. s.value |-> <<s, n>>]
<1>1. UNION {{t} \X (1 .. t.value) : t \in {s}} = {h[n] : n \in 1 .. s.value}
    <2>1. UNION {{t} \X (1 .. t.value) : t \in {s}} = {s} \X (1 .. s.value)
        BY Zenon
    <2>2. {s} \X (1 .. s.value) = {<<s, n>> : n \in 1 .. s.value}
        <3>1. \A x : x \in {s} \X (1 .. s.value) <=> \E n \in 1 .. s.value : x = <<s, n>>
            OBVIOUS
        <3> QED BY <3>1, Zenon
    <2>3. {<<s, n>> : n \in 1 .. s.value} = {h[n] : n \in 1 .. s.value}
        <3>1. \A n \in 1 .. s.value : h[n] = <<s, n>>
            BY Zenon
        <3> HIDE DEF h
        <3> QED BY <3>1, Zenon
    <2> QED BY <2>1, <2>2, <2>3, Zenon
<1>2. IsInjective(h) /\ h = [n \in 1 .. s.value |-> h[n]]
    <2>1. h = [n \in 1 .. s.value |-> h[n]] /\ DOMAIN h = 1 .. s.value
        BY Zenon
    <2>2. \A n \in 1 .. s.value : h[n] = <<s, n>>
        BY Zenon
    <2> HIDE DEF h
    <2>3. \A m, n \in 1 .. s.value : h[m] = h[n] => m = n
        BY <2>2
    <2> QED BY <2>1, <2>3 DEF IsInjective
<1>3. IsFiniteSet(1 .. s.value) /\ Cardinality(1 .. s.value) = s.value
    <2> DEFINE v == s.value
    <2>1. v \in Nat
        OBVIOUS
    <2> HIDE DEF v
    <2>2. IsFiniteSet(1 .. v) /\ Cardinality(1 .. v) = IF 1 > v THEN 0 ELSE v - 1 + 1
        BY <2>1, FS_Interval
    <2>3. Cardinality(1 .. v) = v
        BY <2>1, <2>2
    <2> QED BY <2>2, <2>3 DEF v
<1>4. Cardinality({h[n] : n \in 1 .. s.value}) = s.value
    <2> HIDE DEF h
    <2> QED BY <1>2, <1>3, SizeOfImage
<1> QED BY <1>1, <1>4 DEF Total

\* The names of the samples of a list that is grouped.
LEMMA GroupNames ==
    ASSUME NEW metric, NEW labels, NEW s \in Grouped(metric, labels)
    PROVE  /\ s.metric = metric
           /\ \E i \in DOMAIN labels : s.labels = labels[i]
           /\ s.value = Cardinality(Group(labels, s.labels))
           /\ \A t \in Grouped(metric, labels) : s.labels = t.labels => s = t
<1>1. \A t \in Grouped(metric, labels) : \E i \in DOMAIN labels : t = GroupOf(metric, labels, i)
    BY GroupedIs
<1>2. PICK i \in DOMAIN labels : s = GroupOf(metric, labels, i)
    BY <1>1
<1>3. s.metric = metric /\ s.labels = labels[i] /\ s.value = Cardinality(Group(labels, s.labels))
    BY <1>2, SampleIs DEF GroupOf
<1>4. ASSUME NEW t \in Grouped(metric, labels), s.labels = t.labels PROVE s = t
    <2>1. PICK j \in DOMAIN labels : t = GroupOf(metric, labels, j)
        BY <1>1
    <2>2. t.labels = labels[j]
        BY <2>1, SampleIs DEF GroupOf
    <2>3. labels[i] = labels[j]
        BY <1>3, <1>4, <2>2
    <2> QED BY <1>2, <2>1, <2>3 DEF GroupOf
<1> QED BY <1>3, <1>4

\* Each row has a gauge of its own, whose labels but the first are the row's.
OneEach(labels, gauges) ==
    /\ \A i, j \in DOMAIN labels : gauges[i].labels = gauges[j].labels => i = j
    /\ \A i \in DOMAIN labels : Tail(gauges[i].labels) = labels[i]

GaugesIn(labels, gauges, group) ==
    {s \in {gauges[i] : i \in DOMAIN labels} : Tail(s.labels) = group}

\* Then a group counts its gauges.
LEMMA GaugesOfGroup ==
    ASSUME NEW labels, IsFiniteSet(DOMAIN labels), NEW gauges, OneEach(labels, gauges), NEW group
    PROVE  Cardinality(GaugesIn(labels, gauges, group)) = Cardinality(Group(labels, group))
<1> DEFINE I == Group(labels, group)
           f == [i \in I |-> gauges[i]]
           T == GaugesIn(labels, gauges, group)
           F == {f[i] : i \in I}
<1>1. I \subseteq DOMAIN labels
    BY DEF Group
<1>2. \A i : i \in I <=> i \in DOMAIN labels /\ Tail(gauges[i].labels) = group
    BY DEF Group, OneEach
<1> HIDE DEF I
<1>3. T \subseteq F
    BY <1>2 DEF GaugesIn
<1>4. F \subseteq T
    BY <1>2 DEF GaugesIn
<1>5. IsFiniteSet(I)
    BY <1>1, FS_Subset
<1>6. IsInjective(f) /\ f = [i \in I |-> f[i]]
    BY <1>1 DEF IsInjective, OneEach
<1> HIDE DEF f
<1>7. Cardinality(F) = Cardinality(I)
    BY <1>5, <1>6, SizeOfImage
<1> HIDE DEF F, T
<1>8. T = F
    BY <1>3, <1>4
<1> QED BY <1>7, <1>8 DEF T, I

LEMMA LengthsAre ==
    \A a, b, c :
        /\ Len(<<>>) = 0 /\ Len(<<a>>) = 1 /\ Len(<<a, b>>) = 2 /\ Len(<<a, b, c>>) = 3
        /\ Tail(<<a, b>>) = <<b>> /\ Tail(<<a, b, c>>) = <<b, c>>
OBVIOUS

LEMMA LabelsAre ==
    /\ Desc["channels_active"] = 0 /\ Desc["channels_by_state"] = 1 /\ Desc["calls_active"] = 0
    /\ Desc["sip_peer_up"] = 2 /\ Desc["sip_peer_latency"] = 1 /\ Desc["sip_peers"] = 1
    /\ Desc["pjsip_endpoint_up"] = 3 /\ Desc["pjsip_endpoints"] = 2 /\ Desc["pjsip_contact_rtt"] = 2
    /\ Desc["queue_callers"] = 1 /\ Desc["queue_members"] = 2
BY DEF Desc

LEMMA ListIs ==
    ASSUME NEW p \in DOMAIN Row, NEW n \in Nat, NEW rows \in [1 .. n -> Row[p]]
    PROVE  /\ DOMAIN rows = 1 .. n /\ Len(rows) = n
           /\ IsFiniteSet(DOMAIN rows) /\ Cardinality(DOMAIN rows) = n
           /\ \A I \in SUBSET DOMAIN rows : IsFiniteSet(I) /\ Cardinality(I) \in Nat
<1>1. DOMAIN rows = 1 .. n /\ Len(rows) = n
    OBVIOUS
<1>2. IsFiniteSet(1 .. n) /\ Cardinality(1 .. n) = n
    BY FS_Interval
<1>3. \A I \in SUBSET (1 .. n) : IsFiniteSet(I) /\ Cardinality(I) \in Nat
    BY <1>2, FS_Subset, FS_CardinalityType
<1> QED BY <1>1, <1>2, <1>3

LEMMA ChannelsAddUp ==
    ASSUME NEW n \in Nat, NEW rows \in [1 .. n -> Row["channels"]]
    PROVE  WellNamed(collectChannels(rows)) /\ AddsUp("channels", rows)
<1> DEFINE labels == [i \in DOMAIN rows |-> <<firstNonEmpty(<<rows[i].stateDesc, rows[i].state, "Unknown">>)>>]
           ids == [i \in DOMAIN rows |-> firstNonEmpty(<<rows[i].linkedid, rows[i].uniqueid>>)]
           calls == Cardinality({ids[i] : i \in DOMAIN rows} \ {Blank})
           S == collectChannels(rows)
           all == Sample("channels_active", <<>>, n)
           up == Sample("calls_active", <<>>, calls)
           G == Grouped("channels_by_state", labels)
<1>1. "channels" \in DOMAIN Row
    BY ExpositionAssumption
<1>2. DOMAIN rows = 1 .. n /\ Len(rows) = n /\ IsFiniteSet(DOMAIN rows) /\ Cardinality(DOMAIN rows) = n
    BY <1>1, ListIs
<1>3. S = {all, up} \cup G
    BY <1>2 DEF collectChannels
<1>4. DOMAIN labels = DOMAIN rows /\ \A i \in DOMAIN labels : Len(labels[i]) = 1
    BY LengthsAre
<1>5. calls \in Nat /\ calls =< n
    <2> DEFINE T == {ids[i] : i \in DOMAIN rows}
    <2>1. ids = [i \in DOMAIN rows |-> ids[i]]
        OBVIOUS
    <2> HIDE DEF ids
    <2>2. IsFiniteSet(T) /\ Cardinality(T) =< n
        BY <1>2, <2>1, SizeOfImage
    <2> HIDE DEF T
    <2>4. IsFiniteSet(T \ {Blank}) /\ Cardinality(T \ {Blank}) =< Cardinality(T)
        BY <2>2, FS_Subset
    <2>5. Cardinality(T \ {Blank}) \in Nat /\ Cardinality(T) \in Nat
        BY <2>2, <2>4, FS_CardinalityType
    <2> QED BY <2>2, <2>4, <2>5 DEF T
<1>6. /\ all.metric = "channels_active" /\ all.labels = <<>> /\ all.value = n
      /\ up.metric = "calls_active" /\ up.labels = <<>> /\ up.value = calls
    BY SampleIs
<1> HIDE DEF labels, ids, calls, S, all, up
<1>7. \A s \in G : s.metric = "channels_by_state" /\ Len(s.labels) = 1
                    /\ \A t \in G : s.labels = t.labels => s = t
    BY <1>4, GroupNames
<1> HIDE DEF G
<1>8. WellNamed(S)
    <2>1. \A s \in S : Len(s.labels) = Desc[s.metric]
        <3>1. ASSUME NEW s \in G PROVE Len(s.labels) = Desc[s.metric]
            BY <1>7, LabelsAre
        <3>2. Len(all.labels) = Desc[all.metric] /\ Len(up.labels) = Desc[up.metric]
            BY <1>6, LabelsAre, LengthsAre
        <3> QED BY <1>3, <3>1, <3>2
    <2>2. \A s, t \in S : s.metric = t.metric /\ s.labels = t.labels => s = t
        BY <1>3, <1>6, <1>7
    <2> QED BY <2>1, <2>2 DEF WellNamed
<1>9. Series(S, "channels_by_state") = G /\ Series(S, "channels_active") = {all}
      /\ Series(S, "calls_active") = {up}
    BY <1>3, <1>6, <1>7 DEF Series
<1>10. Total(S, "channels_by_state") = n
    BY <1>2, <1>4, <1>9, GroupsAddUp DEF G
<1>11. Total(S, "channels_active") = n
    BY <1>6, <1>9, SingleTotal
<1>12. Total(S, "calls_active") = calls
    BY <1>5, <1>6, <1>9, SingleTotal
<1>13. Samples("channels", rows) = S
    BY DEF Samples, S
<1>14. AddsUp("channels", rows)
    BY <1>5, <1>10, <1>11, <1>12, <1>13 DEF AddsUp
<1> QED BY <1>8, <1>14 DEF S

LEMMA PeersAddUp ==
    ASSUME NEW n \in Nat, NEW rows \in [1 .. n -> Row["sip_peers"]], ListedOnce("sip_peers", rows)
    PROVE  WellNamed(collectSIPPeers(rows)) /\ AddsUp("sip_peers", rows)
<1> DEFINE key(i) == sipStatusKey(rows[i].status)
           labels == [i \in DOMAIN rows |-> <<key(i)>>]
           gauges == [i \in DOMAIN rows |->
                         Sample("sip_peer_up", <<rows[i].peer, key(i)>>, Truth(key(i) = "OK"))]
           delays == [i \in DOMAIN rows |-> Sample("sip_peer_latency", <<rows[i].peer>>, rows[i].latency)]
           measured == {j \in DOMAIN rows : rows[j].latency # Blank}
           S == collectSIPPeers(rows)
           U == {gauges[i] : i \in DOMAIN rows}
           L == {delays[i] : i \in measured}
           G == Grouped("sip_peers", labels)
<1>1. "sip_peers" \in DOMAIN Row
    BY ExpositionAssumption
<1>2. DOMAIN rows = 1 .. n /\ Len(rows) = n /\ IsFiniteSet(DOMAIN rows) /\ Cardinality(DOMAIN rows) = n
    BY <1>1, ListIs
<1>3. S = U \cup L \cup G
    BY DEF collectSIPPeers
<1>4. DOMAIN labels = DOMAIN rows /\ DOMAIN gauges = DOMAIN rows /\ measured \subseteq DOMAIN rows
      /\ gauges = [i \in DOMAIN rows |-> gauges[i]]
      /\ \A i \in DOMAIN labels : Len(labels[i]) = 1
    BY LengthsAre
<1>5. \A i \in DOMAIN rows :
          /\ gauges[i].metric = "sip_peer_up" /\ gauges[i].labels = <<rows[i].peer, key(i)>>
          /\ delays[i].metric = "sip_peer_latency" /\ delays[i].labels = <<rows[i].peer>>
          /\ labels[i] = <<key(i)>>
    BY SampleIs
<1> HIDE DEF key, labels, gauges, delays, S, measured
<1>6. \A i, j \in DOMAIN rows : rows[i].peer = rows[j].peer => i = j
    BY DEF ListedOnce
<1>7. \A i, j \in DOMAIN rows : /\ gauges[i].labels = gauges[j].labels => i = j
                                /\ delays[i].labels = delays[j].labels => i = j
    BY <1>5, <1>6
<1>8. ASSUME NEW i \in DOMAIN rows
      PROVE  Tail(gauges[i].labels) = labels[i] /\ Len(gauges[i].labels) = 2 /\ Len(delays[i].labels) = 1
    <2>1. /\ Tail(<<rows[i].peer, key(i)>>) = <<key(i)>> /\ Len(<<rows[i].peer, key(i)>>) = 2
          /\ Len(<<rows[i].peer>>) = 1
        BY LengthsAre
    <2> QED BY <1>5, <2>1
<1>9. \A s \in G : s.metric = "sip_peers" /\ Len(s.labels) = 1 /\ s.value = Cardinality(Group(labels, s.labels))
                    /\ \A t \in G : s.labels = t.labels => s = t
    BY <1>4, GroupNames
<1> HIDE DEF G
<1>10. WellNamed(S)
    <2>1. \A s \in S : Len(s.labels) = Desc[s.metric]
        <3>1. ASSUME NEW s \in G PROVE Len(s.labels) = Desc[s.metric]
            BY <1>9, LabelsAre
        <3>2. ASSUME NEW s \in U PROVE Len(s.labels) = Desc[s.metric]
            <4>1. PICK i \in DOMAIN rows : s = gauges[i]
                BY <3>2
            <4> QED BY <1>5, <1>8, <4>1, LabelsAre
        <3>3. ASSUME NEW s \in L PROVE Len(s.labels) = Desc[s.metric]
            <4>1. PICK i \in DOMAIN rows : s = delays[i]
                BY <1>4, <3>3
            <4> QED BY <1>5, <1>8, <4>1, LabelsAre
        <3> QED BY <1>3, <3>1, <3>2, <3>3
    <2>2. \A s \in U : s.metric = "sip_peer_up" /\ \A t \in U : s.labels = t.labels => s = t
        BY <1>5, <1>7
    <2>3. \A s \in L : s.metric = "sip_peer_latency" /\ \A t \in L : s.labels = t.labels => s = t
        BY <1>4, <1>5, <1>7
    <2> HIDE DEF U, L
    <2>4. \A s, t \in S : s.metric = t.metric /\ s.labels = t.labels => s = t
        BY <1>3, <1>9, <2>2, <2>3
    <2> QED BY <2>1, <2>4 DEF WellNamed
<1>11. Series(S, "sip_peers") = G /\ Series(S, "sip_peer_up") = U
    <2>1. \A s \in U : s.metric = "sip_peer_up"
        BY <1>5
    <2>2. \A s \in L : s.metric = "sip_peer_latency"
        BY <1>4, <1>5
    <2> HIDE DEF U, L
    <2> QED BY <1>3, <1>9, <2>1, <2>2 DEF Series
<1>12. Total(S, "sip_peers") = Len(rows)
    BY <1>2, <1>4, <1>11, GroupsAddUp DEF G
<1>13. ASSUME NEW g \in Series(S, "sip_peers")
       PROVE  g.value = Cardinality({s \in Series(S, "sip_peer_up") : Tail(s.labels) = g.labels})
    <2>1. IsFiniteSet(DOMAIN labels) /\ OneEach(labels, gauges)
        BY <1>2, <1>4, <1>7, <1>8 DEF OneEach
    <2>2. Cardinality(GaugesIn(labels, gauges, g.labels)) = Cardinality(Group(labels, g.labels))
        BY <2>1, GaugesOfGroup
    <2>3. GaugesIn(labels, gauges, g.labels) = {s \in U : Tail(s.labels) = g.labels}
        BY <1>4 DEF GaugesIn
    <2> QED BY <1>9, <1>11, <2>2, <2>3
<1>14. Samples("sip_peers", rows) = S
    BY DEF Samples, S
<1>15. AddsUp("sip_peers", rows)
    BY <1>12, <1>13, <1>14 DEF AddsUp
<1> QED BY <1>10, <1>15 DEF S

LEMMA EndpointsAddUp ==
    ASSUME NEW n \in Nat, NEW rows \in [1 .. n -> Row["pjsip_endpoints"]],
           ListedOnce("pjsip_endpoints", rows)
    PROVE  WellNamed(collectPJSIPEndpoints(rows)) /\ AddsUp("pjsip_endpoints", rows)
<1> DEFINE own == OwnEvents(rows, "EndpointList")
           state(i) == firstNonEmpty(<<rows[i].deviceState, "Unknown">>)
           kind(i) == classifyEndpoint(rows[i])
           labels == [i \in own |-> <<state(i), kind(i)>>]
           gauges == [i \in own |->
                         Sample("pjsip_endpoint_up", <<rows[i].endpoint, state(i), kind(i)>>,
                                Truth(state(i) \in pjsipUpStates))]
           S == collectPJSIPEndpoints(rows)
           U == {gauges[i] : i \in own}
           G == Grouped("pjsip_endpoints", labels)
<1>1. "pjsip_endpoints" \in DOMAIN Row
    BY ExpositionAssumption
<1>2. own \subseteq DOMAIN rows /\ IsFiniteSet(own)
    BY <1>1, ListIs DEF OwnEvents
<1>3. S = U \cup G
    BY DEF collectPJSIPEndpoints
<1>4. DOMAIN labels = own /\ gauges = [i \in own |-> gauges[i]]
    OBVIOUS
<1>5. \A i \in own : /\ gauges[i].metric = "pjsip_endpoint_up"
                     /\ gauges[i].labels = <<rows[i].endpoint, state(i), kind(i)>>
                     /\ labels[i] = <<state(i), kind(i)>>
    BY SampleIs
<1> HIDE DEF own, state, kind, labels, gauges, S
<1>6. \A i, j \in own : rows[i].endpoint = rows[j].endpoint => i = j
    BY <1>2 DEF ListedOnce
<1>7. \A i, j \in own : gauges[i].labels = gauges[j].labels => i = j
    BY <1>5, <1>6
<1>8. ASSUME NEW i \in own
      PROVE  Tail(gauges[i].labels) = labels[i] /\ Len(gauges[i].labels) = 3 /\ Len(labels[i]) = 2
    <2>1. /\ Tail(<<rows[i].endpoint, state(i), kind(i)>>) = <<state(i), kind(i)>>
          /\ Len(<<rows[i].endpoint, state(i), kind(i)>>) = 3 /\ Len(<<state(i), kind(i)>>) = 2
        BY LengthsAre
    <2> QED BY <1>5, <2>1
<1>9. \A s \in G : /\ s.metric = "pjsip_endpoints" /\ Len(s.labels) = 2
                   /\ s.value = Cardinality(Group(labels, s.labels))
                   /\ \A t \in G : s.labels = t.labels => s = t
    BY <1>4, <1>8, GroupNames
<1> HIDE DEF G
<1>10. \A s \in U : s.metric = "pjsip_endpoint_up" /\ Len(s.labels) = 3
                    /\ \A t \in U : s.labels = t.labels => s = t
    BY <1>5, <1>7, <1>8
<1>11. WellNamed(S)
    <2> HIDE DEF U
    <2>1. ASSUME NEW s \in S PROVE Len(s.labels) = Desc[s.metric]
        BY <1>3, <1>9, <1>10, LabelsAre
    <2>2. \A s, t \in S : s.metric = t.metric /\ s.labels = t.labels => s = t
        BY <1>3, <1>9, <1>10
    <2> QED BY <2>1, <2>2 DEF WellNamed
<1>12. Series(S, "pjsip_endpoints") = G /\ Series(S, "pjsip_endpoint_up") = U
    <2> HIDE DEF U
    <2> QED BY <1>3, <1>9, <1>10 DEF Series
<1>13. Total(S, "pjsip_endpoints")
           = Cardinality({i \in DOMAIN rows : rows[i].event = "EndpointList"})
    <2>1. Total(S, "pjsip_endpoints") = Cardinality(own)
        BY <1>2, <1>4, <1>12, GroupsAddUp DEF G
    <2> QED BY <2>1 DEF own, OwnEvents
<1>14. ASSUME NEW g \in Series(S, "pjsip_endpoints")
       PROVE  g.value = Cardinality({s \in Series(S, "pjsip_endpoint_up") : Tail(s.labels) = g.labels})
    <2>1. IsFiniteSet(DOMAIN labels) /\ OneEach(labels, gauges)
        BY <1>2, <1>4, <1>7, <1>8 DEF OneEach
    <2>2. Cardinality(GaugesIn(labels, gauges, g.labels)) = Cardinality(Group(labels, g.labels))
        BY <2>1, GaugesOfGroup
    <2>3. GaugesIn(labels, gauges, g.labels) = {s \in U : Tail(s.labels) = g.labels}
        BY <1>4 DEF GaugesIn
    <2> QED BY <1>9, <1>12, <2>2, <2>3
<1>15. Samples("pjsip_endpoints", rows) = S
    BY DEF Samples, S
<1>16. AddsUp("pjsip_endpoints", rows)
    BY <1>13, <1>14, <1>15 DEF AddsUp
<1> QED BY <1>11, <1>16 DEF S

LEMMA ContactsAddUp ==
    ASSUME NEW n \in Nat, NEW rows \in [1 .. n -> Row["pjsip_contacts"]]
    PROVE  WellNamed(collectPJSIPContacts(rows)) /\ AddsUp("pjsip_contacts", rows)
<1> DEFINE ids == {i \in OwnEvents(rows, "ContactList") :
                      /\ rows[i].endpoint # Blank
                      /\ rows[i].usec # Blank /\ rows[i].usec > 0}
           key(i) == <<rows[i].endpoint, rows[i].aor>>
           best == {i \in ids : \A l \in ids : key(l) = key(i) => rows[i].usec =< rows[l].usec}
           sample(i) == Sample("pjsip_contact_rtt", key(i), rows[i].usec)
           S == collectPJSIPContacts(rows)
<1>1. ids \subseteq DOMAIN rows /\ \A i \in ids : rows[i].usec \in Int
    BY ExpositionAssumption DEF OwnEvents
<1>2. S = {sample(i) : i \in best}
    BY DEF collectPJSIPContacts, BestRTT
<1>3. \A i : sample(i).metric = "pjsip_contact_rtt" /\ sample(i).labels = key(i) /\ sample(i).value = rows[i].usec
    BY SampleIs
<1>4. ASSUME NEW i \in best, NEW j \in best, key(i) = key(j) PROVE sample(i) = sample(j)
    <2>1. rows[i].usec =< rows[j].usec /\ rows[j].usec =< rows[i].usec
        BY <1>4
    <2>2. rows[i].usec = rows[j].usec
        BY <1>1, <2>1
    <2> QED BY <1>4, <2>2
<1>5. \A i : Len(key(i)) = 2
    BY LengthsAre
<1>6. WellNamed(S)
    <2> HIDE DEF S, best, key, sample
    <2>1. ASSUME NEW s \in S PROVE Len(s.labels) = Desc[s.metric]
        BY <1>2, <1>3, <1>5, LabelsAre
    <2>2. \A s, t \in S : s.metric = t.metric /\ s.labels = t.labels => s = t
        BY <1>2, <1>3, <1>4
    <2> QED BY <2>1, <2>2 DEF WellNamed
<1>7. ASSUME NEW i \in DOMAIN rows, rows[i].event = "ContactList", rows[i].usec # Blank, rows[i].usec > 0,
             NEW s \in S, s.labels = key(i)
      PROVE  s.value =< rows[i].usec
    <2>1. PICK j \in best : s = sample(j)
        BY <1>2
    <2>2. key(j) = key(i) /\ s.value = rows[j].usec
        BY <1>3, <1>7, <2>1
    <2>3. i \in ids
        BY <1>7, <2>2 DEF OwnEvents
    <2> QED BY <2>2, <2>3
<1>8. Samples("pjsip_contacts", rows) = S
    BY DEF Samples
<1>9. AddsUp("pjsip_contacts", rows)
    BY <1>7, <1>8 DEF AddsUp
<1> QED BY <1>6, <1>9

LEMMA OneLabel ==
    ASSUME NEW a, NEW b, <<a>> = <<b>>
    PROVE  a = b
<1>1. <<a>>[1] = <<b>>[1]
    OBVIOUS
<1> QED BY <1>1

LEMMA QueuesAddUp ==
    ASSUME NEW n \in Nat, NEW rows \in [1 .. n -> Row["queues"]], ListedOnce("queues", rows)
    PROVE  WellNamed(collectQueues(rows)) /\ AddsUp("queues", rows)
<1> DEFINE named(event) == {i \in OwnEvents(rows, event) : rows[i].queue # Blank}
           params == {i \in named("QueueParams") : rows[i].calls # Blank}
           callers(i) == Sample("queue_callers", <<rows[i].queue>>, rows[i].calls)
           labels == [i \in named("QueueMember") |->
                         <<rows[i].queue, queueMemberStatus(rows[i].status)>>]
           S == collectQueues(rows)
           C == {callers(i) : i \in params}
           G == Grouped("queue_members", labels)
<1>1. "queues" \in DOMAIN Row
    BY ExpositionAssumption
<1>2. DOMAIN labels = named("QueueMember") /\ IsFiniteSet(DOMAIN labels)
    <2>1. named("QueueMember") \subseteq DOMAIN rows
        BY DEF OwnEvents
    <2> QED BY <1>1, <2>1, ListIs
<1>3. S = C \cup G
    BY DEF collectQueues
<1>4. \A i : callers(i).metric = "queue_callers" /\ callers(i).labels = <<rows[i].queue>>
    BY SampleIs
<1>5. \A i, j \in params : rows[i].queue = rows[j].queue => i = j
    BY DEF ListedOnce, OwnEvents
<1>6. \A i \in DOMAIN labels : Len(labels[i]) = 2
    BY LengthsAre
<1>7. \A i : Len(<<rows[i].queue>>) = 1
    BY LengthsAre
<1> HIDE DEF labels, params, callers, S
<1>8. \A s \in G : /\ s.metric = "queue_members" /\ Len(s.labels) = 2
                   /\ \A t \in G : s.labels = t.labels => s = t
    BY <1>6, GroupNames
<1> HIDE DEF G
<1>9. \A s \in C : /\ s.metric = "queue_callers" /\ Len(s.labels) = 1
                   /\ \A t \in C : s.labels = t.labels => s = t
    <2>1. ASSUME NEW i \in params, NEW j \in params, callers(i).labels = callers(j).labels PROVE i = j
        <3>1. callers(i).labels = <<rows[i].queue>> /\ callers(j).labels = <<rows[j].queue>>
            BY <1>4
        <3>2. <<rows[i].queue>> = <<rows[j].queue>>
            BY <2>1, <3>1
        <3>3. rows[i].queue = rows[j].queue
            BY <3>2, OneLabel
        <3> QED BY <1>5, <3>3
    <2>2. ASSUME NEW s \in C PROVE s.metric = "queue_callers" /\ Len(s.labels) = 1
        BY <1>4, <1>7
    <2>3. ASSUME NEW s \in C, NEW t \in C, s.labels = t.labels PROVE s = t
        <3>1. PICK i \in params, j \in params : s = callers(i) /\ t = callers(j)
            OBVIOUS
        <3> QED BY <2>1, <2>3, <3>1
    <2> QED BY <2>2, <2>3
<1> HIDE DEF C
<1>10. WellNamed(S)
    <2>1. ASSUME NEW s \in S PROVE Len(s.labels) = Desc[s.metric]
        BY <1>3, <1>8, <1>9, LabelsAre
    <2>2. \A s, t \in S : s.metric = t.metric /\ s.labels = t.labels => s = t
        BY <1>3, <1>8, <1>9
    <2> QED BY <2>1, <2>2 DEF WellNamed
<1>11. Series(S, "queue_members") = G
    BY <1>3, <1>8, <1>9 DEF Series
<1>12. Total(S, "queue_members")
           = Cardinality({i \in DOMAIN rows : rows[i].event = "QueueMember" /\ rows[i].queue # Blank})
    <2>1. Total(S, "queue_members") = Cardinality(DOMAIN labels)
        BY <1>2, <1>11, GroupsAddUp DEF G
    <2>2. DOMAIN labels = {i \in DOMAIN rows : rows[i].event = "QueueMember" /\ rows[i].queue # Blank}
        BY <1>2 DEF OwnEvents
    <2> QED BY <2>1, <2>2
<1>13. Samples("queues", rows) = S
    BY DEF Samples, S
<1>14. AddsUp("queues", rows)
    BY <1>12, <1>13 DEF AddsUp
<1> QED BY <1>10, <1>14 DEF S

\* The samples of every list add up, whatever Asterisk puts in its rows: no name
\* comes twice, and the grouped gauges are the sums of the single ones.
THEOREM SamplesAddUp == Spec => []SeriesAddUp
<1>1. SeriesAddUp
    <2> SUFFICES ASSUME NEW n \in Nat, NEW p \in DOMAIN Row, NEW rows \in [1 .. n -> Row[p]],
                        ListedOnce(p, rows)
                 PROVE  WellNamed(Samples(p, rows)) /\ AddsUp(p, rows)
        BY DEF SeriesAddUp
    <2>1. p \in {"channels", "sip_peers", "pjsip_endpoints", "pjsip_contacts", "queues"}
        BY ExpositionAssumption
    <2>2. CASE p = "channels"
        <3>1. Samples("channels", rows) = collectChannels(rows)
            BY DEF Samples
        <3> QED BY <2>2, <3>1, ChannelsAddUp
    <2>3. CASE p = "sip_peers"
        <3>1. Samples("sip_peers", rows) = collectSIPPeers(rows)
            BY DEF Samples
        <3> QED BY <2>3, <3>1, PeersAddUp
    <2>4. CASE p = "pjsip_endpoints"
        <3>1. Samples("pjsip_endpoints", rows) = collectPJSIPEndpoints(rows)
            BY DEF Samples
        <3> QED BY <2>4, <3>1, EndpointsAddUp
    <2>5. CASE p = "pjsip_contacts"
        <3>1. Samples("pjsip_contacts", rows) = collectPJSIPContacts(rows)
            BY DEF Samples
        <3> QED BY <2>5, <3>1, ContactsAddUp
    <2>6. CASE p = "queues"
        <3>1. Samples("queues", rows) = collectQueues(rows)
            BY DEF Samples
        <3> QED BY <2>6, <3>1, QueuesAddUp
    <2> QED BY <2>1, <2>2, <2>3, <2>4, <2>5, <2>6
<1> QED BY <1>1, PTL
=============================================================================
