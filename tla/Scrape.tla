------------------------------- MODULE Scrape -------------------------------
(***************************************************************************)
(* A scrape of the exporter: Collect and scrape of                         *)
(* internal/exporter/collector, over the AMI client of                     *)
(* internal/exporter/ami.  HTTP requests for /metrics come at any time;    *)
(* Collect serves them one after another under c.mu, each over an AMI      *)
(* connection of its own: dial, banner, login, the phases in their order,  *)
(* logoff.  Asterisk answers each action after any delay or not at all,    *)
(* accepts or rejects it, and the connection may break.                    *)
(*                                                                         *)
(* The actions are numbered by their place in Script, which stands for the *)
(* ActionID.  Of the rows of a list only the number is kept.               *)
(***************************************************************************)
EXTENDS Integers, SequencesExt

CONSTANTS
    Requests,   \* HTTP requests for /metrics
    Lists,      \* the phases after core_status, each at most once, as ScrapeOptions enables them
    Timeout,    \* cfg.Timeout
    MaxItems,   \* bound on the rows of a list
    Nobody      \* c.mu is free

ASSUME ScrapeAssumption ==
    /\ Lists \in Seq({"channels", "sip_peers", "pjsip_endpoints", "pjsip_contacts", "queues"})
    /\ IsInjective(Lists)
    /\ Timeout \in Nat \ {0}
    /\ MaxItems \in Nat
    /\ Nobody \notin Requests

VARIABLES
    pc,         \* where each request is: "new", "waiting" for c.mu, "collecting", "done"
    holder,     \* the request that holds c.mu
    at,         \* where its scrape is
    k,          \* the action it is at
    elapsed,    \* time since its context was made
    since,      \* ... when the operation it is in began
    items,      \* rows of the current list read so far
    emitted,    \* phase -> number of rows sent to the registry, -1 for none
    firstErr,   \* a phase has failed
    errors,     \* scrape_errors_total
    before,     \* history: errors when the scrape began
    conn,       \* the connection: "closed", "open", "broken"
    sessions,   \* history: number of connections not closed
    asked,      \* actions Asterisk has still to answer
    wire,       \* messages on their way to the client
    listed      \* history: phase -> rows Asterisk listed; -1 not asked, -2 unavailable, -3 refused

scrapeVars == <<k, elapsed, since, items, emitted, firstErr, errors, before>>
connVars == <<conn, sessions, asked, wire, listed>>
vars == <<pc, holder, at, k, elapsed, since, items, emitted, firstErr, errors, before,
          conn, sessions, asked, wire, listed>>

Script == <<"Login", "CoreSettings", "CoreStatus">> \o Lists \o <<"Logoff">>

ListPhases == ToSet(Lists)
Phases == {"core_status"} \cup ListPhases

\* The phase an action belongs to, as scrape_errors_total labels it.
PhaseOf(j) ==
    IF Script[j] = "Login" THEN "login"
    ELSE IF Script[j] \in {"CoreSettings", "CoreStatus"} THEN "core_status"
    ELSE Script[j]

Msg(j, kind) == [id |-> j, kind |-> kind]
Nothing == [p \in Phases |-> -1]

Init ==
    /\ pc = [r \in Requests |-> "new"]
    /\ holder = Nobody
    /\ at = "idle"
    /\ k = 0
    /\ elapsed = 0
    /\ since = 0
    /\ items = 0
    /\ emitted = Nothing
    /\ firstErr = FALSE
    /\ errors = [p \in Phases \cup {"dial", "login"} |-> 0]
    /\ before = errors
    /\ conn = "closed"
    /\ sessions = 0
    /\ asked = <<>>
    /\ wire = <<>>
    /\ listed = Nothing
-----------------------------------------------------------------------------
(* Collect.                                                                *)

\* promhttp calls Collect, which waits for c.mu.
Ask(r) ==
    /\ pc[r] = "new"
    /\ pc' = [pc EXCEPT ![r] = "waiting"]
    /\ UNCHANGED <<holder, at>>
    /\ UNCHANGED scrapeVars
    /\ UNCHANGED connVars

\* c.mu.Lock(), and a context with the deadline of the whole scrape.
Lock(r) ==
    /\ pc[r] = "waiting"
    /\ holder = Nobody
    /\ holder' = r
    /\ pc' = [pc EXCEPT ![r] = "collecting"]
    /\ at' = "dial"
    /\ k' = 0 /\ elapsed' = 0 /\ since' = 0 /\ items' = 0
    /\ emitted' = Nothing
    /\ firstErr' = FALSE
    /\ before' = errors
    /\ listed' = Nothing
    /\ UNCHANGED <<errors, conn, sessions, asked, wire>>

\* up, the duration and the error counters are emitted; c.mu is released.
Report ==
    /\ at = "report"
    /\ pc' = [pc EXCEPT ![holder] = "done"]
    /\ holder' = Nobody
    /\ at' = "idle"
    /\ UNCHANGED scrapeVars
    /\ UNCHANGED connVars

\* Slip: every read and write gets a deadline of its own.
LimitPerOperation == since + Timeout

\* When the operation at hand is given up: dial, reads and writes at the
\* deadline of the context, the banner Timeout after it was first awaited.
Limit == IF at = "banner" THEN since + Timeout ELSE Timeout

\* collectCore has both answers.
EmitCore == emitted' = [emitted EXCEPT !["core_status"] = 0]

\* A list is complete: its rows become gauges.
EmitList == emitted' = [emitted EXCEPT ![Script[k]] = items]

Count(p) == errors' = [errors EXCEPT ![p] = @ + 1]

\* Slip: the connection is left to the garbage collector.
LeavesOpen ==
    /\ at' = "report"
    /\ conn' = "closed" /\ asked' = <<>> /\ wire' = <<>>
    /\ UNCHANGED <<sessions, listed>>

\* The deferred Close, and back in Collect.
Close ==
    /\ at' = "report"
    /\ conn' = "closed" /\ asked' = <<>> /\ wire' = <<>>
    /\ sessions' = sessions - 1
    /\ UNCHANGED listed
-----------------------------------------------------------------------------
(* scrape: the connection.                                                 *)

Dial ==
    /\ at = "dial"
    /\ elapsed < Limit
    /\ at' = "banner"
    /\ since' = elapsed
    /\ conn' = "open"
    /\ sessions' = sessions + 1
    /\ UNCHANGED <<pc, holder, k, elapsed, items, emitted, firstErr, errors, before>>
    /\ UNCHANGED <<asked, wire, listed>>

\* The dial fails, or the banner is wrong or does not come: Dial closes.
DialFails ==
    /\ Count("dial")
    /\ firstErr' = TRUE
    /\ \/ at = "dial" /\ at' = "report" /\ UNCHANGED connVars
       \/ at = "banner" /\ Close
    /\ UNCHANGED <<pc, holder, k, elapsed, since, items, emitted, before>>

\* Goes on with action j.
Advance(j) ==
    /\ k' = j
    /\ at' = "send"
    /\ since' = elapsed
    /\ items' = 0

Banner ==
    /\ at = "banner"
    /\ conn = "open"
    /\ Advance(1)
    /\ UNCHANGED <<pc, holder, elapsed, emitted, firstErr, errors, before>>
    /\ UNCHANGED connVars

\* Action and ListAction write the request; a broken connection may take it.
Send ==
    /\ at = "send"
    /\ elapsed < Limit
    /\ at' = "first"
    /\ since' = elapsed
    /\ asked' = IF conn = "open" THEN Append(asked, k) ELSE asked
    /\ UNCHANGED <<pc, holder, k, elapsed, items, emitted, firstErr, errors, before>>
    /\ UNCHANGED <<conn, sessions, wire, listed>>
-----------------------------------------------------------------------------
(* scrape: what becomes of an action.                                      *)

\* An error: counted under its phase.  Without a login there is nothing to go
\* on with; collectCore gives up with its first action; any other phase leaves
\* the rest of the scrape to run; an error of Logoff is dropped.  `rest' is what
\* is left on the wire.
Fails(rest) ==
    CASE Script[k] = "Login" ->
            Count("login") /\ firstErr' = TRUE /\ Close /\ UNCHANGED <<k, since, items>>
      [] Script[k] = "Logoff" ->
            Close /\ UNCHANGED <<k, since, items, firstErr, errors>>
      [] OTHER ->
            /\ Count(PhaseOf(k))
            /\ firstErr' = TRUE
            /\ Advance(IF Script[k] = "CoreSettings" THEN k + 2 ELSE k + 1)
            /\ wire' = rest
            /\ UNCHANGED <<conn, sessions, asked, listed>>

\* Slip: reads have no deadline.
WaitsOn ==
    /\ at \in {"send", "first", "list"}
    /\ conn = "broken" /\ (at = "send" \/ wire = <<>>)
    /\ Fails(wire)
    /\ UNCHANGED <<pc, holder, elapsed, emitted, before>>

\* Slip: the rows read so far are emitted when the list breaks off.
KeepsPart ==
    /\ at \in {"send", "first", "list"}
    /\ elapsed >= Limit \/ (conn = "broken" /\ (at = "send" \/ wire = <<>>))
    /\ IF at = "list" THEN EmitList ELSE UNCHANGED emitted
    /\ Fails(wire)
    /\ UNCHANGED <<pc, holder, elapsed, before>>

\* A read or write fails at its deadline or because the connection broke.
TimesOut ==
    /\ at \in {"send", "first", "list"}
    /\ elapsed >= Limit \/ (conn = "broken" /\ (at = "send" \/ wire = <<>>))
    /\ Fails(wire)
    /\ UNCHANGED <<pc, holder, elapsed, emitted, before>>

\* The phases that take "no such command" and "none found" for an empty
\* result: all lists but the channels.
TakesUnavailable(p) == p \in ListPhases \ {"channels"}

\* Slip: any rejection is.
RejectedIsEmpty(p, kind) == kind # "ok" /\ TakesUnavailable(p)

IsEmptyResult(p, kind) == kind = "unavailable" /\ TakesUnavailable(p)

\* Action reads its response, which must carry its id.  Login looks at the
\* verdict, collectCore takes whatever it got.
ReadResponse ==
    /\ at = "first"
    /\ Script[k] \notin ListPhases
    /\ wire # <<>>
    /\ IF Head(wire).id # k \/ (Script[k] = "Login" /\ Head(wire).kind # "ok")
       THEN Fails(Tail(wire)) /\ UNCHANGED emitted
       ELSE /\ IF Script[k] = "Logoff"
               THEN Close /\ UNCHANGED <<k, since, items>>
               ELSE Advance(k + 1) /\ wire' = Tail(wire) /\ UNCHANGED <<conn, sessions, asked, listed>>
            /\ IF Script[k] = "CoreStatus" THEN EmitCore ELSE UNCHANGED emitted
            /\ UNCHANGED <<firstErr, errors>>
    /\ UNCHANGED <<pc, holder, elapsed, before>>

\* ListAction reads the first message, whose id it does not look at.
ReadFirst ==
    /\ at = "first"
    /\ Script[k] \in ListPhases
    /\ wire # <<>>
    /\ LET kind == Head(wire).kind
       IN  IF kind = "ok" \/ IsEmptyResult(Script[k], kind)
           THEN /\ IF kind = "ok"
                   THEN at' = "list" /\ since' = elapsed /\ UNCHANGED <<k, items>>
                   ELSE Advance(k + 1)
                /\ wire' = Tail(wire)
                /\ UNCHANGED <<firstErr, errors, conn, sessions, asked, listed>>
           ELSE Fails(Tail(wire))
    /\ UNCHANGED <<pc, holder, elapsed, emitted, before>>

\* ... and then the rows and their end, passing over other ids and responses.
ReadRow ==
    /\ at = "list"
    /\ wire # <<>>
    /\ wire' = Tail(wire)
    /\ LET msg == Head(wire)
       IN  IF msg = Msg(k, "complete")
           THEN EmitList /\ Advance(k + 1)
           ELSE /\ items' = IF msg = Msg(k, "item") THEN items + 1 ELSE items
                /\ since' = elapsed
                /\ UNCHANGED <<emitted, k, at>>
    /\ UNCHANGED <<pc, holder, elapsed, firstErr, errors, before, conn, sessions, asked, listed>>

Steps ==
    \/ Dial \/ DialFails \/ Banner \/ Send \/ TimesOut
    \/ ReadResponse \/ ReadFirst \/ ReadRow \/ Report
-----------------------------------------------------------------------------
(* Time, Asterisk and the network.                                         *)

Tick ==
    /\ at \notin {"idle", "report"}
    /\ elapsed < Limit
    /\ elapsed' = elapsed + 1
    /\ UNCHANGED <<pc, holder, at, k, since, items, emitted, firstErr, errors, before>>
    /\ UNCHANGED connVars

\* Asterisk accepts an action, ...
Accept ==
    /\ asked # <<>>
    /\ asked' = Tail(asked)
    /\ LET j == Head(asked)
       IN  IF Script[j] \in ListPhases
           THEN \E n \in 0 .. MaxItems :
                    /\ wire' = wire \o <<Msg(j, "ok")>> \o [i \in 1 .. n |-> Msg(j, "item")]
                                    \o <<Msg(j, "complete")>>
                    /\ listed' = [listed EXCEPT ![Script[j]] = n]
           ELSE wire' = Append(wire, Msg(j, "ok")) /\ UNCHANGED listed
    /\ UNCHANGED <<pc, holder, at, conn, sessions>>
    /\ UNCHANGED scrapeVars

\* ... or rejects it: it may not, there is no such action, there are no rows.
Reject ==
    /\ asked # <<>>
    /\ asked' = Tail(asked)
    /\ LET j == Head(asked)
       IN  \E kind \in {"refused", "unavailable"} :
               /\ wire' = Append(wire, Msg(j, kind))
               /\ listed' = IF Script[j] \in ListPhases
                            THEN [listed EXCEPT ![Script[j]] = IF kind = "refused" THEN -3 ELSE -2]
                            ELSE listed
    /\ UNCHANGED <<pc, holder, at, conn, sessions>>
    /\ UNCHANGED scrapeVars

\* The connection breaks: of what is on it a part still arrives.
Breaks ==
    /\ conn = "open"
    /\ conn' = "broken"
    /\ asked' = <<>>
    /\ \E n \in 0 .. Len(wire) : wire' = SubSeq(wire, 1, n)
    /\ UNCHANGED <<pc, holder, at, sessions, listed>>
    /\ UNCHANGED scrapeVars

Next ==
    \/ \E r \in Requests : Ask(r) \/ Lock(r)
    \/ Steps
    \/ Tick
    \/ Accept
    \/ Reject
    \/ Breaks

\* The goroutine goes on, time passes, and c.mu passes over no waiter for
\* ever.  Nothing is assumed of Asterisk or of the network.
Fairness ==
    /\ WF_vars(Steps)
    /\ WF_vars(Tick)
    /\ \A r \in Requests : SF_vars(Lock(r))

Spec == Init /\ [][Next]_vars /\ Fairness
-----------------------------------------------------------------------------
(* What a scrape promises.                                                 *)

TypeOK ==
    /\ pc \in [Requests -> {"new", "waiting", "collecting", "done"}]
    /\ holder \in Requests \cup {Nobody}
    /\ at \in {"idle", "dial", "banner", "send", "first", "list", "report"}
    /\ k \in 0 .. Len(Script)
    /\ elapsed \in Nat /\ since \in 0 .. elapsed
    /\ items \in 0 .. MaxItems
    /\ emitted \in [Phases -> -1 .. MaxItems]
    /\ firstErr \in BOOLEAN
    /\ errors \in [Phases \cup {"dial", "login"} -> Nat]
    /\ before \in [Phases \cup {"dial", "login"} -> Nat]
    /\ conn \in {"closed", "open", "broken"}
    /\ listed \in [Phases -> -3 .. MaxItems]

\* What is reported of a list is what Asterisk listed: no part of a list that
\* broke off, no rows of one list under the name of another.  And a phase that is
\* rejected costs no other phase its rows: as long as the connection holds and
\* there is time, every list is asked for, and what Asterisk listed is reported.
RowsAreWhole ==
    \A p \in ListPhases :
        /\ emitted[p] # -1 => emitted[p] = listed[p]
        /\ k = Len(Script) /\ conn = "open" /\ elapsed < Timeout
               => listed[p] # -1 /\ (listed[p] >= 0 => emitted[p] = listed[p])

\* up = 1 says that nothing is missing: every list was read to its end or does
\* not exist in this Asterisk, and the core figures were read.  up = 0 comes
\* exactly when this scrape added to scrape_errors_total, once for each phase that
\* failed.
UpIsTrue ==
    at = "report" =>
        /\ ~firstErr =>
               /\ emitted["core_status"] # -1
               /\ \A p \in ListPhases : emitted[p] # -1 \/ (listed[p] = -2 /\ TakesUnavailable(p))
        /\ firstErr <=> errors # before
        /\ \A p \in DOMAIN errors : errors[p] - before[p] \in {0, 1}

\* A connection is closed before the next is opened and before the answer to
\* the request is complete, whatever happened on it.
OneSession == sessions = IF conn = "closed" THEN 0 ELSE 1

\* c.mu is held for no longer than twice the timeout; and longer than once only
\* to wait for a banner, with nothing to report after it.
InTime ==
    /\ elapsed =< 2 * Timeout
    /\ elapsed > Timeout => emitted = Nothing

\* Every request is answered, whatever Asterisk does or leaves undone.
Served == \A r \in Requests : pc[r] = "waiting" ~> pc[r] = "done"
=============================================================================
