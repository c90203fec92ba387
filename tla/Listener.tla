------------------------------- MODULE Listener -------------------------------
(***************************************************************************)
(* The AMI listener, internal/ami/listener.go: Run and its backoff, one    *)
(* session after another (dial, banner, login, event loop), the goroutine  *)
(* that reconciles after each login, and cancellation; against an Asterisk *)
(* whose channels come and go, and a connection that can be refused, fall  *)
(* silent or break.                                                        *)
(*                                                                         *)
(* Of the registry only the set of channels it knows is kept (Registry has *)
(* the rest).  The contacts side of reconcile and dispatch, which changes  *)
(* nothing here, is left out, as is the pinger's traffic: while the        *)
(* context lives it keeps a live connection from being quiet for 120 s.    *)
(* Time is left out: a deadline may pass whenever it is pending.           *)
(***************************************************************************)
EXTENDS Integers, SequencesExt

CONSTANTS
    Uids,           \* channels that may come up
    MaxSessions,    \* bound on the number of connections made
    MaxChanges,     \* bound on how often a channel comes up or goes
    AwaitLimit      \* how many frames awaitResponse reads, 32 in the code

ASSUME ListenerAssumption ==
    /\ IsFiniteSet(Uids)
    /\ MaxSessions \in Nat /\ MaxChanges \in Nat
    /\ AwaitLimit \in Nat \ {0}

VARIABLES
    cancelled,  \* ctx.Err() # nil
    pc,         \* where Run is
    session,    \* number of connections made so far; the last is the current one
    skipped,    \* frames awaitResponse has passed over
    recon,      \* where the reconcile goroutine of each session is
    known,      \* the channels in the registry
    wiped,      \* history: a session that is over has reset what this one was told
    peer,       \* the other end of the connection: "alive", "silent", "gone"
    wire,       \* frames on their way to the listener
    asked,      \* a CoreShowChannels action awaits the peer
    authed,     \* the peer has accepted the login, and sends events
    up,         \* the channels that exist in Asterisk
    changes     \* how often one came up or went

runVars == <<cancelled, pc, session, skipped>>
connVars == <<peer, wire, asked, authed>>
peerVars == <<up, changes>>
vars == <<cancelled, pc, session, skipped, recon, known, wiped, peer, wire, asked, authed, up, changes>>

Sessions == 1 .. MaxSessions

\* A connection is open from the dial to session's deferred Close.
Connected == pc \in {"banner", "login", "await", "subscribe", "top", "reading"}

\* What happens in Asterisk is told to the listener.
Told == authed /\ peer = "alive"

New(u) == [kind |-> "Newchannel", uid |-> u]
Gone(u) == [kind |-> "Hangup", uid |-> u]
Shown(u) == [kind |-> "CoreShowChannel", uid |-> u]
Other == [kind |-> "other"]
LoginReply(ok) == [kind |-> "Response", ok |-> ok]

Init ==
    /\ cancelled = FALSE
    /\ pc = "dial"
    /\ session = 0
    /\ skipped = 0
    /\ recon = [n \in Sessions |-> "none"]
    /\ known = {}
    /\ wiped = FALSE
    /\ peer = "gone"
    /\ wire = <<>>
    /\ asked = FALSE
    /\ authed = FALSE
    /\ up \in SUBSET Uids
    /\ changes = 0
-----------------------------------------------------------------------------
(* Run and session.                                                        *)

\* session returns: the deferred function closes the connection.
Close ==
    /\ pc' = "backoff"
    /\ peer' = "gone"
    /\ wire' = <<>>
    /\ asked' = FALSE
    /\ authed' = FALSE

DialFails ==
    /\ pc = "dial"
    /\ pc' = "backoff"
    /\ UNCHANGED <<cancelled, session, skipped, recon, known, wiped>>
    /\ UNCHANGED connVars
    /\ UNCHANGED peerVars

\* DialContext connects, unless ctx is done.
Dial ==
    /\ pc = "dial"
    /\ ~cancelled
    /\ session < MaxSessions
    /\ session' = session + 1
    /\ pc' = "banner"
    /\ peer' = "alive"
    /\ wire' = <<>>
    /\ wiped' = FALSE
    /\ UNCHANGED <<cancelled, skipped, recon, known, asked, authed>>
    /\ UNCHANGED peerVars

\* The banner line comes within its deadline, which is then cleared.
Banner ==
    /\ pc = "banner"
    /\ peer = "alive"
    /\ pc' = "login"
    /\ UNCHANGED <<cancelled, session, skipped, recon, known, wiped>>
    /\ UNCHANGED connVars
    /\ UNCHANGED peerVars

\* Slip: no deadline while the banner is awaited.
BannerBreaks ==
    /\ pc = "banner"
    /\ peer = "gone"
    /\ Close
    /\ UNCHANGED <<cancelled, session, skipped, recon, known, wiped>>
    /\ UNCHANGED peerVars

\* It does not.
NoBanner ==
    /\ pc = "banner"
    /\ Close
    /\ UNCHANGED <<cancelled, session, skipped, recon, known, wiped>>
    /\ UNCHANGED peerVars

\* The Login action is written; awaitResponse starts to read.
Login ==
    /\ pc = "login"
    /\ \/ /\ pc' = "await"
          /\ skipped' = 0
          /\ UNCHANGED connVars
       \/ /\ peer = "gone"
          /\ Close
          /\ UNCHANGED skipped
    /\ UNCHANGED <<cancelled, session, recon, known, wiped>>
    /\ UNCHANGED peerVars

\* awaitResponse: frames that are not the response are passed over, up to a
\* limit; a refusal or a broken connection ends the session.  The read has no
\* deadline, so with a silent peer it does not return.
AwaitResponse ==
    /\ pc = "await"
    /\ \/ /\ wire # <<>>
          /\ Head(wire) = LoginReply(TRUE)
          /\ pc' = "subscribe"
          /\ wire' = Tail(wire)
          /\ UNCHANGED <<skipped, peer, asked, authed>>
       \/ /\ wire # <<>>
          /\ Head(wire) = Other
          /\ skipped + 1 < AwaitLimit
          /\ skipped' = skipped + 1
          /\ wire' = Tail(wire)
          /\ UNCHANGED <<pc, peer, asked, authed>>
       \/ /\ wire # <<>>
          /\ \/ Head(wire) = LoginReply(FALSE)
             \/ Head(wire) = Other /\ skipped + 1 = AwaitLimit
          /\ Close
          /\ UNCHANGED skipped
       \/ /\ wire = <<>>
          /\ peer = "gone"
          /\ Close
          /\ UNCHANGED skipped
    /\ UNCHANGED <<cancelled, session, recon, known, wiped>>
    /\ UNCHANGED peerVars

\* The Events action, whose failure is only logged; the reconcile goroutine
\* and the pinger are started.
Subscribe ==
    /\ pc = "subscribe"
    /\ pc' = "top"
    /\ recon' = [recon EXCEPT ![session] = "reset"]
    /\ UNCHANGED <<cancelled, session, skipped, known, wiped>>
    /\ UNCHANGED connVars
    /\ UNCHANGED peerVars

\* The head of the event loop.
LoopTop ==
    /\ pc = "top"
    /\ IF cancelled THEN Close ELSE pc' = "reading" /\ UNCHANGED connVars
    /\ UNCHANGED <<cancelled, session, skipped, recon, known, wiped>>
    /\ UNCHANGED peerVars

\* Slip: CoreShowChannel rows are not taken for channels.
IgnoresList(chans, frame) ==
    CASE frame.kind = "Newchannel" -> chans \cup {frame.uid}
      [] frame.kind = "Hangup" -> chans \ {frame.uid}
      [] OTHER -> chans

\* What dispatch does to the registry's channels.
dispatch(chans, frame) ==
    CASE frame.kind \in {"Newchannel", "CoreShowChannel"} -> chans \cup {frame.uid}
      [] frame.kind = "Hangup" -> chans \ {frame.uid}
      [] OTHER -> chans

\* readMessage brings a frame, which is dispatched.
Read ==
    /\ pc = "reading"
    /\ wire # <<>>
    /\ known' = dispatch(known, Head(wire))
    /\ wire' = Tail(wire)
    /\ pc' = "top"
    /\ UNCHANGED <<cancelled, session, skipped, recon, wiped, peer, asked, authed>>
    /\ UNCHANGED peerVars

\* readMessage fails: the connection broke, or it was quiet for 120 s, because
\* the peer is silent or because the pinger has stopped with the context.
ReadFails ==
    /\ pc = "reading"
    /\ wire = <<>>
    /\ peer # "alive" \/ cancelled
    /\ Close
    /\ UNCHANGED <<cancelled, session, skipped, recon, known, wiped>>
    /\ UNCHANGED peerVars

\* Run after a session: it returns, or dials again after the delay.
Backoff ==
    /\ pc = "backoff"
    /\ pc' = IF cancelled THEN "returned" ELSE "dial"
    /\ UNCHANGED <<cancelled, session, skipped, recon, known, wiped>>
    /\ UNCHANGED connVars
    /\ UNCHANGED peerVars

Run ==
    \/ DialFails \/ Dial \/ Banner \/ NoBanner \/ Login \/ AwaitResponse
    \/ Subscribe \/ LoopTop \/ Read \/ ReadFails \/ Backoff
-----------------------------------------------------------------------------
(* reconcile, a goroutine of its own in every session.                     *)

\* Nothing ties the goroutine to its session: it may get to run only when the
\* next one has been told of its channels.
ReconcileReset(n) ==
    /\ recon[n] = "reset"
    /\ known' = {}
    /\ wiped' = (wiped \/ (n # session /\ recon[session] = "done" /\ ~asked))
    /\ recon' = [recon EXCEPT ![n] = "ask"]
    /\ UNCHANGED runVars
    /\ UNCHANGED connVars
    /\ UNCHANGED peerVars

\* Slip: the channels are asked for before the registry is reset.
AsksFirst(n) ==
    /\ \/ recon[n] = "reset" /\ recon' = [recon EXCEPT ![n] = "ask"] /\ UNCHANGED known
       \/ recon[n] = "ask" /\ recon' = [recon EXCEPT ![n] = "done"] /\ known' = {}
    /\ asked' = (asked \/ (recon[n] = "reset" /\ n = session /\ Connected /\ peer # "gone"))
    /\ UNCHANGED runVars
    /\ UNCHANGED <<wiped, peer, wire, authed>>
    /\ UNCHANGED peerVars

\* CoreShowChannels is written to the session's own connection, or fails
\* because that is closed.
ReconcileAsk(n) ==
    /\ recon[n] = "ask"
    /\ recon' = [recon EXCEPT ![n] = "done"]
    /\ asked' = (asked \/ (n = session /\ Connected /\ peer # "gone"))
    /\ UNCHANGED runVars
    /\ UNCHANGED <<known, wiped, peer, wire, authed>>
    /\ UNCHANGED peerVars

Reconcile(n) == ReconcileReset(n) \/ ReconcileAsk(n)

\* main cancels the context when the program shuts down.
Cancel ==
    /\ ~cancelled
    /\ cancelled' = TRUE
    /\ UNCHANGED <<pc, session, skipped, recon, known, wiped>>
    /\ UNCHANGED connVars
    /\ UNCHANGED peerVars
-----------------------------------------------------------------------------
(* Asterisk and the network.                                               *)

\* Asterisk answers the login, after frames of other kinds if any.
AnswerLogin ==
    /\ pc = "await"
    /\ peer = "alive"
    /\ wire = <<>>
    /\ ~authed
    /\ \/ \E ok \in BOOLEAN : wire' = <<LoginReply(ok)>> /\ authed' = ok
       \/ wire' = <<Other>> /\ UNCHANGED authed
    /\ UNCHANGED runVars
    /\ UNCHANGED <<recon, known, wiped, peer, asked>>
    /\ UNCHANGED peerVars

\* ... and lists its channels.
AnswerChannels ==
    /\ asked
    /\ peer = "alive"
    /\ asked' = FALSE
    /\ wire' = wire \o SetToSeq({Shown(u) : u \in up})
    /\ UNCHANGED runVars
    /\ UNCHANGED <<recon, known, wiped, peer, authed>>
    /\ UNCHANGED peerVars

Answers == AnswerLogin \/ AnswerChannels

\* A channel comes up or goes; a session that is logged in is told.
Change ==
    /\ changes < MaxChanges
    /\ changes' = changes + 1
    /\ \E u \in Uids :
        IF u \in up
        THEN up' = up \ {u} /\ wire' = IF Told THEN Append(wire, Gone(u)) ELSE wire
        ELSE up' = up \cup {u} /\ wire' = IF Told THEN Append(wire, New(u)) ELSE wire
    /\ UNCHANGED runVars
    /\ UNCHANGED <<recon, known, wiped, peer, asked, authed>>

\* The connection breaks: of what is on it a part still arrives.  A last
\* frame cut short is dispatched as far as it came, or not at all.
Breaks ==
    /\ Connected
    /\ peer # "gone"
    /\ peer' = "gone"
    /\ \E k \in 0 .. Len(wire) : wire' = SubSeq(wire, 1, k)
    /\ asked' = FALSE
    /\ authed' = FALSE
    /\ UNCHANGED runVars
    /\ UNCHANGED <<recon, known, wiped>>
    /\ UNCHANGED peerVars

\* The peer, or the path to it, goes dead without a word.
FallsSilent ==
    /\ Connected
    /\ peer = "alive"
    /\ peer' = "silent"
    /\ UNCHANGED runVars
    /\ UNCHANGED <<recon, known, wiped, wire, asked, authed>>
    /\ UNCHANGED peerVars

Next ==
    \/ Run
    \/ \E n \in Sessions : Reconcile(n)
    \/ Cancel
    \/ Answers
    \/ Change
    \/ Breaks
    \/ FallsSilent

\* The goroutines go on, deadlines pass, and a live Asterisk answers.  Nothing
\* is assumed of dialling, changes, faults or cancellation.
Fairness ==
    /\ WF_vars(Run)
    /\ \A n \in Sessions : WF_vars(Reconcile(n))
    /\ WF_vars(Answers)

Spec == Init /\ [][Next]_vars /\ Fairness
-----------------------------------------------------------------------------
(* What the listener promises.                                             *)

\* Types; and no connection outlives its session.
TypeOK ==
    /\ cancelled \in BOOLEAN
    /\ pc \in {"dial", "banner", "login", "await", "subscribe", "top", "reading",
               "backoff", "returned"}
    /\ session \in 0 .. MaxSessions
    /\ skipped \in 0 .. AwaitLimit - 1
    /\ recon \in [Sessions -> {"none", "reset", "ask", "done"}]
    /\ known \subseteq Uids /\ up \subseteq Uids
    /\ peer \in {"alive", "silent", "gone"}
    /\ asked \in BOOLEAN /\ authed \in BOOLEAN
    /\ ~Connected => peer = "gone" /\ wire = <<>> /\ ~asked /\ ~authed

InLoop == pc \in {"top", "reading"} /\ peer = "alive"

\* Once a session has reset the registry and Asterisk has listed its channels,
\* the registry and the frames still on the wire amount to the channels that
\* exist: the reset, the list and the events that overlap it, in whatever
\* order the reconcile goroutine and the event loop get to them, lose no
\* channel and leave no ghost.  All that can spoil it is the reconcile of an
\* earlier session, run so late that it resets what this one was told.
InSync ==
    InLoop /\ recon[session] = "done" /\ ~asked /\ ~wiped
        => FoldLeft(dispatch, known, wire) = up

\* Run returns once its context is cancelled (the comment on Run), from wherever
\* it is; all that can hold it, for as long as the connection stays up, is the
\* wait for the login response of a peer that has gone silent.
RunReturns == cancelled ~> pc = "returned" \/ (pc = "await" /\ peer = "silent")

\* A session that lasts brings the registry in line with Asterisk: after the
\* last change it knows the channels that exist, for good, late resets apart.
CatchesUp == <>[](InLoop /\ ~cancelled /\ ~wiped) => <>[](known = up)
=============================================================================
