---------------------------- MODULE MCExposition ----------------------------
(***************************************************************************)
(* Small instances of Exposition for TLC.                                  *)
(***************************************************************************)
EXTENDS Exposition

CONSTANTS r1, r2

\* A list that has to exist and one that need not.
TwoLists == <<"channels", "queues">>

\* Rows that differ in all that is read of them, blank fields among them.
SmallRows ==
    [channels |-> [stateDesc : {"Up", Blank}, state : {"6", Blank},
                   linkedid : {"l1", Blank}, uniqueid : {"l1", "u2", Blank}],
     sip_peers |-> [peer : {"p1", "p2"}, status : {"OK", "LAGGED", Blank}, latency : {12, Blank}],
     pjsip_endpoints |->
        [event : {"EndpointList", "AorList"}, endpoint : {"t1", "e2"},
         deviceState : {"In use", "Unavailable", Blank}, numeric : BOOLEAN,
         auths : {"a", Blank}, outboundAuths : {Blank}]
            \cup [event : {"EndpointList"}, endpoint : {"t1"}, deviceState : {"In use"},
                  numeric : {FALSE}, auths : {"a"}, outboundAuths : {"o"}],
     pjsip_contacts |-> [event : {"ContactList"}, endpoint : {"e1", Blank}, aor : {"a1", "a2"},
                         usec : {0, 7, 9, Blank}],
     queues |-> [event : {"QueueParams", "QueueMember", "QueueEntry"}, queue : {"q1", "q2", Blank},
                 calls : {3, Blank}, status : {"in_use", Blank}]]
=============================================================================
