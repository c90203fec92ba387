-------------------------- MODULE MCRegistrationLog --------------------------
(***************************************************************************)
(* Small instances of RegistrationLog for TLC.                             *)
(***************************************************************************)
EXTENDS RegistrationLog, TLC

CONSTANTS c1, c2, e1, e2

\* Each contact has an extension of its own.
Separate == (c1 :> e1) @@ (c2 :> e2)

\* The two phones, each with its extension, are interchangeable.
Swap == {(c1 :> c2) @@ (c2 :> c1) @@ (e1 :> e2) @@ (e2 :> e1)}

\* Of a row's status only whether it counts as registered is ever read, and of
\* its expiry nothing when it does not.
Essence(row) ==
    [row EXCEPT !.status = IsRegistered(@), !.expire = IF IsRegistered(row.status) THEN @ ELSE 0]

LogView == <<now, state, expiry, connected, unheard, [i \in DOMAIN rows |-> Essence(rows[i])]>>
=============================================================================
