------------------------------- MODULE MCSession -------------------------------
(***************************************************************************)
(* Two tabs of one browser, and a token more than a retried refresh needs; *)
(* then one tab alone.                                                     *)
(***************************************************************************)
EXTENDS Session

CONSTANTS a, b

\* One tab works all day and is reloaded, the other starts and ends sessions.
MCDoes == [t \in {a, b} |-> IF t = a THEN {"query", "reload", "stay"}
                            ELSE {"login", "logout", "changePassword", "reset"}]

\* A user who logs out while ['me'] is fetched again.
SoleDoes == [t \in {a} |-> {"login", "reconnect", "logout", "stay"}]
================================================================================
