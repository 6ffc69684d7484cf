----------------------------- MODULE MCTurnTools -----------------------------
(* Small values for TurnTools. *)
EXTENDS TurnTools

CONSTANTS t1, t2, a, b

\* One client of the first turn alone, and one that both turns use.
SomeTurns == {t1, t2}
SomeClients == {a, b}
SomeWanted == [t \in SomeTurns |-> IF t = t1 THEN {a, b} ELSE {b}]

\* The servers share a name, and one has the name of a builtin tool.
SomeOffers == [c \in SomeClients |-> IF c = a THEN {"find", "post"} ELSE {"find"}]

=============================================================================
