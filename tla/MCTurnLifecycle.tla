--------------------------- MODULE MCTurnLifecycle ---------------------------
(* Small instances of TurnLifecycle. *)
EXTENDS TurnLifecycle

CONSTANTS c0, s1, s2, k1, k2

\* The contexts are the durable logs.
Logs == Seq(Events)

\* Where a turn's own store calls may raise.
TurnFaults == {"saving", "limited", "completing", "failing", "reload", "refailing", "giveUp"}

=============================================================================
