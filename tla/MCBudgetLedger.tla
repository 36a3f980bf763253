--------------------------- MODULE MCBudgetLedger ---------------------------
(* Two turns of one user: a streamed one and the journal's, over two days, *)
(* with two overlapping recovery workers.                                  *)
EXTENDS BudgetLedger

CONSTANTS t1, t2, u1

MCTurns == {t1, t2}
MCUserOf == [t \in MCTurns |-> u1]
=============================================================================
