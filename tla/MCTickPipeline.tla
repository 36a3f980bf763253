-------------------------- MODULE MCTickPipeline --------------------------
(* Eighteen streams of four ticks of two symbols: minutes with one tick or *)
(* up to four, which rise or fall; a tick in a new minute; one that comes  *)
(* late for its minute.                                                    *)
EXTENDS TickPipeline
CONSTANTS s1, s2

At(s, minute, mid) == [symbol |-> s, minute |-> minute, mid |-> mid]

MCPushed == <<{At(s1, 0, 2)},
              {At(s1, 0, 1), At(s1, 0, 3), At(s2, 0, 1)},
              {At(s1, 0, 1), At(s1, 1, 2), At(s2, 0, 2)},
              {At(s1, 0, 3), At(s1, 1, 1)}>>
=============================================================================
