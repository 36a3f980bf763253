----------------------------- MODULE OwedWrite -----------------------------
(***************************************************************************)
(* What a durable queue of this system promises about the write it is      *)
(* kept for: a key that is owed leaves the queue as done only when its     *)
(* content is stored, content once stored is never replaced, and only the  *)
(* deletion of the thread it belongs to removes it.                        *)
(*                                                                         *)
(* PersistenceOutbox implements it with the rows of persistence_outbox,    *)
(* AnalysisQueue with the run records of the full analysis.                *)
(***************************************************************************)
CONSTANTS
  Keys,        \* what is written at most once
  Contents,    \* what may be written
  None,        \* no content
  Reopenable   \* states an entry may be reopened from: some of {"done", "dropped"}

VARIABLES
  stored,   \* stored[k]: the content readers find under k
  gone,     \* keys whose thread was deleted
  entry     \* entry[k]: what the queue knows of k

vars == <<stored, gone, entry>>

Init ==
  /\ stored = [k \in Keys |-> None]
  /\ gone = {}
  /\ entry = [k \in Keys |-> "idle"]

Becomes(k, state) == entry' = [entry EXCEPT ![k] = state]

Store(k, x) ==
  /\ k \notin gone
  /\ stored[k] = None
  /\ stored' = [stored EXCEPT ![k] = x]
  /\ UNCHANGED <<gone, entry>>

DeleteThread(k) ==
  /\ k \notin gone
  /\ gone' = gone \cup {k}
  /\ stored' = [stored EXCEPT ![k] = None]
  /\ UNCHANGED entry

Owe(k) ==
  /\ entry[k] \in {"idle"} \cup Reopenable
  /\ Becomes(k, "owed")
  /\ UNCHANGED <<stored, gone>>

Finish(k) ==
  /\ entry[k] # "idle"
  /\ stored[k] # None \/ k \in gone
  /\ Becomes(k, "done")
  /\ UNCHANGED <<stored, gone>>

Drop(k) ==
  /\ entry[k] = "owed" \/ entry[k] \in Reopenable
  /\ Becomes(k, "dropped")
  /\ UNCHANGED <<stored, gone>>

Forget(k) ==
  /\ entry[k] \in {"done", "dropped"}
  /\ Becomes(k, "idle")
  /\ UNCHANGED <<stored, gone>>

Next ==
  \E k \in Keys :
    \/ \E x \in Contents : Store(k, x)
    \/ DeleteThread(k) \/ Owe(k) \/ Finish(k) \/ Drop(k) \/ Forget(k)

Spec == Init /\ [][Next]_vars
=============================================================================
