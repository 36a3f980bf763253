------------------------ MODULE AlertDeliveryProofs ------------------------
(***************************************************************************)
(* Proofs about AlertDelivery, for any runs, rules, readings and channels. *)
(***************************************************************************)
EXTENDS AlertDelivery, TLAPS

\* A run has its copy of the rule while it needs it, and a channel of its own
\* to move on from.
ProgressOK ==
  \A r \in Runs :
    /\ run[r].phase \in {"listed", "missed"} => run[r].rule \in Rule
    /\ run[r].phase = "accepted" => run[r].next <= Len(Channels)

Typed == TypeOK /\ ProgressOK

\* A delivering run whose claim has not lapsed is the one in the row.
DelivererHolds ==
  \A r \in Runs :
    Delivering(r) /\ ~ run[r].lapsed => row.claim = [by |-> r, stale |-> FALSE]

\* A claim whose run has an acceptance in hand is a claim of an alert that was
\* delivered since it was armed: arming needs a free row.
AcceptedIsDelivered ==
  \A r \in Runs : At(r, "accepted") /\ row.claim.by = r => delivered

\* The strengthening under which both invariants are inductive.
Safe == Typed /\ DelivererHolds /\ AcceptedIsDelivered /\ RetiredAfterDelivery

-----------------------------------------------------------------------------
LEMMA LenIsNat == Len(Channels) \in Nat
BY RulesAssumption

\* A step that replaces the record of one run.
LEMMA OneRun ==
  ASSUME NEW r \in Runs, NEW new \in Run, run \in [Runs -> Run],
         run' = [run EXCEPT ![r] = new]
  PROVE  /\ run' \in [Runs -> Run]
         /\ run'[r] = new
         /\ \A s \in Runs \ {r} : run'[s] = run[s]
OBVIOUS

LEMMA GoesEffect ==
  ASSUME Safe, NEW r \in Runs, NEW phase \in RunPhase, Goes(r, phase)
  PROVE  /\ run' \in [Runs -> Run]
         /\ run'[r].phase = phase
         /\ run'[r].rule = run[r].rule
         /\ run'[r].next = run[r].next
         /\ run'[r].lapsed = run[r].lapsed
         /\ \A s \in Runs \ {r} : run'[s] = run[s]
<1> DEFINE new == [run[r] EXCEPT !.phase = phase]
<1>1. run \in [Runs -> Run] /\ run[r] \in Run
  BY DEF Safe, Typed, TypeOK
<1>2. /\ new \in Run /\ new.phase = phase /\ new.rule = run[r].rule
      /\ new.next = run[r].next /\ new.lapsed = run[r].lapsed
  BY <1>1 DEF Run
<1>3. run' = [run EXCEPT ![r] = new]
  BY DEF Goes
<1> HIDE DEF new
<1> QED BY <1>1, <1>2, <1>3, OneRun

LEMMA StopsEffect ==
  ASSUME Safe, NEW r \in Runs, Stops(r)
  PROVE  /\ run' \in [Runs -> Run]
         /\ run'[r] = Idle
         /\ \A s \in Runs \ {r} : run'[s] = run[s]
<1>1. Idle \in Run
  BY LenIsNat DEF Idle, Run, RunPhase
<1> QED BY <1>1, OneRun DEF Stops, Safe, Typed, TypeOK

LEMMA CopiesEffect ==
  ASSUME Safe, NEW r \in Runs, NEW phase \in RunPhase, NEW rule \in Rule \cup {None},
         NEW reading \in Values \cup {None}, Copies(r, phase, rule, reading)
  PROVE  /\ run' \in [Runs -> Run]
         /\ run'[r].phase = phase
         /\ run'[r].rule = rule
         /\ \A s \in Runs \ {r} : run'[s] = run[s]
<1> DEFINE new == [phase |-> phase, rule |-> rule, reading |-> reading,
                   next |-> 1, lapsed |-> FALSE]
<1>1. new \in Run /\ new.phase = phase /\ new.rule = rule
  BY LenIsNat DEF Run
<1>2. run' = [run EXCEPT ![r] = new]
  BY DEF Copies
<1> HIDE DEF new
<1> QED BY <1>1, <1>2, OneRun DEF Safe, Typed, TypeOK

LEMMA MovesOnEffect ==
  ASSUME Safe, NEW r \in Runs, NEW phase \in RunPhase, NEW lapsed \in BOOLEAN,
         run[r].next <= Len(Channels), MovesOn(r, phase, lapsed)
  PROVE  /\ run' \in [Runs -> Run]
         /\ run'[r].phase = phase
         /\ run'[r].lapsed <=> run[r].lapsed \/ lapsed
         /\ \A s \in Runs \ {r} : run'[s] = run[s]
<1> DEFINE new == [phase |-> phase, rule |-> None, reading |-> None,
                   next |-> run[r].next + 1, lapsed |-> run[r].lapsed \/ lapsed]
<1>1. run \in [Runs -> Run] /\ run[r] \in Run
  BY DEF Safe, Typed, TypeOK
<1>2. new \in Run /\ new.phase = phase /\ (new.lapsed <=> run[r].lapsed \/ lapsed)
  BY <1>1, LenIsNat DEF Run
<1>3. run' = [run EXCEPT ![r] = new]
  BY DEF MovesOn
<1> HIDE DEF new
<1> QED BY <1>1, <1>2, <1>3, OneRun

\* What a mark makes of the row.
LEMMA FiredEffect ==
  ASSUME row \in Row
  PROVE  /\ FiredRow \in Row
         /\ FiredRow.claim = Free
         /\ FiredRow.status \in {row.status, "fired"}
BY DEF FiredRow, Cleared, Row, Claims, Free

LEMMA ClearedEffect ==
  ASSUME row \in Row
  PROVE  Cleared \in Row /\ Cleared.claim = Free /\ Cleared.status = row.status
BY DEF Cleared, Row, Claims, Free

-----------------------------------------------------------------------------
(* How the parts of Safe carry over, for a run's step and for the others.  *)

\* A step of r that leaves the claim alone, or frees it while r held it.
LEMMA RunKeepsSafe ==
  ASSUME Safe, NEW r \in Runs,
         row' \in Row, run' \in [Runs -> Run], configured' \subseteq configured, value' = value,
         left' \in BOOLEAN, delivered' \in BOOLEAN,
         \A s \in Runs \ {r} : run'[s] = run[s],
         run'[r].phase \in {"listed", "missed"} => run'[r].rule \in Rule,
         run'[r].phase = "accepted" => run'[r].next <= Len(Channels) /\ delivered',
         delivered => delivered',
         row'.status = "fired" => row'.claim = Free /\ delivered',
         \/ row'.claim = row.claim
         \/ \A s \in Runs \ {r} : row.claim # [by |-> s, stale |-> FALSE] /\ row'.claim.by # s,
         Delivering(r)' /\ ~ run'[r].lapsed => row'.claim = [by |-> r, stale |-> FALSE]
  PROVE  Safe'
<1>1. TypeOK'
  BY DEF Safe, Typed, TypeOK
<1>2. ProgressOK'
  BY DEF Safe, Typed, ProgressOK
<1>3. DelivererHolds'
  BY DEF Safe, DelivererHolds, Delivering
<1>4. AcceptedIsDelivered'
  BY DEF Safe, AcceptedIsDelivered, At
<1>5. RetiredAfterDelivery'
  BY DEF RetiredAfterDelivery
<1> QED BY <1>1, <1>2, <1>3, <1>4, <1>5 DEF Safe, Typed

\* A step of the world: runs stay, or one of them is told its claim has lapsed.
LEMMA WorldKeepsSafe ==
  ASSUME Safe, row' \in Row, run' = run, configured' = configured,
         value' \in Values, left' \in BOOLEAN, delivered' \in BOOLEAN,
         row'.claim = row.claim,
         row'.status = "fired" => row.status = "fired",
         delivered => (delivered' \/ (row.status = "fired" /\ row'.status # "fired"))
  PROVE  Safe'
<1>1. TypeOK'
  BY DEF Safe, Typed, TypeOK
<1>2. ProgressOK' /\ DelivererHolds'
  BY DEF Safe, Typed, ProgressOK, DelivererHolds, Delivering
<1>3. AcceptedIsDelivered'
  <2>1. row.status = "fired" => row.claim.by \notin Runs
    BY RulesAssumption DEF Safe, Typed, TypeOK, Free
  <2> QED BY <2>1 DEF Safe, AcceptedIsDelivered, At
<1>4. RetiredAfterDelivery'
  BY DEF Safe, RetiredAfterDelivery
<1> QED BY <1>1, <1>2, <1>3, <1>4 DEF Safe, Typed

-----------------------------------------------------------------------------
LEMMA InitSafe == Init => Safe
<1> SUFFICES ASSUME Init PROVE Safe
  OBVIOUS
<1>1. Idle \in Run
  BY LenIsNat DEF Idle, Run, RunPhase
<1>2. row \in Row /\ row.status # "fired"
  BY DEF Init, Row, Rule, Claims, Free
<1>3. TypeOK
  BY <1>1, <1>2 DEF Init, TypeOK
<1>4. \A r \in Runs : run[r].phase = "idle"
  BY DEF Init, Idle
<1> QED BY <1>2, <1>3, <1>4 DEF Safe, Typed, ProgressOK, DelivererHolds, Delivering,
        AcceptedIsDelivered, At, RetiredAfterDelivery

LEMMA DecidingKeepsSafe ==
  ASSUME Safe, NEW r \in Runs, List(r) \/ Decide(r) \/ WriteBaseline(r)
  PROVE  Safe'
<1>t. row \in Row /\ value \in Values /\ run \in [Runs -> Run]
  BY DEF Safe, Typed, TypeOK
<1>o. /\ left \in BOOLEAN /\ delivered \in BOOLEAN
      /\ row.status = "fired" => row.claim = Free /\ delivered
  BY DEF Safe, Typed, TypeOK, RetiredAfterDelivery
<1>1. CASE List(r)
  <2>1. row.rule \in Rule
    BY <1>t DEF Row
  <2>2. /\ run' \in [Runs -> Run] /\ run'[r].phase = "listed" /\ run'[r].rule = row.rule
        /\ \A s \in Runs \ {r} : run'[s] = run[s]
    BY <1>1, <2>1, CopiesEffect DEF List, RunPhase
  <2> QED BY <1>1, <1>t, <1>o, <2>1, <2>2, RunKeepsSafe DEF List, history, Delivering
<1>2. CASE Decide(r)
  <2>1. run[r].rule \in Rule
    BY <1>2 DEF Decide, At, Safe, Typed, ProgressOK
  <2>2. /\ run' \in [Runs -> Run]
        /\ run'[r].phase \in {"matched", "missed", "idle"}
        /\ run'[r].phase = "missed" => run'[r].rule \in Rule
        /\ \A s \in Runs \ {r} : run'[s] = run[s]
    <3>1. CASE Copies(r, "matched", None, None)
      BY <3>1, CopiesEffect DEF RunPhase
    <3>2. CASE Stops(r)
      BY <3>2, StopsEffect DEF Idle
    <3>3. CASE Copies(r, "missed", run[r].rule, value)
      BY <3>3, <1>t, <2>1, CopiesEffect DEF RunPhase
    <3> QED BY <1>2, <3>1, <3>2, <3>3 DEF Decide
  <2> QED BY <1>2, <1>t, <1>o, <2>2, RunKeepsSafe DEF Decide, history, Delivering
<1>3. CASE WriteBaseline(r)
  <2>1. run[r].rule \in Rule /\ run[r].reading \in Values \cup {None}
    BY <1>3, <1>t DEF WriteBaseline, At, Safe, Typed, ProgressOK, Run
  <2> DEFINE rule == [version |-> run[r].rule.version, previous |-> run[r].reading]
             new == [row EXCEPT !.rule = rule]
  <2>2. rule \in Rule
    BY <2>1 DEF Rule
  <2>3. row' \in {row, new}
    BY <1>3 DEF WriteBaseline, Updates
  <2> HIDE DEF rule
  <2>4. new \in Row /\ new.claim = row.claim /\ new.status = row.status
    BY <1>t, <2>2 DEF Row
  <2>5. row' \in Row /\ row'.claim = row.claim /\ row'.status = row.status
    BY <1>t, <2>3, <2>4
  <2>6. /\ run' \in [Runs -> Run] /\ run'[r].phase = "idle"
        /\ \A s \in Runs \ {r} : run'[s] = run[s]
    BY <1>3, StopsEffect DEF WriteBaseline, Idle
  <2> HIDE DEF new
  <2> QED BY <1>3, <1>o, <2>5, <2>6, RunKeepsSafe DEF WriteBaseline, history, Delivering
<1> QED BY <1>1, <1>2, <1>3

LEMMA ClaimKeepsSafe ==
  ASSUME Safe, NEW r \in Runs, Claim(r) \/ ClaimRefused(r) \/ RunEnds(r)
  PROVE  Safe'
<1>t. row \in Row /\ value \in Values /\ run \in [Runs -> Run]
  BY DEF Safe, Typed, TypeOK
<1>o. /\ left \in BOOLEAN /\ delivered \in BOOLEAN
      /\ row.status = "fired" => row.claim = Free /\ delivered
  BY DEF Safe, Typed, TypeOK, RetiredAfterDelivery
<1>1. CASE Claim(r)
  <2> DEFINE mine == [by |-> r, stale |-> FALSE]
             new == [row EXCEPT !.claim = mine]
  <2>1. mine \in Claims
    BY DEF Claims
  <2>2. mine.by = r
    OBVIOUS
  <2> HIDE DEF mine
  <2>3. new \in Row /\ new.claim = mine /\ new.status = row.status
    BY <1>t, <2>1 DEF Row
  <2>4. row' = new /\ row.status = "armed"
    BY <1>1 DEF Claim, Claimable, mine
  <2>5. \A s \in Runs \ {r} : row.claim # [by |-> s, stale |-> FALSE] /\ row'.claim.by # s
    BY <1>1, <2>2, <2>3, <2>4, RulesAssumption DEF Claim, Claimable
  <2>6. /\ run' \in [Runs -> Run] /\ run'[r].phase = "sending"
        /\ \A s \in Runs \ {r} : run'[s] = run[s]
    BY <1>1, GoesEffect DEF Claim, RunPhase
  <2>7. row'.claim = [by |-> r, stale |-> FALSE] /\ row' \in Row /\ row'.status # "fired"
    BY <2>3, <2>4 DEF mine
  <2> HIDE DEF new
  <2> QED BY <1>1, <1>t, <1>o, <2>5, <2>6, <2>7, RunKeepsSafe DEF Claim, history
<1>2. CASE ClaimRefused(r) \/ RunEnds(r)
  <2>1. /\ run' \in [Runs -> Run] /\ run'[r].phase = "idle"
        /\ \A s \in Runs \ {r} : run'[s] = run[s]
    BY <1>2, StopsEffect DEF ClaimRefused, RunEnds, Idle
  <2> QED BY <1>2, <1>t, <1>o, <2>1, RunKeepsSafe DEF ClaimRefused, RunEnds, history, Delivering
<1> QED BY <1>1, <1>2

LEMMA SendingKeepsSafe ==
  ASSUME Safe, NEW r \in Runs, Unconfigured(r) \/ Exhausted(r) \/ Accepted(r)
                           \/ PushesDead(r) \/ Rejected(r) \/ PushThrows(r)
  PROVE  Safe'
<1>t. row \in Row /\ value \in Values /\ run \in [Runs -> Run]
  BY DEF Safe, Typed, TypeOK
<1>o. /\ left \in BOOLEAN /\ delivered \in BOOLEAN
      /\ row.status = "fired" => row.claim = Free /\ delivered
  BY DEF Safe, Typed, TypeOK, RetiredAfterDelivery
<1>h. At(r, "sending") => (~ run[r].lapsed => row.claim = [by |-> r, stale |-> FALSE])
  BY DEF Safe, DelivererHolds, Delivering, At
<1>1. CASE Unconfigured(r) \/ Exhausted(r) \/ PushThrows(r)
  <2>1. /\ run' \in [Runs -> Run] /\ run'[r].phase = "failing"
        /\ run'[r].lapsed = run[r].lapsed
        /\ \A s \in Runs \ {r} : run'[s] = run[s]
    BY <1>1, GoesEffect DEF Unconfigured, Exhausted, PushThrows, RunPhase
  <2> QED BY <1>1, <1>t, <1>o, <1>h, <2>1, RunKeepsSafe
      DEF Unconfigured, Exhausted, PushThrows, history
<1>2. CASE Accepted(r) \/ PushesDead(r)
  <2>1. /\ run' \in [Runs -> Run] /\ run'[r].phase = "accepted"
        /\ run'[r].lapsed = run[r].lapsed /\ run'[r].next = run[r].next
        /\ \A s \in Runs \ {r} : run'[s] = run[s]
    BY <1>2, GoesEffect DEF Accepted, PushesDead, RunPhase
  <2> QED BY <1>2, <1>t, <1>o, <1>h, <2>1, RunKeepsSafe DEF Accepted, PushesDead
<1>3. CASE Rejected(r)
  <2>1. /\ run' \in [Runs -> Run] /\ run'[r].phase = "sending"
        /\ (run'[r].lapsed <=> run[r].lapsed)
        /\ \A s \in Runs \ {r} : run'[s] = run[s]
    BY <1>3, <1>t, MovesOnEffect DEF Rejected, NextChannel, RunPhase, Run
  <2> QED BY <1>3, <1>t, <1>o, <1>h, <2>1, RunKeepsSafe DEF Rejected, history
<1> QED BY <1>1, <1>2, <1>3

LEMMA MarkingKeepsSafe ==
  ASSUME Safe, NEW r \in Runs, Mark(r) \/ MarkRefused(r) \/ MarkErrs(r) \/ Release(r)
  PROVE  Safe'
<1>t. row \in Row /\ value \in Values /\ run \in [Runs -> Run]
  BY DEF Safe, Typed, TypeOK
<1>o. /\ left \in BOOLEAN /\ delivered \in BOOLEAN
      /\ row.status = "fired" => row.claim = Free /\ delivered
  BY DEF Safe, Typed, TypeOK, RetiredAfterDelivery
<1>h. At(r, "accepted") => (~ run[r].lapsed => row.claim = [by |-> r, stale |-> FALSE])
  BY DEF Safe, DelivererHolds, Delivering, At
<1>n. At(r, "accepted") => run[r].next <= Len(Channels)
  BY DEF Safe, Typed, ProgressOK, At
<1>f. ASSUME At(r, "accepted"), Holds(r), row' = FiredRow
      PROVE  /\ row' \in Row /\ row'.claim = Free /\ delivered
             /\ \A s \in Runs \ {r} : /\ row.claim # [by |-> s, stale |-> FALSE]
                                      /\ row'.claim.by # s
  BY <1>f, <1>t, FiredEffect, RulesAssumption DEF Holds, Free, Safe, AcceptedIsDelivered
<1>1. CASE Mark(r)
  <2>1. /\ run' \in [Runs -> Run] /\ run'[r].phase = "idle"
        /\ \A s \in Runs \ {r} : run'[s] = run[s]
    BY <1>1, StopsEffect DEF Mark, Idle
  <2> QED BY <1>1, <1>t, <1>o, <1>f, <2>1, RunKeepsSafe DEF Mark, Delivering
<1>2. CASE MarkRefused(r)
  <2>1. /\ run' \in [Runs -> Run] /\ run'[r].phase = "sending"
        /\ (run'[r].lapsed <=> run[r].lapsed)
        /\ \A s \in Runs \ {r} : run'[s] = run[s]
    BY <1>2, <1>n, MovesOnEffect DEF MarkRefused, NextChannel, RunPhase
  <2> QED BY <1>2, <1>t, <1>o, <1>h, <2>1, RunKeepsSafe DEF MarkRefused, history
<1>3. CASE MarkErrs(r)
  <2>1. PICK marked \in BOOLEAN :
          /\ \/ marked /\ Holds(r) /\ row' = FiredRow /\ left' = FALSE
             \/ ~ marked /\ UNCHANGED <<row, left>>
          /\ MovesOn(r, IF Channels[run[r].next] = "telegram" THEN "sending" ELSE "failing",
                     marked)
    BY <1>3 DEF MarkErrs
  <2>2. /\ run' \in [Runs -> Run] /\ run'[r].phase \in {"sending", "failing"}
        /\ (run'[r].lapsed <=> run[r].lapsed \/ marked)
        /\ \A s \in Runs \ {r} : run'[s] = run[s]
    BY <1>3, <1>n, <2>1, MovesOnEffect DEF MarkErrs, RunPhase
  <2>3. CASE marked
    BY <1>3, <1>t, <1>o, <1>f, <2>1, <2>2, <2>3, RunKeepsSafe DEF MarkErrs
  <2>4. CASE ~ marked
    BY <1>3, <1>t, <1>o, <1>h, <2>1, <2>2, <2>4, RunKeepsSafe DEF MarkErrs
  <2> QED BY <2>3, <2>4
<1>4. CASE Release(r)
  <2>1. /\ run' \in [Runs -> Run] /\ run'[r].phase = "idle"
        /\ \A s \in Runs \ {r} : run'[s] = run[s]
    BY <1>4, StopsEffect DEF Release, Idle
  <2>2. CASE Holds(r)
    <3>1. /\ row' \in Row /\ row'.claim = Free /\ row'.status = row.status
          /\ \A s \in Runs \ {r} : /\ row.claim # [by |-> s, stale |-> FALSE]
                                   /\ row'.claim.by # s
      BY <1>4, <1>t, <2>2, ClearedEffect, RulesAssumption DEF Release, Holds, Free
    <3> QED BY <1>4, <1>t, <1>o, <2>1, <3>1, RunKeepsSafe DEF Release, history, Delivering
  <2>3. CASE ~ Holds(r)
    BY <1>4, <1>t, <1>o, <2>1, <2>3, RunKeepsSafe DEF Release, history, Delivering
  <2> QED BY <2>2, <2>3
<1> QED BY <1>1, <1>2, <1>3, <1>4

\* Everything but the lease: the claim and the runs stay.
LEMMA WorldStepKeepsSafe ==
  ASSUME Safe,
         \/ \E version \in Rules : EditRule(version)
         \/ SwitchOn \/ SwitchOff \/ DeleteAlert
         \/ \E v \in Values : Moves(v)
         \/ SnoozeElapses
  PROVE  Safe'
<1>t. /\ row \in Row /\ value \in Values /\ left \in BOOLEAN /\ delivered \in BOOLEAN
  BY DEF Safe, Typed, TypeOK
<1>1. ASSUME NEW version \in Rules, EditRule(version) PROVE Safe'
  <2>1. [version |-> version, previous |-> None] \in Rule
    BY DEF Rule
  <2>2. row' \in Row /\ row'.claim = row.claim /\ row'.status = row.status
    BY <1>t, <1>1, <2>1 DEF EditRule, Row
  <2> QED BY <1>t, <1>1, <2>2, WorldKeepsSafe DEF EditRule
<1>2. CASE SwitchOn
  <2>1. row' \in Row /\ row'.claim = row.claim /\ row'.status = "armed"
    BY <1>t, <1>2 DEF SwitchOn, Row
  <2>2. delivered' \in BOOLEAN /\ (delivered => delivered' \/ row.status = "fired")
    BY <1>2 DEF SwitchOn
  <2> QED BY <1>t, <1>2, <2>1, <2>2, WorldKeepsSafe DEF SwitchOn
<1>3. CASE SwitchOff
  <2>1. row' \in Row /\ row'.claim = row.claim /\ row'.status = "off"
    BY <1>t, <1>3 DEF SwitchOff, Row
  <2>2. delivered' \in BOOLEAN /\ (delivered => delivered' \/ row.status = "fired")
    BY <1>3 DEF SwitchOff
  <2> QED BY <1>t, <1>3, <2>1, <2>2, WorldKeepsSafe DEF SwitchOff
<1>4. CASE DeleteAlert
  <2>1. row' \in Row /\ row'.claim = row.claim /\ row'.status = "gone"
    BY <1>t, <1>4 DEF DeleteAlert, Row
  <2> QED BY <1>t, <1>4, <2>1, WorldKeepsSafe DEF DeleteAlert, history
<1>5. ASSUME NEW v \in Values, Moves(v) PROVE Safe'
  <2>1. left' \in BOOLEAN
    BY <1>5 DEF Moves
  <2> QED BY <1>t, <1>5, <2>1, WorldKeepsSafe DEF Moves
<1>6. CASE SnoozeElapses
  <2>1. row' \in Row /\ row'.claim = row.claim /\ row'.status = row.status
    BY <1>t, <1>6 DEF SnoozeElapses, Row
  <2> QED BY <1>t, <1>6, <2>1, WorldKeepsSafe DEF SnoozeElapses, history
<1> QED BY <1>1, <1>2, <1>3, <1>4, <1>5, <1>6

\* The claim goes stale, and the run that delivers under it is told.
LEMMA LeaseKeepsSafe ==
  ASSUME Safe, LeaseExpires
  PROVE  Safe'
<1> DEFINE h == row.claim.by
           claim == [by |-> h, stale |-> TRUE]
           lapsed == [run[h] EXCEPT !.lapsed = TRUE]
<1>t. row \in Row /\ run \in [Runs -> Run] /\ h \in Runs
  BY DEF Safe, Typed, TypeOK, Row, Claims, LeaseExpires
<1>1. claim \in Claims /\ row' = [row EXCEPT !.claim = claim]
  BY <1>t DEF Claims, LeaseExpires
<1>2. claim.by = h
  OBVIOUS
<1>3. row.status # "fired"
  BY <1>t, RulesAssumption DEF Safe, Typed, TypeOK, Free
<1>4. /\ lapsed \in Run /\ lapsed.lapsed /\ lapsed.phase = run[h].phase
      /\ lapsed.rule = run[h].rule /\ lapsed.next = run[h].next
  BY <1>t DEF Run
<1>5. run' = [run EXCEPT ![h] = IF Delivering(h) THEN lapsed ELSE run[h]]
  BY DEF LeaseExpires
<1> HIDE DEF claim, lapsed
<1>6. row' \in Row /\ row'.claim = claim /\ row'.status = row.status
  BY <1>t, <1>1 DEF Row
<1>7. /\ run' \in [Runs -> Run]
      /\ \A s \in Runs : /\ run'[s].phase = run[s].phase /\ run'[s].rule = run[s].rule
                         /\ run'[s].next = run[s].next
      /\ Delivering(h) => run'[h].lapsed
      /\ \A s \in Runs \ {h} : run'[s] = run[s]
  BY <1>t, <1>4, <1>5
<1>8. configured' = configured /\ value' = value /\ left' = left /\ delivered' = delivered
  BY DEF LeaseExpires, history
<1>9. row'.claim.by = row.claim.by
  BY <1>2, <1>6
<1>10. Typed'
  BY <1>3, <1>6, <1>7, <1>8 DEF Safe, Typed, TypeOK, ProgressOK
<1>11. DelivererHolds'
  <2>1. \A s \in Runs \ {h} : row.claim # [by |-> s, stale |-> FALSE]
    BY <1>t
  <2> QED BY <1>7, <2>1 DEF Safe, DelivererHolds, Delivering
<1>12. AcceptedIsDelivered' /\ RetiredAfterDelivery'
  BY <1>3, <1>6, <1>7, <1>8, <1>9 DEF Safe, AcceptedIsDelivered, RetiredAfterDelivery, At
<1> QED BY <1>10, <1>11, <1>12 DEF Safe

LEMMA NextSafe == Safe /\ [Next]_vars => Safe'
<1> SUFFICES ASSUME Safe, [Next]_vars PROVE Safe'
  OBVIOUS
<1>1. CASE UNCHANGED vars
  BY <1>1 DEF vars, Safe, Typed, TypeOK, ProgressOK, DelivererHolds, Delivering,
     AcceptedIsDelivered, At, RetiredAfterDelivery
<1>2. ASSUME NEW r \in Runs, RunStep(r) \/ RunEnds(r) PROVE Safe'
  BY <1>2, DecidingKeepsSafe, ClaimKeepsSafe, SendingKeepsSafe, MarkingKeepsSafe DEF RunStep
<1>3. CASE LeaseExpires
  BY <1>3, LeaseKeepsSafe
<1> QED BY <1>1, <1>2, <1>3, WorldStepKeepsSafe DEF Next

LEMMA SpecSafe == Spec => []Safe
BY InitSafe, NextSafe, PTL DEF Spec

-----------------------------------------------------------------------------
\* Every reachable state is typed, and a fired alert holds no claim.
THEOREM TypeCorrect == Spec => []TypeOK
<1>1. Safe => TypeOK
  BY DEF Safe, Typed
<1> QED BY <1>1, SpecSafe, PTL

\* For any number of overlapping runs, two deliver one alert at once only when
\* one of them has lost its claim unawares (claimAlertDelivery).
THEOREM SingleDelivery == Spec => []OneDelivery
<1>1. \A r, s \in Runs : r # s => [by |-> r, stale |-> FALSE] # [by |-> s, stale |-> FALSE]
  OBVIOUS
<1>2. Safe => OneDelivery
  BY <1>1 DEF Safe, DelivererHolds, OneDelivery
<1> QED BY <1>2, SpecSafe, PTL

\* An alert is retired only by a delivery made since it was armed (markFired).
THEOREM Retirement == Spec => []RetiredAfterDelivery
<1>1. Safe => RetiredAfterDelivery
  BY DEF Safe
<1> QED BY <1>1, SpecSafe, PTL
=============================================================================
