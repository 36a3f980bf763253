--------------------------- MODULE AlertDelivery ---------------------------
(***************************************************************************)
(* Delivery of an alert by cron runs that may overlap: each lists the      *)
(* alerts to evaluate, reads the market, decides from its copy of the row, *)
(* claims the row, calls the user's channels in order, and marks the alert *)
(* fired once a provider has accepted.                                     *)
(*                                                                         *)
(* Alerts share no state, so one row is modelled.  A run that evaluates    *)
(* other alerts first is a run that is slow between its steps.  A claim is *)
(* named by the run that made it: a run makes one claim at a time, and the *)
(* row compares claims by the instant they were made.                      *)
(***************************************************************************)
EXTENDS Naturals, Sequences, FiniteSets

CONSTANTS
  Runs,      \* cron runs that may overlap
  Rules,     \* versions of the rule, each put there by an edit
  Values,    \* readings the market may give
  Fires,     \* the readings on the firing side of each version's level
  Crossing,  \* the versions that are an indicatorCross: they fire on a transition
  Channels,  \* the user's channels, in order
  None       \* no claim, no reading

ASSUME RulesAssumption ==
  /\ Fires \in [Rules -> SUBSET Values]
  /\ Crossing \subseteq Rules
  /\ Channels \in Seq(STRING)
  /\ None \notin Runs
  /\ None \notin Values

VARIABLES
  row,         \* the row of alerts
  configured,  \* channels whose settings are complete
  value,       \* what the market reads
  run,         \* run[r]: the progress of a run, and its copy of the rule
  delivered,   \* history: a delivery succeeded since the alert was armed
  left         \* history: the market left the firing side since the last mark

vars == <<row, configured, value, run, delivered, left>>
history == <<delivered, left>>

ChannelSet == {Channels[i] : i \in 1 .. Len(Channels)}
Rule == [version : Rules, previous : Values \cup {None}]

\* status: armed is active with firedAt null, fired has the firedAt of a mark, off
\* is neither: inactive, or given a firedAt by hand, which the cron treats alike.
\* claim: who set deliveryClaimedAt, and whether longer ago than the lease.
\* recent: lastFiredAt is within snoozeHours of now;  snooze: snoozeHours > 0.
Claims == [by : Runs \cup {None}, stale : BOOLEAN]
Free == [by |-> None, stale |-> FALSE]
Row == [status : {"armed", "off", "fired", "gone"}, rule : Rule, claim : Claims,
        snooze : BOOLEAN, recent : BOOLEAN]

\* listed: has its copy;  missed: an indicatorCross that did not match, its
\* baseline is written next;  matched: claims next;  sending: calls the next
\* channel;  accepted: a provider said 2xx;  failing: releases next.
\* lapsed: it lost its claim without knowing, to the lease or to a mark whose
\* answer never came.
RunPhase == {"idle", "listed", "missed", "matched", "sending", "accepted", "failing"}
Run == [phase : RunPhase, rule : Rule \cup {None}, reading : Values \cup {None},
        next : 1 .. Len(Channels) + 1, lapsed : BOOLEAN]
Idle == [phase |-> "idle", rule |-> None, reading |-> None, next |-> 1, lapsed |-> FALSE]

\* Types; a fired alert holds no claim (markFired clears it).
TypeOK ==
  /\ row \in Row
  /\ row.status = "fired" => row.claim = Free
  /\ configured \subseteq ChannelSet
  /\ value \in Values
  /\ run \in [Runs -> Run]
  /\ delivered \in BOOLEAN
  /\ left \in BOOLEAN

\* createAlert
Init ==
  /\ \E version \in Rules, snooze \in BOOLEAN :
       row = [status |-> "armed", rule |-> [version |-> version, previous |-> None],
              claim |-> Free, snooze |-> snooze, recent |-> FALSE]
  /\ configured \in SUBSET ChannelSet
  /\ value \in Values
  /\ run = [r \in Runs |-> Idle]
  /\ delivered = FALSE
  /\ left = TRUE

-----------------------------------------------------------------------------
(* One run: evaluateAlerts.                                                *)

At(r, phase) == run[r].phase = phase
Delivering(r) == run[r].phase \in {"sending", "accepted", "failing"}
Goes(r, phase) == run' = [run EXCEPT ![r] = [@ EXCEPT !.phase = phase]]
Copies(r, phase, rule, reading) ==
  run' = [run EXCEPT ![r] = [phase |-> phase, rule |-> rule, reading |-> reading,
                             next |-> 1, lapsed |-> FALSE]]
Stops(r) == run' = [run EXCEPT ![r] = Idle]

\* The UPDATE of a deleted row changes nothing.
Updates(new) == row' = IF row.status = "gone" THEN row ELSE new

InSnooze == row.recent /\ row.snooze

\* listEvaluable
List(r) ==
  /\ At(r, "idle")
  /\ row.status = "armed" /\ ~ InSnooze
  /\ Copies(r, "listed", row.rule, None)
  /\ UNCHANGED <<row, configured, value, history>>

\* specFromRule(rule).isSatisfiedBy(reading, cross)
Matches(rule, reading) ==
  /\ reading \in Fires[rule.version]
  /\ rule.version \in Crossing => rule.previous \in Values \ Fires[rule.version]

\* readReadingsBatch and the decision on what it gave.  The copy of the rule and
\* the reading are kept only for the baseline.
Decide(r) ==
  LET rule == run[r].rule IN
    /\ At(r, "listed")
    /\ \/ Matches(rule, value) /\ Copies(r, "matched", None, None)
       \/ ~ Matches(rule, value) /\ rule.version \notin Crossing /\ Stops(r)
       \/ /\ ~ Matches(rule, value) /\ rule.version \in Crossing
          /\ Copies(r, "missed", rule, value)
    /\ UNCHANGED <<row, configured, value, history>>

\* setRulePreviousValue writes the run's copy of the rule back.
WriteBaseline(r) ==
  /\ At(r, "missed")
  /\ Updates([row EXCEPT !.rule = [version |-> run[r].rule.version,
                                   previous |-> run[r].reading]])
  /\ Stops(r)
  /\ UNCHANGED <<configured, value, history>>

\* A claim in force does not count.
FaultyClaimable == row.status = "armed"

\* A stale claim is never taken over.
DeadClaimable == row.status = "armed" /\ row.claim.by = None

\* The WHERE clause of claimAlertDelivery.
Claimable == row.status = "armed" /\ (row.claim.by = None \/ row.claim.stale)

Claim(r) ==
  /\ At(r, "matched")
  /\ Claimable
  /\ row' = [row EXCEPT !.claim = [by |-> r, stale |-> FALSE]]
  /\ Goes(r, "sending")
  /\ UNCHANGED <<configured, value, history>>

ClaimRefused(r) ==
  /\ At(r, "matched")
  /\ ~ Claimable
  /\ Stops(r)
  /\ UNCHANGED <<row, configured, value, history>>

\* deliverAlert: the loop returns when a channel is not configured.
Unconfigured(r) ==
  /\ At(r, "sending")
  /\ run[r].next <= Len(Channels)
  /\ Channels[run[r].next] \notin configured
  /\ Goes(r, "failing")
  /\ UNCHANGED <<row, configured, value, history>>

Exhausted(r) ==
  /\ At(r, "sending")
  /\ run[r].next > Len(Channels)
  /\ Goes(r, "failing")
  /\ UNCHANGED <<row, configured, value, history>>

\* A 2xx.
Accepted(r) ==
  /\ At(r, "sending")
  /\ run[r].next <= Len(Channels)
  /\ Channels[run[r].next] \in configured
  /\ Goes(r, "accepted")
  /\ delivered' = TRUE
  /\ UNCHANGED <<row, configured, value, left>>

\* Every push subscription turns out dead (410 or 404): they are dropped, and
\* the alert counts as delivered.
PushesDead(r) ==
  /\ At(r, "sending")
  /\ run[r].next <= Len(Channels)
  /\ Channels[run[r].next] = "web-push"
  /\ "web-push" \in configured
  /\ Goes(r, "accepted")
  /\ configured' = configured \ {"web-push"}
  /\ delivered' = TRUE
  /\ UNCHANGED <<row, value, left>>

\* On to the next channel, or to the release.
MovesOn(r, phase, lapsed) ==
  run' = [run EXCEPT ![r] = [phase |-> phase, rule |-> None, reading |-> None,
                             next |-> @.next + 1, lapsed |-> @.lapsed \/ lapsed]]
NextChannel(r) == MovesOn(r, "sending", FALSE)

\* An error or a non-2xx; a provider whose answer was lost, or a push that
\* reached some subscriptions only, may have delivered all the same.
Rejected(r) ==
  /\ At(r, "sending")
  /\ run[r].next <= Len(Channels)
  /\ Channels[run[r].next] \in configured
  /\ NextChannel(r)
  /\ UNCHANGED <<row, configured, value, history>>

\* deliverWebPush throws where it lists or drops subscriptions: no further channel
\* is tried, and the evaluator releases.
PushThrows(r) ==
  /\ At(r, "sending")
  /\ run[r].next <= Len(Channels)
  /\ Channels[run[r].next] = "web-push"
  /\ Goes(r, "failing")
  /\ UNCHANGED <<row, configured, value, history>>

\* The claim is not part of the condition.
FaultyHolds(r) == row.status # "gone"

\* WHERE delivery_claimed_at = claimAt
Holds(r) == row.status # "gone" /\ row.claim.by = r

Cleared == [row EXCEPT !.claim = Free]

\* markFired leaves the claim set.
FaultyFiredRow == IF row.snooze THEN [Cleared EXCEPT !.recent = TRUE]
                  ELSE [row EXCEPT !.status = "fired"]

\* markFiredForAlert: markFiredSnoozed or markFired.
FiredRow == IF row.snooze THEN [Cleared EXCEPT !.recent = TRUE]
            ELSE [Cleared EXCEPT !.status = "fired"]

Mark(r) ==
  /\ At(r, "accepted")
  /\ Holds(r)
  /\ row' = FiredRow
  /\ left' = FALSE
  /\ Stops(r)
  /\ UNCHANGED <<configured, value, delivered>>

\* The claim was lost after provider acceptance: not ok, on to the next channel.
MarkRefused(r) ==
  /\ At(r, "accepted")
  /\ ~ Holds(r)
  /\ NextChannel(r)
  /\ UNCHANGED <<row, configured, value, history>>

\* The update throws, before or after it took effect: telegram catches it and
\* reports a failure, the others leave it to the evaluator, which releases.
MarkErrs(r) ==
  /\ At(r, "accepted")
  /\ \E marked \in BOOLEAN :
       /\ \/ marked /\ Holds(r) /\ row' = FiredRow /\ left' = FALSE
          \/ ~ marked /\ UNCHANGED <<row, left>>
       /\ MovesOn(r, IF Channels[run[r].next] = "telegram" THEN "sending" ELSE "failing",
                  marked)
  /\ UNCHANGED <<configured, value, delivered>>

\* releaseAlertDeliveryClaim
Release(r) ==
  /\ At(r, "failing")
  /\ row' = IF Holds(r) THEN Cleared ELSE row
  /\ Stops(r)
  /\ UNCHANGED <<configured, value, history>>

\* A crash, a database error in any step that the run does not survive, a
\* missing reading, an abort signal.
RunEnds(r) ==
  /\ ~ At(r, "idle")
  /\ Stops(r)
  /\ UNCHANGED <<row, configured, value, history>>

-----------------------------------------------------------------------------
(* The user, the market and time.                                          *)

\* updateAlert with a rule.  Its channels are Channels all along.
EditRule(version) ==
  /\ row.status # "gone"
  /\ row' = [row EXCEPT !.rule = [version |-> version, previous |-> None]]
  /\ left' = TRUE
  /\ UNCHANGED <<configured, value, run, delivered>>

\* toggleAlertAction: active, and firedAt null with it.
SwitchOn ==
  /\ row.status \in {"off", "fired"}
  /\ row' = [row EXCEPT !.status = "armed"]
  /\ delivered' = (delivered /\ row.status = "off")
  /\ UNCHANGED <<configured, value, run, left>>

\* active false, or a firedAt by hand; a fired alert is off once its firedAt is
\* taken back alone.
SwitchOff ==
  /\ row.status \in {"armed", "fired"}
  /\ row' = [row EXCEPT !.status = "off"]
  /\ delivered' = (delivered /\ row.status = "armed")
  /\ UNCHANGED <<configured, value, run, left>>

DeleteAlert ==
  /\ row' = [row EXCEPT !.status = "gone"]
  /\ UNCHANGED <<configured, value, run, history>>

Moves(v) ==
  /\ v # value
  /\ value' = v
  /\ left' = (left \/ v \notin Fires[row.rule.version])
  /\ UNCHANGED <<row, configured, run, delivered>>

\* The lease (30 minutes) runs out, whether or not its run is still at work.
LeaseExpires ==
  /\ row.claim.by # None /\ ~ row.claim.stale
  /\ row' = [row EXCEPT !.claim = [by |-> row.claim.by, stale |-> TRUE]]
  /\ run' = [run EXCEPT ![row.claim.by] =
               IF Delivering(row.claim.by) THEN [@ EXCEPT !.lapsed = TRUE] ELSE @]
  /\ UNCHANGED <<configured, value, history>>

SnoozeElapses ==
  /\ row.recent
  /\ row' = [row EXCEPT !.recent = FALSE]
  /\ UNCHANGED <<configured, value, run, history>>

-----------------------------------------------------------------------------
RunStep(r) ==
  \/ List(r) \/ Decide(r) \/ WriteBaseline(r)
  \/ Claim(r) \/ ClaimRefused(r)
  \/ Unconfigured(r) \/ Exhausted(r) \/ Accepted(r) \/ PushesDead(r) \/ Rejected(r) \/ PushThrows(r)
  \/ Mark(r) \/ MarkRefused(r) \/ MarkErrs(r) \/ Release(r)

Next ==
  \/ \E r \in Runs : RunStep(r) \/ RunEnds(r)
  \/ \E version \in Rules : EditRule(version)
  \/ SwitchOn \/ SwitchOff \/ DeleteAlert
  \/ \E v \in Values : Moves(v)
  \/ LeaseExpires \/ SnoozeElapses

Spec == Init /\ [][Next]_vars

\* A run is started every minute and goes on unless it ends early; time passes.
\* Outages end: a run that keeps matching claims in the end, a provider that
\* keeps being called accepts, and a mark that keeps being tried succeeds.
Fairness ==
  /\ \A r \in Runs : WF_vars(RunStep(r))
  /\ SF_vars(\E r \in Runs : List(r))
  /\ SF_vars(\E r \in Runs : Decide(r))
  /\ SF_vars(\E r \in Runs : Claim(r))
  /\ SF_vars(\E r \in Runs : Accepted(r))
  /\ SF_vars(\E r \in Runs : Mark(r))
  /\ WF_vars(LeaseExpires)
  /\ WF_vars(SnoozeElapses)

\* The lease is many times longer than the calls it covers (30 minutes against
\* 30 seconds a channel): from some time on it outlives them.
Timely == <>[][LeaseExpires => ~ Delivering(row.claim.by)]_vars

FairSpec == Spec /\ Fairness /\ Timely

-----------------------------------------------------------------------------
\* Two runs are never delivering at once unless one of them has lost its claim
\* unawares (claimAlertDelivery, releaseAlertDeliveryClaim): in particular the
\* late release of a third never frees a live claim.
OneDelivery ==
  \A r, s \in Runs :
    r # s /\ Delivering(r) /\ Delivering(s) => run[r].lapsed \/ run[s].lapsed

\* An alert is retired only by a delivery made since it was last armed: a run
\* left over from before a re-arm cannot retire it unsent (markFired).
RetiredAfterDelivery == row.status = "fired" => delivered

\* An alert on a level, whose first channel is configured, is not left armed and
\* unsent for ever while it matches and is not snoozed, whatever runs crash with
\* the claim in their hands.
NoSilentAlert ==
  ~ <>[](/\ row.status = "armed" /\ ~ InSnooze
         /\ row.rule.version \notin Crossing
         /\ value \in Fires[row.rule.version]
         /\ Channels[1] \in configured)

-----------------------------------------------------------------------------
(* What the documentation says and the code does not keep (README,         *)
(* Disagreements): these are not invariants.                               *)

\* "Pick the first configured channel that can actually deliver"
ConfiguredChannelTried ==
  [][\A r \in Runs : Unconfigured(r) =>
       \A i \in run[r].next .. Len(Channels) : Channels[i] \notin configured]_vars

\* "fires iff prev < level AND curr >= level", prev being the value "from the
\* previous evaluation tick": a second fire needs a second crossing.
EachFireIsACrossing == [][\A r \in Runs : Mark(r) => left]_vars
=============================================================================
