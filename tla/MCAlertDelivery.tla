-------------------------- MODULE MCAlertDelivery --------------------------
(* Overlapping cron runs over an alert with one or two channels, whose rule *)
(* is a level or a crossing and fires on the high side.                    *)
EXTENDS AlertDelivery

MCFires == [v \in Rules |-> {"high"}]
TwoChannels == <<"telegram", "web-push">>
OneChannel == <<"email">>
=============================================================================
