---------------------------- MODULE MCMQTTClient ----------------------------
(***************************************************************************)
(* Instances of MQTTClient for TLC: who calls what.                        *)
(***************************************************************************)
EXTENDS MQTTClient

\* ClientPublish and ValidateWLANConnectivity on the App task, DeInit on the
\* timer service task; both use the channel of subscribing.
BothTasks == [app   |-> {"connect", "subscribe", "publish"},
              timer |-> {"unsubscribe"}]
=============================================================================
