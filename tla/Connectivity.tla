---------------------------- MODULE Connectivity ----------------------------
(***************************************************************************)
(* How the App task gets and keeps its connection, in both modes of the    *)
(* agent: MQTTOperation_Init, _ValidateWLANConnectivity, _SubscribeTopics  *)
(* and their counterparts of source/MQTTRegistration.c.  WLAN, SNTP and    *)
(* broker answer as they like; a call that failed may still take effect.   *)
(* Left out: the start and stop commands, which also write                 *)
(* assetUpdateProcess (see OperationCommands).                             *)
(***************************************************************************)
EXTENDS Naturals

CONSTANTS
  MaxAttempts,     \* the two literals 10 that connectAttemps is compared with
  IsSecure         \* MqttSetupInfo.IsSecure

ASSUME ConstantsAssumption == /\ MaxAttempts \in Nat \ {0}
                              /\ IsSecure \in BOOLEAN

Modes == {"operation", "registration"}
OperationTopics == {"command", "restart", "error"}
Topics(m) == IF m = "operation" THEN OperationTopics ELSE {"credential"}
FirstTopic(m) == IF m = "operation" THEN "command" ELSE "credential"

Starting == {"sync", "connect"}
Validating == {"validate", "sntp", "rejoin", "enable", "broker", "reconnect",
               "verdict"}
Places == Starting \cup Validating
            \cup {"subscribe", "publish", "reset", "suspended"}

VARIABLES
  mode,             \* which Init the App task was created with
  wlan,             \* an address is acquired
  connected,        \* Mqtt_isConnected
  topics,           \* what the broker sends to this session
  connectAttemps,
  sntpOn, isSntpDisabled,
  pc,
  next, caller,     \* the topic to subscribe, and who subscribes
  inner,            \* Validate runs after the first subscription failed
  retcodeOk,        \* Validate returned RETCODE_OK
  completed,        \* assetUpdateProcess = APP_ASSET_COMPLETED
  \* history
  excused           \* a call failed since the last subscription began

session == << connected, topics >>
clock == << sntpOn, isSntpDisabled >>
subscription == << next, caller >>
vars == << mode, wlan, session, connectAttemps, clock, pc, subscription, inner,
           retcodeOk, completed, excused >>

TypeOK ==
  /\ mode \in Modes
  /\ wlan \in BOOLEAN /\ connected \in BOOLEAN
  /\ topics \subseteq Topics(mode)
  /\ connectAttemps \in 0..MaxAttempts + 1
  /\ sntpOn \in BOOLEAN /\ isSntpDisabled \in BOOLEAN
  /\ pc \in Places
  /\ next \in Topics(mode)
  /\ caller \in {"init", "validate", "publish"}
  /\ inner \in BOOLEAN /\ retcodeOk \in BOOLEAN
  /\ completed \in BOOLEAN /\ excused \in BOOLEAN

Init ==
  /\ mode \in Modes
  /\ wlan = TRUE
  /\ connected = FALSE /\ topics = {}
  /\ connectAttemps = 0
  /\ sntpOn = IsSecure /\ isSntpDisabled = FALSE
  /\ pc = IF IsSecure THEN "sync" ELSE "connect"
  /\ next = FirstTopic(mode) /\ caller = "init"
  /\ inner = FALSE
  /\ retcodeOk = TRUE
  /\ completed = FALSE
  /\ excused = FALSE

-----------------------------------------------------------------------------
\* What calls do to the session.

Go(from, to) == pc = from /\ pc' = to

\* MQTT_ConnectToBroker_Z.  CleanSession is set, so a session starts without
\* topics; after a timeout the session may come about all the same.
Connect(ok) ==
  /\ ok => wlan
  /\ connected' \in {ok, wlan}
  /\ topics' = {}
  /\ excused' = ~ok

\* MQTT_SubsribeToTopic_Z; here too a late answer may follow a timeout.
SubscribeTo(topic, ok) ==
  /\ ok => connected
  /\ \/ connected /\ topics' = topics \cup {topic}
     \/ ~ok /\ UNCHANGED topics
  /\ excused' = (excused \/ ~ok)
  /\ UNCHANGED connected

\* SubscribeTopics, or the one subscription of MQTTRegistration.
BeginSubscription(from, by) ==
  /\ Go(from, "subscribe")
  /\ next' = FirstTopic(mode)
  /\ caller' = by

-----------------------------------------------------------------------------
\* MQTTOperation_Init and MQTTRegistration_Init.

\* The end of either when something failed.
GiveUp(from) == Go(from, IF mode = "operation" THEN "reset" ELSE "suspended")

\* A missing time is replaced by a fixed one: that is a success, too.
SyncTime ==
  /\ \/ Go("sync", "connect") /\ UNCHANGED excused
     \/ GiveUp("sync") /\ excused' = TRUE
  /\ UNCHANGED << mode, wlan, session, connectAttemps, clock, subscription,
                  inner, retcodeOk, completed >>

FirstConnect ==
  /\ Connect(TRUE)
  /\ connectAttemps' = 0
  /\ \/ /\ mode = "operation"
        /\ Go("connect", "validate")
        /\ UNCHANGED subscription
     \/ /\ mode = "registration"
        /\ BeginSubscription("connect", "init")
  /\ UNCHANGED << mode, wlan, clock, inner, retcodeOk, completed >>

FirstConnectFails ==
  /\ Connect(FALSE)
  /\ \/ /\ connectAttemps + 1 < MaxAttempts
        /\ Go("connect", "connect")
        /\ connectAttemps' = connectAttemps + 1
     \/ /\ connectAttemps + 1 >= MaxAttempts
        /\ GiveUp("connect")
        /\ connectAttemps' = 0
  /\ UNCHANGED << mode, wlan, clock, subscription, inner, retcodeOk, completed >>

-----------------------------------------------------------------------------
\* ValidateWLANConnectivity.

CheckWlan ==
  /\ \/ wlan /\ Go("validate", "broker")
     \/ ~wlan /\ IsSecure /\ Go("validate", "sntp")
     \/ ~wlan /\ ~IsSecure /\ Go("validate", "rejoin")
  /\ UNCHANGED << mode, wlan, session, connectAttemps, clock, subscription,
                  inner, retcodeOk, completed, excused >>

\* SNTP is disabled once; if that fails WLAN_Reconnect is not called.
DisableSntp ==
  /\ \/ /\ isSntpDisabled
        /\ Go("sntp", "rejoin")
        /\ UNCHANGED clock
     \/ /\ ~isSntpDisabled
        /\ Go("sntp", "rejoin")
        /\ sntpOn' = FALSE /\ isSntpDisabled' = TRUE
     \/ /\ ~isSntpDisabled
        /\ Go("sntp", "enable")
        /\ UNCHANGED clock
  /\ UNCHANGED << mode, wlan, session, connectAttemps, subscription, inner,
                  retcodeOk, completed, excused >>

\* WLAN_Reconnect.  It may also fail because the network is still there.
Rejoin ==
  /\ \/ wlan' = TRUE /\ Go("rejoin", IF IsSecure THEN "enable" ELSE "broker")
     \/ wlan' \in BOOLEAN /\ Go("rejoin", "broker")
  /\ UNCHANGED << mode, session, connectAttemps, clock, subscription, inner,
                  retcodeOk, completed, excused >>

\* The result of SNTP_Enable is overwritten.
EnableSntp ==
  /\ Go("enable", "broker")
  /\ sntpOn' \in {sntpOn, TRUE}
  /\ UNCHANGED << mode, wlan, session, connectAttemps, isSntpDisabled,
                  subscription, inner, retcodeOk, completed, excused >>

\* Mutant: failures are not counted.
CheckBrokerUncounted ==
  /\ \/ connected /\ Go("broker", "verdict") /\ retcodeOk' = TRUE
     \/ ~connected /\ Go("broker", "reconnect") /\ UNCHANGED retcodeOk
  /\ UNCHANGED << mode, wlan, session, connectAttemps, clock, subscription,
                  inner, completed, excused >>

CheckBroker ==
  /\ \/ /\ connected
        /\ Go("broker", "verdict")
        /\ retcodeOk' = TRUE
        /\ UNCHANGED connectAttemps
     \/ /\ ~connected
        /\ Go("broker", "reconnect")
        /\ connectAttemps' = connectAttemps + 1
        /\ UNCHANGED retcodeOk
  /\ UNCHANGED << mode, wlan, session, clock, subscription, inner, completed,
                  excused >>

\* Mutant: a new session is used without subscribing.
ReconnectOnly ==
  /\ Connect(TRUE)
  /\ Go("reconnect", "verdict")
  /\ connectAttemps' = 0
  /\ retcodeOk' = TRUE
  /\ UNCHANGED << mode, wlan, clock, subscription, inner, completed >>

Reconnect ==
  /\ Connect(TRUE)
  /\ BeginSubscription("reconnect", "validate")
  /\ UNCHANGED << mode, wlan, connectAttemps, clock, inner, retcodeOk, completed >>

ReconnectFails ==
  /\ Connect(FALSE)
  /\ Go("reconnect", "verdict")
  /\ retcodeOk' = FALSE
  /\ UNCHANGED << mode, wlan, connectAttemps, clock, subscription, inner,
                  completed >>

\* Mutant: the counter is never looked at.
VerdictNeverResets ==
  /\ Go("verdict", IF inner THEN "validate" ELSE "publish")
  /\ inner' = FALSE
  /\ UNCHANGED << mode, wlan, session, connectAttemps, clock, subscription,
                  retcodeOk, completed, excused >>

\* The App task resets the device, returns to the publishing loop, or (line
\* 511) to the end of that loop.
Verdict ==
  /\ \/ /\ connectAttemps > MaxAttempts
        /\ Go("verdict", "reset")
        /\ UNCHANGED inner
     \/ /\ connectAttemps <= MaxAttempts
        /\ Go("verdict", IF inner THEN "validate" ELSE "publish")
        /\ inner' = FALSE
  /\ UNCHANGED << mode, wlan, session, connectAttemps, clock, subscription,
                  retcodeOk, completed, excused >>

-----------------------------------------------------------------------------
\* SubscribeTopics.

\* The result of the restart topic is overwritten by that of the error topic.
SubscribeMore ==
  /\ Go("subscribe", "subscribe")
  /\ \/ /\ next = "command"
        /\ SubscribeTo(next, TRUE)
        /\ next' = "restart"
     \/ /\ next = "restart"
        /\ \E ok \in BOOLEAN : SubscribeTo(next, ok)
        /\ next' = "error"
  /\ UNCHANGED << mode, wlan, connectAttemps, clock, caller, inner, retcodeOk,
                  completed >>

\* Mutant: success does not reset the counter.
SubscribedUncounted ==
  /\ next \in {"error", "credential"}
  /\ SubscribeTo(next, TRUE)
  /\ \/ caller = "init" /\ Go("subscribe", "validate") /\ UNCHANGED completed
     \/ caller = "validate" /\ Go("subscribe", "verdict") /\ UNCHANGED completed
     \/ caller = "publish" /\ Go("subscribe", "validate") /\ completed' = TRUE
  /\ retcodeOk' = TRUE
  /\ UNCHANGED << mode, wlan, connectAttemps, clock, subscription, inner >>

\* The last topic was subscribed.
Subscribed ==
  /\ next \in {"error", "credential"}
  /\ SubscribeTo(next, TRUE)
  /\ \/ /\ caller = "init"
        /\ Go("subscribe", "validate")
        /\ UNCHANGED << connectAttemps, retcodeOk, completed >>
     \/ /\ caller = "validate"
        /\ Go("subscribe", "verdict")
        /\ connectAttemps' = 0
        /\ retcodeOk' = TRUE
        /\ UNCHANGED completed
     \/ /\ caller = "publish"
        /\ Go("subscribe", "validate")
        /\ completed' = TRUE
        /\ UNCHANGED << connectAttemps, retcodeOk >>
  /\ UNCHANGED << mode, wlan, clock, subscription, inner >>

SubscribeFails ==
  /\ next # "restart"
  /\ SubscribeTo(next, FALSE)
  /\ \/ /\ caller = "init"
        /\ GiveUp("subscribe")
        /\ UNCHANGED << inner, retcodeOk >>
     \/ /\ caller = "validate"
        /\ Go("subscribe", "verdict")
        /\ retcodeOk' = FALSE
        /\ UNCHANGED inner
     \/ /\ caller = "publish"
        /\ Go("subscribe", "validate")
        /\ inner' = TRUE
        /\ UNCHANGED retcodeOk
  /\ UNCHANGED << mode, wlan, connectAttemps, clock, subscription, completed >>

-----------------------------------------------------------------------------
\* The loop of ClientPublish.  What is published does not matter here, only
\* that the first subscription follows a publication that succeeded.

FirstSubscription ==
  /\ mode = "operation" /\ ~completed
  /\ retcodeOk /\ connected
  /\ BeginSubscription("publish", "publish")
  /\ excused' = FALSE
  /\ UNCHANGED << mode, wlan, session, connectAttemps, clock, inner, retcodeOk,
                  completed >>

Publish ==
  /\ Go("publish", "validate")
  /\ UNCHANGED << mode, wlan, session, connectAttemps, clock, subscription,
                  inner, retcodeOk, completed, excused >>

-----------------------------------------------------------------------------
\* The world.

LoseWlan ==
  /\ wlan /\ wlan' = FALSE
  /\ UNCHANGED << mode, session, connectAttemps, clock, pc, subscription,
                  inner, retcodeOk, completed, excused >>

LoseBroker ==
  /\ connected /\ connected' = FALSE
  /\ topics' = {}
  /\ UNCHANGED << mode, wlan, connectAttemps, clock, pc, subscription, inner,
                  retcodeOk, completed, excused >>

\* Memory starts afresh, and startup acquires an address before the App task.
Boot ==
  /\ mode' = mode
  /\ wlan' = TRUE
  /\ connected' = FALSE /\ topics' = {}
  /\ connectAttemps' = 0
  /\ sntpOn' = IsSecure /\ isSntpDisabled' = FALSE
  /\ pc' = IF IsSecure THEN "sync" ELSE "connect"
  /\ next' = FirstTopic(mode) /\ caller' = "init"
  /\ inner' = FALSE
  /\ retcodeOk' = TRUE
  /\ completed' = FALSE
  /\ excused' = FALSE

\* BSP_Board_SoftReset.
SoftReset == pc = "reset" /\ Boot

\* Somebody switches the device off and on.
PowerCycle == pc # "reset" /\ Boot

AppTask ==
  \/ SyncTime \/ FirstConnect \/ FirstConnectFails
  \/ CheckWlan \/ DisableSntp \/ Rejoin \/ EnableSntp
  \/ CheckBroker \/ Reconnect \/ ReconnectFails \/ Verdict
  \/ SubscribeMore \/ Subscribed \/ SubscribeFails
  \/ FirstSubscription \/ Publish
  \/ SoftReset

Next == AppTask \/ LoseWlan \/ LoseBroker \/ PowerCycle

Spec == Init /\ [][Next]_vars

\* Each call of the App task returns, after its timeout at the latest.
FairSpec == Spec /\ WF_vars(AppTask)

-----------------------------------------------------------------------------
\* The topics are due: at once in registration mode, after the first
\* subscription in operation mode.
TopicsDue == mode = "registration" \/ completed

\* Unless a call failed, a device that publishes over an open session has all
\* its topics, however often WLAN or broker were lost and regained
\* (MQTTOperation.c:639-690, MQTTRegistration.c:310-362).
NoTopicForgotten ==
  pc = "publish" /\ connected /\ TopicsDue /\ ~excused => topics = Topics(mode)

\* The device never resets itself when its last attempt to connect and to
\* subscribe succeeded, whatever failed before (MQTTOperation.c:686-698,
\* 1107-1134).
HealthyNeverResets == pc = "reset" => excused

\* A device in operation mode does not stay offline: again and again it is
\* connected or starts afresh (MQTTOperation.c:674, 693-699, 1109-1134).
NeverStuckOffline ==
  mode = "operation" => []<>(connected \/ pc \in Starting)

\* A connected device whose topics are due gets them again, after whatever
\* failure (README.md:123, "The XDK can receive operations and messages").
TopicsComeBack ==
  (pc = "publish" /\ connected /\ TopicsDue)
     ~> (topics = Topics(mode) \/ ~connected \/ pc = "reset")
=============================================================================
