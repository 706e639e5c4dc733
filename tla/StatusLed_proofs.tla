-------------------------- MODULE StatusLed_proofs --------------------------
(***************************************************************************)
(* Theorems about StatusLed, for any number of attempts, secure or not.    *)
(***************************************************************************)
EXTENDS StatusLed, TLAPS

\* Where the App task is before it has subscribed for the first time.
Early == pc \in Starting \/ (pc = "subscribe" /\ caller = "init")

\* What the statuses of the registration depend on: credentials come when it
\* has begun, and once they have it does not begin again.
Registering ==
  /\ pc \in Starting => topics = {}
  /\ registered => mode = "registration" /\ ~starting /\ ~Early
  /\ starting => mode = "registration" /\ ~Early
  /\ mode = "registration" => app_status # "REBOOT"
  /\ pc = "subscribe" /\ caller = "init" => mode = "registration"

Inv == LedTypeOK /\ Registering /\ RegisteredStays

\* The part of a step of the App task that concerns the registration: it does
\* not come back to its beginning.
Ahead ==
  /\ mode' = mode
  /\ Early' => Early
  /\ pc' \in Starting => pc \in Starting /\ topics' = {}
  /\ pc' = "subscribe" /\ caller' = "init" => mode = "registration"

-----------------------------------------------------------------------------
LEMMA FirstSteps ==
  ASSUME Registering, SyncTime \/ FirstConnect \/ FirstConnectFails
  PROVE  Ahead
<1>1. ASSUME SyncTime PROVE Ahead
    BY <1>1 DEF SyncTime, GiveUp, Go, Ahead, Early, Starting, session,
       subscription, Registering
<1>2. ASSUME FirstConnect PROVE Ahead
  <2>1. pc = "connect" /\ mode' = mode
      BY <1>2 DEF FirstConnect, BeginSubscription, Go
  <2>2. pc' = "validate" \/ pc' = "subscribe"
      BY <1>2 DEF FirstConnect, BeginSubscription, Go
  <2>3. pc' = "subscribe" => mode = "registration"
      BY <1>2 DEF FirstConnect, BeginSubscription, Go
  <2> QED BY <2>1, <2>2, <2>3 DEF Ahead, Early, Starting
<1>3. ASSUME FirstConnectFails PROVE Ahead
    BY <1>3 DEF FirstConnectFails, Connect, GiveUp, Go, Ahead, Early, Starting,
       subscription, Registering
<1> QED BY <1>1, <1>2, <1>3

LEMMA ValidationSteps ==
  ASSUME Registering,
         CheckWlan \/ DisableSntp \/ Rejoin \/ EnableSntp \/ CheckBroker
           \/ Reconnect \/ ReconnectFails
  PROVE  Ahead
<1>1. ASSUME CheckWlan PROVE Ahead
    BY <1>1 DEF CheckWlan, Go, Ahead, Early, Starting, session, subscription,
       Registering
<1>2. ASSUME DisableSntp \/ Rejoin \/ EnableSntp PROVE Ahead
    BY <1>2 DEF DisableSntp, Rejoin, EnableSntp, Go, Ahead, Early, Starting,
       session, subscription, Registering
<1>3. ASSUME CheckBroker PROVE Ahead
    BY <1>3 DEF CheckBroker, Go, Ahead, Early, Starting, session, subscription,
       Registering
<1>4. ASSUME Reconnect \/ ReconnectFails PROVE Ahead
    BY <1>4 DEF Reconnect, ReconnectFails, BeginSubscription, Go, Ahead, Early,
       Starting, subscription, Registering
<1> QED BY <1>1, <1>2, <1>3, <1>4

LEMMA SubscriptionSteps ==
  ASSUME Registering,
         Verdict \/ SubscribeMore \/ Subscribed \/ SubscribeFails
           \/ FirstSubscription \/ Publish
  PROVE  Ahead
<1>1. ASSUME Verdict PROVE Ahead
    BY <1>1 DEF Verdict, Go, Ahead, Early, Starting, session, subscription,
       Registering
<1>2. ASSUME SubscribeMore PROVE Ahead
    BY <1>2 DEF SubscribeMore, Go, Ahead, Early, Starting, Registering
<1>3. ASSUME Subscribed PROVE Ahead
    BY <1>3 DEF Subscribed, Go, Ahead, Early, Starting, subscription,
       Registering
<1>4. ASSUME SubscribeFails PROVE Ahead
    BY <1>4 DEF SubscribeFails, GiveUp, Go, Ahead, Early, Starting, subscription,
       Registering
<1>5. ASSUME FirstSubscription PROVE Ahead
    BY <1>5 DEF FirstSubscription, BeginSubscription, Go, Ahead, Early, Starting
<1>6. ASSUME Publish PROVE Ahead
    BY <1>6 DEF Publish, Go, Ahead, Early, Starting, session, subscription,
       Registering
<1> QED BY <1>1, <1>2, <1>3, <1>4, <1>5, <1>6

\* Connections are lost without the App task noticing.
LEMMA LossSteps ==
  ASSUME Registering, LoseWlan \/ LoseBroker
  PROVE  Ahead
BY DEF LoseWlan, LoseBroker, Ahead, Early, Starting, session, subscription,
   Registering

\* A step ahead that leaves the statuses alone keeps what registration needs.
LEMMA AheadInv ==
  ASSUME Inv, Ahead, UNCHANGED << app_status, registered, disturbed >>,
         starting' = starting
  PROVE  Registering' /\ RegisteredStays'
<1>1. Registering'
    BY DEF Inv, Ahead, Registering, Early
<1>2. RegisteredStays'
    BY DEF Inv, RegisteredStays
<1> QED BY <1>1, <1>2

-----------------------------------------------------------------------------
\* The steps of StatusLed.

LEMMA GoOnInv == Inv /\ GoOn => Registering' /\ RegisteredStays'
<1> SUFFICES ASSUME Inv, GoOn PROVE Registering' /\ RegisteredStays'
    OBVIOUS
<1>1. Ahead
    BY FirstSteps, ValidationSteps, SubscriptionSteps
       DEF GoOn, AppStep, Inv
<1>2. UNCHANGED << app_status, registered, disturbed, starting >>
    BY DEF GoOn, ledVars, status, history
<1> QED BY <1>1, <1>2, AheadInv

LEMMA FindOfflineInv == Inv /\ FindOffline => Registering' /\ RegisteredStays'
<1> SUFFICES ASSUME Inv, FindOffline PROVE Registering' /\ RegisteredStays'
    OBVIOUS
<1>1. Ahead
    BY ValidationSteps DEF FindOffline, AppStep, Inv
<1>2. /\ UNCHANGED << registered, starting >>
      /\ disturbed' = (disturbed \/ registered)
      /\ app_status' = IF app_status = "REBOOT" THEN "REBOOT" ELSE "ERROR"
    BY DEF FindOffline, SetAppStatus
<1>3. Registering'
    BY <1>1, <1>2 DEF Inv, Ahead, Registering, Early
<1>4. RegisteredStays'
    BY <1>2 DEF RegisteredStays
<1> QED BY <1>3, <1>4

\* In registration mode the task is suspended instead.
LEMMA StartupFailsInv == Inv /\ StartupFails => Registering' /\ RegisteredStays'
<1> SUFFICES ASSUME Inv, StartupFails PROVE Registering' /\ RegisteredStays'
    OBVIOUS
<1>1. Ahead
    BY FirstSteps DEF StartupFails, AppStep, Inv
<1>2. mode = "operation"
  <2>1. ASSUME SyncTime, pc' = "reset" PROVE mode = "operation"
      BY <2>1 DEF SyncTime, GiveUp, Go
  <2>2. ASSUME FirstConnectFails, pc' = "reset" PROVE mode = "operation"
      BY <2>2 DEF FirstConnectFails, GiveUp, Go
  <2> QED BY <2>1, <2>2 DEF StartupFails, AppStep
<1>3. UNCHANGED << registered, starting >>
    BY DEF StartupFails, history
<1>4. ~registered /\ ~starting
    BY <1>2 DEF Inv, Registering
<1> QED BY <1>1, <1>2, <1>3, <1>4 DEF Ahead, Registering, RegisteredStays, Early,
           Starting, Inv

LEMMA SubscribedInv ==
  Inv /\ RegistrationSubscribed => Registering' /\ RegisteredStays'
<1> SUFFICES ASSUME Inv, RegistrationSubscribed
             PROVE  Registering' /\ RegisteredStays'
    OBVIOUS
<1>1. Ahead
    BY SubscriptionSteps DEF RegistrationSubscribed, AppStep, Inv
<1>2. ~registered /\ pc' = "validate" /\ mode = "registration"
    BY DEF RegistrationSubscribed, AppStep, Subscribed, Go, Inv, Registering,
       Early
<1>3. UNCHANGED << app_status, registered, disturbed >>
    BY DEF RegistrationSubscribed, status, history
<1> QED BY <1>1, <1>2, <1>3 DEF Ahead, Registering, RegisteredStays, Early,
           Starting, Inv

\* The statuses of operation mode, or none that tells of registration.
LEMMA StatusSteps ==
  Inv /\ (StartTimer \/ Operate \/ ReceiveCommand \/ Led)
    => Registering' /\ RegisteredStays'
<1> SUFFICES ASSUME Inv,
                    StartTimer \/ Operate \/ ReceiveCommand \/ Led
             PROVE  Registering' /\ RegisteredStays'
    OBVIOUS
<1>1. CASE StartTimer
  <2>1. /\ starting' = FALSE /\ UNCHANGED << vars, registered, disturbed >>
        /\ app_status' = IF app_status = "REBOOT" THEN "REBOOT" ELSE "REGISTERING"
      BY <1>1 DEF StartTimer, SetAppStatus, history
  <2>2. starting /\ ~registered
      BY <1>1 DEF StartTimer, Inv, Registering
  <2> QED BY <2>1, <2>2 DEF Inv, Registering, RegisteredStays, Early, vars,
             session, subscription
<1>2. CASE Operate
  <2>1. mode = "operation" /\ Publish /\ UNCHANGED << registered, disturbed, starting >>
      BY <1>2 DEF Operate, AppStep, history
  <2>2. Ahead
      BY <2>1, SubscriptionSteps DEF Inv
  <2> QED BY <2>1, <2>2 DEF Inv, Registering, RegisteredStays, Early, Ahead
<1>3. CASE ReceiveCommand
    BY <1>3 DEF ReceiveCommand, SetCmdStatus, Inv, Registering, RegisteredStays,
       Early, vars, session, subscription, history
<1>4. CASE Led
    BY <1>4 DEF Led, Blink, Confirm, Inv, Registering, RegisteredStays,
       Early, vars, session, subscription, history, status
<1> QED BY <1>1, <1>2, <1>3, <1>4

LEMMA CredentialsInv ==
  Inv /\ ReceiveCredentials => Registering' /\ RegisteredStays'
<1> SUFFICES ASSUME Inv, ReceiveCredentials
             PROVE  Registering' /\ RegisteredStays'
    OBVIOUS
<1>1. UNCHANGED << mode, pc, caller, topics, starting >>
    BY DEF ReceiveCredentials, vars, session, subscription
<1>2. mode = "registration" /\ topics # {} /\ app_status' = "REGISTERED"
    BY DEF ReceiveCredentials, SetAppStatus, Inv, Registering
<1>3. registered' => registered \/ ~(starting \/ pc = "subscribe")
    BY DEF ReceiveCredentials
<1> QED BY <1>1, <1>2, <1>3 DEF Inv, Registering, RegisteredStays, Early

LEMMA BootInv ==
  Inv /\ (Reboot \/ SwitchOff) => Registering' /\ RegisteredStays'
<1> SUFFICES ASSUME Inv, Boot, LedBoot PROVE Registering' /\ RegisteredStays'
    BY DEF Reboot, SwitchOff, AppStep, SoftReset, PowerCycle
<1>1. pc' \in Starting /\ topics' = {}
    BY ConstantsAssumption DEF Boot, Starting
<1> QED BY <1>1 DEF Boot, LedBoot, Registering, RegisteredStays, Starting

LEMMA LoseInv == Inv /\ Lose => Registering' /\ RegisteredStays'
<1> SUFFICES ASSUME Inv, Lose PROVE Registering' /\ RegisteredStays'
    OBVIOUS
<1>1. Ahead
    BY LossSteps DEF Lose, Inv
<1>2. UNCHANGED << app_status, registered, disturbed, starting >>
    BY DEF Lose, ledVars, status, history
<1> QED BY <1>1, <1>2, AheadInv

-----------------------------------------------------------------------------
\* Types.

\* What is switched are lights.
LEMMA SwitchLights ==
  ASSUME NEW new \in Statuses
  PROVE  /\ Switch(new).off \subseteq {"red", "orange", "yellow"}
         /\ Switch(new).on \subseteq {"red", "orange", "yellow"}
         /\ Switch(new).toggle \subseteq {"red", "orange", "yellow"}
BY DEF Statuses, Switch, Command

LEMMA StatusTypes ==
  ASSUME LedTypeOK, NEW new \in Statuses, SetAppStatus(new)
  PROVE  app_status' \in Statuses /\ cmd_status' \in CmdStatuses
<1>1. app_status' \in Statuses
    BY DEF LedTypeOK, SetAppStatus, Statuses
<1>2. cmd_status' \in CmdStatuses
    BY DEF LedTypeOK, SetAppStatus
<1> QED BY <1>1, <1>2

LEMMA BlinkTypes == LedTypeOK /\ Blink => LedTypeOK'
<1> SUFFICES ASSUME LedTypeOK, Blink PROVE LedTypeOK'
    OBVIOUS
<1>1. lights' \subseteq {"red", "orange", "yellow"}
  <2>1. app_status \in Statuses /\ lights \subseteq {"red", "orange", "yellow"}
      BY DEF LedTypeOK
  <2> QED BY <2>1, SwitchLights DEF Blink, Toggled
<1>2. cmdRead' \in {"none", "COMMAND_RECEIVED", "COMMAND_CONFIRMED"}
    BY DEF LedTypeOK, Blink, CmdStatuses
<1>3. UNCHANGED << app_status, cmd_status, starting, registered, disturbed >>
    BY DEF Blink, status, history
<1> QED BY <1>1, <1>2, <1>3 DEF LedTypeOK

LEMMA LedTypes == LedTypeOK /\ LedNext => LedTypeOK'
<1> SUFFICES ASSUME LedTypeOK, LedNext PROVE LedTypeOK'
    OBVIOUS
<1>1. CASE GoOn \/ Lose
    BY <1>1 DEF GoOn, Lose, ledVars, status, history, timer, LedTypeOK
<1>2. CASE FindOffline
  <2>1. "ERROR" \in Statuses
      BY DEF Statuses
  <2>2. SetAppStatus("ERROR") /\ UNCHANGED << starting, cmdRead, lights, registered >>
      BY <1>2 DEF FindOffline, timer
  <2>3. disturbed' \in BOOLEAN
      BY <1>2 DEF FindOffline
  <2> QED BY <2>1, <2>2, <2>3, StatusTypes DEF LedTypeOK
<1>3. CASE StartupFails
  <2>1. "ERROR" \in Statuses
      BY DEF Statuses
  <2>2. SetAppStatus("ERROR") /\ UNCHANGED << starting, timer, history >>
      BY <1>3 DEF StartupFails
  <2> QED BY <2>1, <2>2, StatusTypes DEF LedTypeOK, timer, history
<1>4. CASE RegistrationSubscribed
    BY <1>4 DEF RegistrationSubscribed, LedTypeOK, status, timer, history
<1>5. CASE StartTimer
  <2>1. "REGISTERING" \in Statuses
      BY DEF Statuses
  <2>2. /\ SetAppStatus("REGISTERING") /\ starting' = FALSE
        /\ UNCHANGED << timer, history >>
      BY <1>5 DEF StartTimer
  <2> QED BY <2>1, <2>2, StatusTypes DEF LedTypeOK, timer, history
<1>6. CASE Operate
  <2>1. PICK new \in Statuses : SetAppStatus(new)
      BY <1>6 DEF Operate, Statuses
  <2>2. UNCHANGED << starting, timer, history >>
      BY <1>6 DEF Operate
  <2> QED BY <2>1, <2>2, StatusTypes DEF LedTypeOK, timer, history
<1>7. CASE Reboot \/ SwitchOff
    BY <1>7 DEF Reboot, SwitchOff, LedBoot, LedTypeOK, Statuses, CmdStatuses
<1>8. CASE Blink
    BY <1>8, BlinkTypes
<1>9. CASE Confirm
    BY <1>9 DEF Confirm, LedTypeOK, CmdStatuses, history
<1>10. CASE ReceiveCommand
    BY <1>10 DEF ReceiveCommand, SetCmdStatus, LedTypeOK, CmdStatuses, timer,
       history
<1>11. CASE ReceiveCredentials
  <2>1. "REGISTERED" \in Statuses
      BY DEF Statuses
  <2>2. /\ SetAppStatus("REGISTERED") /\ disturbed' = FALSE
        /\ UNCHANGED << starting, timer >>
      BY <1>11 DEF ReceiveCredentials
  <2>3. registered' \in BOOLEAN
      BY <1>11 DEF ReceiveCredentials
  <2> QED BY <2>1, <2>2, <2>3, StatusTypes DEF LedTypeOK, timer
<1> QED BY <1>1, <1>2, <1>3, <1>4, <1>5, <1>6, <1>7, <1>8, <1>9, <1>10, <1>11
        DEF LedNext, App, Led

-----------------------------------------------------------------------------
LEMMA LedInitial == LedInit => Inv
BY ConstantsAssumption DEF LedInit, Init, Inv, LedTypeOK, Statuses, CmdStatuses,
   Registering, RegisteredStays, Starting

LEMMA LedStep == Inv /\ [LedNext]_allVars => Inv'
<1> SUFFICES ASSUME Inv, [LedNext]_allVars PROVE Inv'
    OBVIOUS
<1>1. CASE LedNext
  <2>1. LedTypeOK'
      BY <1>1, LedTypes DEF Inv
  <2>2. Registering' /\ RegisteredStays'
      BY <1>1, GoOnInv, FindOfflineInv, StartupFailsInv, SubscribedInv,
         StatusSteps, CredentialsInv, BootInv, LoseInv DEF LedNext, App
  <2> QED BY <2>1, <2>2 DEF Inv
<1>2. CASE UNCHANGED allVars
    BY <1>2 DEF allVars, vars, ledVars, session, subscription, status, timer,
       history, Inv, LedTypeOK, Registering, RegisteredStays, Early
<1> QED BY <1>1, <1>2

LEMMA LedInvariant == LedSpec => []Inv
BY LedInitial, LedStep, PTL DEF LedSpec

\* Statuses and lights keep their types (AppController.c:303-357).
THEOREM LedTypeCorrect == LedSpec => []LedTypeOK
<1>1. Inv => LedTypeOK
    BY DEF Inv
<1> QED BY <1>1, LedInvariant, PTL

\* Once the credentials have come in time the device shows that it is
\* registered, until a connection is missed or it restarts
\* (MQTTRegistration.c:107, 229).
THEOREM RegistrationIsShown == LedSpec => []RegisteredStays
<1>1. Inv => RegisteredStays
    BY DEF Inv
<1> QED BY <1>1, LedInvariant, PTL

-----------------------------------------------------------------------------
\* The counter passes its limit in a validation that has told so, and only from
\* there, or from a startup that has told so, a reset is reached.
Told ==
  /\ connectAttemps \in Nat
  /\ connectAttemps > MaxAttempts =>
       /\ app_status \in {"ERROR", "REBOOT", "REGISTERED"}
       /\ pc \in {"reconnect", "subscribe", "verdict", "reset"}
       /\ pc = "subscribe" => caller = "validate"
  /\ pc = "reset" => app_status \in {"ERROR", "REBOOT", "REGISTERED"}
  /\ pc = "connect" => connectAttemps < MaxAttempts
  /\ pc = "sync" => connectAttemps = 0
  /\ starting => pc = "validate"

LEMMA ToldGoOn == Inv /\ Told /\ GoOn => Told'
<1> SUFFICES ASSUME Inv, Told, GoOn PROVE Told'
    OBVIOUS
<1>1. UNCHANGED << app_status, starting >> /\ ~starting
    BY DEF GoOn, ledVars, status, AppStep
<1> USE ConstantsAssumption DEF Told, Go
<1>2. CASE (SyncTime \/ FirstConnectFails \/ FirstConnect) /\ pc' # "reset"
  <2>1. CASE SyncTime
    <3>1. pc = "sync" /\ pc' \in {"connect", "suspended"} /\ connectAttemps' = connectAttemps
        BY <1>2, <2>1 DEF SyncTime, GiveUp
    <3> QED BY <1>1, <3>1
  <2>2. CASE FirstConnectFails
    <3>1. \/ /\ pc' = "connect" /\ connectAttemps' = connectAttemps + 1
             /\ connectAttemps + 1 < MaxAttempts
          \/ pc' = "suspended" /\ connectAttemps' = 0
        BY <1>2, <2>2 DEF FirstConnectFails, GiveUp
    <3> QED BY <1>1, <3>1
  <2>3. CASE FirstConnect
    <3>1. pc' \in {"validate", "subscribe"} /\ connectAttemps' = 0
        BY <2>3 DEF FirstConnect, BeginSubscription
    <3> QED BY <1>1, <3>1
  <2> QED BY <1>2, <2>1, <2>2, <2>3
<1>3. CASE CheckWlan \/ DisableSntp \/ Rejoin \/ EnableSntp
    BY <1>1, <1>3 DEF CheckWlan, DisableSntp, Rejoin, EnableSntp, subscription
<1>4. CASE connected /\ CheckBroker
    BY <1>1, <1>4 DEF CheckBroker, subscription
<1>5. CASE Reconnect \/ ReconnectFails \/ Verdict
  <2>1. CASE Reconnect
    <3>1. /\ pc = "reconnect" /\ pc' = "subscribe" /\ caller' = "validate"
          /\ connectAttemps' = connectAttemps
        BY <2>1 DEF Reconnect, BeginSubscription
    <3> QED BY <1>1, <3>1
  <2>2. CASE ReconnectFails
    <3>1. pc = "reconnect" /\ pc' = "verdict" /\ connectAttemps' = connectAttemps
        BY <2>2 DEF ReconnectFails
    <3> QED BY <1>1, <3>1
  <2>3. CASE Verdict
    <3>1. /\ pc = "verdict" /\ connectAttemps' = connectAttemps
          /\ \/ connectAttemps > MaxAttempts /\ pc' = "reset"
             \/ connectAttemps <= MaxAttempts /\ pc' \in {"validate", "publish"}
        BY <2>3 DEF Verdict
    <3> QED BY <1>1, <3>1
  <2> QED BY <1>5, <2>1, <2>2, <2>3
<1>6. CASE SubscribeMore \/ (caller # "init" /\ Subscribed)
  <2>1. CASE SubscribeMore
    <3>1. /\ pc = "subscribe" /\ pc' = "subscribe"
          /\ UNCHANGED << caller, connectAttemps >>
        BY <2>1 DEF SubscribeMore
    <3> QED BY <1>1, <3>1
  <2>2. CASE caller # "init" /\ Subscribed
    <3>1. \/ caller = "validate" /\ pc' = "verdict" /\ connectAttemps' = 0
          \/ /\ caller = "publish" /\ pc = "subscribe" /\ pc' = "validate"
             /\ connectAttemps' = connectAttemps
        BY <2>2 DEF Subscribed
    <3> QED BY <1>1, <3>1
  <2> QED BY <1>6, <2>1, <2>2
<1>7. CASE SubscribeFails
  <2>1. pc = "subscribe" /\ caller = "init" => mode = "registration"
      BY DEF Inv, Registering
  <2> QED BY <1>1, <1>7, <2>1 DEF SubscribeFails, GiveUp, subscription
<1>8. CASE FirstSubscription \/ Publish
    BY <1>1, <1>8 DEF FirstSubscription, Publish, BeginSubscription, subscription
<1>9. FirstConnect => pc' # "reset"
    BY DEF FirstConnect, BeginSubscription
<1> QED BY <1>2, <1>3, <1>4, <1>5, <1>6, <1>7, <1>8, <1>9 DEF GoOn, AppStep

LEMMA ToldStep == Inv /\ Told /\ [LedNext]_allVars => Told'
<1> SUFFICES ASSUME Inv, Told, [LedNext]_allVars PROVE Told'
    OBVIOUS
<1> USE ConstantsAssumption DEF Told, Go
<1>1. CASE FindOffline
  <2>1. app_status' \in {"ERROR", "REBOOT"} /\ starting' = starting /\ ~starting
      BY <1>1 DEF FindOffline, SetAppStatus, AppStep
  <2>2. CASE CheckWlan
      BY <2>1, <2>2 DEF CheckWlan, subscription
  <2>3. CASE ~connected /\ CheckBroker
      BY <2>1, <2>3 DEF CheckBroker, subscription
  <2> QED BY <1>1, <2>2, <2>3 DEF FindOffline, AppStep
<1>2. CASE StartupFails
  <2>1. app_status' \in {"ERROR", "REBOOT"} /\ starting' = starting /\ ~starting
      BY <1>2 DEF StartupFails, SetAppStatus, AppStep
  <2>2. pc' = "reset"
      BY <1>2 DEF StartupFails, AppStep
  <2>3. connectAttemps' \in Nat /\ connectAttemps' <= MaxAttempts
    <3>1. ASSUME SyncTime PROVE connectAttemps' = connectAttemps /\ pc = "sync"
        BY <2>2, <3>1 DEF SyncTime, GiveUp
    <3>2. ASSUME FirstConnectFails PROVE connectAttemps' = 0
        BY <2>2, <3>2 DEF FirstConnectFails, GiveUp
    <3> QED BY <1>2, <3>1, <3>2 DEF StartupFails, AppStep
  <2> QED BY <2>1, <2>2, <2>3
<1>3. CASE RegistrationSubscribed
    BY <1>3 DEF RegistrationSubscribed, AppStep, Subscribed, status, subscription
<1>4. CASE StartTimer
    BY <1>4 DEF StartTimer, SetAppStatus, vars, subscription
<1>5. CASE Operate
    BY <1>5 DEF Operate, AppStep, Publish, SetAppStatus, subscription
<1>6. CASE ReceiveCommand \/ Led
    BY <1>6 DEF ReceiveCommand, Led, Blink, Confirm, SetCmdStatus, vars, subscription,
       status
<1>7. CASE ReceiveCredentials
    BY <1>7 DEF ReceiveCredentials, SetAppStatus, vars, subscription
<1>8. CASE Reboot \/ SwitchOff
    BY <1>8 DEF Reboot, SwitchOff, AppStep, SoftReset, PowerCycle, Boot, LedBoot
<1>9. CASE Lose
    BY <1>9 DEF Lose, LoseWlan, LoseBroker, ledVars, status, subscription
<1>10. CASE UNCHANGED allVars
    BY <1>10 DEF allVars, vars, ledVars, status, subscription
<1> QED BY <1>1, <1>2, <1>3, <1>4, <1>5, <1>6, <1>7, <1>8, <1>9, <1>10, ToldGoOn
        DEF LedNext, App

\* A device that waits to reset itself shows why (MQTTOperation.c:645-700, 1132),
\* for any number of attempts.
THEOREM ResetsAreShown == LedSpec => []ResetIsShown
<1>1. LedInit => Told
    BY ConstantsAssumption DEF LedInit, Init, Told
<1>2. Told => ResetIsShown
    BY DEF Told, ResetIsShown
<1> QED BY <1>1, <1>2, ToldStep, LedInvariant, PTL DEF LedSpec

-----------------------------------------------------------------------------
\* What the orange light depends on: it is used in operation mode only, and not
\* before the first status of that mode.
Lit ==
  /\ app_status = "STARTED" => "orange" \notin lights
  /\ mode = "registration" =>
       /\ "orange" \notin lights
       /\ app_status \in {"STARTED", "ERROR", "REGISTERING", "REGISTERED"}
  /\ app_status \in {"REGISTERING", "REGISTERED"} => mode = "registration"

\* The lights after a callback that no command meets.
Shown == Toggled((lights \ Switch(app_status).off) \cup Switch(app_status).on,
                 Switch(app_status).toggle)

LEMMA BlinkLit == LedTypeOK /\ Lit /\ Blink => Lit'
<1> SUFFICES ASSUME LedTypeOK, Lit, Blink PROVE Lit'
    OBVIOUS
<1>1. UNCHANGED << app_status, mode >>
    BY DEF Blink, vars, status
<1>2. lights' = Shown \/ lights' = Toggled(Shown, {"red"})
    BY DEF Blink, Shown
<1>3. "orange" \in lights' <=> "orange" \in Shown
    BY <1>2 DEF Toggled
<1>4. app_status \in {"STARTED", "ERROR", "REGISTERING", "REGISTERED"}
        /\ "orange" \notin lights => "orange" \notin Shown
    BY DEF Shown, Toggled, Switch, Command
<1> QED BY <1>1, <1>3, <1>4 DEF Lit

LEMMA LitStep == Inv /\ Lit /\ [LedNext]_allVars => Lit'
<1> SUFFICES ASSUME Inv, Lit, [LedNext]_allVars PROVE Lit'
    OBVIOUS
<1>1. CASE App /\ ~Reboot
  <2>1. UNCHANGED << mode, lights >>
      BY <1>1, FirstSteps, ValidationSteps, SubscriptionSteps
         DEF App, GoOn, FindOffline, StartupFails, RegistrationSubscribed, StartTimer,
             Operate, AppStep, ledVars, timer, vars, Inv, Ahead
  <2>2. \/ app_status' = app_status
        \/ app_status' = "ERROR"
        \/ app_status' = "REGISTERING" /\ mode = "registration"
        \/ app_status' \in {"OPERATING_STARTED", "OPERATING_STOPPED", "REBOOT"}
           /\ mode = "operation"
      BY <1>1 DEF App, GoOn, FindOffline, StartupFails, RegistrationSubscribed,
         StartTimer, Operate, SetAppStatus, ledVars, status, Inv, Registering
  <2> QED BY <2>1, <2>2 DEF Lit
<1>2. CASE Blink
    BY <1>2, BlinkLit DEF Inv
<1>3. CASE Confirm \/ ReceiveCommand
    BY <1>3 DEF Confirm, ReceiveCommand, SetCmdStatus, vars, timer, Lit
<1>4. CASE ReceiveCredentials
    BY <1>4 DEF ReceiveCredentials, SetAppStatus, vars, timer, Lit
<1>5. CASE Reboot \/ SwitchOff
    BY <1>5 DEF Reboot, SwitchOff, AppStep, SoftReset, PowerCycle, Boot, LedBoot, Lit
<1>6. CASE Lose
    BY <1>6 DEF Lose, LoseWlan, LoseBroker, ledVars, status, timer, Lit
<1>7. CASE UNCHANGED allVars
    BY <1>7 DEF allVars, vars, ledVars, status, timer, Lit
<1> QED BY <1>1, <1>2, <1>3, <1>4, <1>5, <1>6, <1>7 DEF LedNext, App, Led

\* Each callback that no command meets shows the status as README.md:189-198
\* describes it, whatever was shown before (AppController.c:303-357).
THEOREM LightsAreTold == LedSpec => LightsTell
<1>1. LedInit => Lit
    BY DEF LedInit, Lit
<1>2. LedTypeOK /\ Lit
        => [Blink /\ cmd_status = "STARTED" => Shows(lights, lights')]_allVars
  <2> SUFFICES ASSUME LedTypeOK, Lit, Blink, cmd_status = "STARTED"
               PROVE  Shows(lights, lights')
      OBVIOUS
  <2>1. lights' = Shown
      BY DEF Blink, Shown
  <2> DEFINE c == Switch(app_status)
  <2>2. \A light :
          light \in lights' <=>
            ((light \in lights /\ light \notin c.off) \/ light \in c.on)
               # (light \in c.toggle)
      BY <2>1 DEF Shown, Toggled
  <2>3. CASE app_status = "STARTED"
      BY <2>2, <2>3 DEF Switch, Command, Shows, Lit
  <2>4. CASE app_status = "ERROR"
      BY <2>2, <2>4 DEF Switch, Command, Shows, Lit
  <2>5. CASE app_status = "OPERATING_STARTED"
      BY <2>2, <2>5 DEF Switch, Command, Shows, Lit
  <2>6. CASE app_status = "OPERATING_STOPPED"
      BY <2>2, <2>6 DEF Switch, Command, Shows, Lit
  <2>7. CASE app_status = "REBOOT"
      BY <2>2, <2>7 DEF Switch, Command, Shows, Lit
  <2>8. CASE app_status = "REGISTERING"
      BY <2>2, <2>8 DEF Switch, Command, Shows, Lit
  <2>9. CASE app_status = "REGISTERED"
      BY <2>2, <2>9 DEF Switch, Command, Shows, Lit
  <2> QED BY <2>3, <2>4, <2>5, <2>6, <2>7, <2>8, <2>9 DEF LedTypeOK, Statuses
<1>3. Inv => LedTypeOK
    BY DEF Inv
<1> QED BY <1>1, <1>2, <1>3, LitStep, LedInvariant, PTL DEF LedSpec, LightsTell

-----------------------------------------------------------------------------
\* Statuses and lights do not disturb the connection: what holds of Connectivity
\* holds here, too.
THEOREM ConnectionUndisturbed == LedSpec => Spec
<1>1. LedInit => Init
    BY DEF LedInit
<1>2. [LedNext]_allVars => [Next]_vars
  <2> SUFFICES ASSUME [LedNext]_allVars PROVE [Next]_vars
      OBVIOUS
  <2>1. CASE App
    <3>1. CASE GoOn \/ FindOffline \/ StartupFails
        BY <3>1 DEF GoOn, FindOffline, StartupFails, AppStep, Next, AppTask
    <3>2. CASE RegistrationSubscribed \/ Operate
        BY <3>2 DEF RegistrationSubscribed, Operate, AppStep, Next, AppTask
    <3>3. CASE StartTimer
        BY <3>3 DEF StartTimer, vars
    <3>4. CASE Reboot
        BY <3>4 DEF Reboot, AppStep, Next, AppTask
    <3> QED BY <2>1, <3>1, <3>2, <3>3, <3>4 DEF App
  <2>2. CASE Led \/ ReceiveCommand \/ ReceiveCredentials
      BY <2>2 DEF Led, Blink, Confirm, ReceiveCommand, ReceiveCredentials, vars
  <2>3. CASE Lose \/ SwitchOff
      BY <2>3 DEF Lose, SwitchOff, Next
  <2>4. CASE UNCHANGED allVars
      BY <2>4 DEF allVars, vars
  <2> QED BY <2>1, <2>2, <2>3, <2>4 DEF LedNext
<1> QED BY <1>1, <1>2, PTL DEF LedSpec, Spec
=============================================================================
