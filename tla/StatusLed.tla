------------------------------ MODULE StatusLed ------------------------------
(***************************************************************************)
(* What the user sees: app_status and cmd_status of source/AppController.c *)
(* and the LEDs its timer callback makes of them, composed with            *)
(* Connectivity.  The App task writes app_status along its way, in         *)
(* registration mode the arrival of the credentials does so, too; commands *)
(* write both.  Left out: the command toggle, which has the yellow light   *)
(* for itself in operation mode.                                           *)
(***************************************************************************)
EXTENDS Connectivity

VARIABLES
  app_status, cmd_status,
  starting,     \* registration: subscribed, StartTimer not yet called
  cmdRead,      \* the cmd_status the callback is about to change, or "none"
  lights,       \* the LEDs that are on
  \* history
  registered,   \* the credentials have arrived, in time
  disturbed     \* no connection was found since they did

Statuses == {"STARTED", "OPERATING_STARTED", "OPERATING_STOPPED", "ERROR",
             "REBOOT", "REGISTERING", "REGISTERED"}
CmdStatuses == {"STARTED", "COMMAND_RECEIVED", "COMMAND_CONFIRMED"}

timer == << cmdRead, lights >>
status == << app_status, cmd_status >>
history == << registered, disturbed >>
ledVars == << status, starting, timer, history >>
allVars == << vars, ledVars >>

LedTypeOK ==
  /\ app_status \in Statuses /\ cmd_status \in CmdStatuses
  /\ starting \in BOOLEAN
  /\ cmdRead \in {"none", "COMMAND_RECEIVED", "COMMAND_CONFIRMED"}
  /\ lights \subseteq {"red", "orange", "yellow"}
  /\ registered \in BOOLEAN /\ disturbed \in BOOLEAN

LedInit ==
  /\ Init
  /\ app_status = "STARTED" /\ cmd_status = "STARTED"
  /\ starting = FALSE
  /\ cmdRead = "none" /\ lights = {}
  /\ registered = FALSE /\ disturbed = FALSE

-----------------------------------------------------------------------------
\* AppController_SetAppStatus, AppController_SetCmdStatus

SetAppStatus(new) ==
  /\ app_status' = IF app_status = "REBOOT" THEN "REBOOT" ELSE new
  /\ UNCHANGED cmd_status

SetCmdStatus(new) ==
  /\ cmd_status' = new
  /\ UNCHANGED app_status

-----------------------------------------------------------------------------
\* The App task.  Between its last subscription and StartTimer it does nothing
\* else.

AppStep(action) == action /\ ~starting

\* No status is written.
GoOn ==
  /\ \/ AppStep(wlan /\ CheckWlan) \/ AppStep(connected /\ CheckBroker)
     \/ AppStep((SyncTime \/ FirstConnectFails) /\ pc' # "reset")
     \/ AppStep(FirstConnect)
     \/ AppStep(DisableSntp \/ Rejoin \/ EnableSntp)
     \/ AppStep(Reconnect \/ ReconnectFails \/ Verdict)
     \/ AppStep(SubscribeMore \/ SubscribeFails)
     \/ AppStep(caller # "init" /\ Subscribed)
     \/ AppStep(FirstSubscription)
     \/ AppStep(Publish)
  /\ UNCHANGED ledVars

\* Mutant: ValidateWLANConnectivity tells of a lost WLAN only.
FindOfflineWlan ==
  /\ \/ AppStep(~wlan /\ CheckWlan) /\ SetAppStatus("ERROR")
     \/ AppStep(~connected /\ CheckBroker) /\ UNCHANGED status
  /\ disturbed' = (disturbed \/ registered)
  /\ UNCHANGED << starting, timer, registered >>

\* ValidateWLANConnectivity finds no address, or no session.
FindOffline ==
  /\ AppStep(~wlan /\ CheckWlan) \/ AppStep(~connected /\ CheckBroker)
  /\ SetAppStatus("ERROR")
  /\ disturbed' = (disturbed \/ registered)
  /\ UNCHANGED << starting, timer, registered >>

\* Mutant: MQTTOperation_Init does not tell that it gives up.
StartupFailsSilently ==
  /\ AppStep((SyncTime \/ FirstConnectFails) /\ pc' = "reset")
  /\ UNCHANGED ledVars

\* MQTTOperation_Init gives up.
StartupFails ==
  /\ AppStep((SyncTime \/ FirstConnectFails) /\ pc' = "reset")
  /\ SetAppStatus("ERROR")
  /\ UNCHANGED << starting, timer, history >>

RegistrationSubscribed ==
  /\ AppStep(caller = "init" /\ Subscribed)
  /\ starting' = TRUE
  /\ UNCHANGED << status, timer, history >>

\* MQTTRegistration_StartTimer
StartTimer ==
  /\ starting /\ starting' = FALSE
  /\ SetAppStatus("REGISTERING")
  /\ UNCHANGED << vars, timer, history >>

\* Mutant: registration mode tells of operation, too.
OperateAlways ==
  /\ AppStep(Publish)
  /\ \E new \in {"OPERATING_STARTED", "OPERATING_STOPPED", "REBOOT"} :
       SetAppStatus(new)
  /\ UNCHANGED << starting, timer, history >>

\* The loop of operation mode: measurements, start and stop, a restart.
Operate ==
  /\ mode = "operation" /\ AppStep(Publish)
  /\ \E new \in {"OPERATING_STARTED", "OPERATING_STOPPED", "REBOOT"} :
       SetAppStatus(new)
  /\ UNCHANGED << starting, timer, history >>

-----------------------------------------------------------------------------
\* Messages of the broker, in the task of the network stack.

\* MQTTOperation_ClientReceive
ReceiveCommand ==
  /\ mode = "operation" /\ connected /\ topics # {}
  /\ SetCmdStatus("COMMAND_RECEIVED")
  /\ UNCHANGED << vars, starting, timer, history >>

\* MQTTRegistration_ClientReceive.  Credentials that overtake StartTimer do not
\* count as registered here: their status is overwritten.
ReceiveCredentials ==
  /\ mode = "registration" /\ connected /\ topics # {}
  /\ SetAppStatus("REGISTERED")
  /\ registered' = (registered \/ ~(starting \/ pc = "subscribe"))
  /\ disturbed' = FALSE
  /\ UNCHANGED << vars, starting, timer >>

-----------------------------------------------------------------------------
\* AppController_ToogleLEDCallback, in the timer service task.

Command(off, on, toggle) == [off |-> off, on |-> on, toggle |-> toggle]

\* Mutant: REGISTERING leaves the red light as it is.
SwitchRedKept(new) ==
  [ STARTED           |-> Command({}, {}, {"red"}),
    OPERATING_STARTED |-> Command({"red"}, {}, {"orange"}),
    OPERATING_STOPPED |-> Command({"red"}, {"orange"}, {}),
    ERROR             |-> Command({"orange"}, {"red"}, {}),
    REBOOT            |-> Command({}, {}, {"red", "orange"}),
    REGISTERED        |-> Command({"red"}, {"yellow"}, {}),
    REGISTERING       |-> Command({}, {}, {"yellow"}) ][new]

\* The commands to the LEDs for an application status.
Switch(new) ==
  [ STARTED           |-> Command({}, {}, {"red"}),
    OPERATING_STARTED |-> Command({"red"}, {}, {"orange"}),
    OPERATING_STOPPED |-> Command({"red"}, {"orange"}, {}),
    ERROR             |-> Command({"orange"}, {"red"}, {}),
    REBOOT            |-> Command({}, {}, {"red", "orange"}),
    REGISTERED        |-> Command({"red"}, {"yellow"}, {}),
    REGISTERING       |-> Command({"red"}, {}, {"yellow"}) ][new]

Toggled(on, toggle) == (on \ toggle) \cup (toggle \ on)

\* All lights of one callback are switched at once.  After a command the red
\* light is switched over, twice in a row.
Blink ==
  /\ cmdRead = "none"
  /\ LET c == Switch(app_status)
         shown == Toggled((lights \ c.off) \cup c.on, c.toggle)
     IN \/ /\ cmd_status = "STARTED"
           /\ lights' = shown
           /\ UNCHANGED cmdRead
        \/ /\ cmd_status # "STARTED"
           /\ lights' = Toggled(shown, {"red"})
           /\ cmdRead' = cmd_status
  /\ UNCHANGED << vars, status, starting, history >>

\* A command that is received just now is forgotten.
Confirm ==
  /\ cmdRead # "none" /\ cmdRead' = "none"
  /\ cmd_status' = IF cmdRead = "COMMAND_RECEIVED" THEN "COMMAND_CONFIRMED"
                   ELSE "STARTED"
  /\ UNCHANGED << vars, app_status, starting, lights, history >>

-----------------------------------------------------------------------------
LedBoot ==
  /\ app_status' = "STARTED" /\ cmd_status' = "STARTED"
  /\ starting' = FALSE
  /\ cmdRead' = "none" /\ lights' = {}
  /\ registered' = FALSE /\ disturbed' = FALSE

Reboot == AppStep(SoftReset) /\ LedBoot
SwitchOff == PowerCycle /\ LedBoot
Lose == (LoseWlan \/ LoseBroker) /\ UNCHANGED ledVars

App == \/ GoOn \/ FindOffline \/ StartupFails \/ RegistrationSubscribed
       \/ StartTimer \/ Operate \/ Reboot

Led == Blink \/ Confirm

LedNext == App \/ Led \/ ReceiveCommand \/ ReceiveCredentials \/ Lose \/ SwitchOff

\* Each call of the App task returns.
LedSpec == LedInit /\ [][LedNext]_allVars /\ WF_allVars(App)

-----------------------------------------------------------------------------
\* The table of README.md:189-198.  Yellow is left out where the code leaves it
\* as it was.
Shows(before, after) ==
  LET off(light) == light \notin after
      on(light) == light \in after
      blinks(light) == (light \in before) # (light \in after)
  IN CASE app_status = "STARTED"           -> blinks("red") /\ off("orange")
       [] app_status = "ERROR"             -> on("red") /\ off("orange")
       [] app_status = "OPERATING_STARTED" -> off("red") /\ blinks("orange")
       [] app_status = "OPERATING_STOPPED" -> off("red") /\ on("orange")
       [] app_status = "REBOOT"            -> blinks("red") /\ blinks("orange")
       [] app_status = "REGISTERING" ->
            off("red") /\ off("orange") /\ blinks("yellow")
       [] app_status = "REGISTERED" ->
            off("red") /\ off("orange") /\ on("yellow")

\* Every callback that no command meets shows the application status as the
\* README describes it, whatever statuses were shown before, and however the
\* commands left the lights.
LightsTell ==
  [][Blink /\ cmd_status = "STARTED" => Shows(lights, lights')]_allVars

\* "Registration successful" (README.md:198) is shown until the restart, unless
\* the connection was lost in between.
RegisteredStays == registered /\ ~disturbed => app_status = "REGISTERED"

\* While the device waits to reset itself the red light tells the reason
\* (MQTTOperation.c:696, 1132), unless credentials arrived that very moment.
ResetIsShown == pc = "reset" => app_status \in {"ERROR", "REBOOT", "REGISTERED"}

\* A device that stays offline says so again and again (README.md:192), unless
\* registration was given up at startup or a restart was announced.
OfflineIsShown ==
  <>[]~connected /\ <>[][~SwitchOff]_allVars =>
    []<>(app_status \in {"ERROR", "REBOOT"} \/ pc = "suspended")
=============================================================================
