----------------------------- MODULE DeviceBoot -----------------------------
(***************************************************************************)
(* From power on to operation: AppController_Setup and _Enable, the two    *)
(* files in the flash of the WIFI chip, the configuration on the SD card,  *)
(* and registration, which obtains the credentials of the device, saves    *)
(* them and restarts into operation mode.                                  *)
(* Of a configuration only MQTTUSER is kept, which decides about the mode. *)
(* Connections are modelled by Connectivity, commands by OperationCommands.*)
(***************************************************************************)
EXTENDS Naturals

CONSTANT MaxMishaps     \* bound: failures, resets and changes of the card

ASSUME MaxMishapsAssumption == MaxMishaps \in Nat

Default == "REGISTRATION"                 \* DEFAULT_MQTTUSERNAME
Users == {Default, "device"}

\* No card; one without a usable config.txt; one whose config.txt names no
\* user; one that names this user.
Cards == {"none", "blank", "plain"} \cup Users

StartUp == {"storage", "button", "deleteConfig", "deleteBoot", "parse",
            "setup", "enable", "connecting"}

VARIABLES
  config,          \* MQTTUSER in config.txt in flash, or "none"
  bootFile,        \* reboot.txt exists in flash
  card,
  step,
  user,            \* MQTTUSER in RAM; undefined counts as Default
  boot_mode,
  saving,          \* progress of the handler that saves the configuration
  restartTimer,
  mishaps,
  \* history
  given,           \* somebody supplied credentials
  asked,           \* the owner asks for another identity
  overruled,       \* in this boot the user in flash did not count
  skipped          \* the flash was unavailable for the last save

files == << config, bootFile, card >>
history == << given, asked, overruled, skipped >>
vars == << files, step, user, boot_mode, saving, restartTimer, mishaps,
           history >>

TypeOK ==
  /\ config \in Users \cup {"none"} /\ bootFile \in BOOLEAN /\ card \in Cards
  /\ step \in StartUp \cup {"running", "halted", "idle"}
  /\ user \in Users
  /\ boot_mode \in {"unknown", "registration", "operation"}
  /\ saving \in {"idle", "append", "write", "arm"}
  /\ restartTimer \in BOOLEAN
  /\ mishaps \in 0..MaxMishaps
  /\ given \in BOOLEAN /\ asked \in BOOLEAN
  /\ overruled \in BOOLEAN /\ skipped \in BOOLEAN

\* An XDK as bought, with any card.
Init ==
  /\ config = "none" /\ bootFile = FALSE /\ card \in Cards
  /\ step = "storage" /\ user = Default /\ boot_mode = "unknown"
  /\ saving = "idle" /\ restartTimer = FALSE
  /\ mishaps = 0
  /\ given = (card = "device")
  /\ asked = FALSE /\ overruled = FALSE /\ skipped = FALSE

Works == UNCHANGED mishaps
Fails == mishaps < MaxMishaps /\ mishaps' = mishaps + 1

Go(from, to) == step = from /\ step' = to

-----------------------------------------------------------------------------
\* Resets.

\* What a reset leaves in flash: a file that is being written keeps its old
\* content, has the new one or cannot be read.
Survives == IF saving = "write" THEN {config, user, "none"} ELSE {config}

ClearMemory ==
  /\ step' = "storage" /\ user' = Default /\ boot_mode' = "unknown"
  /\ saving' = "idle" /\ restartTimer' = FALSE
  /\ overruled' = FALSE /\ skipped' = FALSE

Reset ==
  /\ config' \in Survives
  /\ ClearMemory
  /\ UNCHANGED << bootFile, card, given, asked >>

-----------------------------------------------------------------------------
\* AppController_Setup and what it calls.

\* MQTTStorage_Init: a boot status that is missing or cannot be read is
\* written and read again; a write that fails asserts.
StorageInit ==
  /\ \/ /\ Go("storage", "button")
        /\ bootFile /\ UNCHANGED bootFile /\ Works
     \/ /\ Go("storage", "button")
        /\ bootFile' = TRUE
        /\ IF bootFile THEN Fails ELSE Works
     \/ /\ Go("storage", "halted")
        /\ bootFile' \in {bootFile, TRUE} /\ Fails
  /\ UNCHANGED << config, card, user, boot_mode, saving, restartTimer, history >>

\* Mutant: the button is read the wrong way round.
CheckButtonInverted ==
  /\ \E pressed \in BOOLEAN :
       /\ Go("button", IF pressed THEN "parse" ELSE "deleteConfig")
       /\ asked' = pressed
  /\ UNCHANGED << files, user, boot_mode, saving, restartTimer, mishaps, given,
                  overruled, skipped >>

\* Is button 2 held?
CheckButton ==
  /\ \E pressed \in BOOLEAN :
       /\ Go("button", IF pressed THEN "deleteConfig" ELSE "parse")
       /\ asked' = pressed
  /\ UNCHANGED << files, user, boot_mode, saving, restartTimer, mishaps, given,
                  overruled, skipped >>

\* MQTTStorage_Flash_DeleteConfig goes on when a deletion fails.
DeleteConfig ==
  /\ Go("deleteConfig", "deleteBoot")
  /\ \/ config' = "none" /\ Works
     \/ UNCHANGED config /\ Fails
  /\ UNCHANGED << bootFile, card, user, boot_mode, saving, restartTimer, history >>

DeleteBootFile ==
  /\ step = "deleteBoot"
  /\ \/ bootFile' = FALSE /\ Works
     \/ UNCHANGED bootFile /\ Fails
  /\ ClearMemory
  /\ UNCHANGED << config, card, given, asked >>

\* Mutant: the table is not initialised before it is filled.
UserOfNoDefault(flashRead, cardRead) ==
  IF cardRead /\ card \in Users THEN card ELSE config

\* Mutant: the card replaces all that flash says, not only what it names.
UserOfCardOnly(flashRead, cardRead) ==
  IF cardRead THEN IF card \in Users THEN card ELSE Default
  ELSE IF flashRead THEN config ELSE Default

\* Flash first, then the card, which overwrites what it names.
UserOf(flashRead, cardRead) ==
  IF cardRead /\ card \in Users THEN card
  ELSE IF flashRead THEN config ELSE Default

\* Flash_ReadConfig and SD_ReadConfig find a file unless a read fails.
FlashReadable == config # "none"
CardReadable == card \notin {"none", "blank"}

\* MQTTCfgParser_Init; Setup asserts if neither configuration was good.  A file
\* that can be read is good here; which ones the parser rejects is in CfgParser.
ParseConfig ==
  /\ \E flashRead, cardRead \in BOOLEAN :
       /\ flashRead => FlashReadable
       /\ cardRead => CardReadable
       /\ IF flashRead = FlashReadable /\ cardRead = CardReadable
          THEN Works ELSE Fails
       /\ user' = UserOf(flashRead, cardRead)
       /\ overruled' = \/ FlashReadable /\ ~flashRead
                       \/ cardRead /\ card = Default
       /\ Go("parse", IF flashRead \/ cardRead THEN "setup" ELSE "halted")
  /\ UNCHANGED << files, boot_mode, saving, restartTimer, given, asked, skipped >>

GetMode(u) == IF u = Default THEN "registration" ELSE "operation"

\* The rest of Setup: a module whose setup fails ends in the assertion.
Setup ==
  /\ \/ Go("setup", "enable") /\ Works
     \/ Go("setup", "halted") /\ Fails
  /\ boot_mode' = GetMode(user)
  /\ UNCHANGED << files, user, saving, restartTimer, history >>

\* AppController_Enable: when a module fails no task is created and nothing
\* else happens; when the task cannot be created the device resets.
Enable ==
  \/ /\ \/ Go("enable", "connecting") /\ Works
        \/ Go("enable", "idle") /\ Fails
     /\ UNCHANGED << files, user, boot_mode, saving, restartTimer, history >>
  \/ step = "enable" /\ Fails /\ Reset

\* The end of MQTTOperation_Init and MQTTRegistration_Init (Connectivity).
Connected ==
  \/ /\ Go("connecting", "running") /\ Works
     /\ UNCHANGED << files, user, boot_mode, saving, restartTimer, history >>
  \/ /\ boot_mode = "registration"
     /\ Go("connecting", "idle") /\ Fails
     /\ UNCHANGED << files, user, boot_mode, saving, restartTimer, history >>
  \/ /\ boot_mode = "operation"
     /\ step = "connecting" /\ Fails /\ Reset

-----------------------------------------------------------------------------
\* Registration: MQTTRegistration_ClientReceive and the restart.

Running(m) == step = "running" /\ boot_mode = m

\* Cumulocity may send the credentials again before the restart.
Receive ==
  /\ Running("registration")
  /\ saving = "idle" /\ saving' = "append"
  /\ given' = TRUE
  /\ UNCHANGED << files, step, user, boot_mode, restartTimer, mishaps, asked,
                  overruled, skipped >>

\* Does MQTTStorage_SD_Write return RETCODE_OK?  It writes only to a file it
\* could not open; one that opens is left as it is, and the function ends
\* without a return value: the caller may read either.
SDWriteReturns == BOOLEAN

\* Mutant: the table still holds the old user when it is saved.
AppendUnset ==
  /\ step = "running" /\ saving = "append"
  /\ \/ card # "none" /\ saving' = "write" /\ UNCHANGED step
     \/ step' = "halted" /\ UNCHANGED saving
  /\ UNCHANGED << files, user, boot_mode, restartTimer, mishaps, history >>

\* A message of another format asserts, and MQTTStorage_SD_AppendCredentials
\* without a card or when SD_Write fails.  Then the credentials are set in RAM.
AppendCredentials ==
  /\ step = "running" /\ saving = "append"
  /\ \/ /\ card # "none" /\ TRUE \in SDWriteReturns
        /\ saving' = "write" /\ user' = "device"
        /\ UNCHANGED step
     \/ /\ step' = "halted"
        /\ UNCHANGED << user, saving >>
  /\ UNCHANGED << files, boot_mode, restartTimer, mishaps, history >>

\* MQTTCfgParser_FLWriteConfig: an unavailable flash is passed over in silence,
\* a write that fails asserts.
WriteConfig ==
  /\ step = "running" /\ saving = "write"
  /\ \/ /\ config' = user /\ Works
        /\ skipped' = FALSE /\ asked' = FALSE
        /\ UNCHANGED step
     \/ /\ skipped' = TRUE /\ Fails
        /\ UNCHANGED << config, step, asked >>
     \/ /\ config' \in Survives /\ Fails
        /\ step' = "halted"
        /\ UNCHANGED << skipped, asked >>
  /\ saving' = IF boot_mode = "registration" THEN "arm" ELSE "idle"
  /\ UNCHANGED << bootFile, card, user, boot_mode, restartTimer, given, overruled >>

\* Mutant: the timer is created but not started.
TimerNotStarted ==
  /\ step = "running" /\ saving = "arm"
  /\ saving' = "idle"
  /\ UNCHANGED << files, step, user, boot_mode, restartTimer, mishaps, history >>

StartRestartTimer ==
  /\ step = "running" /\ saving = "arm"
  /\ saving' = "idle" /\ restartTimer' = TRUE
  /\ UNCHANGED << files, step, user, boot_mode, mishaps, history >>

\* The timer task does not wait for a handler that is saving.  That of
\* MQTTOperation writes the boot status first, which asserts if it fails.
RestartCallback ==
  /\ step = "running" /\ restartTimer
  /\ \/ Works /\ Reset
     \/ /\ boot_mode = "operation"
        /\ Fails /\ step' = "halted"
        /\ UNCHANGED << files, user, boot_mode, saving, restartTimer, history >>

-----------------------------------------------------------------------------
\* Operation mode.

\* The commands speed, sensor, firmware and config save the whole
\* configuration, and config may change MQTTUSER.  While a restart is pending
\* no command is executed (OperationCommands).
SaveConfig ==
  /\ Running("operation") /\ saving = "idle" /\ ~restartTimer
  /\ saving' = "write"
  /\ user' \in Users
  /\ asked' = (asked \/ user' # user)
  /\ given' = (given \/ user' = "device")
  /\ UNCHANGED << files, step, boot_mode, restartTimer, mishaps, overruled,
                  skipped >>

RestartCommand ==
  /\ Running("operation") /\ saving = "idle"
  /\ restartTimer' = TRUE
  /\ UNCHANGED << files, step, user, boot_mode, saving, mishaps, history >>

-----------------------------------------------------------------------------
\* What may happen at any time.

\* A button enqueues a command; without the queue, which only operation mode
\* creates, xQueueSend gets NULL: an assertion of FreeRTOS, or nothing.  The
\* command processor does this, Setup, Enable and Receive one after another.
QueueCommand ==
  /\ step \in {"enable", "connecting", "idle", "running"} /\ saving = "idle"
  /\ ~Running("operation")
  /\ step' = "halted"
  /\ UNCHANGED << files, user, boot_mode, saving, restartTimer, mishaps, history >>

\* ValidateWLANConnectivity after too many attempts (Connectivity).
SoftReset == step = "running" /\ Fails /\ Reset

PowerCycle == Fails /\ Reset

ChangeCard ==
  /\ Fails
  /\ card' \in Cards \ {card}
  /\ given' = (given \/ card' = "device")
  /\ UNCHANGED << config, bootFile, step, user, boot_mode, saving, restartTimer,
                  asked, overruled, skipped >>

BootStep == \/ StorageInit \/ CheckButton \/ DeleteConfig \/ DeleteBootFile
            \/ ParseConfig \/ Setup \/ Enable \/ Connected

SaveStep == AppendCredentials \/ WriteConfig \/ StartRestartTimer

Next == \/ BootStep \/ Receive \/ SaveStep \/ RestartCallback \/ SaveConfig
        \/ RestartCommand \/ QueueCommand \/ SoftReset \/ PowerCycle
        \/ ChangeCard

Spec == Init /\ [][Next]_vars

\* The command processor and the timer task get on with what they have begun.
FairSpec == Spec /\ WF_vars(BootStep) /\ WF_vars(SaveStep)
                 /\ WF_vars(RestartCallback)

-----------------------------------------------------------------------------
\* Properties.

\* Credentials in flash mean operation mode: a device that runs in registration
\* mode has none there, or is on its way to the restart, or its flash could not
\* be read at startup, or its card told it to register.
RegisteredOperates ==
  Running("registration") /\ config = "device"
    => overruled \/ restartTimer \/ saving = "arm"

\* Registration restarts only after saving: when its timer runs, the next boot
\* finds the credentials in flash, unless the flash was not available.
RestartsWithCredentials ==
  Running("registration") /\ restartTimer => config = "device" \/ skipped

\* A device with its credentials in flash comes into operation, with and without
\* a card (README.md:180), unless it stops (an assertion, a module that cannot be
\* enabled), its flash does not count in this boot, or it loses them.
ComesIntoOperation ==
  config = "device" ~> \/ Running("operation") \/ step \in {"halted", "idle"}
                       \/ overruled \/ config # "device"

Lifecycle == INSTANCE DeviceLifecycle WITH
  known <- config = "device", writing <- saving = "write",
  operating <- Running("operation")

\* Over resets at any point, failing storage and changing cards, credentials are
\* kept, used and forgotten only as the owner expects.
ImplementsLifecycle == Lifecycle!Spec
=============================================================================
