------------------------- MODULE OperationCommands -------------------------
(***************************************************************************)
(* The command engine of source/MQTTOperation.c in operation mode: a       *)
(* command reaches commandQueue from the broker (ClientReceive), from a    *)
(* button (QueueCommand) or from the boot code, the App task takes it out  *)
(* and interprets it (ClientPublish, ExecuteCommand), and the timer        *)
(* service task reports its progress to Cumulocity (AssetUpdate).  The two *)
(* tasks share command, commandProgress and assetUpdateProcess; the        *)
(* semaphore of the asset buffer protects the text that is sent, not these.*)
(*                                                                         *)
(* A restart crosses a reset: a flag in flash tells the next boot that the *)
(* restart has to be confirmed.                                            *)
(***************************************************************************)
EXTENDS Naturals, Sequences

CONSTANTS
  QueueLength,      \* slots of commandQueue, 4 in the code
  CloudCommands,    \* the operations the broker may deliver
  ButtonCommands,   \* the commands the two buttons may enqueue
  MaxCrashes        \* bound on the resets nobody asked for

(***************************************************************************)
(* What a command line says, up to what the code tells apart.              *)
(***************************************************************************)
Immediate == {"message", "toggle", "start", "stop"}
ButtonActions == {"startButton", "stopButton", "printConfig",
                  "resetBootstatus", "requestCommands"}
Deferred == {"speed", "log", "sensor", "config", "firmware"}
\* No template, no such command, too few tokens.
Incomplete == {"unknownTemplate", "unknownCommand", "shortSpeed",
               "shortMessage", "shortFirmware"}
\* All tokens there, but the sensor or the configuration key does not exist.
UnknownKey == {"badSensor", "badConfig"}

Kinds == Immediate \cup ButtonActions \cup Deferred \cup Incomplete
           \cup UnknownKey \cup {"restart", "restartConfirm"}

ASSUME QueueAssumption == QueueLength \in Nat \ {0}
ASSUME CommandAssumption ==
  /\ CloudCommands \subseteq Kinds
  /\ ButtonCommands \subseteq ButtonActions
ASSUME CrashAssumption == MaxCrashes \in Nat

Progress == {"WAITING", "BEFORE_EXECUTING", "BEFORE_FAILED", "EXECUTING",
             "FAILED", "IMMEDIATE_BUTTON", "IMMEDIATE_CMD", "BLOCKING"}
AssetStates == {"INITIAL", "PUBLISHED", "WAITING", "COMPLETED"}
Codes == {"CMD_TOGGLE", "CMD_RESTART", "CMD_SPEED", "CMD_MESSAGE",
          "CMD_SENSOR", "CMD_PUBLISH_START", "CMD_PUBLISH_STOP",
          "CMD_CONFIG", "CMD_FIRMWARE", "CMD_UNKNOWN", "CMD_REQUEST",
          "CMD_LOG", "CMD_COMMAND"}
AckTypes == {"c8y_Restart", "c8y_Message", "c8y_Firmware", "c8y_Command"}

\* What AssetUpdate writes about a command: the operation's state (501 it is
\* executing, 502 it failed, 503 it is done) or data and an event.
Acks == {"501", "502", "503"} \X AckTypes
News == {"115", "113", "500"} \X {"inventory"}
          \cup {"400"} \X {"firmware", "started", "stopped", "config"}

\* The value of command after token 0: the template.
TemplateCode(k) ==
  CASE k = "restart"                       -> "CMD_RESTART"
    [] k \in {"message", "shortMessage"}   -> "CMD_MESSAGE"
    [] k \in {"firmware", "shortFirmware"} -> "CMD_FIRMWARE"
    [] k = "unknownTemplate"               -> "CMD_UNKNOWN"
    [] OTHER                               -> "CMD_COMMAND"

\* The value of command once the name of the command is read, token 2.
FinalCode(k) ==
  CASE k \in {"speed", "shortSpeed"}   -> "CMD_SPEED"
    [] k = "toggle"                    -> "CMD_TOGGLE"
    [] k \in {"start", "startButton"}  -> "CMD_PUBLISH_START"
    [] k \in {"stop", "stopButton"}    -> "CMD_PUBLISH_STOP"
    [] k = "requestCommands"           -> "CMD_REQUEST"
    [] k \in {"sensor", "badSensor"}   -> "CMD_SENSOR"
    [] k \in {"config", "badConfig"}   -> "CMD_CONFIG"
    [] k = "restartConfirm"            -> "CMD_RESTART"
    [] k = "log"                       -> "CMD_LOG"
    [] OTHER                           -> TemplateCode(k)

\* Mutant: the confirmation goes the way of an ordinary command.
ProgressForgetsConfirm(k, progress) ==
  CASE k \in Immediate                        -> "IMMEDIATE_CMD"
    [] k \in ButtonActions                    -> "IMMEDIATE_BUTTON"
    [] k \in UnknownKey \cup {"unknownCommand"} -> "BEFORE_FAILED"
    [] OTHER                                  -> progress

\* What ExecuteCommand makes of commandProgress once all tokens are read.
ProgressAfter(k, progress) ==
  CASE k \in Immediate                        -> "IMMEDIATE_CMD"
    [] k \in ButtonActions                    -> "IMMEDIATE_BUTTON"
    [] k = "restartConfirm"                   -> "EXECUTING"
    [] k \in UnknownKey \cup {"unknownCommand"} -> "BEFORE_FAILED"
    [] OTHER                                  -> progress

\* Mutant: the restart timer is not started.
NeverRestarts(k) == FALSE

\* The commands that start the restart timer.
StartsRestart(k) == k = "restart"

\* The commands that make AssetUpdate look for news.
ChangesAsset == {"start", "stop", "startButton", "stopButton"}
                  \cup Deferred \cup UnknownKey

\* Mutant: the firmware row of the table is missing.
AckTypeShifted(c) ==
  CASE c = "CMD_RESTART" -> "c8y_Restart"
    [] c = "CMD_MESSAGE" -> "c8y_Message"
    [] OTHER             -> "c8y_Command"

\* The table commands[]: the operation type an answer is given for.
AckType(c) ==
  CASE c = "CMD_RESTART"  -> "c8y_Restart"
    [] c = "CMD_MESSAGE"  -> "c8y_Message"
    [] c = "CMD_FIRMWARE" -> "c8y_Firmware"
    [] OTHER              -> "c8y_Command"

\* Mutant: a restart does not block.
ExecutingAlways(c) == "EXECUTING"

\* The state after the first report: a restart blocks until the reset.
Underway(c) == IF c = "CMD_RESTART" THEN "BLOCKING" ELSE "EXECUTING"

\* The news of a command, by its code.
NewsOf(c) ==
  CASE c = "CMD_FIRMWARE"      -> << <<"115", "inventory">>, <<"400", "firmware">> >>
    [] c = "CMD_PUBLISH_START" -> << <<"400", "started">> >>
    [] c = "CMD_PUBLISH_STOP"  -> << <<"400", "stopped">> >>
    [] c = "CMD_REQUEST"       -> << <<"500", "inventory">> >>
    [] c \in {"CMD_SENSOR", "CMD_SPEED"} ->
         << <<"113", "inventory">>, <<"400", "config">> >>
    [] OTHER                   -> << >>

-----------------------------------------------------------------------------
VARIABLES
  \* RAM
  commandQueue,          \* the FreeRTOS queue
  command,               \* the code of the command being interpreted
  commandProgress,       \* where its acknowledgement stands
  assetUpdateProcess,    \* where the registration or the news stand
  buffered,              \* assetStreamBuffer.length > 0
  semaphoreAssetBuffer,  \* the binary semaphore, 0 or 1
  restartTimer,          \* the one-shot restart timer is running
  app,                   \* where the App task is in its loop
  tick,                  \* where the timer service task is in its callback
  current,               \* commandBuffer, the command taken out last
  \* flash and broker
  bootStatus,            \* the file REBOOT_FILENAME: "0" or "1"
  subscribed,            \* the broker has the subscriptions of this session
  \* history, not in the code
  reports,               \* what AssetUpdate wrote since the last Dequeue
  overlap,               \* this boot saw AssetUpdate run during ExecuteCommand
  owed,                  \* an accepted restart is not yet confirmed, or never
  crashes

ram == << commandQueue, command, commandProgress, assetUpdateProcess, buffered,
          semaphoreAssetBuffer, restartTimer, app, tick, current >>
shared == << command, commandProgress, assetUpdateProcess >>
vars == << ram, bootStatus, subscribed, reports, overlap, owed, crashes >>

\* The App task is between the xQueueReceive and the end of ExecuteCommand.
Executing == app \in {"reset", "template", "body", "finish"}
\* The timer task is inside AssetUpdate, after a successful take.
Updating == tick \in {"asset", "progress", "give"}

TypeOK ==
  /\ commandQueue \in Seq(Kinds) /\ Len(commandQueue) <= QueueLength
  /\ command \in Codes
  /\ commandProgress \in Progress
  /\ assetUpdateProcess \in AssetStates
  /\ buffered \in BOOLEAN
  /\ semaphoreAssetBuffer \in {0, 1}
  /\ restartTimer \in BOOLEAN
  /\ app \in {"publish", "publishing", "subscribing", "poll",
              "reset", "template", "body", "finish"}
  /\ tick \in {"idle", "asset", "progress", "give", "restart"}
  /\ current \in Kinds \cup {"none"}
  /\ bootStatus \in {"0", "1"}
  /\ subscribed \in BOOLEAN
  /\ reports \in Seq(Acks \cup News)
  /\ overlap \in BOOLEAN
  /\ owed \in {"no", "yes", "lost"}
  /\ crashes \in 0..MaxCrashes

Init ==
  /\ commandQueue = << >>
  /\ command = "CMD_UNKNOWN"
  /\ commandProgress = "WAITING"
  /\ assetUpdateProcess = "INITIAL"
  /\ buffered = FALSE
  /\ semaphoreAssetBuffer = 1
  /\ restartTimer = FALSE
  /\ app = "publish"
  /\ tick = "idle"
  /\ current = "none"
  /\ bootStatus = "0"
  /\ subscribed = FALSE
  /\ reports = << >>
  /\ overlap = FALSE
  /\ owed = "no"
  /\ crashes = 0

-----------------------------------------------------------------------------
\* The commands that arrive.  A full queue drops the command (ClientReceive
\* also drops the rest of the batch): nothing changes, so there is no step.

\* Mutant: the queue has no end.
EnqueueUnbounded(k) ==
  /\ commandQueue' = Append(commandQueue, k)
  /\ UNCHANGED << shared, buffered, semaphoreAssetBuffer, restartTimer, app,
                  tick, current, bootStatus, subscribed, reports, overlap,
                  owed, crashes >>

Enqueue(k) ==
  /\ Len(commandQueue) < QueueLength
  /\ commandQueue' = Append(commandQueue, k)
  /\ UNCHANGED << shared, buffered, semaphoreAssetBuffer, restartTimer, app,
                  tick, current, bootStatus, subscribed, reports, overlap,
                  owed, crashes >>

\* One command of a batch; the broker delivers to a subscriber only.
ClientReceive == subscribed /\ \E k \in CloudCommands : Enqueue(k)

\* A message on the error topic is appended to the buffer at once.
ReceiveError ==
  /\ subscribed
  /\ buffered' = TRUE
  /\ UNCHANGED << commandQueue, shared, semaphoreAssetBuffer, restartTimer,
                  app, tick, current, bootStatus, subscribed, reports,
                  overlap, owed, crashes >>

QueueCommand == \E k \in ButtonCommands : Enqueue(k)

-----------------------------------------------------------------------------
\* The loop of the App task, ClientPublish.

AppTo(pc) ==
  /\ app' = pc
  /\ UNCHANGED << restartTimer, tick, crashes >>

\* Nothing to send, or no connection (ValidateWLANConnectivity failed).
PublishSkip ==
  /\ app = "publish"
  /\ AppTo("poll")
  /\ UNCHANGED << commandQueue, shared, buffered, semaphoreAssetBuffer,
                  current, bootStatus, subscribed, reports, overlap, owed >>

\* Where the loop goes after the buffer: the first data were sent, so the
\* topics exist and can be subscribed to.
AfterPublish(ok) ==
  AppTo(IF ok /\ assetUpdateProcess = "PUBLISHED" THEN "subscribing" ELSE "poll")

PublishBegin ==
  /\ app = "publish" /\ buffered
  /\ semaphoreAssetBuffer = 1
  /\ semaphoreAssetBuffer' = 0
  /\ AppTo("publishing")
  /\ UNCHANGED << commandQueue, shared, buffered, current, bootStatus,
                  subscribed, reports, overlap, owed >>

\* The take timed out: nothing is sent, the semaphore is given all the same.
PublishRefused ==
  /\ app = "publish" /\ buffered
  /\ semaphoreAssetBuffer = 0
  /\ semaphoreAssetBuffer' = 1
  /\ AfterPublish(TRUE)
  /\ UNCHANGED << commandQueue, shared, buffered, current, bootStatus,
                  subscribed, reports, overlap, owed >>

\* The buffer is emptied whether or not the broker took it.
PublishEnd(ok) ==
  /\ app = "publishing"
  /\ buffered' = FALSE
  /\ semaphoreAssetBuffer' = 1
  /\ AfterPublish(ok)
  /\ UNCHANGED << commandQueue, shared, current, bootStatus, subscribed,
                  reports, overlap, owed >>

\* Mutant: the device counts as set up although the subscription failed.
SubscribeCareless(ok) ==
  /\ app = "subscribing"
  /\ assetUpdateProcess' = "COMPLETED"
  /\ subscribed' \in IF ok THEN {TRUE} ELSE {subscribed, TRUE}
  /\ AppTo("poll")
  /\ UNCHANGED << commandQueue, command, commandProgress, buffered, current,
                  semaphoreAssetBuffer, bootStatus, reports, overlap, owed >>

\* SubscribeTopics, the first of a boot; a failure may leave the first topic
\* subscribed, which counts as subscribed here.  Subscriptions that are lost, and
\* those made after a reconnection (MQTTOperation.c:676-690), are Connectivity's.
Subscribe(ok) ==
  /\ app = "subscribing"
  /\ assetUpdateProcess' = IF ok THEN "COMPLETED" ELSE assetUpdateProcess
  /\ subscribed' \in IF ok THEN {TRUE} ELSE {subscribed, TRUE}
  /\ AppTo("poll")
  /\ UNCHANGED << commandQueue, command, commandProgress, buffered, current,
                  semaphoreAssetBuffer, bootStatus, reports, overlap, owed >>

PollSkip ==
  /\ app = "poll"
  /\ commandQueue = << >> \/ commandProgress # "WAITING"
  /\ AppTo("publish")
  /\ UNCHANGED << commandQueue, shared, buffered, semaphoreAssetBuffer,
                  current, bootStatus, subscribed, reports, overlap, owed >>

Dequeue ==
  /\ app = "poll"
  /\ commandQueue # << >> /\ commandProgress = "WAITING"
  /\ current' = Head(commandQueue)
  /\ commandQueue' = Tail(commandQueue)
  /\ commandProgress' = "BEFORE_EXECUTING"
  /\ reports' = << >>
  /\ overlap' = (overlap \/ Updating)
  /\ AppTo("reset")
  /\ UNCHANGED << command, assetUpdateProcess, buffered, bootStatus,
                  semaphoreAssetBuffer, subscribed, owed >>

\* ExecuteCommand, in the steps between which AssetUpdate can look: the
\* initialization, token 0, the tokens after it, and the final check.

ExecuteReset ==
  /\ app = "reset"
  /\ command' = "CMD_UNKNOWN"
  /\ AppTo("template")
  /\ UNCHANGED << commandQueue, commandProgress, assetUpdateProcess, buffered,
                  semaphoreAssetBuffer, current, bootStatus, subscribed,
                  reports, overlap, owed >>

ExecuteTemplate ==
  /\ app = "template"
  /\ command' = TemplateCode(current)
  /\ restartTimer' = (restartTimer \/ StartsRestart(current))
  /\ owed' = IF current = "restart" THEN "yes" ELSE owed
  /\ app' = "body"
  /\ UNCHANGED << commandQueue, commandProgress, assetUpdateProcess, buffered,
                  semaphoreAssetBuffer, tick, current, bootStatus, subscribed,
                  reports, overlap, crashes >>

ExecuteBody ==
  /\ app = "body"
  /\ command' = FinalCode(current)
  /\ commandProgress' = ProgressAfter(current, commandProgress)
  /\ assetUpdateProcess' =
       IF current \in ChangesAsset THEN "WAITING" ELSE assetUpdateProcess
  /\ bootStatus' =
       IF current \in {"resetBootstatus", "restartConfirm"} THEN "0" ELSE bootStatus
  /\ owed' = IF current = "resetBootstatus" /\ owed = "yes" THEN "lost" ELSE owed
  /\ AppTo("finish")
  /\ UNCHANGED << commandQueue, buffered, semaphoreAssetBuffer, current,
                  subscribed, reports, overlap >>

ExecuteFinish ==
  /\ app = "finish"
  /\ commandProgress' =
       IF current \in Incomplete THEN "BEFORE_FAILED" ELSE commandProgress
  /\ AppTo("publish")
  /\ UNCHANGED << commandQueue, command, assetUpdateProcess, buffered, current,
                  semaphoreAssetBuffer, bootStatus, subscribed, reports,
                  overlap, owed >>

-----------------------------------------------------------------------------
\* The timer service task: AssetUpdate every second.

TickTo(pc) ==
  /\ tick' = pc
  /\ UNCHANGED << commandQueue, command, restartTimer, app, current,
                  bootStatus, subscribed, crashes >>

TickTake ==
  /\ tick = "idle"
  /\ semaphoreAssetBuffer = 1
  /\ semaphoreAssetBuffer' = 0
  /\ overlap' = (overlap \/ Executing)
  /\ TickTo("asset")
  /\ UNCHANGED << commandProgress, assetUpdateProcess, buffered, reports, owed >>

\* The publisher has the semaphore: no update, but the give at the end is done.
TickRefused ==
  /\ tick = "idle"
  /\ semaphoreAssetBuffer = 0
  /\ semaphoreAssetBuffer' = 1
  /\ TickTo("idle")
  /\ UNCHANGED << commandProgress, assetUpdateProcess, buffered, reports,
                  overlap, owed >>

\* The first switch: register the device, or tell the news of a command.
TickAsset ==
  /\ tick = "asset"
  /\ assetUpdateProcess' = CASE assetUpdateProcess = "INITIAL" -> "PUBLISHED"
                             [] assetUpdateProcess = "WAITING" -> "COMPLETED"
                             [] OTHER -> assetUpdateProcess
  /\ LET news == IF assetUpdateProcess = "WAITING" THEN NewsOf(command) ELSE << >>
     IN  /\ reports' = reports \o news
         /\ buffered' = (buffered \/ assetUpdateProcess = "INITIAL" \/ news # << >>)
  /\ TickTo("progress")
  /\ UNCHANGED << commandProgress, semaphoreAssetBuffer, overlap, owed >>

Ack(status) == << status, AckType(command) >>

\* One case of the second switch, and the acknowledgements it writes.
Report(from, to, lines) ==
  /\ commandProgress = from
  /\ commandProgress' = to
  /\ reports' = reports \o lines
  /\ buffered' = (buffered \/ lines # << >>)
  /\ owed' = IF \E i \in 1..Len(lines) : lines[i] = << "503", "c8y_Restart" >>
             THEN "no" ELSE owed

TickProgress ==
  /\ tick = "progress"
  /\ \/ Report("BEFORE_EXECUTING", Underway(command), << Ack("501") >>)
     \/ Report("BEFORE_FAILED", "FAILED", << Ack("501") >>)
     \/ Report("FAILED", "WAITING", << Ack("502") >>)
     \/ Report("EXECUTING", "WAITING", << Ack("503") >>)
     \/ Report("IMMEDIATE_CMD", "WAITING", << Ack("501"), Ack("503") >>)
     \/ Report("IMMEDIATE_BUTTON", "WAITING", << >>)
     \/ Report("BLOCKING", "BLOCKING", << >>)
     \/ Report("WAITING", "WAITING", << >>)
  /\ TickTo("give")
  /\ UNCHANGED << assetUpdateProcess, semaphoreAssetBuffer, overlap >>

\* The end of AssetUpdate; every 60th time a keep-alive message was written.
TickGive(keepAlive) ==
  /\ tick = "give"
  /\ buffered' = (buffered \/ keepAlive)
  /\ semaphoreAssetBuffer' = 1
  /\ TickTo("idle")
  /\ UNCHANGED << commandProgress, assetUpdateProcess, reports, overlap, owed >>

\* RestartCallback: the flag goes to flash, then DeInit waits for the broker
\* while the App task goes on, then the board is reset.
RestartFire ==
  /\ restartTimer /\ tick = "idle"
  /\ bootStatus' = "1"
  /\ tick' = "restart"
  /\ UNCHANGED << commandQueue, shared, buffered, semaphoreAssetBuffer, app,
                  restartTimer, current, subscribed, reports, overlap, owed,
                  crashes >>

\* The board starts again: RAM as the boot code leaves it, with the
\* confirmation of a restart in the queue when the flash says one is pending.
Reboot ==
  /\ commandQueue' = IF bootStatus = "1" THEN << "restartConfirm" >> ELSE << >>
  /\ command' = "CMD_UNKNOWN"
  /\ commandProgress' = "WAITING"
  /\ assetUpdateProcess' = "INITIAL"
  /\ buffered' = FALSE
  /\ semaphoreAssetBuffer' = 1
  /\ restartTimer' = FALSE
  /\ app' = "publish"
  /\ tick' = "idle"
  /\ current' = "none"
  /\ subscribed' = FALSE
  /\ reports' = << >>
  /\ overlap' = FALSE
  /\ UNCHANGED bootStatus

SoftReset ==
  /\ tick = "restart"
  /\ Reboot
  /\ UNCHANGED << owed, crashes >>

\* A reset nobody asked for: power loss, a failed assertion, or the SoftReset
\* of ValidateWLANConnectivity after ten attempts.  A restart whose flag is not
\* in flash, not yet or not any more, will not be confirmed.
Crash ==
  /\ crashes < MaxCrashes
  /\ crashes' = crashes + 1
  /\ owed' = IF owed = "yes" /\ bootStatus = "0" THEN "lost" ELSE owed
  /\ Reboot

-----------------------------------------------------------------------------
Callbacks == ClientReceive \/ ReceiveError \/ QueueCommand

AppTask ==
  \/ PublishSkip \/ PublishBegin \/ PublishRefused
  \/ \E ok \in BOOLEAN : PublishEnd(ok) \/ Subscribe(ok)
  \/ PollSkip \/ Dequeue
  \/ ExecuteReset \/ ExecuteTemplate \/ ExecuteBody \/ ExecuteFinish

TimerTask ==
  \/ TickTake \/ TickRefused \/ TickAsset \/ TickProgress
  \/ \E keepAlive \in BOOLEAN : TickGive(keepAlive)
  \/ RestartFire \/ SoftReset

Next == Callbacks \/ AppTask \/ TimerTask \/ Crash

Spec == Init /\ [][Next]_vars

\* Both tasks are scheduled again and again (every loop of the App task ends
\* in a vTaskDelay), and the timer service runs each expired timer.
Fairness ==
  /\ WF_vars(AppTask) /\ WF_vars(TimerTask)
  /\ SF_vars(TickTake) /\ SF_vars(RestartFire)

FairSpec == Spec /\ Fairness

-----------------------------------------------------------------------------
RestartPending == restartTimer \/ tick = "restart"

\* The reference: what Cumulocity reads about a command from its receipt to
\* the moment the device waits for the next one.
Expected(k) ==
  LET started == << "400", "started" >>
      stopped == << "400", "stopped" >>
      changed == << <<"113", "inventory">>, <<"400", "config">> >>
      Done(t) == << <<"501", t>>, <<"503", t>> >>
      Failed(t) == << <<"501", t>>, <<"502", t>> >>
  IN CASE k = "message"         -> Done("c8y_Message")
       [] k = "toggle"          -> Done("c8y_Command")
       [] k = "start"           -> << started >> \o Done("c8y_Command")
       [] k = "stop"            -> << stopped >> \o Done("c8y_Command")
       [] k = "startButton"     -> << started >>
       [] k = "stopButton"      -> << stopped >>
       [] k \in {"printConfig", "resetBootstatus", "requestCommands"} -> << >>
       [] k \in {"speed", "sensor"} -> changed \o Done("c8y_Command")
       [] k \in {"log", "config"}   -> Done("c8y_Command")
       [] k = "firmware"        -> << <<"115", "inventory">>, <<"400", "firmware">> >>
                                     \o Done("c8y_Firmware")
       [] k = "shortFirmware"   -> Failed("c8y_Firmware")
       [] k = "shortMessage"    -> Failed("c8y_Message")
       [] k = "badSensor"       -> changed \o Failed("c8y_Command")
       [] k \in {"badConfig", "unknownTemplate", "unknownCommand", "shortSpeed"} ->
            Failed("c8y_Command")
       [] k = "restartConfirm"  -> << <<"503", "c8y_Restart">> >>
       [] k = "restart"         -> << <<"501", "c8y_Restart">> >>

\* A command is acknowledged exactly as its outcome demands (each 501 before
\* its 502 or 503, for the right operation type, once, with its news first)
\* by the time the engine is ready for the next one or blocks for a restart,
\* unless AssetUpdate ran in the middle of ExecuteCommand.
AckProtocol ==
  (~ Executing /\ ~ overlap /\ current # "none"
     /\ commandProgress \in {"WAITING", "BLOCKING"})
    => reports = Expected(current)

\* The engine blocks only for a restart that is really coming (comment at
\* MQTTOperation.c:830), again unless AssetUpdate ran inside ExecuteCommand.
BlockingIsRestart ==
  (commandProgress = "BLOCKING" /\ ~ overlap) => RestartPending

\* From the acceptance of a restart to the reset no other command is taken
\* out of the queue, and nothing is told but that the restart is executing.
RestartExclusive ==
  (RestartPending /\ ~ overlap) =>
     /\ current = "restart"
     /\ commandProgress \in {"BEFORE_EXECUTING", "BLOCKING"}
     /\ reports \in { << >>, << <<"501", "c8y_Restart">> >> }

\* Why the two hold: as long as AssetUpdate keeps out of ExecuteCommand, the
\* App task and the restart timer agree on the command and on its progress.
Ordered ==
  ~ overlap =>
     /\ Executing => ~ Updating /\ reports = << >>
     /\ app \in {"reset", "template", "body"} => commandProgress = "BEFORE_EXECUTING"
     /\ app = "body" => command = TemplateCode(current)
     /\ app = "finish" =>
          /\ command = FinalCode(current)
          /\ commandProgress = ProgressAfter(current, "BEFORE_EXECUTING")
     /\ app \in {"body", "finish"} /\ current = "restart" => RestartPending
     /\ ~ Executing /\ commandProgress = "BEFORE_EXECUTING"
          /\ command = "CMD_RESTART" => RestartPending
     /\ commandProgress = "BLOCKING" => RestartPending
     /\ RestartPending =>
          /\ current = "restart" /\ command = "CMD_RESTART"
          /\ app \notin {"reset", "template"}
          /\ \/ commandProgress = "BEFORE_EXECUTING" /\ reports = << >>
             \/ commandProgress = "BLOCKING" /\ reports = << <<"501", "c8y_Restart">> >>

\* A command leads back to waiting for the next one or to the reset that wipes it.
ProgressReturns ==
  (commandProgress # "WAITING") ~> (commandProgress = "WAITING" \/ overlap)

\* A command in the queue is executed, or lost with the queue in a reset.
QueueServed ==
  (commandQueue # << >>) ~> (Executing \/ commandQueue = << >> \/ overlap)

\* "set flag so that XDK acknowledges reboot command" (MQTTOperation.c:184): an
\* accepted restart is confirmed by the boot after the reset, the 503 is in the
\* asset buffer, whatever resets the device while the flag is in flash.  It is
\* lost if an unexpected reset comes before RestartCallback writes the flag
\* (MQTTOperation.c:404), or between the clearing of the flag (:272) and the
\* report, or if button 2 clears the flag.  A publication of the 503 that fails
\* is a matter of AssetStream.
RestartConfirmed == owed = "yes" ~> (owed # "yes" \/ overlap)

\* A broker that is there and accepts publications and subscriptions again and
\* again, and the keep-alive message of every 60th update.
WillingBroker ==
  /\ SF_vars(PublishBegin \/ PublishRefused)
  /\ SF_vars(PublishEnd(TRUE)) /\ SF_vars(Subscribe(TRUE))
  /\ SF_vars(TickGive(TRUE))

\* With such a broker the device ends up able to receive operations
\* (README.md:123), after every boot, unless a button starts or stops the
\* measurements before: those commands, too, write assetUpdateProcess
\* (MQTTOperation.c:223, 235).
BecomesSubscribed ==
  /\ WillingBroker
  /\ [](subscribed \/ current \notin {"startButton", "stopButton"})
  => []<>subscribed

\* The claims as they are made, for any interleaving.

\* "if restart is triggered nothing else can be initiated"
\* (MQTTOperation.c:830): the engine blocks for a restart, so the block ends.
EngineRecovers == (commandProgress = "BLOCKING") ~> (commandProgress # "BLOCKING")
=============================================================================
