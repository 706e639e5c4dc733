---------------------------- MODULE SensorStream ----------------------------
(***************************************************************************)
(* The measurements of source/MQTTOperation.c: SensorUpdate (the timer     *)
(* service task) writes them into sensorStreamBuffer, ClientPublish (the   *)
(* App task) sends and empties it.  Both use semaphoreSensorBuffer and     *)
(* give it back even when they did not get it; when there is no connection *)
(* ClientPublish empties the buffer without it.                            *)
(*                                                                         *)
(* The commands start, stop and speed act on the timer of SensorUpdate.    *)
(* app_status follows them, the connection and the buffer; button one      *)
(* looks at it to know whether to ask for a start or for a stop.           *)
(*                                                                         *)
(* Lengths are counted in lines, and contents are left out.                *)
(***************************************************************************)
EXTENDS Naturals, Sequences

CONSTANTS
  Lines,          \* what one SensorUpdate appends
  Capacity,       \* what sensorStreamBuffer.data holds, 512 characters
  MaxLength,      \* bound: no update begins that could exceed it
  QueueLength     \* slots of commandQueue, 4 in the code

\* One update fits: all sensors together write at most 408 characters.
ASSUME SizesAssumption ==
  /\ Lines \in Nat \ {0} /\ Capacity \in Nat /\ MaxLength \in Nat
  /\ Lines <= Capacity
ASSUME QueueAssumption == QueueLength \in Nat \ {0}

\* startButton and stopButton do here what start and stop do.
Commands == {"start", "stop", "speed", "restart"}

Statuses == {"STARTED", "OPERATING_STARTED", "OPERATING_STOPPED", "ERROR", "REBOOT"}

VARIABLES
  length,                 \* sensorStreamBuffer.length
  semaphoreSensorBuffer,
  timer,                  \* timerHandleSensor is active
  tick, remaining,        \* where SensorUpdate is, and the lines it has to add
  offset,                 \* where it read the length to be
  app, retcodeOk,         \* where the App task is, and its retcode
  payload,                \* MqttPublishDataInfo.PayloadLength
  app_status,
  commandQueue,
  online,                 \* WLAN and broker can be reached
  \* history
  visit,                  \* since the last update began, the App task did not
                          \* look at the buffer, looks at it, or looked at it
  wanted,                 \* the last of start and stop that was executed
  excuses                 \* see Excuses

buffer == << length, semaphoreSensorBuffer >>
updating == << tick, remaining, offset >>
control == << timer, app_status, wanted >>
vars == << buffer, updating, control, app, retcodeOk, payload, commandQueue,
           online, visit, excuses >>

\* What the properties make exceptions for.
Excuses == {
  "behind",     \* an update began before the App task was done with the last
  "long",       \* somebody waited longer than SEMAPHORE_TIMEOUT
  "cleared",    \* the buffer was emptied in the middle of an update
  "leftover",   \* the last stop met measurements in the buffer or on their way
  "resumed"}    \* after the last stop speed started the timer again

\* SensorUpdate is between the take and the give.
Updating == tick \in {"format", "count"}
\* ClientPublish is between the take and the give.
Publishing == app \in {"send", "wait", "zero", "give"}

TypeOK ==
  /\ length \in 0..MaxLength
  /\ semaphoreSensorBuffer \in {0, 1}
  /\ timer \in BOOLEAN
  /\ tick \in {"idle", "waiting", "format", "count"}
  /\ remaining \in 0..Lines
  /\ offset \in 0..MaxLength
  /\ app \in {"validate", "connecting", "section", "take", "send", "wait",
              "zero", "give", "clear", "poll"}
  /\ retcodeOk \in BOOLEAN
  /\ payload \in 0..MaxLength
  /\ app_status \in Statuses
  /\ commandQueue \in Seq(Commands) /\ Len(commandQueue) <= QueueLength
  /\ online \in BOOLEAN
  /\ visit \in {"due", "begun", "done"}
  /\ wanted \in {"started", "stopped"}
  /\ excuses \subseteq Excuses

Init ==
  /\ length = 0 /\ semaphoreSensorBuffer = 1
  /\ timer = TRUE
  /\ tick = "idle" /\ remaining = 0 /\ offset = 0
  /\ app = "validate" /\ retcodeOk = TRUE
  /\ payload = 0
  /\ app_status = "STARTED"
  /\ commandQueue = << >>
  /\ online = TRUE
  /\ visit = "done"
  /\ wanted = "started"
  /\ excuses = {}

-----------------------------------------------------------------------------
\* Shared operations.

Take == semaphoreSensorBuffer = 1 /\ semaphoreSensorBuffer' = 0

\* xSemaphoreGive: giving a semaphore nobody holds has no effect.
Give == semaphoreSensorBuffer' = 1

\* AppController_SetAppStatus; only the App task calls it in operation mode.
SetAppStatus(status) ==
  app_status' = IF app_status = "REBOOT" THEN "REBOOT" ELSE status

Excuse(why, cond) == excuses' = excuses \cup {e \in {why} : cond}

-----------------------------------------------------------------------------
\* SensorUpdate, in the timer service task.

TickTo(from, to) ==
  /\ tick = from /\ tick' = to
  /\ UNCHANGED << control, app, retcodeOk, payload, commandQueue, online >>

\* The timer expires; the callback waits for the semaphore.
TickFire ==
  /\ timer
  /\ TickTo("idle", "waiting")
  /\ UNCHANGED << buffer, remaining, offset, visit, excuses >>

TickTake ==
  /\ length + Lines <= MaxLength
  /\ TickTo("waiting", "format")
  /\ Take
  /\ remaining' = Lines
  /\ visit' = "due"
  /\ Excuse("behind", visit # "done")
  /\ UNCHANGED << length, offset >>

\* The take timed out; the semaphore is given all the same.
TickRefused ==
  /\ semaphoreSensorBuffer = 0
  /\ TickTo("waiting", "idle")
  /\ Give
  /\ Excuse("long", TRUE)
  /\ UNCHANGED << length, remaining, offset, visit >>

\* length += snprintf(data + length, ...), in two steps.
TickFormat ==
  /\ remaining > 0
  /\ TickTo("format", "count")
  /\ offset' = length
  /\ UNCHANGED << buffer, remaining, visit, excuses >>

\* The compiler may take the old length before or after the call of snprintf.
TickCount ==
  /\ TickTo("count", "format")
  /\ length' \in {length + 1, offset + 1}
  /\ remaining' = remaining - 1
  /\ UNCHANGED << semaphoreSensorBuffer, offset, visit, excuses >>

TickGive ==
  /\ remaining = 0
  /\ TickTo("format", "idle")
  /\ Give
  /\ UNCHANGED << length, remaining, offset, visit, excuses >>

-----------------------------------------------------------------------------
\* ClientPublish, in the App task.

AppTo(from, to) ==
  /\ app = from /\ app' = to
  /\ UNCHANGED << updating, timer, wanted, online >>

\* ValidateWLANConnectivity finds a connection.  Sending the asset data, which
\* comes next and shares retcode, may fail or take long.
ValidateFine ==
  /\ online
  /\ AppTo("validate", "section")
  /\ retcodeOk' \in BOOLEAN
  /\ UNCHANGED << buffer, app_status, payload, commandQueue, visit, excuses >>

ValidateLost ==
  /\ ~online
  /\ AppTo("validate", "connecting")
  /\ SetAppStatus("ERROR")
  /\ UNCHANGED << buffer, retcodeOk, payload, commandQueue, visit, excuses >>

\* Reconnecting, subscribing and their timeouts are over.
Connecting ==
  /\ AppTo("connecting", "section")
  /\ retcodeOk' \in {FALSE, online}
  /\ UNCHANGED << buffer, app_status, payload, commandQueue, visit, excuses >>

\* Where a look at the buffer begins and ends: it counts for the last update
\* when that was over before.
LookBegins == visit' = IF visit = "due" /\ ~Updating THEN "begun" ELSE visit
LookEnds == visit' = IF visit = "begun" THEN "done" ELSE visit

SectionEmpty ==
  /\ length = 0
  /\ AppTo("section", "poll")
  /\ visit' = IF visit = "due" /\ ~Updating THEN "done" ELSE visit
  /\ UNCHANGED << buffer, app_status, retcodeOk, payload, commandQueue, excuses >>

\* Mutant: without a connection the measurements are kept.
SectionKeeps ==
  /\ length > 0
  /\ AppTo("section", IF retcodeOk THEN "take" ELSE "poll")
  /\ SetAppStatus("OPERATING_STARTED")
  /\ visit' = IF visit = "due" /\ ~Updating
              THEN IF retcodeOk THEN "begun" ELSE "done"
              ELSE visit
  /\ UNCHANGED << buffer, retcodeOk, payload, commandQueue, excuses >>

\* Mutant: the status is left alone.
SectionSilent ==
  /\ length > 0
  /\ AppTo("section", IF retcodeOk THEN "take" ELSE "clear")
  /\ LookBegins
  /\ UNCHANGED << buffer, app_status, retcodeOk, payload, commandQueue, excuses >>

SectionFilled ==
  /\ length > 0
  /\ AppTo("section", IF retcodeOk THEN "take" ELSE "clear")
  /\ SetAppStatus("OPERATING_STARTED")
  /\ LookBegins
  /\ UNCHANGED << buffer, retcodeOk, payload, commandQueue, excuses >>

\* Mutant: ClientPublish does not use the semaphore.
PublishUnlocked ==
  /\ AppTo("take", "send")
  /\ UNCHANGED << buffer, app_status, retcodeOk, payload, commandQueue, visit,
                  excuses >>

PublishTake ==
  /\ AppTo("take", "send")
  /\ Take
  /\ UNCHANGED << length, app_status, retcodeOk, payload, commandQueue, visit,
                  excuses >>

\* The take timed out; the semaphore is given all the same.
PublishRefused ==
  /\ semaphoreSensorBuffer = 0
  /\ AppTo("take", "poll")
  /\ Give
  /\ LookEnds
  /\ Excuse("long", TRUE)
  /\ UNCHANGED << length, app_status, retcodeOk, payload, commandQueue >>

PublishSend ==
  /\ AppTo("send", "wait")
  /\ payload' = length
  /\ UNCHANGED << buffer, app_status, retcodeOk, commandQueue, visit, excuses >>

\* The broker took it, or not: that makes no difference here.
PublishDone ==
  /\ AppTo("wait", "zero")
  /\ payload' = 0
  /\ UNCHANGED << buffer, app_status, retcodeOk, commandQueue, visit, excuses >>

\* Mutant: the length is not reset.
PublishForgetsZero ==
  /\ AppTo("zero", "give")
  /\ UNCHANGED << buffer, app_status, retcodeOk, payload, commandQueue, visit,
                  excuses >>

\* memset(data, 0, length); length = 0
PublishZero ==
  /\ AppTo("zero", "give")
  /\ length' = 0
  /\ UNCHANGED << semaphoreSensorBuffer, app_status, retcodeOk, payload,
                  commandQueue, visit, excuses >>

PublishGive ==
  /\ AppTo("give", "poll")
  /\ Give
  /\ LookEnds
  /\ UNCHANGED << length, app_status, retcodeOk, payload, commandQueue, excuses >>

\* Without a connection: the same two statements, but no semaphore.
Clear ==
  /\ AppTo("clear", "poll")
  /\ length' = 0
  /\ LookEnds
  /\ Excuse("cleared", Updating)
  /\ UNCHANGED << semaphoreSensorBuffer, app_status, retcodeOk, payload,
                  commandQueue >>

\* No command, or the last one is not acknowledged yet.
PollSkip ==
  /\ AppTo("poll", "validate")
  /\ UNCHANGED << buffer, app_status, retcodeOk, payload, commandQueue, visit,
                  excuses >>

-----------------------------------------------------------------------------
\* ExecuteCommand, as far as the timer and the status are concerned.

ExecuteTo(command) ==
  /\ app = "poll" /\ app' = "validate"
  /\ commandQueue # << >> /\ Head(commandQueue) = command
  /\ commandQueue' = Tail(commandQueue)
  /\ UNCHANGED << buffer, updating, retcodeOk, payload, online, visit >>

StartTimer ==
  /\ ExecuteTo("start")
  /\ timer' = TRUE
  /\ SetAppStatus("OPERATING_STARTED")
  /\ wanted' = "started"
  /\ excuses' = excuses \ {"leftover", "resumed"}

\* Mutant: the timer goes on.
StopTimerForgotten ==
  /\ ExecuteTo("stop")
  /\ SetAppStatus("OPERATING_STOPPED")
  /\ wanted' = "stopped"
  /\ excuses' = (excuses \ {"leftover", "resumed"})
                  \cup {e \in {"leftover"} : length > 0 \/ tick # "idle"}
  /\ UNCHANGED timer

StopTimer ==
  /\ ExecuteTo("stop")
  /\ timer' = FALSE
  /\ SetAppStatus("OPERATING_STOPPED")
  /\ wanted' = "stopped"
  /\ excuses' = (excuses \ {"leftover", "resumed"})
                  \cup {e \in {"leftover"} : length > 0 \/ tick # "idle"}

\* xTimerChangePeriod also starts a timer that is not running.
Speed ==
  /\ ExecuteTo("speed")
  /\ timer' = TRUE
  /\ Excuse("resumed", ~timer)
  /\ UNCHANGED << app_status, wanted >>

Restart ==
  /\ ExecuteTo("restart")
  /\ SetAppStatus("REBOOT")
  /\ UNCHANGED << timer, wanted, excuses >>

-----------------------------------------------------------------------------
\* Where commands come from, and the connection.

\* Mutant: there is room for any number of them.
EnqueueBlindly(command) ==
  /\ commandQueue' = Append(commandQueue, command)
  /\ UNCHANGED << buffer, updating, control, app, retcodeOk, payload, online,
                  visit, excuses >>

Enqueue(command) ==
  /\ Len(commandQueue) < QueueLength
  /\ commandQueue' = Append(commandQueue, command)
  /\ UNCHANGED << buffer, updating, control, app, retcodeOk, payload, online,
                  visit, excuses >>

ClientReceive == online /\ \E c \in Commands : Enqueue(c)

\* button1Callback, a short press; the command processor may pass it on later,
\* when it is like a command from the cloud.
Button1 ==
  \/ app_status = "OPERATING_STARTED" /\ Enqueue("stop")
  \/ app_status = "OPERATING_STOPPED" /\ Enqueue("start")

Network ==
  /\ online' = ~online
  /\ UNCHANGED << buffer, updating, control, app, retcodeOk, payload,
                  commandQueue, visit, excuses >>

\* The board starts again.
Boot ==
  /\ length' = 0 /\ semaphoreSensorBuffer' = 1
  /\ timer' = TRUE
  /\ tick' = "idle" /\ remaining' = 0 /\ offset' = 0
  /\ app' = "validate" /\ retcodeOk' = TRUE
  /\ payload' = 0
  /\ app_status' = "STARTED"
  /\ commandQueue' = << >>
  /\ visit' = "done"
  /\ wanted' = "started"
  /\ excuses' = {}
  /\ UNCHANGED online

\* The restart timer fires, or the connection failed too often.
SoftReset ==
  /\ \/ app_status = "REBOOT" /\ tick = "idle"
     \/ app = "connecting" /\ ~online
  /\ Boot

-----------------------------------------------------------------------------
TimerTask == TickFire \/ TickTake \/ TickRefused \/ TickFormat \/ TickCount \/ TickGive

AppTask ==
  \/ ValidateFine \/ ValidateLost \/ Connecting
  \/ SectionEmpty \/ SectionFilled
  \/ PublishTake \/ PublishRefused \/ PublishSend \/ PublishDone
  \/ PublishZero \/ PublishGive \/ Clear
  \/ PollSkip \/ StartTimer \/ StopTimer \/ Speed \/ Restart

Next == TimerTask \/ AppTask \/ ClientReceive \/ Button1 \/ Network \/ SoftReset

Spec == Init /\ [][Next]_vars

\* Each call of the App task returns, the timer service serves the timer, and
\* the publisher waits for the semaphore longer than an update keeps it.
Fairness ==
  WF_vars(AppTask) /\ WF_vars(TimerTask) /\ SF_vars(PublishTake)

FairSpec == Spec /\ Fairness

-----------------------------------------------------------------------------
\* "ignore previous measurements in order to prevent buffer overrun"
\* (MQTTOperation.c:555): what is counted never exceeds the buffer.
NeverOverrun == length <= Capacity

\* It does not, with or without a connection, as long as the App task looks at
\* the buffer between any two updates.
PromptNeverOverruns == "behind" \notin excuses => length <= Capacity

\* Cumulocity gets the measurements of whole updates only, unless the tasks
\* kept each other waiting or the connection came back in the middle of one.
WholeUpdates ==
  excuses \cap {"behind", "long", "cleared"} = {} /\ app = "wait"
    => payload = Lines

\* After a stop nothing is measured and nothing is published, the status never
\* says otherwise, and so button one asks for a start (README.md:153, 195),
\* until the next start; unless measurements were under way or speed came.
StoppedIsSilent ==
  wanted = "stopped" /\ excuses \cap {"leftover", "resumed"} = {}
    => /\ ~timer /\ tick = "idle" /\ length = 0
       /\ app_status # "OPERATING_STARTED"

\* Measurements leave the buffer, published or not.
BufferIsEmptied == (length > 0) ~> (length = 0)

\* Once the device is connected for good and measures, the red light goes off
\* (README.md:192): the status does not stay ERROR.
ErrorClears == <>[](online /\ timer) => <>[](app_status # "ERROR")
=============================================================================
