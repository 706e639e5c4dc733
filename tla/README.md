# Verification of the XDK agent for Cumulocity

The agent runs on a Bosch XDK under FreeRTOS. It registers the device with
Cumulocity over MQTT, streams measurements, and executes operations that
Cumulocity or the two buttons ask for. Its own code is in `source/`; FreeRTOS,
the Serval MQTT stack, the drivers and the broker are modelled only by what
`source/` sees of them.

## The system

### Tasks

| task | runs |
|---|---|
| App task | `MQTTOperation_Init`, then the endless loop `MQTTOperation_ClientPublish` (or the same of `MQTTRegistration`) |
| command processor | startup (`AppController_Init`, `_Setup`, `_Enable`), the button handlers, and the callbacks of the MQTT stack: `MqttEventHandler_Z`, `ClientReceive` |
| timer service task | one callback at a time: `AssetUpdate` each second, `SensorUpdate`, the LED blinker, the restart callbacks |

They share memory almost without locks. Two binary semaphores protect the two
text buffers; what describes a command (`command`, `commandProgress`,
`assetUpdateProcess`) is read and written by two tasks with no protection.

### Components

| component | state | operations | talks to | must hold |
|---|---|---|---|---|
| Command engine (`MQTTOperation.c`) | `commandQueue`, `command`, `commandProgress`, `assetUpdateProcess`, the restart timer, the boot flag in flash | receive, enqueue, dequeue, execute, report, restart | callbacks and buttons enqueue; the App task executes; the timer task reports | each command is acknowledged as its outcome demands; a restart excludes everything else and is confirmed after the reset; the device gets subscribed |
| Asset stream buffer (`MQTTOperation.c`, `AppController.c:82`) | `assetStreamBuffer`, `semaphoreAssetBuffer` | append (two tasks), publish and erase | timer task, callbacks, App task | messages arrive in order, whole, at most once |
| MQTT client (`MQTTClient.c`) | three semaphores, three flags, the session | connect, subscribe, publish, unsubscribe, the event handler | blocks App task and timer task; the stack calls the handler | a call returns; OK means that the broker accepted this request |
| Sensor stream (`MQTTOperation.c`) | `sensorStreamBuffer`, its semaphore, the sensor timer, `app_status` | measure, publish, start, stop, change of rate | buttons and commands through the engine | no overrun, no measurements after a stop |
| Connectivity (`MQTTOperation.c`, `MQTTRegistration.c`) | `connectAttemps`, WLAN, SNTP and broker state | validate, reconnect, resubscribe, reset after ten attempts | called by each loop of the App task | connected again after each loss, with subscriptions |
| Registration mode (`MQTTRegistration.c`) | its timer, the credentials | request and receive credentials, store them, restart | storage, parser | ends in operation mode with the credentials stored |
| Storage (`MQTTStorage.c`) | configuration and boot flag in flash, configuration on SD card | read, write, delete | startup, engine, registration | a reset leaves a configuration to boot from |
| Configuration parser (`MQTTCfgParser.c`) | the attribute table, its mode | parse, set, get, save | startup, engine | what is saved is read back |
| Startup, status and LEDs (`AppController.c`) | `app_status`, `cmd_status`, the three lights | set up, enable, blink | every task | the lights say what the README's table says |
| Buttons (`MQTTButton.c`) | - | enqueue start, stop, reset of the boot flag, printing | `app_status`, command queue | button one asks for the opposite of what the device does |

### What is hard

The two halves of a command run on different tasks at their own pace; a restart
crosses a reset; a call to the broker may time out and be answered later; the
semaphore of the asset buffer is given by tasks that do not hold it, and one
writer ignores it; measurements go on while the App task is blocked in a call;
the status that the lights show, and that button one looks at, has several
writers. `PROJECT.json` lists these hazards with their lines and the
properties that watch them.

## The modules

| module | models |
|---|---|
| `OperationCommands` | the command engine |
| `AssetStream` | the asset buffer, access by access |
| `LossyStream` | abstract: what Cumulocity may rely on about the messages |
| `MQTTClient` | the blocking calls and the event handler |
| `BrokerCalls` | abstract: what a caller may rely on about a call |
| `Connectivity` | first connection, validation, reconnection and subscription, in both modes |
| `DeviceBoot` | startup, mode, registration, the files in flash and the SD card |
| `DeviceLifecycle` | abstract: what the owner may rely on about the credentials |
| `SensorStream` | the sensor buffer, its timer, and the status they share with button one |
| `CfgParser` | tokenizer, parser, the two files, setters and saving |
| `ConfigFile` | reference: what the lines of a `config.txt` mean |
| `StatusLed` | application and command status and the LEDs, composed with `Connectivity` |
| `MC*` | instances for TLC |
| `OperationCommands_proofs`, `MQTTClient_proofs`, `Connectivity_proofs`, `DeviceBoot_proofs`, `AssetStream_proofs`, `SensorStream_proofs`, `StatusLed_proofs`, `CfgParser_proofs` | theorems and their proofs |

### OperationCommands

A command line is abstracted to its kind: the sets `Immediate`, `ButtonActions`,
`Deferred`, `Incomplete` and `UnknownKey` group what `ExecuteCommand` treats
alike, and `TemplateCode`, `FinalCode`, `ProgressAfter`, `ChangesAsset` say what
token 0, token 2 and the rest do to the shared variables. `AckType` is the table
`commands[]`, `NewsOf` the first switch of `AssetUpdate`.

The App task's loop is cut where another task's step makes a difference: taking
and giving the semaphore, the broker's answer, the dequeue, and in
`ExecuteCommand` the reset of `command`, token 0, the later tokens and the final
test of completeness. `AssetUpdate` is cut into the take, its two switches and
the give. Each is one action; a timer callback excludes the others, because
they share a task. The buffer is reduced to "not empty" here.

`Reboot` is what the boot code leaves: empty queue, or the restart's
confirmation if flash says one is pending. It follows `RestartFire` (flag
written, connection being closed while the App task still runs) or comes as a
`Crash`, which stands for power loss, a failed assertion and the `SoftReset` of
`ValidateWLANConnectivity`. A full queue drops a command, which changes nothing
and is therefore no step.

Only the first subscription of a boot is here, and a subscription that failed
half-way counts as one, as its restart topic may be there; later ones, and lost
ones, are in `Connectivity`.

`reports` records what was written since the last dequeue. `owed` is "yes" from
the acceptance of a restart to its 503, and "lost" when the 503 will never come:
a `Crash` before the flag is in flash (MQTTOperation.c:404) or after the boot
cleared it (line 272), or button 2, which clears it, too. `overlap` records that
in this boot an `AssetUpdate` took the semaphore while a command was being
executed, or a command was dequeued while an `AssetUpdate` ran.

### AssetStream

A message is a number. `Put` and `Count` are the two halves of
`length += snprintf(data + length, ...)`; the compiler may read the old length
before or after the call, so `Count` adds to either. The App task sends the
first `length` places, erases them and resets the length in separate steps, and
gives the semaphore at the end, as all do, also when its take failed. The
callback appends without the semaphore. `late` records that a publication
lasted until the second `AssetUpdate` after it began (or that an update lasted
longer than `SEMAPHORE_TIMEOUT`), `torn` that the callback appended while another
task was in the buffer. The buffer is large
enough here.

### MQTTClient

Each call goes through begin, clear (the flag), drain (the dummy take), send,
wait, and check; the event handler sets the flag in one step and gives the
semaphore in the next. A request is a record with an id, so that one can say
which request an answer belongs to; the code has no such id. Unsubscribing uses
the channel of subscribing and its event gives nothing. Answers may be lost,
and on the channels in `LateChannels` come in the middle of later calls.
Connecting can also fail before its flag and semaphore are touched
(MQTTClient.c:333-395, 407-410); this is a refused `Send` here. `Exclusive` says
of which calls `BrokerCalls` promises something about this very request: on
channels that neither another task nor late answers reach. The URL, the
credentials and the callback pointer, which is the same in all calls of a mode,
are left out.

### Connectivity

The App task alone, with WLAN, SNTP and broker around it. `mode` is which `Init`
it was created with; what the two modes share is one action, and `Topics` and
`GiveUp` say where they differ: three topics or one, a reset or
`vTaskSuspend`. `SubscribeMore` and `Subscribed` keep that the result of the
restart topic is overwritten, `DisableSntp` and `EnableSntp` that their results
are, too. A call that fails may still take effect (its answer came after the
timeout), so a device can be connected without having subscribed. `inner` marks
the validation that follows a failed first subscription (line 511). Publishing
is reduced to whether it succeeded. `excused` records that a call failed since
the last subscription began; without it "no topic is forgotten" is false, which
is what `topics_lost` shows.

### DeviceBoot

`step` follows `AppController_Setup` and `_Enable` to the running task; `saving`
follows the handler that saves the configuration: in registration from the
message with the credentials over the card, RAM and flash to the restart timer,
in operation mode the one write of a command. Of a configuration only `MQTTUSER`
is kept, with two values: the default, which means registration, and that of the
device. `ParseConfig` reads flash, then the card, which overwrites what it
names; a file that can be read counts as good, those the parser rejects
(MQTTCfgParser.c:427-447) are in `CfgParser`. A `Reset` during a write leaves
the old file, the new one, or one that cannot be read (`Survives`); resets come
from the restart timer, from a lost connection, from failures of `Enable` and
from outside at any time. The restart timer does not wait for a handler that is
saving. `SD_Write` ends without a return value when the file opened, so
`AppendCredentials` goes on or asserts, and the card never gets the credentials.
`halted` is a failed assertion, `idle` a device whose startup went wrong without
one.

`mishaps` counts what fails or comes from outside. `given`, `asked`, `overruled`
and `skipped` record who supplied credentials, whether the owner asked for
another identity (button 2 at startup, or `config MQTTUSER`), whether in this
boot the user in flash did not count, and whether the last save found no flash.
`DeviceLifecycle` allows credentials to appear in flash only while writing given
ones, to disappear only when asked or when the device stops in the middle of
writing, and operation only with given credentials.

### SensorStream

Lengths are counted in lines; contents are left out. `SensorUpdate` is cut into
the expiry, the take, the two halves of each `length += snprintf(...)` (as in
`AssetStream`) and the give; the App task into validation, the blocking
connection, the look at the length (`Section*`), the take, sending, resetting
and giving, the clearing without the semaphore (`Clear`), and the poll of the
command queue. Both tasks give the semaphore when they did not get it. Of the
commands only those that act on the timer or the status are here: `start`,
`stop`, `speed` (`xTimerChangePeriod` starts a stopped timer) and `restart`.
`Button1` reads `app_status`. `visit` records whether the App task was done with
the buffer since the last update began, `wanted` the last start or stop,
`excuses` what the properties make exceptions for: an update on top of another,
a wait longer than `SEMAPHORE_TIMEOUT`, a clearing in the middle of an update,
measurements on their way when a stop was executed, a `speed` after a stop.

### CfgParser and ConfigFile

A file is a sequence of symbols: attribute names, words, `=`, `#`, blanks and
line ends, so that a token is a sequence, too, and a name glued to a word is not
a name. `Start`, `Stops`, `Token` and `TokenType` are `GetToken`, one action per
state of `MQTTCfgParser_Config` uses them, `Return` is what
`MQTTCfgParser_ParseConfigFile` makes of the result. `LongWord` stands for what
does not fit into a token: the code's loop then never advances, and no action of
the model is enabled. A second definition of an attribute ends the parsing of
the flash, when its value is already copied (`SetTwice`). The agent's own
setters and `ConfigText`, which writes every attribute, defined or default,
close the circle: save, reset, parse. The texts have no limit here; the code
writes a saved configuration with `sprintf` into 512 bytes and does not check
(MQTTCfgParser.c:391-403).

`ConfigFile` knows nothing of tokens. It says, line by line, which files are
well formed and what they set. `CardThenFlashThenDefault` compares the two on
every file that is well formed, the flash without an attribute set twice; on the
others the parser's result is what the code does and nothing is promised. Line
ends are `\n` and `\r`, to the parser as to the writer. `Written` is what stands
behind the last `NAME=`, `Meaning` what the documentation means by it: without a
comment that follows the value (MQTTCfgParser.c:48, 209) and the blanks before
it. The parser takes the first, so `CardThenFlashThenDefault` is about files with
`NoInlineComments`; `InlineComments`, the same without that condition, fails.
`Meaning` keeps the blanks behind a value that no comment follows, as the
parser does; README.md:174 tells not to write any.
`IsValue` is what a value must be to come back from a file: it does not begin
with a blank, for instance, as the parser passes over it. Of the constants it is
assumed that the names are distinct and none of them a separator, that cards and
values are sequences of the symbols, and that `NoFile` is neither a file nor a
table of values. Any sequence may be on a card or be set by a command.

### StatusLed

Every action of `Connectivity` with what it writes into `app_status`: `GoOn`
nothing, `FindOffline` and `StartupFails` ERROR, `Operate` what the loop of
operation mode does. `starting` is the gap between the subscription of
registration mode and `StartTimer`, in which the credentials may already arrive.
The LED callback reads and writes `cmd_status` in two steps (`Blink`,
`Confirm`); `Switch` is its table. `registered` and `disturbed` record that
credentials arrived and that the connection was lost after that. The command
`toggle` is left out.

## The runs

Bounds: one queue slot of the code's four is enough, as one waiting command is
what a restart or an acknowledgement can be confused with; in both command runs
one unexpected reset can hit any step, besides those that a restart makes, so a
confirmation can be hit, too; three calls are an abandoned one, one of the other
task on its channel and one after that. `command_liveness` has the restart, a
failing command and the button that starts the measurements; the other kinds
differ only in their acknowledgements, which are `command_safety`'s, and button
2 only adds restarts that are lost, which `RestartConfirmed` excuses. In
`asset_stream` five messages let two publications and two writers overlap and a
sixth changes nothing. `status_led` and `topics_lost` count two attempts instead
of ten: the first may be forgiven, the second decides, and those in between
repeat the first. `sensor_stream` counts two lines per update and a buffer that
holds one update but not two, as in the code, where one update takes up to 408
of 512 characters; no update begins that could exceed twice the lines of one.
`cfg_parser` has two attributes; every file of up to three symbols of one name,
one word and all that separates them, as three symbols make at most one setting;
every pair of eleven lines, each line with one peculiarity (blanks, a comment,
`=` in a value, a missing value, a name as value, a tabulator, a word that is
too long); sixteen pairs of lines that end as in Windows; three values to set:
one with `=`, one that is a name, one with a leading blank, a line end (`\r`,
which `strtok` leaves in a command) and a second setting behind it; two
settings, each saved or not, and one restart. `inline_comments` needs no more
than the pairs of lines. It does not check for deadlock, as a parsed device may
be left alone and a token that is too long stops it. `device_boot` allows three
mishaps: one to spoil a registration, one to spoil the boot after it and one to
meet a rewrite. It does not check for deadlock, as an assertion stops the device
for good. The theorems have no such bounds.

| run | question | answer |
|---|---|---|
| `command_safety` | are the acknowledgements right, does a restart exclude the rest? | yes, as long as `AssetUpdate` does not run inside `ExecuteCommand` |
| `command_liveness` | does each command lead back to waiting, is the queue served, is a restart confirmed, does a device with a willing broker subscribe after each boot, with a reset at any step? | yes, likewise; a restart if its flag is in flash when the reset comes; the subscription if no start or stop button comes before |
| `blocked_forever` | does a blocked engine get out again? | no: an update between lines 571 and 166 blocks it with no restart coming |
| `client_calls` | does OK mean that a success was heard, is no answer lost, does the client implement `BrokerCalls`? | yes: each call returns; the answer is to this very request where answers are not late and the channel is not shared |
| `asset_stream` | is the buffer the stream promised? | yes until a publication is long or the callback appends while another task is in the buffer; order survives the first, nothing the second: with five messages one may even arrive twice |
| `status_led` | after any losses, are all topics there again, is a reset justified, does the device come back online, and do the lights tell? | yes: the topics unless a call failed; registration may suspend itself, and is then neither online nor red |
| `topics_lost` | do lost topics come back? | no: the next validation finds the device connected and subscribes nothing |
| `device_boot` | do credentials survive and take effect across failures, resets and changes of the card? | yes: registration restarts only after saving (or without flash), saved credentials lead to operation, and `DeviceLifecycle` is implemented |
| `sensor_stream` | is what is published whole, is the buffer emptied and kept within its size, is a stop a stop, does ERROR end? | yes, as long as the App task looks at the buffer between two updates, and with the excuses above |
| `sensor_overrun` | is the buffer overrun prevented, as line 555 says? | no: updates go on while the App task is connecting |
| `cfg_parser` | do the files mean to the parser what they mean to their writer, and does what was saved come back? | yes, for well-formed files with any line ends and without comments behind values, and for values that are values to the parser; and it ends |
| `inline_comments` | does a comment end a value, as line 209 says? | no: it becomes part of the value |

More deviations are in the models without a run of their own. An answer to a
timed-out call that arrives after the next call's dummy take is credited to that
call, although MQTTClient.c:398 says it is cleared; on channels with such
answers `ImplementsCalls` asks only that the call returns. A restart whose
device is reset before the flag is in flash, or between the clearing of the flag
and the 503, stays EXECUTING in Cumulocity for ever, although
MQTTOperation.c:184 says "set flag so that XDK acknowledges reboot command";
`RestartConfirmed` counts it as lost. Nor is the 503 confirmed to have been
published: it leaves the asset buffer also when its publication fails
(`AssetStream`). The credentials are never written to the SD card, although
README.md:107 says so (`SDWriteReturns`). `Removed` of `MQTTClient` gives no
semaphore, so an unsubscription returns an error even when the broker confirmed
it. And the `overlap` that `RestartExclusive` excludes is real: an `AssetUpdate`
between lines 166 and 184 takes a restart for an ordinary command, and the next
command runs before the reset. A start or stop button pressed before the first
subscription overwrites `assetUpdateProcess` (MQTTOperation.c:223, 235), and the
device does not subscribe in this boot; `BecomesSubscribed` excludes it. From
its second try on `AssetUpdate` gets the semaphore of the asset buffer during a
publication, as its first gave it without holding it, although line 928 says
"release semaphore and let publish thread access the buffer".

README.md:173 says that a file with Windows line endings "cannot be parsed
correctly". The parser takes `\r` for a line end wherever it takes `\n`, and
`cfg_parser` and `FilesMean` show that such files mean what they say.

A file whose `NAME=` has no value parses without an error, but everything after
it is ignored and the default stays, although the comment at
MQTTCfgParser.c:199 speaks of "empty attribute values to deleted compiled
defaults". Values that are an attribute name or begin with `=` can be set by a
command and make the saved file one that is rejected at the next boot; so can
those with a tabulator or `\r` and another setting behind it, which is rejected
as "Twice definition" after its value was copied.

ERROR is left only by the next measurement or command: a registration whose
connection came back goes on showing it, a stopped device, too, and its button
one is dead as long (README.md:192, 195). Registration that cannot connect at
startup suspends its task and goes on blinking red as if it were starting. A
late measurement after a stop, or one that is found while the device is offline,
sets OPERATING_STARTED. In ERROR the yellow light stays as it was, and a command
turns the red one over for one period.

### Fairness

`OperationCommands!FairSpec`: the App task ends each loop with a `vTaskDelay`
and never blocks for ever, so it goes on (weak fairness of `AppTask`); the timer
service runs each expired timer and each callback ends (weak fairness of
`TimerTask`); `AssetUpdate` is periodic and finds the semaphore free again and
again, and the restart timer is not starved by it (strong fairness of `TickTake`
and `RestartFire`). No message needs to arrive and no publication to succeed.
`WillingBroker`, a hypothesis of `BecomesSubscribed` alone, adds a broker that
accepts again and again and the keep-alive text of each 60th update, the only
thing that fills the buffer after a failed first publication.
`Connectivity!FairSpec` and `StatusLed!LedSpec`: each call of the App task
returns, by its timeout at the latest; no connection needs to succeed, no light
to be switched. `SensorStream!FairSpec`: both tasks go on, and the App task gets
the semaphore if it is free again and again, as it waits for it longer than an
update keeps it; the network may stay away and no command needs to come.
`CfgParser!FairSpec`: parsing goes on. `MQTTClient!FairSpec`: tasks go on, the
handler finishes, and the stack ends a request it cannot complete with a timeout
of its own. `DeviceBoot!FairSpec`: startup and a handler that has begun go on,
and a running restart timer fires; nobody needs to press a button, send
credentials or switch the device off and on.

## The proofs

All are for every value of the constants: any queue length, any commands, any
number of resets; any set of tasks, any calls, answers early or late; any number
of mishaps; any size of updates and buffers; any number of attempts; any files of any
length, any attributes and any values.

| theorem | says |
|---|---|
| `OperationCommands_proofs!TypeCorrect` | types, and the bound of the queue |
| `OperationCommands_proofs!BlocksOnlyForRestart` | `BlockingIsRestart` |
| `OperationCommands_proofs!RestartIsExclusive` | `RestartExclusive` |
| `OperationCommands_proofs!CommandsAreAcknowledged` | `AckProtocol` |
| `MQTTClient_proofs!TypeCorrect` | types, and binary semaphores |
| `MQTTClient_proofs!OkIsAnswered` | `OkMeansAnswered` |
| `MQTTClient_proofs!AnswerIsNotLost` | `AnswerNotLost` |
| `MQTTClient_proofs!CallsImplemented` | `MQTTClient` implements `BrokerCalls` (without its fairness), which promises about this very request what `Exclusive` allows |
| `Connectivity_proofs!TypeCorrect` | types, and the bound of the counter |
| `Connectivity_proofs!TopicsAreKept` | `NoTopicForgotten` |
| `Connectivity_proofs!ResetsAreExcused` | `HealthyNeverResets` |
| `DeviceBoot_proofs!TypeCorrect` | types |
| `DeviceBoot_proofs!RegisteredDevicesOperate` | `RegisteredOperates` |
| `DeviceBoot_proofs!RestartsAreSaved` | `RestartsWithCredentials` |
| `DeviceBoot_proofs!LifecycleImplemented` | `DeviceBoot` implements `DeviceLifecycle` |
| `AssetStream_proofs!TypeCorrect` | types, and the bounds of the buffer |
| `AssetStream_proofs!TasksExclude` | `MutualExclusion` |
| `AssetStream_proofs!OrderHolds` | `DeliveredInOrder` |
| `AssetStream_proofs!StreamImplemented` | `AssetStream` implements `LossyStream`, up to the first long publication or update, or message on the error topic that meets another task in the buffer |
| `SensorStream_proofs!TypeCorrect` | types, a binary semaphore and the bound of the queue |
| `SensorStream_proofs!OneUpdateFits` | `PromptNeverOverruns` |
| `SensorStream_proofs!UpdatesArePublishedWhole` | `WholeUpdates` |
| `SensorStream_proofs!StopSilences` | `StoppedIsSilent` |
| `StatusLed_proofs!LedTypeCorrect` | types (`LedTypeOK`; proved, not run) |
| `StatusLed_proofs!RegistrationIsShown` | `RegisteredStays` |
| `StatusLed_proofs!ResetsAreShown` | `ResetIsShown` |
| `StatusLed_proofs!LightsAreTold` | `LightsTell` |
| `StatusLed_proofs!ConnectionUndisturbed` | every behaviour of `StatusLed` is one of `Connectivity`, so the theorems above hold of it |
| `CfgParser_proofs!TypeCorrect` | types, and the place in the buffer |
| `CfgParser_proofs!OneFileIsEnough` | `OneGoodFileIsEnough` |
| `CfgParser_proofs!FilesMean` | `CardThenFlashThenDefault` |
| `CfgParser_proofs!SavedIsRead` | `SavedComesBack` |
| `CfgParser_proofs!EveryStepAdvances` | each token and comment brings the parser on in its file (`Advances`; proved, not run) |

*Commands.* Neither property is inductive: whether the engine blocks rightly
depends on what `ExecuteCommand` is in the middle of. `Ordered` says it step by
step: while a command is executed without an update, progress is still
`BEFORE_EXECUTING`, `command` is what the tokens read so far make it, and from
token 0 of a restart on the timer runs; outside, `BEFORE_EXECUTING` with
`CMD_RESTART` and `BLOCKING` occur only with the timer running, and then the
command is the restart and at most its 501 was written. `OrderedStep` shows it
step by step, `OrderedHolds` that it is an invariant; TLC checks it too.
`AckProtocol` needs to know what has been told in between. `First(k)` is the
progress in which `ExecuteCommand` leaves command `k` and `Second(k)` the one
after the first report; `Told` says which messages were written in each, the
news of the asset included. `OutcomeHolds` goes through the commands once: the
tables of the code lead from `First` to `Expected`.

*Client.* `Inv` adds to the types that a running call has a request and no
outcome. `FlagHeard` says that from a call's clear on a raised flag was raised
by a success the call has heard of. `AnswerNotLost` needs that ids name
requests (`Ids`: none is given out twice, and a request not yet sent is neither
with the stack nor granted) and `AnswerKept`: between the event's two steps the
answer is in the event, afterwards in the semaphore, and the dummy takes of
other tasks empty other semaphores. For the refinement `Own` adds, of each task
whose channel is `Exclusive`, that all that is in it (the request with the stack,
the running event, the semaphore, the raised flag) is about the task's call
(`OwnCall`), whatever happens on the other channels.

*Connectivity.* `Kept` says what is subscribed in the middle of a subscription
(`Before(next)`) and outside (all topics, if due and nothing failed);
`StartsFresh` that nothing is due before the loop is reached; `Counted` where
the counter may exceed its limit: between the attempt that exceeds it and the
reset, with that attempt failed.

*Startup.* `Registering` follows credentials from the parsed configuration to
the restart; `Quiet` says that nothing is saved and no restart is due before the
task runs, without which a boot could inherit a timer. For the refinement
`Entitled` adds that credentials in RAM, flash or on the card were given, and
`Asking` that a user in RAM who differs from the device in flash was asked for.
`ResetInv` and `ResetStep` treat all resets at once.

*Asset stream.* The order needs `Extent`: the places that hold messages to be
sent, the one included that is written and not yet counted (`Appended`; the
length there may be 0 instead of the place before, for the App task may have
emptied the buffer between the writer's two steps). `Ascending`, `Behind` and
`Sending` then say that later messages are behind earlier ones inside the
buffer, the payload and what was delivered, and from each of them to the next.
None of it needs the semaphore, which is why the order survives a publication
that lasts too long. The refinement does: `Excluded` and `Alone` keep the length
as the writer read it (`Promised`), and `Waiting` and `Counted` are what
`LossyStream` sees.

*Sensor stream.* `PromptNeverOverruns` needs to know that the App task, when it
is done with an update, left the buffer empty: `Visits` says which of its places
go with which value of `visit`. `Prompt` is then the arithmetic of one update:
what is in the buffer and what is still to come are at most `Lines`. `Exclusion`
says that the semaphore excludes as long as nobody waited too long; without that
the reset of the length could hit an update and `Whole` (all lines of an update
or none) would fail. `StoppedIsSilent` is inductive by itself.

*Status.* `Registering` says where credentials may have arrived: in registration
mode, subscribed and past `StartTimer`; `Early` names the places before.
`Ahead` is what each step of `Connectivity` contributes: none leads back to
`Early`. The rest is one lemma for each writer of the status. `ResetIsShown`
needs to know that the counter passes its limit only in a validation, which has
told of the lost connection by then (`Told`); `LightsTell` that the orange light
is dark in registration mode and before the first status of operation mode
(`Lit`), for these statuses do not switch it off.

*Parser.* The lines of a file are known by the places where they begin, and so
are their parts: `First` is where a line's text starts, `EqualAt` and
`ValuePart` where its setting goes on, `End` where it stops. `LineKinds` says
what `ConfigFile` makes of a line in these places; the lemmas after "What the
next token of a file without mistakes is" say what `GetToken` finds from them.
That the two agree is then an invariant of the loop over the tokens. `Progress`
says that in each state the parser stands at the end of a line, behind its name,
or behind its "=", and `ReadUpTo` what came of the lines before: the last
setting of each attribute (`LastSetting`), and where there was none, what was
there before the file (`Before`: nothing, or what stands in the flash). What
stands there is what is meant, as no comment follows a value (`MeantIsWritten`).
`AppendedMeans` shows that the line end appended to a card changes nothing. In
the flash no setting comes before one of the same attribute (`NeverTwice`), so a
good flash is never left early.

What was saved comes back since the flash holds the text of what was saved
(`SavedInv`) and this text is a good file: `Saves` says so of the first `k`
attributes, and `SavedNext` adds the next line. This is an induction over data,
and so is every "first place that holds ..."; they are carried out on sets of
natural numbers (`NatSet`, `LeastNat`), which need no theorem with an operator
parameter: the library's theorems on finite sets give a least element, and the
least number outside a set cannot exist if the set is closed under successors.
`FlattenIs` gets the recursive function behind `FlattenSeq` in the same way.
`Advances` is the half of `ParsingEnds` that steps can show.

Only model-checked: all liveness (it rests on fairness and ENABLED), with it
`ParsingEnds` and the fairness of `BrokerCalls`.

## Plan

Left for later, most useful first: `strtok`, whose one static position is shared
by `ExecuteCommand` and `ClientReceive` on two tasks (it needs payloads token by
token); a boot status that cannot be read, in `OperationCommands`.

## Not modelled

The texts of messages, the conversion of measurements, logging, HTTPS
certificates and the build. The capacity of the asset buffer: its longest
content depends on texts that are left out. Nor the sizes of the buffers that a
configuration goes through: a file of more than 512 characters, and the unchecked
`sprintf` of a saved one. The layout of memory: a value of 50
to 64 characters exceeds its row of `AttValues`, and `MQTTCfgParser_Init` clears
65 characters of each row of 50. The SNTP client, which is switched off and on
around a lost WLAN and used only at startup. The command `toggle` and the
yellow light it shares with registration. `strtok` (see the plan).
