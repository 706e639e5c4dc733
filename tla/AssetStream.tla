---------------------------- MODULE AssetStream ----------------------------
(***************************************************************************)
(* assetStreamBuffer of source/MQTTOperation.c: AssetUpdate (the timer     *)
(* service task) and ClientReceive (the task of the MQTT stack) write      *)
(* messages into it, ClientPublish (the App task) sends and empties it.    *)
(* The first and the last use semaphoreAssetBuffer; both give it back even *)
(* when they did not get it.  ClientReceive does not use it.               *)
(*                                                                         *)
(* A message is a number and takes one place of the buffer; the buffer is  *)
(* large enough here.  Appending is two steps, as in                       *)
(*    length += snprintf(data + length, ...).                              *)
(***************************************************************************)
EXTENDS Naturals, Sequences

CONSTANT MaxMessages    \* bound on the messages written

ASSUME MessagesAssumption == MaxMessages \in Nat

Writers == {"tick", "callback"}
Places == 1..MaxMessages
Blank == 0

VARIABLES
  data, length,          \* assetStreamBuffer
  semaphoreAssetBuffer,
  payload,               \* what MQTT_PublishToTopic_Z was given
  app, tick, callback,   \* where each task is
  offset,                \* where each writer read the length to be
  \* history
  written,               \* how many messages were written
  delivered,             \* what the broker got
  torn,                  \* ClientReceive appended while another task was in
                         \* the buffer
  late                   \* a publication lasted until the second AssetUpdate,
                         \* or an AssetUpdate as long as SEMAPHORE_TIMEOUT

buffer == << data, length, payload, offset, written, delivered >>
vars == << buffer, semaphoreAssetBuffer, app, tick, callback, torn, late >>

TypeOK ==
  /\ data \in [Places -> 0..MaxMessages]
  /\ length \in 0..MaxMessages
  /\ semaphoreAssetBuffer \in {0, 1}
  /\ payload \in Seq(0..MaxMessages)
  /\ app \in {"idle", "send", "wait", "erase", "zero", "give"}
  /\ tick \in {"idle", "write", "count"}
  /\ callback \in {"idle", "count"}
  /\ offset \in [Writers -> 0..MaxMessages]
  /\ written \in 0..MaxMessages
  /\ delivered \in Seq(0..MaxMessages)
  /\ torn \in BOOLEAN /\ late \in BOOLEAN

Init ==
  /\ data = [p \in Places |-> Blank]
  /\ length = 0
  /\ semaphoreAssetBuffer = 1
  /\ payload = << >>
  /\ app = "idle" /\ tick = "idle" /\ callback = "idle"
  /\ offset = [w \in Writers |-> 0]
  /\ written = 0
  /\ delivered = << >>
  /\ torn = FALSE /\ late = FALSE

-----------------------------------------------------------------------------
\* Mutant: a counting semaphore instead of a binary one.
GiveCounting == semaphoreAssetBuffer' = semaphoreAssetBuffer + 1

\* xSemaphoreGive: giving a semaphore nobody holds has no effect.
Give == semaphoreAssetBuffer' = 1

Take == semaphoreAssetBuffer = 1 /\ semaphoreAssetBuffer' = 0

\* Appending a message, by either writer.
Put(w) ==
  /\ written < MaxMessages /\ length < MaxMessages
  /\ written' = written + 1
  /\ data' = [data EXCEPT ![length + 1] = written']
  /\ offset' = [offset EXCEPT ![w] = length]
  /\ UNCHANGED << length, payload, delivered >>

\* The compiler may take the old length before or after the call of snprintf.
Count(w) ==
  /\ length' \in {length + 1, offset[w] + 1}
  /\ length' <= MaxMessages
  /\ UNCHANGED << data, payload, offset, written, delivered >>

-----------------------------------------------------------------------------
\* AssetUpdate.  It writes any number of messages, often none.

TickTo(from, to) ==
  /\ tick = from /\ tick' = to
  /\ UNCHANGED << app, callback >>

TickTake ==
  /\ TickTo("idle", "write")
  /\ Take
  /\ late' = (late \/ app # "idle")
  /\ torn' = (torn \/ callback # "idle")
  /\ UNCHANGED buffer

\* Mutant: AssetUpdate does not look at the result of xSemaphoreTake.
TickUnchecked ==
  /\ TickTo("idle", "write")
  /\ semaphoreAssetBuffer = 0
  /\ UNCHANGED << buffer, semaphoreAssetBuffer, torn, late >>

\* The take failed; the semaphore is given all the same.
TickRefused ==
  /\ TickTo("idle", "idle")
  /\ semaphoreAssetBuffer = 0
  /\ Give
  /\ UNCHANGED << buffer, torn, late >>

TickPut ==
  /\ TickTo("write", "count")
  /\ Put("tick")
  /\ UNCHANGED << semaphoreAssetBuffer, torn, late >>

TickCount ==
  /\ TickTo("count", "write")
  /\ Count("tick")
  /\ UNCHANGED << semaphoreAssetBuffer, torn, late >>

TickGive ==
  /\ TickTo("write", "idle")
  /\ Give
  /\ UNCHANGED << buffer, torn, late >>

-----------------------------------------------------------------------------
\* ClientReceive with a message on the error topic.

CallbackTo(from, to) ==
  /\ callback = from /\ callback' = to
  /\ UNCHANGED << semaphoreAssetBuffer, app, tick, late >>

CallbackPut ==
  /\ CallbackTo("idle", "count")
  /\ Put("callback")
  /\ torn' = (torn \/ tick # "idle" \/ app \notin {"idle", "give"})

CallbackCount ==
  /\ CallbackTo("count", "idle")
  /\ Count("callback")
  /\ UNCHANGED torn

-----------------------------------------------------------------------------
\* ClientPublish.

AppTo(from, to) ==
  /\ app = from /\ app' = to
  /\ UNCHANGED << tick, callback, offset, written >>

PublishTake ==
  /\ length > 0
  /\ Take
  /\ AppTo("idle", "send")
  /\ torn' = (torn \/ callback # "idle")
  /\ UNCHANGED << data, length, payload, delivered, late >>

\* The take timed out; the semaphore is given all the same.
PublishRefused ==
  /\ length > 0
  /\ semaphoreAssetBuffer = 0
  /\ Give
  /\ AppTo("idle", "idle")
  /\ late' = (late \/ tick # "idle")
  /\ UNCHANGED << data, length, payload, delivered, torn >>

PublishSend ==
  /\ payload' = SubSeq(data, 1, length)
  /\ AppTo("send", "wait")
  /\ UNCHANGED << data, length, semaphoreAssetBuffer, delivered, torn, late >>

\* The payload arrives, or the publication fails.
PublishDone ==
  /\ \/ delivered' = delivered \o payload
     \/ UNCHANGED delivered
  /\ payload' = << >>
  /\ AppTo("wait", "erase")
  /\ UNCHANGED << data, length, semaphoreAssetBuffer, torn, late >>

\* Mutant: the memset, which looks superfluous before length = 0, is left out.
PublishForgetsErase ==
  /\ AppTo("erase", "zero")
  /\ UNCHANGED << data, length, semaphoreAssetBuffer, payload, delivered, torn, late >>

\* memset(data, 0, length)
PublishErase ==
  /\ data' = [p \in Places |-> IF p <= length THEN Blank ELSE data[p]]
  /\ AppTo("erase", "zero")
  /\ UNCHANGED << length, semaphoreAssetBuffer, payload, delivered, torn, late >>

\* Mutant: the length is not reset.
PublishForgetsZero ==
  /\ AppTo("zero", "give")
  /\ UNCHANGED << data, length, semaphoreAssetBuffer, payload, delivered, torn, late >>

\* length = 0
PublishZero ==
  /\ length' = 0
  /\ AppTo("zero", "give")
  /\ UNCHANGED << data, semaphoreAssetBuffer, payload, delivered, torn, late >>

PublishGive ==
  /\ Give
  /\ AppTo("give", "idle")
  /\ UNCHANGED << data, length, payload, delivered, torn, late >>

-----------------------------------------------------------------------------
Next ==
  \/ TickTake \/ TickRefused \/ TickPut \/ TickCount \/ TickGive
  \/ CallbackPut \/ CallbackCount
  \/ PublishTake \/ PublishRefused \/ PublishSend \/ PublishDone
  \/ PublishErase \/ PublishZero \/ PublishGive

Spec == Init /\ [][Next]_vars

-----------------------------------------------------------------------------
\* Tasks in the part of their code that relies on the buffer not changing.
InBuffer == {t \in {"app", "tick", "callback"} :
               \/ t = "app" /\ app \notin {"idle", "give"}
               \/ t = "tick" /\ tick # "idle"
               \/ t = "callback" /\ callback # "idle"}

\* Never are two tasks in the buffer at the same time, as long as publications
\* and updates are short and ClientReceive keeps out.  It depends on the timing,
\* for the semaphore is also given by a task that did not get it.
MutualExclusion ==
  ~ late /\ ~ torn => \A s, t \in InBuffer : s = t

Arrived(i) == i \in DOMAIN delivered /\ delivered[i] # Blank

\* However AssetUpdate and the publications overlap, Cumulocity gets the messages
\* in the order in which they were written, each at most once: "503" never
\* before "501".
DeliveredInOrder ==
  ~ torn => \A i, j \in DOMAIN delivered :
              i < j /\ Arrived(i) /\ Arrived(j) => delivered[i] < delivered[j]

\* A message counts as written once the length says so, and as gone from the
\* buffer once the publication is over.
Uncounted == IF tick = "count" \/ callback = "count" THEN 1 ELSE 0

Stream == INSTANCE LossyStream WITH
  written <- written - Uncounted,
  pending <- IF app \in {"erase", "zero"} THEN << >> ELSE SubSeq(data, 1, length)

\* Until the first long publication or update and the first message on the error
\* topic that meets another task in the buffer, it is the stream that is promised.
ImplementsStream ==
  [][~ late' /\ ~ torn' => Stream!Next \/ UNCHANGED Stream!streamVars]_vars
=============================================================================
