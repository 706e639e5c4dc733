----------------------------- MODULE MQTTClient -----------------------------
(***************************************************************************)
(* source/MQTTClient.c: blocking calls made of an asynchronous stack.  A   *)
(* call clears a status flag, empties a binary semaphore (the "dummy       *)
(* take"), hands a request to the stack and waits for the semaphore with a *)
(* timeout.  The stack's event handler, on a task of its own, sets the     *)
(* flag and gives the semaphore.  Nothing ties an event to a request: flag *)
(* and semaphore belong to a channel, and unsubscribing uses the channel   *)
(* of subscribing.                                                         *)
(***************************************************************************)
EXTENDS Naturals

CONSTANTS
  Tasks,         \* the tasks that call: the App task, the timer service task
  Operations,    \* the calls each task makes
  LateChannels,  \* where an answer may arrive in the middle of a later call
  MaxCalls       \* bound on the number of calls

Ops == {"connect", "subscribe", "publish", "unsubscribe"}
Channels == {"connect", "subscribe", "publish"}

ASSUME OperationsAssumption == Operations \in [Tasks -> SUBSET Ops]
ASSUME LateAssumption == LateChannels \subseteq Channels
ASSUME CallsAssumption == MaxCalls \in Nat

Channel(op) == IF op = "unsubscribe" THEN "subscribe" ELSE op

Requests == [id : 1..MaxCalls, op : Ops]
NoRequest == [id |-> 0, op |-> "none"]

VARIABLES
  status,     \* MqttConnectionStatus_Z, MqttSubscriptionStatus_Z, MqttPublishStatus_Z
  handle,     \* MqttConnectHandle_Z, MqttSubscribeHandle_Z, MqttPublishHandle_Z
  pc,         \* how far each task is in its call
  call,       \* the request of each task's running or last call
  outcome,    \* what each task's last call returned
  inFlight,   \* the requests the stack has not answered
  event,      \* the request whose answer the event handler is in the middle of
  calls,      \* how many calls were made
  \* history
  granted,    \* the ids of the requests answered with success
  heard       \* the tasks on whose channel a success arrived since their clear

clientVars == << status, handle, pc, call, outcome >>
vars == << clientVars, inFlight, event, calls, granted, heard >>

TypeOK ==
  /\ status \in [Channels -> BOOLEAN]
  /\ handle \in [Channels -> {0, 1}]
  /\ pc \in [Tasks -> {"idle", "clear", "drain", "send", "wait", "check"}]
  /\ call \in [Tasks -> Requests \cup {NoRequest}]
  /\ outcome \in [Tasks -> {"none", "ok", "failed", "timeout"}]
  /\ inFlight \subseteq Requests
  /\ event \in Requests \cup {NoRequest}
  /\ calls \in 0..MaxCalls
  /\ granted \subseteq 1..MaxCalls
  /\ heard \subseteq Tasks

Init ==
  /\ status = [c \in Channels |-> FALSE]
  /\ handle = [c \in Channels |-> 0]
  /\ pc = [t \in Tasks |-> "idle"]
  /\ call = [t \in Tasks |-> NoRequest]
  /\ outcome = [t \in Tasks |-> "none"]
  /\ inFlight = {}
  /\ event = NoRequest
  /\ calls = 0
  /\ granted = {}
  /\ heard = {}

ChannelOf(t) == Channel(call[t].op)
OnChannel(c) == {t \in Tasks : ChannelOf(t) = c}

-----------------------------------------------------------------------------
\* A call, step by step.

At(t, from, to) ==
  /\ pc[t] = from
  /\ pc' = [pc EXCEPT ![t] = to]

Begin(t, op) ==
  /\ calls < MaxCalls
  /\ op \in Operations[t]
  /\ At(t, "idle", "clear")
  /\ calls' = calls + 1
  /\ call' = [call EXCEPT ![t] = [id |-> calls + 1, op |-> op]]
  /\ outcome' = [outcome EXCEPT ![t] = "none"]
  /\ UNCHANGED << status, handle, inFlight, event, granted, heard >>

Clear(t) ==
  /\ At(t, "clear", "drain")
  /\ status' = [status EXCEPT ![ChannelOf(t)] = FALSE]
  /\ heard' = heard \ {t}
  /\ UNCHANGED << handle, call, outcome, inFlight, event, calls, granted >>

\* Where answers are not late, those to abandoned requests are in by now.
Settled(c) ==
  /\ event = NoRequest \/ Channel(event.op) # c
  /\ \A r \in inFlight : Channel(r.op) # c

\* Mutant: the dummy take is missing.
DrainNothing(t) ==
  /\ At(t, "drain", "send")
  /\ ChannelOf(t) \in LateChannels \/ Settled(ChannelOf(t))
  /\ UNCHANGED << status, handle, call, outcome, inFlight, event, calls,
                  granted, heard >>

\* The dummy take.
Drain(t) ==
  /\ At(t, "drain", "send")
  /\ ChannelOf(t) \in LateChannels \/ Settled(ChannelOf(t))
  /\ handle' = [handle EXCEPT ![ChannelOf(t)] = 0]
  /\ UNCHANGED << status, call, outcome, inFlight, event, calls, granted, heard >>

Return(t, result) ==
  /\ outcome' = [outcome EXCEPT ![t] = result]
  /\ UNCHANGED << status, call, event, calls, granted, heard >>

\* The stack takes the request, or refuses it.  Connecting can fail before its
\* flag and semaphore are touched, too (a bad address or certificate); that is a
\* refusal here, after Clear and Drain.
Send(t) ==
  \/ /\ At(t, "send", "wait")
     /\ inFlight' = inFlight \cup {call[t]}
     /\ Return(t, "none")
     /\ UNCHANGED handle
  \/ /\ At(t, "send", "idle")
     /\ Return(t, "failed")
     /\ UNCHANGED << handle, inFlight >>

Take(t) ==
  /\ At(t, "wait", "check")
  /\ handle[ChannelOf(t)] = 1
  /\ handle' = [handle EXCEPT ![ChannelOf(t)] = 0]
  /\ UNCHANGED << status, call, outcome, inFlight, event, calls, granted, heard >>

Timeout(t) ==
  /\ At(t, "wait", "idle")
  /\ handle[ChannelOf(t)] = 0
  /\ Return(t, "timeout")
  /\ UNCHANGED << handle, inFlight >>

Check(t) ==
  /\ At(t, "check", "idle")
  /\ Return(t, IF status[ChannelOf(t)] THEN "ok" ELSE "failed")
  /\ UNCHANGED << handle, inFlight >>

-----------------------------------------------------------------------------
\* MqttEventHandler_Z, one event at a time.

\* Mutant: failures and successes set the flag alike.
VerdictAlways(success) == TRUE

\* What a case of the switch writes to the flag.
Verdict(success) == success

\* Mutant: the case of MQTT_PUBLISHED_DATA does not give.
WakesSome(op) == op \in {"connect", "subscribe"}

\* Which answers give a semaphore.
Wakes(op) == op # "unsubscribe"

\* The answer to a request: the flag is set, the semaphore comes next.
Answer(r, success) ==
  /\ event = NoRequest
  /\ r \in inFlight /\ Wakes(r.op)
  /\ inFlight' = inFlight \ {r}
  /\ event' = r
  /\ status' = [status EXCEPT ![Channel(r.op)] = Verdict(success)]
  /\ granted' = IF success THEN granted \cup {r.id} ELSE granted
  /\ heard' = IF success THEN heard \cup OnChannel(Channel(r.op)) ELSE heard
  /\ UNCHANGED << handle, pc, call, outcome, calls >>

\* Mutant: the semaphore counts.
GiveCounting ==
  /\ event # NoRequest
  /\ handle' = [handle EXCEPT ![Channel(event.op)] = @ + 1]
  /\ event' = NoRequest
  /\ UNCHANGED << status, pc, call, outcome, inFlight, calls, granted, heard >>

\* A binary semaphore that has been given stays given.
Give ==
  /\ event # NoRequest
  /\ handle' = [handle EXCEPT ![Channel(event.op)] = 1]
  /\ event' = NoRequest
  /\ UNCHANGED << status, pc, call, outcome, inFlight, calls, granted, heard >>

\* MQTT_SUBSCRIPTION_REMOVED: an unsubscription is done, nobody is told.
Removed(r) ==
  /\ event = NoRequest
  /\ r \in inFlight /\ ~ Wakes(r.op)
  /\ inFlight' = inFlight \ {r}
  /\ granted' = granted \cup {r.id}
  /\ UNCHANGED << clientVars, event, calls, heard >>

\* MQTT_CONNECTION_CLOSED: the flag, but not the semaphore.
Closed ==
  /\ event = NoRequest
  /\ status' = [status EXCEPT !["connect"] = FALSE]
  /\ UNCHANGED << handle, pc, call, outcome, inFlight, event, calls, granted, heard >>

\* No answer ever comes: the request or its answer is lost.
Lose(r) ==
  /\ r \in inFlight
  /\ inFlight' = inFlight \ {r}
  /\ UNCHANGED << clientVars, event, calls, granted, heard >>

-----------------------------------------------------------------------------
Step(t) ==
  \/ Clear(t) \/ Drain(t) \/ Send(t)
  \/ Take(t) \/ Timeout(t) \/ Check(t)

Stack ==
  \/ \E r \in inFlight : \/ \E success \in BOOLEAN : Answer(r, success)
                         \/ Removed(r) \/ Lose(r)
  \/ Give \/ Closed

Next ==
  \/ \E t \in Tasks : Step(t) \/ \E op \in Ops : Begin(t, op)
  \/ Stack

Spec == Init /\ [][Next]_vars

\* A task that can go on does, a running event handler ends, and a request
\* given up is answered or forgotten in the end.
FairSpec ==
  /\ Spec
  /\ \A t \in Tasks : WF_vars(Step(t))
  /\ WF_vars(Give)
  /\ WF_vars(\E r \in inFlight : Lose(r))

-----------------------------------------------------------------------------
\* No other task makes calls on the channel of t's call.
Private(t) ==
  \A u \in Tasks \ {t} : \A op \in Operations[u] : Channel(op) # ChannelOf(t)

\* RETCODE_OK is never made up: since the call cleared the flag the stack has
\* reported a success on the call's channel.
OkMeansAnswered == \A t \in Tasks : outcome[t] = "ok" => t \in heard

\* The answer to a request whose caller waits, on a channel that is the task's
\* own, is there for it to take: no dummy take and no late answer swallows it.
AnswerNotLost ==
  \A t \in Tasks :
    (pc[t] = "wait" /\ call[t].id \in granted /\ call[t].op # "unsubscribe"
       /\ event = NoRequest /\ Private(t))
      => handle[ChannelOf(t)] = 1

\* Refinement: a call that has not returned is a call, and the broker has
\* accepted it when the event handler has been told so.  Of a call whose channel
\* other tasks use, too, or late answers reach, it is only asked to return: it
\* counts as accepted from its clear on.
Exclusive(t) == Private(t) /\ ChannelOf(t) \notin LateChannels

Accepted(t) ==
  \/ call[t].id \in granted
  \/ call[t] # NoRequest /\ pc[t] # "clear" /\ ~ Exclusive(t)

Calls == INSTANCE BrokerCalls WITH
  phase <- [t \in Tasks |->
              IF pc[t] # "idle" THEN "called"
              ELSE CASE outcome[t] = "none" -> "idle"
                     [] outcome[t] = "ok" -> "ok"
                     [] OTHER -> "failed"],
  accepted <- {t \in Tasks : Accepted(t)}

\* Every call returns, and where answers to abandoned requests are in before the
\* next dummy take and no other task uses the channel, RETCODE_OK is the broker's
\* acceptance of that very request, whatever happens on the other channels.
ImplementsCalls == Calls!Spec
=============================================================================
