-------------------------- MODULE MQTTClient_proofs --------------------------
(***************************************************************************)
(* Proofs about MQTTClient, for any set of tasks and any calls.            *)
(***************************************************************************)
EXTENDS MQTTClient, TLAPS

\* A running call has a request and no outcome.
Running ==
  \A t \in Tasks :
    pc[t] # "idle" =>
      /\ call[t] \in Requests
      /\ call[t].op \in Operations[t]
      /\ outcome[t] = "none"

Inv == TypeOK /\ Running

\* The channel of a request is one of the three.
LEMMA ChannelTypes ==
  ASSUME NEW op \in Ops
  PROVE  Channel(op) \in Channels
BY DEF Ops, Channels, Channel

\* Boot.
LEMMA InvInit == Init => Inv
BY CallsAssumption DEF Init, Inv, TypeOK, Running

\* Each step keeps the types, and calls with their requests.
LEMMA InvStep == Inv /\ [Next]_vars => Inv'
<1> SUFFICES ASSUME Inv, [Next]_vars
             PROVE  Inv'
    OBVIOUS
<1> USE CallsAssumption, OperationsAssumption, ChannelTypes
<1>1. ASSUME NEW t \in Tasks, NEW op \in Ops, Begin(t, op)
      PROVE  Inv'
  <2>1. [id |-> calls + 1, op |-> op] \in Requests
      BY <1>1 DEF Inv, TypeOK, Begin, Requests
  <2> QED BY <1>1, <2>1 DEF Inv, TypeOK, Running, Begin, At
<1>2. ASSUME NEW t \in Tasks, Clear(t)
      PROVE  Inv'
    BY <1>2 DEF Inv, TypeOK, Running, Clear, At
<1>3. ASSUME NEW t \in Tasks, Drain(t)
      PROVE  Inv'
    BY <1>3 DEF Inv, TypeOK, Running, Drain, At
<1>4. ASSUME NEW t \in Tasks, Send(t)
      PROVE  Inv'
    BY <1>4 DEF Inv, TypeOK, Running, Send, At, Return
<1>5. ASSUME NEW t \in Tasks, Take(t)
      PROVE  Inv'
    BY <1>5 DEF Inv, TypeOK, Running, Take, At
<1>6. ASSUME NEW t \in Tasks, Timeout(t)
      PROVE  Inv'
    BY <1>6 DEF Inv, TypeOK, Running, Timeout, At, Return
<1>7. ASSUME NEW t \in Tasks, Check(t)
      PROVE  Inv'
    BY <1>7 DEF Inv, TypeOK, Running, Check, At, Return
<1>8. ASSUME NEW r \in inFlight, NEW success \in BOOLEAN, Answer(r, success)
      PROVE  Inv'
  <2>1. r \in Requests /\ r.id \in 1..MaxCalls
      BY DEF Inv, TypeOK, Requests
  <2>2. OnChannel(Channel(r.op)) \subseteq Tasks
      BY DEF OnChannel
  <2> QED BY <1>8, <2>1, <2>2 DEF Inv, TypeOK, Running, Answer, Verdict
<1>9. CASE Give
    BY <1>9 DEF Inv, TypeOK, Running, Give
<1>10. ASSUME NEW r \in inFlight, Removed(r)
       PROVE  Inv'
  <2>1. r.id \in 1..MaxCalls
      BY DEF Inv, TypeOK, Requests
  <2> QED BY <1>10, <2>1 DEF Inv, TypeOK, Running, Removed, clientVars
<1>11. CASE Closed
    BY <1>11 DEF Inv, TypeOK, Running, Closed
<1>12. ASSUME NEW r \in inFlight, Lose(r)
       PROVE  Inv'
    BY <1>12 DEF Inv, TypeOK, Running, Lose, clientVars
<1>13. CASE UNCHANGED vars
    BY <1>13 DEF Inv, TypeOK, Running, vars, clientVars
<1> QED
    BY <1>1, <1>2, <1>3, <1>4, <1>5, <1>6, <1>7, <1>8, <1>9, <1>10, <1>11,
       <1>12, <1>13
    DEF Next, Step, Stack

\* The client keeps its types, and its semaphores binary, whatever the stack
\* answers and when.
THEOREM TypeCorrect == Spec => []TypeOK
<1>1. Inv => TypeOK
    BY DEF Inv
<1> QED BY <1>1, InvInit, InvStep, PTL DEF Spec

LEMMA InvHolds == Spec => []Inv
BY InvInit, InvStep, PTL DEF Spec

-----------------------------------------------------------------------------
\* From its clear on, a call that sees the flag set has heard of a success.
FlagHeard ==
  \A t \in Tasks :
    /\ pc[t] \in {"drain", "send", "wait", "check"} /\ status[ChannelOf(t)] => t \in heard
    /\ outcome[t] = "ok" => t \in heard

LEMMA FlagInit == Init => FlagHeard
BY DEF Init, FlagHeard

LEMMA FlagStep == Inv /\ FlagHeard /\ [Next]_vars => FlagHeard'
<1> SUFFICES ASSUME Inv, FlagHeard, [Next]_vars
             PROVE  FlagHeard'
    OBVIOUS
<1>1. ASSUME NEW t \in Tasks, NEW op \in Ops, Begin(t, op)
      PROVE  FlagHeard'
    BY <1>1 DEF Inv, TypeOK, Running, FlagHeard, Begin, At, ChannelOf
<1>2. ASSUME NEW t \in Tasks, Clear(t)
      PROVE  FlagHeard'
  <2>1. outcome[t] = "none" /\ ChannelOf(t) \in Channels
      BY <1>2, ChannelTypes DEF Inv, Running, Clear, At, ChannelOf, Requests
  <2> QED BY <1>2, <2>1 DEF Inv, TypeOK, Running, FlagHeard, Clear, At, ChannelOf
<1>3. ASSUME NEW t \in Tasks, Drain(t) \/ Take(t)
      PROVE  FlagHeard'
    BY <1>3 DEF Inv, TypeOK, FlagHeard, Drain, Take, At, ChannelOf
<1>4. ASSUME NEW t \in Tasks, Send(t) \/ Timeout(t) \/ Check(t)
      PROVE  FlagHeard'
    BY <1>4 DEF Inv, TypeOK, FlagHeard, Send, Timeout, Check, At, Return, ChannelOf
<1>5. ASSUME NEW r \in inFlight, NEW success \in BOOLEAN, Answer(r, success)
      PROVE  FlagHeard'
  <2>1. Channel(r.op) \in Channels
      BY ChannelTypes DEF Inv, TypeOK, Requests
  <2>2. \A t \in Tasks : ChannelOf(t)' = ChannelOf(t)
      BY <1>5 DEF Answer, ChannelOf
  <2>3. heard \subseteq heard'
      BY <1>5 DEF Answer
  <2>4. ASSUME NEW t \in Tasks, status'[ChannelOf(t)], ~ status[ChannelOf(t)]
        PROVE  t \in heard'
      BY <1>5, <2>1, <2>4 DEF Answer, Verdict, OnChannel, Inv, TypeOK
  <2> QED BY <1>5, <2>2, <2>3, <2>4 DEF FlagHeard, Answer
<1>6. CASE Give
    BY <1>6 DEF FlagHeard, Give, ChannelOf
<1>7. ASSUME NEW r \in inFlight, Removed(r) \/ Lose(r)
      PROVE  FlagHeard'
    BY <1>7 DEF FlagHeard, Removed, Lose, ChannelOf, clientVars
<1>8. CASE Closed
    BY <1>8 DEF Inv, TypeOK, FlagHeard, Closed, ChannelOf, Channels
<1>9. CASE UNCHANGED vars
    BY <1>9 DEF FlagHeard, ChannelOf, vars, clientVars
<1> QED
    BY <1>1, <1>2, <1>3, <1>4, <1>5, <1>6, <1>7, <1>8, <1>9
    DEF Next, Step, Stack

\* RETCODE_OK is never made up: however late the answers are and however the
\* tasks share the channels, a success arrived on the call's channel.
THEOREM OkIsAnswered == Spec => []OkMeansAnswered
<1>1. FlagHeard => OkMeansAnswered
    BY DEF FlagHeard, OkMeansAnswered
<1> QED BY <1>1, InvHolds, FlagInit, FlagStep, PTL DEF Spec

-----------------------------------------------------------------------------
\* Ids name requests: those of running calls, of what the stack has and of
\* what it granted were given out, and none was given out twice.
Ids ==
  /\ \A t \in Tasks : call[t].id <= calls
  /\ \A t, u \in Tasks : t # u /\ call[t].id = call[u].id => call[t].id = 0
  /\ \A r \in inFlight : r.id <= calls
  /\ event.id <= calls
  /\ \A i \in granted : i <= calls
  /\ \A t \in Tasks : \A r \in inFlight : r.id = call[t].id => r = call[t]
  /\ \A t \in Tasks :
       pc[t] \in {"clear", "drain", "send"} =>
         /\ call[t].id \notin granted
         /\ event.id # call[t].id
         /\ \A r \in inFlight : r.id # call[t].id

LEMMA IdsInit == Init => Ids
BY DEF Init, Ids, NoRequest

\* What the types say about ids.
LEMMA IdTypes ==
  ASSUME TypeOK
  PROVE  /\ calls \in Nat /\ granted \subseteq Nat
         /\ \A t \in Tasks : call[t].id \in Nat
         /\ \A r \in inFlight : r.id \in Nat /\ r.id # 0
         /\ event.id \in Nat
BY CallsAssumption DEF TypeOK, Requests, NoRequest

LEMMA IdsStep == Inv /\ Ids /\ [Next]_vars => Ids'
<1> SUFFICES ASSUME Inv, Ids, [Next]_vars
             PROVE  Ids'
    OBVIOUS
<1> USE IdTypes
<1>1. ASSUME NEW t \in Tasks, NEW op \in Ops, Begin(t, op)
      PROVE  Ids'
  <2>1. /\ calls' = calls + 1 /\ inFlight' = inFlight /\ event' = event
        /\ granted' = granted
        /\ call'[t].id = calls + 1
        /\ \A u \in Tasks \ {t} : call'[u] = call[u] /\ pc'[u] = pc[u]
      BY <1>1 DEF Begin, At, Inv, TypeOK
  <2> QED BY <2>1 DEF Ids, Inv
<1>2. ASSUME NEW t \in Tasks, Clear(t) \/ Drain(t) \/ Take(t)
      PROVE  Ids'
  <2>1. \A u \in Tasks : pc'[u] \in {"clear", "drain", "send"} =>
                         pc[u] \in {"clear", "drain", "send"}
      BY <1>2 DEF Inv, TypeOK, Clear, Drain, Take, At
  <2>2. UNCHANGED << calls, inFlight, event, granted, call >>
      BY <1>2 DEF Clear, Drain, Take
  <2> QED BY <2>1, <2>2 DEF Ids
<1>3. ASSUME NEW t \in Tasks, Send(t)
      PROVE  Ids'
  <2>1. pc[t] = "send" /\ pc'[t] \in {"wait", "idle"} /\ call[t].id # 0
      BY <1>3, CallsAssumption DEF Send, At, Inv, TypeOK, Running, Requests
  <2>2. /\ calls' = calls /\ event' = event /\ granted' = granted /\ call' = call
        /\ inFlight' \subseteq inFlight \cup {call[t]}
        /\ \A u \in Tasks \ {t} : pc'[u] = pc[u]
      BY <1>3 DEF Send, At, Return, Inv, TypeOK
  <2> QED BY <2>1, <2>2 DEF Ids, Inv
<1>4. ASSUME NEW t \in Tasks, Timeout(t) \/ Check(t)
      PROVE  Ids'
  <2>1. \A u \in Tasks : pc'[u] # "idle" => pc'[u] = pc[u]
      BY <1>4 DEF Inv, TypeOK, Timeout, Check, At
  <2>2. UNCHANGED << calls, inFlight, event, granted, call >>
      BY <1>4 DEF Timeout, Check, Return
  <2> QED BY <2>1, <2>2 DEF Ids
<1>5. ASSUME NEW r \in inFlight, NEW success \in BOOLEAN, Answer(r, success)
      PROVE  Ids'
    BY <1>5 DEF Ids, Inv, Answer
<1>6. CASE Give
  <2>1. UNCHANGED << calls, inFlight, granted, call, pc >> /\ event' = NoRequest
      BY <1>6 DEF Give
  <2>2. \A t \in Tasks : pc[t] # "idle" => call[t].id # NoRequest.id
      BY CallsAssumption DEF Inv, Running, Requests, NoRequest
  <2>3. NoRequest.id = 0
      BY DEF NoRequest
  <2> QED BY <2>1, <2>2, <2>3 DEF Ids, Inv
<1>7. ASSUME NEW r \in inFlight, Removed(r) \/ Lose(r)
      PROVE  Ids'
    BY <1>7 DEF Ids, Inv, Removed, Lose, clientVars
<1>8. CASE Closed
    BY <1>8 DEF Ids, Closed
<1>9. CASE UNCHANGED vars
    BY <1>9 DEF Ids, vars, clientVars
<1> QED
    BY <1>1, <1>2, <1>3, <1>4, <1>5, <1>6, <1>7, <1>8, <1>9
    DEF Next, Step, Stack

\* The answer to a waiting call is in the semaphore or just about to be.
AnswerKept ==
  \A t \in Tasks :
    pc[t] = "wait" /\ call[t].id \in granted /\ call[t].op # "unsubscribe" /\ Private(t)
      => handle[ChannelOf(t)] = 1 \/ event = call[t]

LEMMA KeptInit == Init => AnswerKept
BY DEF Init, AnswerKept

LEMMA KeptStep == Inv /\ Ids /\ AnswerKept /\ [Next]_vars => AnswerKept'
<1> SUFFICES ASSUME Inv, Ids, AnswerKept, [Next]_vars,
                    NEW t \in Tasks,
                    pc'[t] = "wait", call'[t].id \in granted',
                    call'[t].op # "unsubscribe", Private(t)'
             PROVE  handle'[ChannelOf(t)'] = 1 \/ event' = call'[t]
    BY DEF AnswerKept, Private
<1> USE IdTypes, OperationsAssumption
<1>1. ASSUME NEW u \in Tasks, NEW op \in Ops, Begin(u, op)
      PROVE  handle'[ChannelOf(t)'] = 1 \/ event' = call'[t]
  <2>1. u # t
      BY <1>1 DEF Begin, At, Inv, TypeOK
  <2> QED BY <1>1, <2>1 DEF AnswerKept, Private, ChannelOf, Begin, At, Inv, TypeOK
<1>2. ASSUME NEW u \in Tasks, Clear(u) \/ Timeout(u) \/ Check(u)
      PROVE  handle'[ChannelOf(t)'] = 1 \/ event' = call'[t]
    BY <1>2 DEF AnswerKept, Private, ChannelOf, Clear, Timeout, Check, At,
                Return, Inv, TypeOK
<1>3. ASSUME NEW u \in Tasks, Drain(u) \/ Take(u)
      PROVE  handle'[ChannelOf(t)'] = 1 \/ event' = call'[t]
  <2>1. /\ u # t /\ pc[u] # "idle" /\ call' = call /\ event' = event
        /\ granted' = granted /\ pc[t] = "wait"
      BY <1>3 DEF Drain, Take, At, Inv, TypeOK
  <2>2. ChannelOf(u) # ChannelOf(t)
      BY <2>1 DEF Private, ChannelOf, Inv, Running
  <2>3. ChannelOf(t) \in Channels
      BY <2>1, ChannelTypes DEF ChannelOf, Inv, Running, Requests
  <2>4. handle'[ChannelOf(t)] = handle[ChannelOf(t)]
      BY <1>3, <2>2, <2>3 DEF Drain, Take, Inv, TypeOK
  <2> QED BY <2>1, <2>4 DEF AnswerKept, Private, ChannelOf
<1>4. ASSUME NEW u \in Tasks, Send(u)
      PROVE  handle'[ChannelOf(t)'] = 1 \/ event' = call'[t]
  <2>1. u # t
      BY <1>4 DEF Send, At, Return, Ids, Inv, TypeOK
  <2> QED BY <1>4, <2>1 DEF AnswerKept, Private, ChannelOf, Send, At, Return, Inv, TypeOK
<1>5. ASSUME NEW r \in inFlight, NEW success \in BOOLEAN, Answer(r, success)
      PROVE  handle'[ChannelOf(t)'] = 1 \/ event' = call'[t]
  <2>1. CASE call[t].id \in granted
    <3>1. event # call[t]
        BY <1>5, <2>1 DEF Answer, Ids, Inv, TypeOK, NoRequest, Running, Requests
    <3> QED BY <1>5, <2>1, <3>1 DEF AnswerKept, Private, ChannelOf, Answer
  <2>2. CASE call[t].id \notin granted
    <3>1. r.id = call[t].id
        BY <1>5, <2>2 DEF Answer
    <3> QED BY <1>5, <3>1 DEF Ids, Answer
  <2> QED BY <2>1, <2>2
<1>6. CASE Give
  <2>1. UNCHANGED << pc, call, granted >>
      BY <1>6 DEF Give
  <2>2. ChannelOf(t) \in Channels
      BY <2>1, ChannelTypes DEF ChannelOf, Inv, Running, Requests
  <2>3. handle[ChannelOf(t)] = 1 \/ event = call[t]
      BY <2>1 DEF AnswerKept, Private, ChannelOf
  <2>4. handle'[ChannelOf(t)] = 1
      BY <1>6, <2>2, <2>3 DEF Give, ChannelOf, Inv, TypeOK
  <2> QED BY <2>1, <2>4 DEF ChannelOf
<1>7. ASSUME NEW r \in inFlight, Removed(r)
      PROVE  handle'[ChannelOf(t)'] = 1 \/ event' = call'[t]
  <2>1. r.id # call[t].id
      BY <1>7 DEF Removed, Wakes, Ids, clientVars
  <2> QED BY <1>7, <2>1 DEF AnswerKept, Private, ChannelOf, Removed, clientVars
<1>8. ASSUME NEW r \in inFlight, Lose(r)
      PROVE  handle'[ChannelOf(t)'] = 1 \/ event' = call'[t]
    BY <1>8 DEF AnswerKept, Private, ChannelOf, Lose, clientVars
<1>9. CASE Closed
    BY <1>9 DEF AnswerKept, Private, ChannelOf, Closed
<1>10. CASE UNCHANGED vars
    BY <1>10 DEF AnswerKept, Private, ChannelOf, vars, clientVars
<1> QED
    BY <1>1, <1>2, <1>3, <1>4, <1>5, <1>6, <1>7, <1>8, <1>9, <1>10
    DEF Next, Step, Stack

\* The success of a call that still waits on a channel of its own is there to
\* be taken: neither a dummy take nor a late answer to another call removes it.
THEOREM AnswerIsNotLost == Spec => []AnswerNotLost
<1>1. Inv /\ AnswerKept => AnswerNotLost
  <2> SUFFICES ASSUME Inv, AnswerKept, NEW t \in Tasks,
                      pc[t] = "wait", call[t].id \in granted,
                      call[t].op # "unsubscribe", event = NoRequest, Private(t)
               PROVE  handle[ChannelOf(t)] = 1
      BY DEF AnswerNotLost, Private
  <2>1. call[t].id # NoRequest.id
      BY CallsAssumption DEF Inv, Running, Requests, NoRequest
  <2> QED BY <2>1 DEF AnswerKept
<1> QED
    BY <1>1, InvHolds, IdsInit, IdsStep, KeptInit, KeptStep, PTL DEF Spec

-----------------------------------------------------------------------------
\* The refinement: after the dummy take an exclusive channel carries nothing but
\* the request of the call, and a flag that is up when the semaphore has been
\* given is that request's.
OwnCall(t) ==
  /\ outcome[t] = "ok" => call[t].id \in granted
  /\ pc[t] \in {"send", "wait", "check"} =>
       /\ \A r \in inFlight : Channel(r.op) = ChannelOf(t) => r = call[t]
       /\ event # NoRequest /\ Channel(event.op) = ChannelOf(t) => event = call[t]
  /\ pc[t] = "send" => handle[ChannelOf(t)] = 0
  /\ pc[t] = "wait" /\ status[ChannelOf(t)]
       /\ (handle[ChannelOf(t)] = 1 \/ event = call[t]) => call[t].id \in granted
  /\ pc[t] = "check" /\ status[ChannelOf(t)] => call[t].id \in granted

Own ==
  \A t \in Tasks :
    /\ pc[t] = "idle" /\ outcome[t] = "none" => call[t] = NoRequest
    /\ Exclusive(t) => OwnCall(t)

LEMMA OwnInit == Init => Own
BY DEF Init, Own, OwnCall

LEMMA OwnStep ==
  ASSUME Inv, Ids, Own, [Next]_vars
  PROVE  Own'
<1> USE IdTypes
<1>0. \A t \in Tasks : pc[t] # "idle" => ChannelOf(t) \in Channels
    BY ChannelTypes DEF ChannelOf, Inv, Running, Requests
<1>1. ASSUME NEW t \in Tasks, NEW op \in Ops, Begin(t, op)
      PROVE  Own'
  <2>1. ASSUME NEW u \in Tasks \ {t}
        PROVE  pc'[u] = pc[u] /\ call'[u] = call[u] /\ outcome'[u] = outcome[u]
      BY <1>1 DEF Begin, At, Inv, TypeOK
  <2>2. pc'[t] = "clear" /\ outcome'[t] = "none"
      BY <1>1 DEF Begin, At, Inv, TypeOK
  <2> QED BY <1>1, <2>1, <2>2 DEF Own, OwnCall, Exclusive, Private, Begin, ChannelOf
<1>2. ASSUME NEW t \in Tasks, Clear(t)
      PROVE  Own'
  <2>1. \A c \in Channels : status'[c] => status[c]
      BY <1>2 DEF Clear, Inv, TypeOK
  <2>2. /\ \A u \in Tasks \ {t} : pc'[u] = pc[u]
        /\ pc'[t] = "drain" /\ outcome[t] = "none"
      BY <1>2 DEF Clear, At, Inv, TypeOK, Running
  <2> QED BY <1>0, <1>2, <2>1, <2>2 DEF Own, OwnCall, Exclusive, Private, Clear, ChannelOf
<1>3. ASSUME NEW t \in Tasks, Drain(t)
      PROVE  Own'
  <2>1. /\ \A u \in Tasks \ {t} : pc'[u] = pc[u]
        /\ pc[t] = "drain" /\ pc'[t] = "send" /\ outcome[t] = "none"
        /\ UNCHANGED << status, call, outcome, inFlight, event, granted >>
      BY <1>3 DEF Drain, At, Inv, TypeOK, Running
  <2>2. /\ \A c \in Channels : handle'[c] = 1 => handle[c] = 1
        /\ \A c \in Channels : handle[c] = 0 => handle'[c] = 0
        /\ handle'[ChannelOf(t)] = 0
      BY <1>0, <1>3, <2>1 DEF Drain, Inv, TypeOK
  <2>3. Exclusive(t) => Settled(ChannelOf(t))
      BY <1>3 DEF Drain, Exclusive
  <2> QED BY <1>0, <2>1, <2>2, <2>3 DEF Own, OwnCall, Exclusive, Private, ChannelOf, Settled
<1>4. ASSUME NEW t \in Tasks, Send(t)
      PROVE  Own'
  <2>1. /\ \A u \in Tasks \ {t} : pc'[u] = pc[u] /\ outcome'[u] = outcome[u]
        /\ pc[t] = "send"
        /\ \/ pc'[t] = "wait" /\ outcome'[t] = "none"
           \/ pc'[t] = "idle" /\ outcome'[t] = "failed"
        /\ inFlight' \subseteq inFlight \cup {call[t]}
        /\ UNCHANGED << status, handle, call, event, granted >>
      BY <1>4 DEF Send, At, Return, Inv, TypeOK
  <2>2. \A u \in Tasks \ {t} : Exclusive(u) => ChannelOf(u) # ChannelOf(t)
      BY <2>1 DEF Exclusive, Private, ChannelOf, Inv, Running
  <2>3. Exclusive(t) => handle[ChannelOf(t)] = 0 /\ event # call[t]
      BY <2>1 DEF Own, OwnCall, Exclusive, Private, Ids
  <2> QED BY <2>1, <2>2, <2>3 DEF Own, OwnCall, Exclusive, Private, ChannelOf
<1>5. ASSUME NEW t \in Tasks, Take(t)
      PROVE  Own'
  <2>1. /\ \A u \in Tasks \ {t} : pc'[u] = pc[u]
        /\ pc[t] = "wait" /\ pc'[t] = "check" /\ handle[ChannelOf(t)] = 1
        /\ UNCHANGED << status, call, outcome, inFlight, event, granted >>
      BY <1>5 DEF Take, At, Inv, TypeOK
  <2>2. /\ \A c \in Channels : handle'[c] = 1 => handle[c] = 1
        /\ \A c \in Channels : handle[c] = 0 => handle'[c] = 0
      BY <1>0, <1>5, <2>1 DEF Take, Inv, TypeOK
  <2> QED BY <1>0, <2>1, <2>2 DEF Own, OwnCall, Exclusive, Private, ChannelOf
<1>6. ASSUME NEW t \in Tasks, Timeout(t) \/ Check(t)
      PROVE  Own'
  <2>1. /\ \A u \in Tasks \ {t} : pc'[u] = pc[u] /\ outcome'[u] = outcome[u]
        /\ pc'[t] = "idle" /\ outcome'[t] # "none"
        /\ outcome'[t] = "ok" => pc[t] = "check" /\ status[ChannelOf(t)]
        /\ UNCHANGED << status, handle, call, inFlight, event, granted >>
      BY <1>6 DEF Timeout, Check, At, Return, Inv, TypeOK
  <2> QED BY <2>1 DEF Own, OwnCall, Exclusive, Private, ChannelOf
<1>7. ASSUME NEW r \in inFlight, NEW success \in BOOLEAN, Answer(r, success)
      PROVE  Own'
  <2>1. /\ UNCHANGED << handle, pc, call, outcome >>
        /\ inFlight' \subseteq inFlight /\ event' = r /\ event = NoRequest
        /\ granted \subseteq granted'
        /\ success => r.id \in granted'
      BY <1>7 DEF Answer
  <2>2. /\ status'[Channel(r.op)] = success
        /\ \A c \in Channels \ {Channel(r.op)} : status'[c] = status[c]
      BY <1>7, ChannelTypes DEF Answer, Verdict, Inv, TypeOK, Requests
  <2>3. ASSUME NEW t \in Tasks, Exclusive(t), pc[t] \in {"wait", "check"}, status'[ChannelOf(t)],
               handle[ChannelOf(t)] = 1 \/ pc[t] = "check" \/ r = call[t]
        PROVE  call[t].id \in granted'
    <3>1. CASE ChannelOf(t) = Channel(r.op)
      <4>1. r = call[t]
          BY <2>3, <3>1 DEF Own, OwnCall
      <4> QED BY <2>1, <2>2, <2>3, <3>1, <4>1
    <3>2. CASE ChannelOf(t) # Channel(r.op)
        BY <1>0, <2>1, <2>2, <2>3, <3>2 DEF Own, OwnCall, Exclusive, Private, ChannelOf
    <3> QED BY <3>1, <3>2
  <2> QED BY <2>1, <2>3 DEF Own, OwnCall, Exclusive, Private, ChannelOf
<1>8. CASE Give
  <2>1. /\ UNCHANGED << status, pc, call, outcome, inFlight, granted >>
        /\ event # NoRequest /\ event' = NoRequest
      BY <1>8 DEF Give
  <2>2. \A c \in Channels : handle'[c] = 1 => handle[c] = 1 \/ c = Channel(event.op)
      BY <1>8 DEF Give, Inv, TypeOK
  <2>3. \A c \in Channels \ {Channel(event.op)} : handle'[c] = handle[c]
      BY <1>8 DEF Give, Inv, TypeOK
  <2>4. ASSUME NEW t \in Tasks, pc[t] # "idle"
        PROVE  NoRequest # call[t]
      BY <2>4, CallsAssumption DEF Inv, Running, Requests, NoRequest
  <2>5. ASSUME NEW t \in Tasks, Exclusive(t), pc[t] = "send"
        PROVE  ChannelOf(t) # Channel(event.op)
      BY <2>1, <2>5 DEF Own, OwnCall, Exclusive, Private, Ids
  <2> QED BY <1>0, <2>1, <2>2, <2>3, <2>4, <2>5 DEF Own, OwnCall, Exclusive, Private, ChannelOf
<1>9. ASSUME NEW r \in inFlight, Removed(r) \/ Lose(r)
      PROVE  Own'
    BY <1>9 DEF Own, OwnCall, Exclusive, Private, Removed, Lose, clientVars, ChannelOf
<1>10. CASE Closed
  <2>1. \A c \in Channels : status'[c] => status[c]
      BY <1>10 DEF Closed, Inv, TypeOK
  <2> QED BY <1>0, <1>10, <2>1 DEF Own, OwnCall, Exclusive, Private, Closed, ChannelOf
<1>11. CASE UNCHANGED vars
    BY <1>11 DEF Own, OwnCall, Exclusive, Private, vars, clientVars, ChannelOf
<1> QED
    BY <1>1, <1>2, <1>3, <1>4, <1>5, <1>6, <1>7, <1>8, <1>9, <1>10, <1>11
    DEF Next, Step, Stack

\* Which action of BrokerCalls each step is, if any.
LEMMA CallsStep ==
  ASSUME Inv, Ids, Own, Own', [Next]_vars
  PROVE  [Calls!Next]_(Calls!callVars)
<1> USE IdTypes
<1> DEFINE Phase(t) == IF pc[t] # "idle" THEN "called"
                       ELSE CASE outcome[t] = "none" -> "idle"
                              [] outcome[t] = "ok" -> "ok"
                              [] OTHER -> "failed"
           phase == [t \in Tasks |-> Phase(t)]
           accepted == {t \in Tasks : Accepted(t)}
<1>1. ASSUME phase' = phase, accepted' = accepted
      PROVE  [Calls!Next]_(Calls!callVars)
    BY <1>1 DEF Calls!callVars
<1>2. ASSUME NEW t \in Tasks,
             \/ Calls!Call(t) \/ Calls!Accept(t) \/ Calls!Return(t)
      PROVE  [Calls!Next]_(Calls!callVars)
    BY <1>2 DEF Calls!Next
<1>3. ASSUME NEW t \in Tasks, NEW op \in Ops, Begin(t, op)
      PROVE  Calls!Call(t)
  <2>1. /\ phase[t] # "called"
        /\ phase' = [phase EXCEPT ![t] = "called"]
      BY <1>3 DEF Begin, At, Inv, TypeOK
  <2>2. accepted' = accepted \ {t}
    <3>1. /\ call'[t].id = calls + 1 /\ granted' = granted /\ pc'[t] = "clear"
          /\ \A u \in Tasks \ {t} : call'[u] = call[u] /\ pc'[u] = pc[u]
        BY <1>3 DEF Begin, At, Inv, TypeOK
    <3>2. calls + 1 \notin granted
        BY DEF Ids, Inv
    <3>3. ~ Accepted(t)'
        BY <3>1, <3>2 DEF Accepted
    <3>4. \A u \in Tasks \ {t} : Accepted(u)' <=> Accepted(u)
        BY <3>1 DEF Accepted, Exclusive, Private, ChannelOf
    <3> QED BY <3>3, <3>4
  <2> QED BY <2>1, <2>2 DEF Calls!Call
<1>4. ASSUME NEW t \in Tasks, Drain(t) \/ Take(t)
      PROVE  phase' = phase /\ accepted' = accepted
  <2>1. /\ pc[t] \notin {"idle", "clear"} /\ pc'[t] \notin {"idle", "clear"}
        /\ \A u \in Tasks \ {t} : pc'[u] = pc[u]
        /\ UNCHANGED << call, outcome, granted >>
      BY <1>4 DEF Drain, Take, At, Inv, TypeOK
  <2> QED BY <2>1 DEF Accepted, Exclusive, Private, ChannelOf
\* The clear of a call on a channel that others disturb accepts it.
<1>14. ASSUME NEW t \in Tasks, Clear(t)
       PROVE  [Calls!Next]_(Calls!callVars)
  <2>1. /\ pc[t] = "clear" /\ pc'[t] = "drain" /\ call[t] # NoRequest
        /\ \A u \in Tasks \ {t} : pc'[u] = pc[u]
        /\ UNCHANGED << call, outcome, granted >>
      BY <1>14, CallsAssumption DEF Clear, At, Inv, TypeOK, Running, Requests, NoRequest
  <2>2. phase' = phase /\ phase[t] # "idle"
      BY <2>1
  <2>3. CASE Accepted(t) \/ Exclusive(t)
    <3>1. accepted' = accepted
        BY <2>1, <2>3 DEF Accepted, Exclusive, Private, ChannelOf
    <3> QED BY <1>1, <2>2, <3>1
  <2>4. CASE ~ Exclusive(t)
    <3>1. accepted' = accepted \cup {t}
        BY <2>1, <2>4 DEF Accepted, Exclusive, Private, ChannelOf
    <3> QED BY <1>2, <2>2, <3>1 DEF Calls!Accept
  <2> QED BY <2>3, <2>4
<1>5. ASSUME NEW t \in Tasks, Send(t), pc'[t] = "wait"
      PROVE  phase' = phase /\ accepted' = accepted
  <2>1. /\ pc[t] = "send" /\ pc'[t] = "wait"
        /\ \A u \in Tasks \ {t} : pc'[u] = pc[u]
        /\ UNCHANGED << call, outcome, granted >>
      BY <1>5 DEF Send, At, Return, Inv, TypeOK, Running
  <2> QED BY <2>1 DEF Accepted, Exclusive, Private, ChannelOf
<1>6. ASSUME NEW t \in Tasks, Send(t) \/ Timeout(t) \/ Check(t), pc'[t] # "wait"
      PROVE  Calls!Return(t)
  <2>1. /\ pc[t] # "idle" /\ pc'[t] = "idle"
        /\ outcome'[t] \in {"ok", "failed", "timeout"}
        /\ \A u \in Tasks \ {t} : pc'[u] = pc[u] /\ outcome'[u] = outcome[u]
        /\ UNCHANGED << call, granted >>
      BY <1>6 DEF Send, Timeout, Check, At, Return, Inv, TypeOK
  <2>2. phase[t] = "called" /\ accepted' = accepted
    <3>1. pc[t] # "clear" /\ pc'[t] # "clear"
        BY <1>6 DEF Send, Timeout, Check, At, Inv, TypeOK
    <3> QED BY <2>1, <3>1 DEF Accepted, Exclusive, Private, ChannelOf
  <2>3. CASE outcome'[t] = "ok"
    <3>1. phase' = [phase EXCEPT ![t] = "ok"]
        BY <2>1, <2>3
    <3>2. call'[t] # NoRequest
        BY <2>1, CallsAssumption DEF Inv, TypeOK, Running, Requests, NoRequest
    <3>3. t \in accepted'
        BY <2>1, <2>3, <3>2 DEF Own, OwnCall, Accepted
    <3> QED BY <2>2, <3>1, <3>3 DEF Calls!Return
  <2>4. CASE outcome'[t] # "ok"
    <3>1. phase' = [phase EXCEPT ![t] = "failed"]
        BY <2>1, <2>4
    <3> QED BY <2>2, <3>1 DEF Calls!Return
  <2> QED BY <2>3, <2>4
<1>7. ASSUME NEW r \in inFlight, UNCHANGED << pc, call, outcome >>,
             granted' = granted \cup {r.id}
      PROVE  [Calls!Next]_(Calls!callVars)
  <2>1. phase' = phase
      BY <1>7
  <2>2. CASE \E t \in Tasks : call[t].id = r.id
    <3>1. PICK t \in Tasks : call[t].id = r.id
        BY <2>2
    <3>2. accepted' = accepted \cup {t}
        BY <1>7, <3>1 DEF Ids, Inv, Accepted, Exclusive, Private, ChannelOf
    <3>3. phase[t] # "idle"
        BY <3>1 DEF Own, Inv, TypeOK, NoRequest
    <3> QED BY <1>2, <2>1, <3>2, <3>3 DEF Calls!Accept
  <2>3. CASE \A t \in Tasks : call[t].id # r.id
    <3>1. accepted' = accepted
        BY <1>7, <2>3 DEF Accepted, Exclusive, Private, ChannelOf
    <3> QED BY <1>1, <2>1, <3>1
  <2> QED BY <2>2, <2>3
<1>8. ASSUME NEW r \in inFlight, Answer(r, TRUE) \/ Removed(r)
      PROVE  [Calls!Next]_(Calls!callVars)
    BY <1>7, <1>8 DEF Answer, Removed, clientVars
<1>9. ASSUME \/ \E r \in inFlight : Answer(r, FALSE) \/ Lose(r)
             \/ Give \/ Closed \/ UNCHANGED vars
      PROVE  phase' = phase /\ accepted' = accepted
  <2>1. UNCHANGED << pc, call, outcome, granted >>
      BY <1>9 DEF Answer, Lose, Give, Closed, vars, clientVars
  <2> QED BY <2>1 DEF Accepted, Exclusive, Private, ChannelOf
<1>10. CASE \E t \in Tasks : \E op \in Ops : Begin(t, op)
    BY <1>2, <1>3, <1>10
<1>11. CASE \E t \in Tasks : Step(t)
  <2>1. PICK t \in Tasks : Step(t)
      BY <1>11
  <2>2. CASE Clear(t) \/ Drain(t) \/ Take(t)
      BY <1>1, <1>4, <1>14, <2>2
  <2>3. CASE Send(t) /\ pc'[t] = "wait"
      BY <1>1, <1>5, <2>3
  <2>4. CASE Send(t) /\ pc'[t] # "wait"
      BY <1>2, <1>6, <2>4
  <2>5. CASE Timeout(t) \/ Check(t)
    <3>1. pc'[t] # "wait"
        BY <2>5 DEF Timeout, Check, At, Inv, TypeOK
    <3> QED BY <1>2, <1>6, <2>5, <3>1
  <2> QED BY <2>1, <2>2, <2>3, <2>4, <2>5 DEF Step
<1>12. CASE Stack
    BY <1>1, <1>8, <1>9, <1>12 DEF Stack
<1>13. CASE UNCHANGED vars
    BY <1>1, <1>9, <1>13
<1> QED BY <1>10, <1>11, <1>12, <1>13 DEF Next

LEMMA CallsInit == Init => Calls!Init
BY DEF Init, Calls!Init, NoRequest, Accepted

\* Where answers are punctual and channels private the client is safe to use as
\* BrokerCalls says: a call returns OK only if the broker accepted its request.
THEOREM CallsImplemented == Spec => Calls!Init /\ [][Calls!Next]_(Calls!callVars)
<1>1. Inv /\ Ids /\ Own /\ [Next]_vars => Own'
    BY OwnStep
<1>2. Inv /\ Ids /\ Own /\ Own' /\ [Next]_vars => [Calls!Next]_(Calls!callVars)
    BY CallsStep
<1> QED
    BY <1>1, <1>2, InvHolds, IdsInit, IdsStep, OwnInit, CallsInit, PTL DEF Spec
=============================================================================
