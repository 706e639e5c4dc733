------------------------ MODULE Connectivity_proofs ------------------------
(***************************************************************************)
(* Theorems about Connectivity, for any number of attempts, secure or not. *)
(***************************************************************************)
EXTENDS Connectivity, TLAPS

\* What has been subscribed when next is about to be, if nothing failed.
Before(topic) == IF topic = "restart" THEN {"command"}
                 ELSE IF topic = "error" THEN {"command", "restart"}
                 ELSE {}

\* Nothing is due until the App task comes to its loop, or it is subscribing.
StartsFresh ==
  pc \in Starting => ~completed

\* In the middle of a subscription the topics before next are there; outside,
\* all of them are, unless they are not due or a call failed.
Kept ==
  connected /\ ~excused =>
    /\ pc = "subscribe" => Before(next) \subseteq topics
    /\ TopicsDue /\ pc \notin Starting \cup {"subscribe", "suspended"}
         => Topics(mode) \subseteq topics

\* The counter passes its limit only in a validation whose last call failed.
Counted ==
  /\ connectAttemps > MaxAttempts =>
       \/ pc = "reconnect"
       \/ pc = "subscribe" /\ caller = "validate"
       \/ pc \in {"verdict", "reset"} /\ excused
  /\ pc = "reset" => excused
  /\ pc = "connect" => connectAttemps < MaxAttempts
  /\ pc = "sync" => connectAttemps = 0

Inv == TypeOK /\ StartsFresh /\ Kept /\ Counted

-----------------------------------------------------------------------------
\* TypeOK in parts, which a step that changes much keeps one by one.
SessionTypes ==
  /\ mode \in Modes
  /\ wlan \in BOOLEAN /\ connected \in BOOLEAN
  /\ topics \subseteq Topics(mode)
  /\ next \in Topics(mode)
  /\ excused \in BOOLEAN

ControlTypes ==
  /\ pc \in Places
  /\ caller \in {"init", "validate", "publish"}
  /\ inner \in BOOLEAN /\ retcodeOk \in BOOLEAN
  /\ completed \in BOOLEAN

ClockTypes == sntpOn \in BOOLEAN /\ isSntpDisabled \in BOOLEAN

CounterTypes == connectAttemps \in 0..MaxAttempts + 1

\* Where the App task can be.
LEMMA IsPlace ==
  /\ "sync" \in Places /\ "connect" \in Places
  /\ "validate" \in Places /\ "sntp" \in Places
  /\ "rejoin" \in Places /\ "enable" \in Places
  /\ "broker" \in Places /\ "reconnect" \in Places
  /\ "verdict" \in Places /\ "subscribe" \in Places
  /\ "publish" \in Places /\ "reset" \in Places
  /\ "suspended" \in Places
BY DEF Places, Starting, Validating

\* The order of the topics: which follows which, and what the last completes.
LEMMA TopicOrder ==
  ASSUME NEW m \in Modes, NEW topic \in Topics(m)
  PROVE  /\ topic = "command" => /\ "restart" \in Topics(m)
                                 /\ Before("restart") = {"command"}
         /\ topic = "restart" => /\ "error" \in Topics(m)
                                 /\ Before("error") = Before(topic) \cup {topic}
         /\ topic \in {"error", "credential"} =>
              Topics(m) = Before(topic) \cup {topic}
<1>1. CASE m = "operation"
    BY <1>1 DEF Topics, OperationTopics, Before
<1>2. CASE m = "registration"
    BY <1>2 DEF Topics, Before
<1> QED BY <1>1, <1>2 DEF Modes

\* Nothing comes before the first topic.
LEMMA FirstTopicFacts ==
  ASSUME NEW m \in Modes
  PROVE  FirstTopic(m) \in Topics(m) /\ Before(FirstTopic(m)) = {}
BY DEF Modes, Topics, OperationTopics, FirstTopic, Before

LEMMA InvInit == Init => Inv
<1> SUFFICES ASSUME Init PROVE Inv
    OBVIOUS
<1>1. TypeOK
  <2>1. SessionTypes
      BY FirstTopicFacts DEF Init, SessionTypes
  <2>2. ControlTypes
      BY IsPlace DEF Init, ControlTypes
  <2>3. ClockTypes
      BY ConstantsAssumption DEF Init, ClockTypes
  <2>4. CounterTypes
      BY ConstantsAssumption DEF Init, CounterTypes
  <2> QED BY <2>1, <2>2, <2>3, <2>4
         DEF TypeOK, SessionTypes, ControlTypes, ClockTypes, CounterTypes
<1>2. StartsFresh /\ Kept
    BY DEF Init, StartsFresh, Kept
<1>3. Counted
    BY ConstantsAssumption DEF Init, Counted
<1> QED BY <1>1, <1>2, <1>3 DEF Inv

LEMMA BootInv == Inv /\ Boot => Inv'
<1> SUFFICES ASSUME Inv, Boot PROVE Inv'
    OBVIOUS
<1>1. TypeOK'
  <2>1. SessionTypes'
      BY FirstTopicFacts DEF Boot, Inv, TypeOK, SessionTypes
  <2>2. ControlTypes'
      BY IsPlace DEF Boot, Inv, TypeOK, ControlTypes
  <2>3. ClockTypes'
      BY ConstantsAssumption DEF Boot, Inv, TypeOK, ClockTypes
  <2>4. CounterTypes'
      BY ConstantsAssumption DEF Boot, Inv, TypeOK, CounterTypes
  <2> QED BY <2>1, <2>2, <2>3, <2>4
         DEF TypeOK, SessionTypes, ControlTypes, ClockTypes, CounterTypes
<1>2. StartsFresh' /\ Kept'
    BY DEF Boot, StartsFresh, Kept
<1>3. Counted'
    BY ConstantsAssumption DEF Boot, Counted
<1> QED BY <1>1, <1>2, <1>3 DEF Inv

LEMMA StartInv ==
  Inv /\ (SyncTime \/ FirstConnect \/ FirstConnectFails) => Inv'
<1>1. Inv /\ SyncTime => Inv'
  <2> SUFFICES ASSUME Inv, SyncTime PROVE Inv'
      OBVIOUS
  <2>1. TypeOK'
      BY ConstantsAssumption, IsPlace DEF SyncTime, Go, GiveUp, session,
         clock, subscription, Inv, TypeOK, Counted
  <2>2. StartsFresh'
      BY DEF SyncTime, Go, GiveUp, session, clock, subscription, Inv,
         StartsFresh, Starting
  <2>3. Kept'
      BY DEF SyncTime, Go, GiveUp, session, clock, subscription, Inv,
         TypeOK, StartsFresh, Kept, TopicsDue, Starting
  <2>4. Counted'
      BY ConstantsAssumption DEF SyncTime, Go, GiveUp, session, clock,
         subscription, Inv, TypeOK, Counted
  <2> QED BY <2>1, <2>2, <2>3, <2>4 DEF Inv
<1>2. Inv /\ FirstConnect => Inv'
  <2> SUFFICES ASSUME Inv, FirstConnect PROVE Inv'
      OBVIOUS
  <2>1. TypeOK'
    <3>1. SessionTypes'
        BY FirstTopicFacts DEF FirstConnect, Go, Connect,
           BeginSubscription, Modes, clock, subscription, Inv, TypeOK,
           SessionTypes
    <3>2. ControlTypes'
        BY IsPlace DEF FirstConnect, Go, Connect, BeginSubscription,
           Modes, clock, subscription, Inv, TypeOK, ControlTypes
    <3>3. ClockTypes'
        BY DEF FirstConnect, Go, Connect, BeginSubscription, Modes, clock,
           subscription, Inv, TypeOK, ClockTypes
    <3>4. CounterTypes'
        BY ConstantsAssumption DEF FirstConnect, Go, Connect,
           BeginSubscription, Modes, clock, subscription, Inv, TypeOK,
           CounterTypes, Counted
    <3> QED BY <3>1, <3>2, <3>3, <3>4
           DEF TypeOK, SessionTypes, ControlTypes, ClockTypes, CounterTypes
  <2>2. StartsFresh'
      BY DEF FirstConnect, Go, Connect, BeginSubscription, Modes, clock,
         subscription, Inv, StartsFresh, Starting
  <2>3. Kept'
      BY FirstTopicFacts DEF FirstConnect, Go, Connect,
         BeginSubscription, Modes, clock, subscription, Inv, TypeOK,
         StartsFresh, Kept, TopicsDue, Starting
  <2>4. Counted'
      BY ConstantsAssumption DEF FirstConnect, Go, Connect,
         BeginSubscription, Modes, clock, subscription, Inv, TypeOK,
         Counted
  <2> QED BY <2>1, <2>2, <2>3, <2>4 DEF Inv
<1>3. Inv /\ FirstConnectFails => Inv'
  <2> SUFFICES ASSUME Inv, FirstConnectFails PROVE Inv'
      OBVIOUS
  <2>1. TypeOK'
    <3>1. SessionTypes'
        BY DEF FirstConnectFails, Go, GiveUp, Connect, clock,
           subscription, Inv, TypeOK, SessionTypes
    <3>2. ControlTypes'
        BY IsPlace DEF FirstConnectFails, Go, GiveUp, Connect, clock,
           subscription, Inv, TypeOK, ControlTypes
    <3>3. ClockTypes'
        BY DEF FirstConnectFails, Go, GiveUp, Connect, clock,
           subscription, Inv, TypeOK, ClockTypes
    <3>4. CounterTypes'
        BY ConstantsAssumption DEF FirstConnectFails, Go, GiveUp, Connect,
           clock, subscription, Inv, TypeOK, CounterTypes, Counted
    <3> QED BY <3>1, <3>2, <3>3, <3>4
           DEF TypeOK, SessionTypes, ControlTypes, ClockTypes, CounterTypes
  <2>2. StartsFresh'
      BY DEF FirstConnectFails, Go, GiveUp, Connect, clock,
         subscription, Inv, StartsFresh, Starting
  <2>3. Kept'
      BY DEF FirstConnectFails, Go, GiveUp, Connect, clock,
         subscription, Inv, TypeOK, StartsFresh, Kept, TopicsDue, Starting
  <2>4. Counted'
    <3>1. CASE connectAttemps + 1 < MaxAttempts
        BY <3>1, ConstantsAssumption DEF FirstConnectFails, Go, GiveUp,
           Connect, clock, subscription, Inv, TypeOK, Counted
    <3>2. CASE connectAttemps + 1 >= MaxAttempts
      <4>1. connectAttemps' = 0
          BY <3>2, ConstantsAssumption DEF FirstConnectFails, Inv, TypeOK
      <4>2. excused'
          BY DEF FirstConnectFails, Connect
      <4>3. pc' \in {"reset", "suspended"}
          BY <3>2, ConstantsAssumption
             DEF FirstConnectFails, Go, GiveUp, Inv, TypeOK
      <4> QED BY <4>1, <4>2, <4>3, ConstantsAssumption DEF Counted
    <3> QED BY <3>1, <3>2 DEF FirstConnectFails
  <2> QED BY <2>1, <2>2, <2>3, <2>4 DEF Inv
<1> QED BY <1>1, <1>2, <1>3

LEMMA ValidateInv ==
  Inv /\ (CheckWlan \/ DisableSntp \/ Rejoin \/ EnableSntp \/
            CheckBroker \/ Reconnect \/ ReconnectFails \/ Verdict) => Inv'
<1>1. Inv /\ CheckWlan => Inv'
  <2> SUFFICES ASSUME Inv, CheckWlan PROVE Inv'
      OBVIOUS
  <2>1. TypeOK'
      BY ConstantsAssumption, IsPlace DEF CheckWlan, Go, session, clock,
         subscription, Inv, TypeOK, Counted
  <2>2. StartsFresh'
      BY DEF CheckWlan, Go, session, clock, subscription, Inv,
         StartsFresh, Starting
  <2>3. Kept'
      BY DEF CheckWlan, Go, session, clock, subscription, Inv, TypeOK,
         StartsFresh, Kept, TopicsDue, Starting
  <2>4. Counted'
      BY ConstantsAssumption DEF CheckWlan, Go, session, clock,
         subscription, Inv, TypeOK, Counted
  <2> QED BY <2>1, <2>2, <2>3, <2>4 DEF Inv
<1>2. Inv /\ DisableSntp => Inv'
  <2> SUFFICES ASSUME Inv, DisableSntp PROVE Inv'
      OBVIOUS
  <2>1. TypeOK'
      BY ConstantsAssumption, IsPlace DEF DisableSntp, Go, session,
         clock, subscription, Inv, TypeOK, Counted
  <2>2. StartsFresh'
      BY DEF DisableSntp, Go, session, clock, subscription, Inv,
         StartsFresh, Starting
  <2>3. Kept'
      BY DEF DisableSntp, Go, session, clock, subscription, Inv, TypeOK,
         StartsFresh, Kept, TopicsDue, Starting
  <2>4. Counted'
      BY ConstantsAssumption DEF DisableSntp, Go, session, clock,
         subscription, Inv, TypeOK, Counted
  <2> QED BY <2>1, <2>2, <2>3, <2>4 DEF Inv
<1>3. Inv /\ Rejoin => Inv'
  <2> SUFFICES ASSUME Inv, Rejoin PROVE Inv'
      OBVIOUS
  <2>1. TypeOK'
      BY ConstantsAssumption, IsPlace DEF Rejoin, Go, session, clock,
         subscription, Inv, TypeOK, Counted
  <2>2. StartsFresh'
      BY DEF Rejoin, Go, session, clock, subscription, Inv, StartsFresh,
         Starting
  <2>3. Kept'
      BY DEF Rejoin, Go, session, clock, subscription, Inv, TypeOK,
         StartsFresh, Kept, TopicsDue, Starting
  <2>4. Counted'
      BY ConstantsAssumption DEF Rejoin, Go, session, clock,
         subscription, Inv, TypeOK, Counted
  <2> QED BY <2>1, <2>2, <2>3, <2>4 DEF Inv
<1>4. Inv /\ EnableSntp => Inv'
  <2> SUFFICES ASSUME Inv, EnableSntp PROVE Inv'
      OBVIOUS
  <2>1. TypeOK'
      BY ConstantsAssumption, IsPlace DEF EnableSntp, Go, session,
         subscription, Inv, TypeOK, Counted
  <2>2. StartsFresh'
      BY DEF EnableSntp, Go, session, subscription, Inv, StartsFresh,
         Starting
  <2>3. Kept'
      BY DEF EnableSntp, Go, session, subscription, Inv, TypeOK,
         StartsFresh, Kept, TopicsDue, Starting
  <2>4. Counted'
      BY ConstantsAssumption DEF EnableSntp, Go, session, subscription,
         Inv, TypeOK, Counted
  <2> QED BY <2>1, <2>2, <2>3, <2>4 DEF Inv
<1>5. Inv /\ CheckBroker => Inv'
  <2> SUFFICES ASSUME Inv, CheckBroker PROVE Inv'
      OBVIOUS
  <2>1. TypeOK'
    <3>1. SessionTypes'
        BY DEF CheckBroker, Go, session, clock, subscription, Inv, TypeOK,
           SessionTypes
    <3>2. ControlTypes'
        BY IsPlace DEF CheckBroker, Go, session, clock, subscription, Inv,
           TypeOK, ControlTypes
    <3>3. ClockTypes'
        BY DEF CheckBroker, Go, session, clock, subscription, Inv, TypeOK,
           ClockTypes
    <3>4. CounterTypes'
        BY ConstantsAssumption DEF CheckBroker, Go, session, clock,
           subscription, Inv, TypeOK, CounterTypes, Counted
    <3> QED BY <3>1, <3>2, <3>3, <3>4
           DEF TypeOK, SessionTypes, ControlTypes, ClockTypes, CounterTypes
  <2>2. StartsFresh'
      BY DEF CheckBroker, Go, session, clock, subscription, Inv,
         StartsFresh, Starting
  <2>3. Kept'
      BY DEF CheckBroker, Go, session, clock, subscription, Inv, TypeOK,
         StartsFresh, Kept, TopicsDue, Starting
  <2>4. Counted'
      BY ConstantsAssumption DEF CheckBroker, Go, session, clock,
         subscription, Inv, TypeOK, Counted
  <2> QED BY <2>1, <2>2, <2>3, <2>4 DEF Inv
<1>6. Inv /\ Reconnect => Inv'
  <2> SUFFICES ASSUME Inv, Reconnect PROVE Inv'
      OBVIOUS
  <2>1. TypeOK'
      BY ConstantsAssumption, IsPlace, FirstTopicFacts DEF Reconnect,
         Go, Connect, BeginSubscription, clock, Inv, TypeOK, Counted
  <2>2. StartsFresh'
      BY DEF Reconnect, Go, Connect, BeginSubscription, clock, Inv,
         StartsFresh, Starting
  <2>3. Kept'
      BY FirstTopicFacts DEF Reconnect, Go, Connect, BeginSubscription,
         clock, Inv, TypeOK, StartsFresh, Kept, TopicsDue, Starting
  <2>4. Counted'
      BY ConstantsAssumption DEF Reconnect, Go, Connect,
         BeginSubscription, clock, Inv, TypeOK, Counted
  <2> QED BY <2>1, <2>2, <2>3, <2>4 DEF Inv
<1>7. Inv /\ ReconnectFails => Inv'
  <2> SUFFICES ASSUME Inv, ReconnectFails PROVE Inv'
      OBVIOUS
  <2>1. TypeOK'
      BY ConstantsAssumption, IsPlace DEF ReconnectFails, Go, Connect,
         clock, subscription, Inv, TypeOK, Counted
  <2>2. StartsFresh'
      BY DEF ReconnectFails, Go, Connect, clock, subscription, Inv,
         StartsFresh, Starting
  <2>3. Kept'
      BY DEF ReconnectFails, Go, Connect, clock, subscription, Inv,
         TypeOK, StartsFresh, Kept, TopicsDue, Starting
  <2>4. Counted'
      BY ConstantsAssumption DEF ReconnectFails, Go, Connect, clock,
         subscription, Inv, TypeOK, Counted
  <2> QED BY <2>1, <2>2, <2>3, <2>4 DEF Inv
<1>8. Inv /\ Verdict => Inv'
  <2> SUFFICES ASSUME Inv, Verdict PROVE Inv'
      OBVIOUS
  <2>1. TypeOK'
      BY ConstantsAssumption, IsPlace DEF Verdict, Go, session, clock,
         subscription, Inv, TypeOK, Counted
  <2>2. StartsFresh'
      BY DEF Verdict, Go, session, clock, subscription, Inv,
         StartsFresh, Starting
  <2>3. Kept'
      BY DEF Verdict, Go, session, clock, subscription, Inv, TypeOK,
         StartsFresh, Kept, TopicsDue, Starting
  <2>4. Counted'
      BY ConstantsAssumption DEF Verdict, Go, session, clock,
         subscription, Inv, TypeOK, Counted
  <2> QED BY <2>1, <2>2, <2>3, <2>4 DEF Inv
<1> QED BY <1>1, <1>2, <1>3, <1>4, <1>5, <1>6, <1>7, <1>8

LEMMA SubscribeInv ==
  Inv /\ (SubscribeMore \/ Subscribed \/ SubscribeFails) => Inv'
<1>1. Inv /\ SubscribeMore => Inv'
  <2> SUFFICES ASSUME Inv, SubscribeMore PROVE Inv'
      OBVIOUS
  <2>1. TypeOK'
    <3>1. SessionTypes'
      <4>1. CASE next = "command"
          BY <4>1, TopicOrder
             DEF SubscribeMore, SubscribeTo, Inv, TypeOK, SessionTypes
      <4>2. CASE next = "restart"
          BY <4>2, TopicOrder
             DEF SubscribeMore, SubscribeTo, Inv, TypeOK, SessionTypes
      <4> QED BY <4>1, <4>2 DEF SubscribeMore
    <3>2. ControlTypes'
        BY IsPlace DEF SubscribeMore, Go, Inv, TypeOK, ControlTypes
    <3>3. ClockTypes'
        BY DEF SubscribeMore, clock, Inv, TypeOK, ClockTypes
    <3>4. CounterTypes'
        BY DEF SubscribeMore, Inv, TypeOK, CounterTypes
    <3> QED BY <3>1, <3>2, <3>3, <3>4
           DEF TypeOK, SessionTypes, ControlTypes, ClockTypes, CounterTypes
  <2>2. StartsFresh'
      BY DEF SubscribeMore, Go, SubscribeTo, clock, Inv, StartsFresh,
         Starting
  <2>3. Kept'
    <3>1. CASE next = "command"
        BY <3>1, TopicOrder DEF SubscribeMore, Go, SubscribeTo, clock,
           Inv, TypeOK, Kept, TopicsDue
    <3>2. CASE next = "restart"
        BY <3>2, TopicOrder DEF SubscribeMore, Go, SubscribeTo, clock,
           Inv, TypeOK, Kept, TopicsDue
    <3> QED BY <3>1, <3>2 DEF SubscribeMore
  <2>4. Counted'
      BY ConstantsAssumption DEF SubscribeMore, Go, SubscribeTo, clock,
         Inv, TypeOK, Counted
  <2> QED BY <2>1, <2>2, <2>3, <2>4 DEF Inv
<1>2. Inv /\ Subscribed => Inv'
  <2> SUFFICES ASSUME Inv, Subscribed PROVE Inv'
      OBVIOUS
  <2>1. TypeOK'
    <3>1. SessionTypes'
        BY TopicOrder DEF Subscribed, Go, SubscribeTo, clock,
           subscription, Inv, TypeOK, SessionTypes
    <3>2. ControlTypes'
        BY IsPlace DEF Subscribed, Go, SubscribeTo, clock, subscription,
           Inv, TypeOK, ControlTypes
    <3>3. ClockTypes'
        BY DEF Subscribed, Go, SubscribeTo, clock, subscription, Inv,
           TypeOK, ClockTypes
    <3>4. CounterTypes'
        BY ConstantsAssumption DEF Subscribed, Go, SubscribeTo, clock,
           subscription, Inv, TypeOK, CounterTypes, Counted
    <3> QED BY <3>1, <3>2, <3>3, <3>4
           DEF TypeOK, SessionTypes, ControlTypes, ClockTypes, CounterTypes
  <2>2. StartsFresh'
      BY DEF Subscribed, Go, SubscribeTo, clock, subscription, Inv,
         StartsFresh, Starting
  <2>3. Kept'
      BY TopicOrder DEF Subscribed, Go, SubscribeTo, clock,
         subscription, Inv, TypeOK, StartsFresh, Kept, TopicsDue, Starting
  <2>4. Counted'
      BY ConstantsAssumption DEF Subscribed, Go, SubscribeTo, clock,
         subscription, Inv, TypeOK, Counted
  <2> QED BY <2>1, <2>2, <2>3, <2>4 DEF Inv
<1>3. Inv /\ SubscribeFails => Inv'
  <2> SUFFICES ASSUME Inv, SubscribeFails PROVE Inv'
      OBVIOUS
  <2>1. TypeOK'
      BY ConstantsAssumption, IsPlace DEF SubscribeFails, Go, GiveUp,
         SubscribeTo, clock, subscription, Inv, TypeOK, Counted
  <2>2. StartsFresh'
      BY DEF SubscribeFails, Go, GiveUp, SubscribeTo, clock,
         subscription, Inv, StartsFresh, Starting
  <2>3. Kept'
      BY DEF SubscribeFails, Go, GiveUp, SubscribeTo, clock,
         subscription, Inv, TypeOK, StartsFresh, Kept, TopicsDue, Starting
  <2>4. Counted'
      BY ConstantsAssumption DEF SubscribeFails, Go, GiveUp,
         SubscribeTo, clock, subscription, Inv, TypeOK, Counted
  <2> QED BY <2>1, <2>2, <2>3, <2>4 DEF Inv
<1> QED BY <1>1, <1>2, <1>3

LEMMA LoopInv ==
  Inv /\ (FirstSubscription \/ Publish \/ LoseWlan \/ LoseBroker) => Inv'
<1>1. Inv /\ FirstSubscription => Inv'
  <2> SUFFICES ASSUME Inv, FirstSubscription PROVE Inv'
      OBVIOUS
  <2>1. TypeOK'
      BY ConstantsAssumption, IsPlace, FirstTopicFacts DEF
         FirstSubscription, Go, BeginSubscription, session, clock, Inv,
         TypeOK, Counted
  <2>2. StartsFresh'
      BY DEF FirstSubscription, Go, BeginSubscription, session, clock,
         Inv, StartsFresh, Starting
  <2>3. Kept'
      BY FirstTopicFacts DEF FirstSubscription, Go, BeginSubscription,
         session, clock, Inv, TypeOK, StartsFresh, Kept, TopicsDue,
         Starting
  <2>4. Counted'
      BY ConstantsAssumption DEF FirstSubscription, Go,
         BeginSubscription, session, clock, Inv, TypeOK, Counted
  <2> QED BY <2>1, <2>2, <2>3, <2>4 DEF Inv
<1>2. Inv /\ Publish => Inv'
  <2> SUFFICES ASSUME Inv, Publish PROVE Inv'
      OBVIOUS
  <2>1. TypeOK'
      BY ConstantsAssumption, IsPlace DEF Publish, Go, session, clock,
         subscription, Inv, TypeOK, Counted
  <2>2. StartsFresh'
      BY DEF Publish, Go, session, clock, subscription, Inv,
         StartsFresh, Starting
  <2>3. Kept'
      BY DEF Publish, Go, session, clock, subscription, Inv, TypeOK,
         StartsFresh, Kept, TopicsDue, Starting
  <2>4. Counted'
      BY ConstantsAssumption DEF Publish, Go, session, clock,
         subscription, Inv, TypeOK, Counted
  <2> QED BY <2>1, <2>2, <2>3, <2>4 DEF Inv
<1>3. Inv /\ LoseWlan => Inv'
  <2> SUFFICES ASSUME Inv, LoseWlan PROVE Inv'
      OBVIOUS
  <2>1. TypeOK'
      BY ConstantsAssumption, IsPlace DEF LoseWlan, session, clock,
         subscription, Inv, TypeOK, Counted
  <2>2. StartsFresh'
      BY DEF LoseWlan, session, clock, subscription, Inv, StartsFresh,
         Starting
  <2>3. Kept'
      BY DEF LoseWlan, session, clock, subscription, Inv, TypeOK,
         StartsFresh, Kept, TopicsDue, Starting
  <2>4. Counted'
      BY ConstantsAssumption DEF LoseWlan, session, clock, subscription,
         Inv, TypeOK, Counted
  <2> QED BY <2>1, <2>2, <2>3, <2>4 DEF Inv
<1>4. Inv /\ LoseBroker => Inv'
  <2> SUFFICES ASSUME Inv, LoseBroker PROVE Inv'
      OBVIOUS
  <2>1. TypeOK'
      BY ConstantsAssumption, IsPlace DEF LoseBroker, clock,
         subscription, Inv, TypeOK, Counted
  <2>2. StartsFresh'
      BY DEF LoseBroker, clock, subscription, Inv, StartsFresh, Starting
  <2>3. Kept'
      BY DEF LoseBroker, clock, subscription, Inv, TypeOK, StartsFresh,
         Kept, TopicsDue, Starting
  <2>4. Counted'
      BY ConstantsAssumption DEF LoseBroker, clock, subscription, Inv,
         TypeOK, Counted
  <2> QED BY <2>1, <2>2, <2>3, <2>4 DEF Inv
<1> QED BY <1>1, <1>2, <1>3, <1>4

LEMMA InvStep == Inv /\ [Next]_vars => Inv'
<1>1. Inv /\ AppTask => Inv'
    BY BootInv, StartInv, ValidateInv, SubscribeInv, LoopInv
    DEF AppTask, SoftReset
<1>2. Inv /\ UNCHANGED vars => Inv'
    BY DEF Inv, TypeOK, StartsFresh, Kept, Counted, TopicsDue, vars, session,
       clock, subscription
<1> QED BY <1>1, <1>2, BootInv, LoopInv DEF Next, PowerCycle

THEOREM InvHolds == Spec => []Inv
BY InvInit, InvStep, PTL DEF Spec

-----------------------------------------------------------------------------
\* The connection keeps its types; the counter of attempts stays within one of
\* its limit (MQTTOperation.c:674-693).
THEOREM TypeCorrect == Spec => []TypeOK
<1>1. Inv => TypeOK
    BY DEF Inv
<1> QED BY <1>1, InvHolds, PTL

\* A device that publishes over an open session has all its topics, unless a
\* call failed since its last subscription began.
THEOREM TopicsAreKept == Spec => []NoTopicForgotten
<1>1. Inv => NoTopicForgotten
    BY DEF Inv, TypeOK, Kept, NoTopicForgotten, Starting
<1> QED BY <1>1, InvHolds, PTL

\* The device resets itself only when its last attempt failed.
THEOREM ResetsAreExcused == Spec => []HealthyNeverResets
<1>1. Inv => HealthyNeverResets
    BY DEF Inv, Counted, HealthyNeverResets
<1> QED BY <1>1, InvHolds, PTL
=============================================================================
