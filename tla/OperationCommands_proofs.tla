--------------------- MODULE OperationCommands_proofs ---------------------
(***************************************************************************)
(* Proofs about the command engine: its types, and that, as long as        *)
(* AssetUpdate does not run inside ExecuteCommand, it blocks only for a    *)
(* restart, executes nothing else once a restart was accepted, and         *)
(* acknowledges each command as its outcome demands.                       *)
(***************************************************************************)
EXTENDS OperationCommands, SequenceTheorems, TLAPS

\* The tables of MQTTOperation.c have the types they should have.
LEMMA CodeTypes ==
  ASSUME NEW k \in Kinds
  PROVE  TemplateCode(k) \in Codes /\ FinalCode(k) \in Codes
BY SMT DEF TemplateCode, FinalCode, Codes, Kinds, Immediate, ButtonActions,
           Deferred, Incomplete, UnknownKey

LEMMA ProgressTypes ==
  ASSUME NEW k \in Kinds, NEW p \in Progress
  PROVE  ProgressAfter(k, p) \in Progress
BY SMT DEF ProgressAfter, Progress

LEMMA ReportTypes ==
  ASSUME NEW c
  PROVE  /\ AckType(c) \in AckTypes
         /\ Underway(c) \in Progress
         /\ NewsOf(c) \in Seq(Acks \cup News)
<1>1. AckType(c) \in AckTypes
  BY DEF AckType, AckTypes
<1>2. Underway(c) \in Progress
  BY DEF Underway, Progress
<1>3. NewsOf(c) \in Seq(Acks \cup News)
  <2> DEFINE S == Acks \cup News
  <2>1. /\ <<"115", "inventory">> \in S /\ <<"113", "inventory">> \in S
        /\ <<"500", "inventory">> \in S /\ <<"400", "firmware">> \in S
        /\ <<"400", "started">> \in S /\ <<"400", "stopped">> \in S
        /\ <<"400", "config">> \in S
    BY DEF News
  <2> HIDE DEF S
  <2>2. NewsOf(c) \in Seq(S)
    BY <2>1 DEF NewsOf
  <2> QED  BY <2>2 DEF S
<1> QED  BY <1>1, <1>2, <1>3

-----------------------------------------------------------------------------
\* The shape of the state is kept, whatever the interleaving.
LEMMA FreshTypes ==
  /\ "restartConfirm" \in Kinds
  /\ "CMD_UNKNOWN" \in Codes
  /\ "WAITING" \in Progress
  /\ "INITIAL" \in AssetStates
  /\ << >> \in Seq(Kinds) /\ Len(<< >>) <= QueueLength
  /\ << "restartConfirm" >> \in Seq(Kinds) /\ Len(<< "restartConfirm" >>) <= QueueLength
<1>1. "restartConfirm" \in Kinds
  BY DEF Kinds
<1>2. "CMD_UNKNOWN" \in Codes /\ "WAITING" \in Progress /\ "INITIAL" \in AssetStates
  BY DEF Codes, Progress, AssetStates
<1>3. << >> \in Seq(Kinds) /\ Len(<< >>) <= QueueLength
  BY QueueAssumption
<1>4. << "restartConfirm" >> \in Seq(Kinds) /\ Len(<< "restartConfirm" >>) <= QueueLength
  BY <1>1, QueueAssumption
<1> QED  BY <1>1, <1>2, <1>3, <1>4

LEMMA TypeInit == Init => TypeOK
<1> SUFFICES ASSUME Init PROVE TypeOK
  OBVIOUS
<1>1. crashes \in 0..MaxCrashes
  BY CrashAssumption DEF Init
<1>2. reports \in Seq(Acks \cup News)
  BY DEF Init
<1> QED  BY <1>1, <1>2, FreshTypes DEF Init, TypeOK

LEMMA TypeStep == TypeOK /\ [Next]_vars => TypeOK'
<1> SUFFICES ASSUME TypeOK, [Next]_vars
             PROVE  TypeOK'
  OBVIOUS
<1> USE DEF TypeOK
<1>1. CASE UNCHANGED vars
  BY <1>1 DEF vars, ram
<1>2. ASSUME NEW k \in Kinds, Enqueue(k)
      PROVE  TypeOK'
  BY <1>2, QueueAssumption DEF Enqueue, shared
<1>3. CASE Callbacks
  <2>1. CASE ReceiveError
    BY <2>1 DEF ReceiveError, shared
  <2>2. CASE ClientReceive \/ QueueCommand
    <3>1. PICK k \in CloudCommands \cup ButtonCommands : Enqueue(k)
      BY <2>2 DEF ClientReceive, QueueCommand
    <3>2. k \in Kinds
      BY CommandAssumption DEF Kinds
    <3> QED  BY <1>2, <3>1, <3>2
  <2> QED  BY <1>3, <2>1, <2>2 DEF Callbacks
<1>4. CASE AppTask
  <2>1. CASE PublishSkip \/ PublishBegin \/ PublishRefused \/ PollSkip
    BY <2>1 DEF PublishSkip, PublishBegin, PublishRefused, PollSkip, AppTo,
                AfterPublish, shared
  <2>2. ASSUME NEW ok \in BOOLEAN, PublishEnd(ok) \/ Subscribe(ok)
        PROVE  TypeOK'
    <3>1. CASE PublishEnd(ok)
      BY <3>1 DEF PublishEnd, AfterPublish, AppTo, shared
    <3>2. CASE Subscribe(ok)
      <4>1. assetUpdateProcess' \in AssetStates /\ subscribed' \in BOOLEAN
        BY <3>2 DEF Subscribe, AssetStates
      <4> QED  BY <3>2, <4>1 DEF Subscribe, AppTo
    <3> QED  BY <2>2, <3>1, <3>2
  <2>3. CASE Dequeue
    <3>1. /\ Head(commandQueue) \in Kinds
          /\ Tail(commandQueue) \in Seq(Kinds)
          /\ Len(Tail(commandQueue)) <= QueueLength
      BY <2>3, QueueAssumption DEF Dequeue
    <3> QED  BY <2>3, <3>1 DEF Dequeue, AppTo, Progress, Updating
  <2>4. CASE ExecuteReset
    BY <2>4 DEF ExecuteReset, AppTo, Codes
  <2>5. CASE ExecuteTemplate
    <3>1. current \in Kinds => TemplateCode(current) \in Codes
      BY CodeTypes
    <3>2. TemplateCode("none") \in Codes
      BY DEF TemplateCode, Codes
    <3> QED  BY <2>5, <3>1, <3>2 DEF ExecuteTemplate, StartsRestart
  <2>6. CASE ExecuteBody
    <3>1. FinalCode(current) \in Codes
      <4>1. FinalCode("none") \in Codes
        BY DEF FinalCode, TemplateCode, Codes
      <4> QED  BY <4>1, CodeTypes
    <3>2. ProgressAfter(current, commandProgress) \in Progress
      BY DEF ProgressAfter, Progress
    <3> QED  BY <2>6, <3>1, <3>2 DEF ExecuteBody, AppTo, AssetStates
  <2>7. CASE ExecuteFinish
    BY <2>7 DEF ExecuteFinish, AppTo, Progress
  <2> QED  BY <1>4, <2>1, <2>2, <2>3, <2>4, <2>5, <2>6, <2>7 DEF AppTask
<1>5. CASE TimerTask
  <2>1. CASE TickTake \/ TickRefused \/ \E keepAlive \in BOOLEAN : TickGive(keepAlive)
    BY <2>1 DEF TickTake, TickRefused, TickGive, TickTo, Executing
  <2>2. CASE TickAsset
    <3>1. NewsOf(command) \in Seq(Acks \cup News)
      BY ReportTypes
    <3> QED  BY <2>2, <3>1 DEF TickAsset, TickTo, AssetStates
  <2>3. CASE TickProgress
    <3>1. /\ << Ack("501") >> \in Seq(Acks \cup News)
          /\ << Ack("502") >> \in Seq(Acks \cup News)
          /\ << Ack("503") >> \in Seq(Acks \cup News)
          /\ << Ack("501"), Ack("503") >> \in Seq(Acks \cup News)
          /\ << >> \in Seq(Acks \cup News)
      BY ReportTypes DEF Ack, Acks
    <3>2. ASSUME NEW from, NEW to \in Progress,
                 NEW lines \in Seq(Acks \cup News),
                 Report(from, to, lines), TickProgress
          PROVE  TypeOK'
      BY <3>2 DEF Report, TickProgress, TickTo
    <3>3. Underway(command) \in Progress
      BY ReportTypes
    <3>4. PICK from \in Progress, to \in Progress, lines \in Seq(Acks \cup News) :
             Report(from, to, lines)
      BY <2>3, <3>1, <3>3 DEF TickProgress, Progress
    <3> QED  BY <2>3, <3>2, <3>4
  <2>4. CASE RestartFire
    BY <2>4 DEF RestartFire, shared
  <2>5. CASE SoftReset
    <3>1. reports' \in Seq(Acks \cup News)
      BY <2>5 DEF SoftReset, Reboot
    <3> QED  BY <2>5, <3>1, FreshTypes DEF SoftReset, Reboot
  <2> QED  BY <1>5, <2>1, <2>2, <2>3, <2>4, <2>5 DEF TimerTask
<1>6. CASE Crash
  <2>1. reports' \in Seq(Acks \cup News)
    BY <1>6 DEF Crash, Reboot
  <2>2. crashes' \in 0..MaxCrashes
    BY <1>6, CrashAssumption DEF Crash
  <2> QED  BY <1>6, <2>1, <2>2, FreshTypes DEF Crash, Reboot
<1> QED  BY <1>1, <1>3, <1>4, <1>5, <1>6 DEF Next

\* The variables keep their types: the queue never outgrows its slots, and
\* the flash holds one of the two values the code writes.
THEOREM TypeCorrect == Spec => []TypeOK
BY TypeInit, TypeStep, PTL DEF Spec

-----------------------------------------------------------------------------
\* Only a restart gets the restart code, and only its confirmation shares it.
LEMMA RestartCode ==
  /\ TemplateCode("restart") = "CMD_RESTART"
  /\ FinalCode("restart") = "CMD_RESTART"
  /\ ProgressAfter("restart", "BEFORE_EXECUTING") = "BEFORE_EXECUTING"
  /\ NewsOf("CMD_RESTART") = << >>
  /\ AckType("CMD_RESTART") = "c8y_Restart"
  /\ "restart" \notin Incomplete
  /\ \A k \in Kinds \cup {"none"} :
       /\ ProgressAfter(k, "BEFORE_EXECUTING") # "BLOCKING"
       /\ FinalCode(k) = "CMD_RESTART" => k \in {"restart", "restartConfirm"}
  /\ ProgressAfter("restartConfirm", "BEFORE_EXECUTING") = "EXECUTING"
<1>1. /\ TemplateCode("restart") = "CMD_RESTART"
      /\ FinalCode("restart") = "CMD_RESTART"
      /\ \A k \in Kinds \cup {"none"} :
           FinalCode(k) = "CMD_RESTART" => k \in {"restart", "restartConfirm"}
  BY DEF TemplateCode, FinalCode
<1>2. /\ NewsOf("CMD_RESTART") = << >>
      /\ AckType("CMD_RESTART") = "c8y_Restart"
  BY DEF NewsOf, AckType
<1>3. "restart" \notin Incomplete
  BY DEF Incomplete
<1>4. /\ ProgressAfter("restart", "BEFORE_EXECUTING") = "BEFORE_EXECUTING"
      /\ ProgressAfter("restartConfirm", "BEFORE_EXECUTING") = "EXECUTING"
      /\ \A k \in Kinds \cup {"none"} :
           ProgressAfter(k, "BEFORE_EXECUTING") # "BLOCKING"
  BY DEF ProgressAfter, Immediate, ButtonActions, UnknownKey
<1> QED  BY <1>1, <1>2, <1>3, <1>4

LEMMA OrderedInit == Init => Ordered
BY DEF Init, Ordered, Executing, RestartPending

LEMMA OrderedStep == TypeOK /\ Ordered /\ [Next]_vars => Ordered'
<1> SUFFICES ASSUME TypeOK, Ordered, [Next]_vars, ~ overlap'
             PROVE  Ordered'
  BY DEF Ordered
<1> USE DEF Ordered, Executing, Updating, RestartPending
<1>1. CASE UNCHANGED vars
  BY <1>1 DEF vars, ram
<1>2. CASE Callbacks
  BY <1>2 DEF Callbacks, ClientReceive, ReceiveError, QueueCommand, Enqueue, shared
<1>3. CASE AppTask
  <2>1. CASE PublishSkip \/ PublishBegin \/ PublishRefused \/ PollSkip
    BY <2>1 DEF PublishSkip, PublishBegin, PublishRefused, PollSkip, AppTo,
                AfterPublish, shared
  <2>2. ASSUME NEW ok \in BOOLEAN, PublishEnd(ok) \/ Subscribe(ok)
        PROVE  Ordered'
    BY <2>2 DEF PublishEnd, Subscribe, AfterPublish, AppTo, shared
  <2>3. CASE Dequeue
    BY <2>3 DEF Dequeue, AppTo
  <2>4. CASE ExecuteReset
    BY <2>4 DEF ExecuteReset, AppTo
  <2>5. CASE ExecuteTemplate
    BY <2>5, RestartCode DEF ExecuteTemplate, StartsRestart
  <2>6. CASE ExecuteBody
    <3>1. ProgressAfter(current, "BEFORE_EXECUTING") # "BLOCKING"
      BY RestartCode DEF TypeOK
    <3> QED  BY <2>6, <3>1, RestartCode DEF ExecuteBody, AppTo
  <2>7. CASE ExecuteFinish
    <3>1. /\ ProgressAfter(current, "BEFORE_EXECUTING") # "BLOCKING"
          /\ FinalCode(current) = "CMD_RESTART"
               => current \in {"restart", "restartConfirm"}
      BY RestartCode DEF TypeOK
    <3> QED  BY <2>7, <3>1, RestartCode DEF ExecuteFinish, AppTo
  <2> QED  BY <1>3, <2>1, <2>2, <2>3, <2>4, <2>5, <2>6, <2>7 DEF AppTask
<1>4. CASE TimerTask
  <2>1. CASE TickTake \/ TickRefused \/ \E keepAlive \in BOOLEAN : TickGive(keepAlive)
    BY <2>1 DEF TickTake, TickRefused, TickGive, TickTo
  <2>2. CASE TickAsset
    <3>1. RestartPending => reports' = reports
      <4>1. RestartPending => reports' = reports \o << >>
        BY <2>2, RestartCode DEF TickAsset, TickTo
      <4> QED  BY <4>1 DEF TypeOK
    <3> QED  BY <2>2, <3>1 DEF TickAsset, TickTo
  <2>3. CASE TickProgress
    <3>1. ~ overlap /\ ~ Executing /\ ~ Executing' /\ UNCHANGED << command, app, current >>
      BY <2>3 DEF TickProgress, TickTo
    <3>2. RestartPending' <=> RestartPending
      BY <2>3 DEF TickProgress, TickTo
    <3>3. CASE ~ RestartPending
      <4>1. commandProgress' \notin {"BEFORE_EXECUTING", "BLOCKING"}
        BY <2>3, <3>1, <3>3 DEF TickProgress, Report, Underway
      <4> QED  BY <3>1, <3>2, <3>3, <4>1
    <3>4. CASE RestartPending /\ commandProgress = "BEFORE_EXECUTING"
      <4>1. Report("BEFORE_EXECUTING", "BLOCKING", << <<"501", "c8y_Restart">> >>)
        BY <2>3, <3>1, <3>4, RestartCode DEF TickProgress, Report, Underway, Ack
      <4>2. reports' = << >> \o << <<"501", "c8y_Restart">> >>
        BY <4>1, <3>1, <3>4 DEF Report
      <4>3. << >> \o << <<"501", "c8y_Restart">> >> = << <<"501", "c8y_Restart">> >>
        OBVIOUS
      <4>4. commandProgress' = "BLOCKING"
        BY <4>1 DEF Report
      <4> QED  BY <3>1, <3>2, <3>4, <4>2, <4>3, <4>4
    <3>5. CASE RestartPending /\ commandProgress = "BLOCKING"
      <4>1. Report("BLOCKING", "BLOCKING", << >>)
        BY <2>3, <3>5 DEF TickProgress, Report
      <4>2. reports' = reports /\ commandProgress' = "BLOCKING"
        BY <4>1 DEF Report, TypeOK
      <4> QED  BY <3>1, <3>2, <3>5, <4>2
    <3> QED  BY <3>1, <3>3, <3>4, <3>5
  <2>4. CASE RestartFire
    BY <2>4 DEF RestartFire, shared
  <2>5. CASE SoftReset
    BY <2>5 DEF SoftReset, Reboot
  <2> QED  BY <1>4, <2>1, <2>2, <2>3, <2>4, <2>5 DEF TimerTask
<1>5. CASE Crash
  BY <1>5 DEF Crash, Reboot
<1> QED  BY <1>1, <1>2, <1>3, <1>4, <1>5 DEF Next

LEMMA OrderedHolds == Spec => []Ordered
<1>1. Init => Ordered
  BY OrderedInit
<1>2. TypeOK /\ Ordered /\ [Next]_vars => Ordered'
  BY OrderedStep
<1> QED  BY <1>1, <1>2, TypeCorrect, PTL DEF Spec

\* The engine blocks only for a restart that is coming (MQTTOperation.c:828-841
\* together with 181-188), for every queue, set of commands and number of
\* crashes, as long as AssetUpdate does not run inside ExecuteCommand.
THEOREM BlocksOnlyForRestart == Spec => []BlockingIsRestart
<1>1. Ordered => BlockingIsRestart
  BY DEF Ordered, BlockingIsRestart
<1> QED  BY <1>1, OrderedHolds, PTL

\* Once ExecuteCommand accepted a restart (MQTTOperation.c:181-188), the App
\* task takes no other command out of the queue before the reset and
\* AssetUpdate tells nothing but "501,c8y_Restart", under the same proviso.
THEOREM RestartIsExclusive == Spec => []RestartExclusive
<1>1. Ordered => RestartExclusive
  BY DEF Ordered, RestartExclusive
<1> QED  BY <1>1, OrderedHolds, PTL

-----------------------------------------------------------------------------
\* The progress of a command when ExecuteCommand is done with it, and after the
\* first report; the news AssetUpdate owes it.
First(k) ==
  IF k \in Incomplete THEN "BEFORE_FAILED" ELSE ProgressAfter(k, "BEFORE_EXECUTING")

Second(k) ==
  IF First(k) = "BEFORE_EXECUTING" THEN Underway(FinalCode(k))
  ELSE IF First(k) = "BEFORE_FAILED" THEN "FAILED" ELSE "WAITING"

NewsDue(k) == IF k \in ChangesAsset THEN NewsOf(FinalCode(k)) ELSE << >>

AckOf(status, k) == << status, AckType(FinalCode(k)) >>

\* What is told of a command, while AssetUpdate keeps out of ExecuteCommand.
Told ==
  /\ command = FinalCode(current)
  /\ commandProgress \in {First(current), Second(current), "WAITING"}
  /\ assetUpdateProcess = "WAITING" =>
       commandProgress = First(current) /\ current \in ChangesAsset /\ tick # "progress"
  /\ commandProgress = First(current) =>
       reports = IF assetUpdateProcess = "WAITING" THEN << >> ELSE NewsDue(current)
  /\ commandProgress = Second(current) /\ commandProgress # "WAITING" =>
       reports = NewsDue(current) \o << AckOf("501", current) >>
  /\ commandProgress = "WAITING" => reports = Expected(current)

Acknowledged ==
  ~ overlap =>
     /\ Executing => current # "none"
     /\ app \in {"reset", "template", "body"} => assetUpdateProcess # "WAITING"
     /\ app = "finish" => (assetUpdateProcess = "WAITING" <=> current \in ChangesAsset)
     /\ ~ Executing /\ current = "none" =>
          assetUpdateProcess # "WAITING" /\ commandProgress = "WAITING"
     /\ ~ Executing /\ current # "none" => Told

\* Only a device that sent its first data subscribes.
SubscribesOnce == app = "subscribing" => assetUpdateProcess = "PUBLISHED"

\* The tables of the code lead to what is expected of each command.
Outcome(k) ==
  \/ First(k) = "IMMEDIATE_BUTTON" /\ Expected(k) = NewsDue(k)
  \/ /\ First(k) = "IMMEDIATE_CMD"
     /\ Expected(k) = NewsDue(k) \o << AckOf("501", k), AckOf("503", k) >>
  \/ /\ First(k) = "BEFORE_EXECUTING" /\ FinalCode(k) # "CMD_RESTART"
     /\ Expected(k) = NewsDue(k) \o << AckOf("501", k), AckOf("503", k) >>
  \/ /\ First(k) = "BEFORE_EXECUTING" /\ FinalCode(k) = "CMD_RESTART"
     /\ Expected(k) = NewsDue(k) \o << AckOf("501", k) >>
  \/ /\ First(k) = "BEFORE_FAILED"
     /\ Expected(k) = NewsDue(k) \o << AckOf("501", k), AckOf("502", k) >>
  \/ /\ First(k) = "EXECUTING"
     /\ Expected(k) = NewsDue(k) \o << AckOf("503", k) >>

LEMMA Nothing == ASSUME NEW a, NEW b
                 PROVE  << >> \o << a, b >> = << a, b >> /\ << >> \o << a >> = << a >>
OBVIOUS

LEMMA OutcomeHolds == \A k \in Kinds : Outcome(k)
<1> SUFFICES ASSUME NEW k \in Kinds PROVE Outcome(k)
  OBVIOUS
<1> USE DEF Immediate, ButtonActions, Deferred, Incomplete, UnknownKey, ChangesAsset
<1>1. CASE k = "message"
  <2>1. FinalCode(k) = "CMD_MESSAGE" /\ First(k) = "IMMEDIATE_CMD"
        /\ NewsDue(k) = << >>
    BY <1>1 DEF FinalCode, TemplateCode, First, ProgressAfter, NewsDue
  <2>2. AckType(FinalCode(k)) = "c8y_Message"
    BY <2>1 DEF AckType
  <2>3. Expected(k) = << <<"501", "c8y_Message">>, <<"503", "c8y_Message">> >>
    BY <1>1 DEF Expected
  <2> QED BY <2>1, <2>2, <2>3, Nothing DEF Outcome, AckOf
<1>2. CASE k = "toggle"
  <2>1. FinalCode(k) = "CMD_TOGGLE" /\ First(k) = "IMMEDIATE_CMD"
        /\ NewsDue(k) = << >>
    BY <1>2 DEF FinalCode, TemplateCode, First, ProgressAfter, NewsDue
  <2>2. AckType(FinalCode(k)) = "c8y_Command"
    BY <2>1 DEF AckType
  <2>3. Expected(k) = << <<"501", "c8y_Command">>, <<"503", "c8y_Command">> >>
    BY <1>2 DEF Expected
  <2> QED BY <2>1, <2>2, <2>3, Nothing DEF Outcome, AckOf
<1>3. CASE k = "start"
  <2>1. FinalCode(k) = "CMD_PUBLISH_START" /\ First(k) = "IMMEDIATE_CMD"
        /\ NewsDue(k) = << <<"400", "started">> >>
    BY <1>3 DEF FinalCode, TemplateCode, First, ProgressAfter, NewsDue, NewsOf
  <2>2. AckType(FinalCode(k)) = "c8y_Command"
    BY <2>1 DEF AckType
  <2>3. Expected(k) = << <<"400", "started">> >>
                      \o << <<"501", "c8y_Command">>, <<"503", "c8y_Command">> >>
    BY <1>3 DEF Expected
  <2> QED BY <2>1, <2>2, <2>3 DEF Outcome, AckOf
<1>4. CASE k = "stop"
  <2>1. FinalCode(k) = "CMD_PUBLISH_STOP" /\ First(k) = "IMMEDIATE_CMD"
        /\ NewsDue(k) = << <<"400", "stopped">> >>
    BY <1>4 DEF FinalCode, TemplateCode, First, ProgressAfter, NewsDue, NewsOf
  <2>2. AckType(FinalCode(k)) = "c8y_Command"
    BY <2>1 DEF AckType
  <2>3. Expected(k) = << <<"400", "stopped">> >>
                      \o << <<"501", "c8y_Command">>, <<"503", "c8y_Command">> >>
    BY <1>4 DEF Expected
  <2> QED BY <2>1, <2>2, <2>3 DEF Outcome, AckOf
<1>5. CASE k = "startButton"
  <2>1. FinalCode(k) = "CMD_PUBLISH_START" /\ First(k) = "IMMEDIATE_BUTTON"
        /\ NewsDue(k) = << <<"400", "started">> >>
    BY <1>5 DEF FinalCode, TemplateCode, First, ProgressAfter, NewsDue, NewsOf
  <2>2. Expected(k) = << <<"400", "started">> >>
    BY <1>5 DEF Expected
  <2> QED BY <2>1, <2>2 DEF Outcome
<1>6. CASE k = "stopButton"
  <2>1. FinalCode(k) = "CMD_PUBLISH_STOP" /\ First(k) = "IMMEDIATE_BUTTON"
        /\ NewsDue(k) = << <<"400", "stopped">> >>
    BY <1>6 DEF FinalCode, TemplateCode, First, ProgressAfter, NewsDue, NewsOf
  <2>2. Expected(k) = << <<"400", "stopped">> >>
    BY <1>6 DEF Expected
  <2> QED BY <2>1, <2>2 DEF Outcome
<1>7. CASE k \in {"printConfig", "resetBootstatus", "requestCommands"}
  <2>1. First(k) = "IMMEDIATE_BUTTON"
        /\ NewsDue(k) = << >>
    BY <1>7 DEF FinalCode, TemplateCode, First, ProgressAfter, NewsDue
  <2>2. Expected(k) = << >>
    BY <1>7 DEF Expected
  <2> QED BY <2>1, <2>2 DEF Outcome
<1>8. CASE k \in {"speed", "sensor"}
  <2>1. FinalCode(k) \in {"CMD_SPEED", "CMD_SENSOR"} /\ First(k) = "BEFORE_EXECUTING"
        /\ NewsDue(k) = << <<"113", "inventory">>, <<"400", "config">> >>
    BY <1>8 DEF FinalCode, TemplateCode, First, ProgressAfter, NewsDue, NewsOf
  <2>2. AckType(FinalCode(k)) = "c8y_Command"
    BY <2>1 DEF AckType
  <2>3. Expected(k) = << <<"113", "inventory">>, <<"400", "config">> >>
                      \o << <<"501", "c8y_Command">>, <<"503", "c8y_Command">> >>
    BY <1>8 DEF Expected
  <2> QED BY <2>1, <2>2, <2>3 DEF Outcome, AckOf
<1>9. CASE k \in {"log", "config"}
  <2>1. FinalCode(k) \in {"CMD_LOG", "CMD_CONFIG"} /\ First(k) = "BEFORE_EXECUTING"
        /\ NewsDue(k) = << >>
    BY <1>9 DEF FinalCode, TemplateCode, First, ProgressAfter, NewsDue, NewsOf
  <2>2. AckType(FinalCode(k)) = "c8y_Command"
    BY <2>1 DEF AckType
  <2>3. Expected(k) = << <<"501", "c8y_Command">>, <<"503", "c8y_Command">> >>
    BY <1>9 DEF Expected
  <2> QED BY <2>1, <2>2, <2>3, Nothing DEF Outcome, AckOf
<1>10. CASE k = "firmware"
  <2>1. FinalCode(k) = "CMD_FIRMWARE" /\ First(k) = "BEFORE_EXECUTING"
        /\ NewsDue(k) = << <<"115", "inventory">>, <<"400", "firmware">> >>
    BY <1>10 DEF FinalCode, TemplateCode, First, ProgressAfter, NewsDue, NewsOf
  <2>2. AckType(FinalCode(k)) = "c8y_Firmware"
    BY <2>1 DEF AckType
  <2>3. Expected(k) = << <<"115", "inventory">>, <<"400", "firmware">> >>
                      \o << <<"501", "c8y_Firmware">>, <<"503", "c8y_Firmware">> >>
    BY <1>10 DEF Expected
  <2> QED BY <2>1, <2>2, <2>3 DEF Outcome, AckOf
<1>11. CASE k = "shortFirmware"
  <2>1. FinalCode(k) = "CMD_FIRMWARE" /\ First(k) = "BEFORE_FAILED"
        /\ NewsDue(k) = << >>
    BY <1>11 DEF FinalCode, TemplateCode, First, ProgressAfter, NewsDue
  <2>2. AckType(FinalCode(k)) = "c8y_Firmware"
    BY <2>1 DEF AckType
  <2>3. Expected(k) = << <<"501", "c8y_Firmware">>, <<"502", "c8y_Firmware">> >>
    BY <1>11 DEF Expected
  <2> QED BY <2>1, <2>2, <2>3, Nothing DEF Outcome, AckOf
<1>12. CASE k = "shortMessage"
  <2>1. FinalCode(k) = "CMD_MESSAGE" /\ First(k) = "BEFORE_FAILED"
        /\ NewsDue(k) = << >>
    BY <1>12 DEF FinalCode, TemplateCode, First, ProgressAfter, NewsDue
  <2>2. AckType(FinalCode(k)) = "c8y_Message"
    BY <2>1 DEF AckType
  <2>3. Expected(k) = << <<"501", "c8y_Message">>, <<"502", "c8y_Message">> >>
    BY <1>12 DEF Expected
  <2> QED BY <2>1, <2>2, <2>3, Nothing DEF Outcome, AckOf
<1>13. CASE k = "badSensor"
  <2>1. FinalCode(k) = "CMD_SENSOR" /\ First(k) = "BEFORE_FAILED"
        /\ NewsDue(k) = << <<"113", "inventory">>, <<"400", "config">> >>
    BY <1>13 DEF FinalCode, TemplateCode, First, ProgressAfter, NewsDue, NewsOf
  <2>2. AckType(FinalCode(k)) = "c8y_Command"
    BY <2>1 DEF AckType
  <2>3. Expected(k) = << <<"113", "inventory">>, <<"400", "config">> >>
                      \o << <<"501", "c8y_Command">>, <<"502", "c8y_Command">> >>
    BY <1>13 DEF Expected
  <2> QED BY <2>1, <2>2, <2>3 DEF Outcome, AckOf
<1>14. CASE k = "badConfig"
  <2>1. FinalCode(k) = "CMD_CONFIG" /\ First(k) = "BEFORE_FAILED"
        /\ NewsDue(k) = << >>
    BY <1>14 DEF FinalCode, TemplateCode, First, ProgressAfter, NewsDue, NewsOf
  <2>2. AckType(FinalCode(k)) = "c8y_Command"
    BY <2>1 DEF AckType
  <2>3. Expected(k) = << <<"501", "c8y_Command">>, <<"502", "c8y_Command">> >>
    BY <1>14 DEF Expected
  <2> QED BY <2>1, <2>2, <2>3, Nothing DEF Outcome, AckOf
<1>15. CASE k \in {"unknownTemplate", "unknownCommand", "shortSpeed"}
  <2>1. FinalCode(k) \in {"CMD_UNKNOWN", "CMD_COMMAND", "CMD_SPEED"} /\ First(k) = "BEFORE_FAILED"
        /\ NewsDue(k) = << >>
    BY <1>15 DEF FinalCode, TemplateCode, First, ProgressAfter, NewsDue
  <2>2. AckType(FinalCode(k)) = "c8y_Command"
    BY <2>1 DEF AckType
  <2>3. Expected(k) = << <<"501", "c8y_Command">>, <<"502", "c8y_Command">> >>
    BY <1>15 DEF Expected
  <2> QED BY <2>1, <2>2, <2>3, Nothing DEF Outcome, AckOf
<1>16. CASE k = "restartConfirm"
  <2>1. FinalCode(k) = "CMD_RESTART" /\ First(k) = "EXECUTING"
        /\ NewsDue(k) = << >>
    BY <1>16 DEF FinalCode, TemplateCode, First, ProgressAfter, NewsDue
  <2>2. AckType(FinalCode(k)) = "c8y_Restart"
    BY <2>1 DEF AckType
  <2>3. Expected(k) = << <<"503", "c8y_Restart">> >>
    BY <1>16 DEF Expected
  <2> QED BY <2>1, <2>2, <2>3, Nothing DEF Outcome, AckOf
<1>17. CASE k = "restart"
  <2>1. FinalCode(k) = "CMD_RESTART" /\ First(k) = "BEFORE_EXECUTING"
        /\ NewsDue(k) = << >>
    BY <1>17 DEF FinalCode, TemplateCode, First, ProgressAfter, NewsDue
  <2>2. AckType(FinalCode(k)) = "c8y_Restart"
    BY <2>1 DEF AckType
  <2>3. Expected(k) = << <<"501", "c8y_Restart">> >>
    BY <1>17 DEF Expected
  <2> QED BY <2>1, <2>2, <2>3, Nothing DEF Outcome, AckOf
<1> QED BY <1>1, <1>2, <1>3, <1>4, <1>5, <1>6, <1>7, <1>8, <1>9, <1>10, <1>11, <1>12, <1>13, <1>14, <1>15, <1>16, <1>17 DEF Kinds

LEMMA Phases ==
  ASSUME NEW k \in Kinds
  PROVE  /\ First(k) # "WAITING" /\ First(k) # Second(k) /\ k # "none"
         /\ First(k) = "BEFORE_EXECUTING" =>
              Second(k) = IF FinalCode(k) = "CMD_RESTART" THEN "BLOCKING" ELSE "EXECUTING"
         /\ First(k) = "BEFORE_FAILED" => Second(k) = "FAILED"
         /\ First(k) \notin {"BEFORE_EXECUTING", "BEFORE_FAILED"} => Second(k) = "WAITING"
<1>1. Outcome(k)
  BY OutcomeHolds
<1>2. k # "none"
  BY DEF Kinds, Immediate, ButtonActions, Deferred, Incomplete, UnknownKey
<1> QED BY <1>1, <1>2 DEF Outcome, Second, Underway

\* Steps of the publication, of the callbacks and of the restart timer.
LEMMA AckQuiet ==
  ASSUME Acknowledged, ~overlap,
         UNCHANGED << command, commandProgress, assetUpdateProcess, current, reports >>,
         app' = app \/ (~Executing /\ ~Executing'),
         tick' = tick \/ tick' # "progress"
  PROVE  Acknowledged'
BY DEF Acknowledged, Executing, Told

LEMMA AckAppTask ==
  ASSUME TypeOK, Ordered, SubscribesOnce, Acknowledged, ~overlap, ~overlap', AppTask
  PROVE  Acknowledged'
<1>1. CASE PublishSkip \/ PublishBegin \/ PublishRefused \/ PollSkip
  <2>1. /\ UNCHANGED << command, commandProgress, assetUpdateProcess, current, reports, tick >>
        /\ ~Executing /\ ~Executing'
    BY <1>1 DEF PublishSkip, PublishBegin, PublishRefused, PollSkip, AppTo,
                AfterPublish, shared, Executing
  <2> QED BY <2>1, AckQuiet
<1>2. ASSUME NEW ok \in BOOLEAN, PublishEnd(ok)
      PROVE  Acknowledged'
  <2>1. /\ UNCHANGED << command, commandProgress, assetUpdateProcess, current, reports, tick >>
        /\ ~Executing /\ ~Executing'
    BY <1>2 DEF PublishEnd, AppTo, AfterPublish, shared, Executing
  <2> QED BY <2>1, AckQuiet
<1>3. ASSUME NEW ok \in BOOLEAN, Subscribe(ok)
      PROVE  Acknowledged'
  <2>1. /\ UNCHANGED << command, commandProgress, current, reports, tick >>
        /\ app \notin {"reset", "template", "body", "finish"} /\ app' = "poll"
        /\ assetUpdateProcess # "WAITING" /\ assetUpdateProcess' # "WAITING"
    BY <1>3 DEF Subscribe, AppTo, SubscribesOnce
  <2> QED BY <2>1 DEF Acknowledged, Executing, Told
<1>4. CASE Dequeue
  <2>1. assetUpdateProcess # "WAITING"
    <3>1. commandProgress = "WAITING" /\ ~Executing
      BY <1>4 DEF Dequeue, Executing
    <3>2. CASE current = "none"
      BY <3>1, <3>2 DEF Acknowledged
    <3>3. CASE current # "none"
      <4>1. current \in Kinds /\ Told
        BY <3>1, <3>3 DEF Acknowledged, TypeOK
      <4> QED BY <3>1, <4>1, Phases DEF Told
    <3> QED BY <3>2, <3>3
  <2>2. current' \in Kinds
    BY <1>4, HeadTailProperties DEF Dequeue, TypeOK
  <2>3. app' = "reset" /\ UNCHANGED assetUpdateProcess
    BY <1>4 DEF Dequeue, AppTo
  <2> QED BY <2>1, <2>2, <2>3, Phases DEF Acknowledged, Executing
<1>5. CASE ExecuteReset \/ ExecuteTemplate
  BY <1>5 DEF ExecuteReset, ExecuteTemplate, AppTo, Acknowledged, Executing
<1>6. CASE ExecuteBody
  BY <1>6 DEF ExecuteBody, AppTo, Acknowledged, Executing
<1>7. CASE ExecuteFinish
  <2>1. /\ app = "finish" /\ app' = "publish"
        /\ UNCHANGED << command, assetUpdateProcess, current, reports, tick >>
        /\ commandProgress' =
             IF current \in Incomplete THEN "BEFORE_FAILED" ELSE commandProgress
    BY <1>7 DEF ExecuteFinish, AppTo
  <2>2. current # "none" /\ current \in Kinds
    BY <2>1 DEF Acknowledged, Executing, TypeOK
  <2>3. /\ command = FinalCode(current) /\ reports = << >> /\ tick # "progress"
        /\ commandProgress = ProgressAfter(current, "BEFORE_EXECUTING")
    BY <2>1 DEF Ordered, Executing, Updating
  <2>4. commandProgress' = First(current)
    BY <2>1, <2>3 DEF First
  <2>5. assetUpdateProcess = "WAITING" <=> current \in ChangesAsset
    BY <2>1 DEF Acknowledged
  <2>6. Told'
    BY <2>1, <2>2, <2>3, <2>4, <2>5, Phases DEF Told, NewsDue
  <2> QED BY <2>1, <2>2, <2>6 DEF Acknowledged, Executing
<1> QED BY <1>1, <1>2, <1>3, <1>4, <1>5, <1>6, <1>7 DEF AppTask

LEMMA AckTickAsset ==
  ASSUME TypeOK, Ordered, Acknowledged, ~overlap, ~overlap', TickAsset
  PROVE  Acknowledged'
<1>1. ~Executing /\ ~Executing' /\ tick' = "progress"
      /\ UNCHANGED << command, commandProgress, current >>
  BY DEF TickAsset, TickTo, Ordered, Updating, Executing
<1>2. assetUpdateProcess' # "WAITING"
  BY DEF TickAsset
<1>3. CASE current = "none"
  BY <1>1, <1>2, <1>3 DEF Acknowledged, Executing
<1>4. CASE current # "none"
  <2>1. Told /\ current \in Kinds
    BY <1>1, <1>4 DEF Acknowledged, TypeOK
  <2>2. CASE assetUpdateProcess = "WAITING"
    <3>1. reports' = << >> \o NewsOf(command)
      BY <2>1, <2>2 DEF TickAsset, Told
    <3>2. NewsOf(command) \in Seq(Acks \cup News)
      BY ReportTypes
    <3>3. reports' = NewsDue(current)
      BY <2>1, <2>2, <3>1, <3>2, ConcatEmptySeq DEF Told, NewsDue
    <3>4. commandProgress = First(current)
      BY <2>1, <2>2 DEF Told
    <3> QED BY <1>1, <1>2, <1>4, <2>1, <3>3, <3>4, Phases DEF Acknowledged, Told, Executing
  <2>3. CASE assetUpdateProcess # "WAITING"
    <3>1. reports' = reports \o << >>
      BY <2>3 DEF TickAsset
    <3>2. reports' = reports
      BY <3>1, ConcatEmptySeq DEF TypeOK
    <3> QED BY <1>1, <1>2, <1>4, <2>1, <2>3, <3>2 DEF Acknowledged, Told, Executing
  <2> QED BY <2>2, <2>3
<1> QED BY <1>3, <1>4

LEMMA Stepwise ==
  ASSUME NEW S, NEW s \in Seq(S), NEW a \in S, NEW b \in S
  PROVE  (s \o << a >>) \o << b >> = s \o << a, b >>
<1>1. << a >> \in Seq(S) /\ << b >> \in Seq(S)
  OBVIOUS
<1>2. << a >> \o << b >> = << a, b >>
  <2>1. /\ << a, b >> \in Seq(S) /\ Len(<< a, b >>) = 2
        /\ << a, b >>[1] = a /\ << a, b >>[2] = b
    OBVIOUS
  <2>2. /\ << a >> \o << b >> \in Seq(S) /\ Len(<< a >> \o << b >>) = 2
        /\ (<< a >> \o << b >>)[1] = a /\ (<< a >> \o << b >>)[2] = b
    BY <1>1, ConcatProperties
  <2>3. \A i \in 1..2 : (<< a >> \o << b >>)[i] = << a, b >>[i]
    BY <2>1, <2>2
  <2> QED BY <2>1, <2>2, <2>3, SeqEqual
<1>3. (s \o << a >>) \o << b >> = s \o (<< a >> \o << b >>)
  BY <1>1, ConcatAssociative
<1> QED BY <1>2, <1>3

LEMMA AckTickProgress ==
  ASSUME TypeOK, Ordered, Acknowledged, ~overlap, ~overlap', TickProgress
  PROVE  Acknowledged'
<1>1. /\ ~Executing /\ ~Executing' /\ tick' # "progress"
      /\ UNCHANGED << command, assetUpdateProcess, current >>
  BY DEF TickProgress, TickTo, Ordered, Updating, Executing
<1>2. ASSUME commandProgress = "WAITING"
      PROVE  UNCHANGED << commandProgress, reports >>
  <2>1. Report("WAITING", "WAITING", << >>)
    BY <1>2 DEF TickProgress, Report
  <2> QED BY <1>2, <2>1, ConcatEmptySeq DEF Report, TypeOK
<1>3. CASE current = "none"
  BY <1>1, <1>2, <1>3 DEF Acknowledged, Executing
<1>4. CASE current # "none"
  <2> DEFINE k == current
             S == Acks \cup News
  <2>1. Told /\ k \in Kinds /\ assetUpdateProcess # "WAITING"
    BY <1>1, <1>4 DEF Acknowledged, TypeOK, Told, TickProgress
  <2>2. \A status : Ack(status) = AckOf(status, k)
    BY <2>1 DEF Told, Ack, AckOf
  <2>3. /\ AckOf("501", k) \in S /\ AckOf("502", k) \in S /\ AckOf("503", k) \in S
        /\ NewsDue(k) \in Seq(S)
    BY ReportTypes, EmptySeq DEF AckOf, Acks, NewsDue
  <2>4. /\ NewsDue(k) \o << >> = NewsDue(k)
        /\ (NewsDue(k) \o << AckOf("501", k) >>) \o << AckOf("502", k) >>
             = NewsDue(k) \o << AckOf("501", k), AckOf("502", k) >>
        /\ (NewsDue(k) \o << AckOf("501", k) >>) \o << AckOf("503", k) >>
             = NewsDue(k) \o << AckOf("501", k), AckOf("503", k) >>
    BY <2>3, Stepwise, ConcatEmptySeq
  <2>5. Outcome(k)
    BY <2>1, OutcomeHolds
  <2>6. ASSUME commandProgress' = "WAITING", reports' = Expected(k)
        PROVE  Acknowledged'
    BY <1>1, <1>4, <2>1, <2>6, Phases DEF Acknowledged, Told, Executing
  <2>7. ASSUME commandProgress' = Second(k), Second(k) # "WAITING",
               reports' = NewsDue(k) \o << AckOf("501", k) >>
        PROVE  Acknowledged'
    BY <1>1, <1>4, <2>1, <2>7, Phases DEF Acknowledged, Told, Executing
  <2>8. CASE commandProgress = "WAITING"
    BY <1>2, <2>1, <2>6, <2>8 DEF Told
  <2>9. CASE commandProgress = First(k)
    <3>1. reports = NewsDue(k)
      BY <2>1, <2>9 DEF Told
    <3>2. CASE First(k) = "IMMEDIATE_BUTTON"
      <4>1. commandProgress' = "WAITING" /\ reports' = reports \o << >>
        BY <2>9, <3>2 DEF TickProgress, Report
      <4> QED BY <2>4, <2>5, <2>6, <3>1, <3>2, <4>1 DEF Outcome
    <3>3. CASE First(k) = "IMMEDIATE_CMD"
      <4>1. commandProgress' = "WAITING"
            /\ reports' = reports \o << Ack("501"), Ack("503") >>
        BY <2>9, <3>3 DEF TickProgress, Report
      <4> QED BY <2>2, <2>5, <2>6, <3>1, <3>3, <4>1 DEF Outcome
    <3>4. CASE First(k) = "EXECUTING"
      <4>1. commandProgress' = "WAITING" /\ reports' = reports \o << Ack("503") >>
        BY <2>9, <3>4 DEF TickProgress, Report
      <4> QED BY <2>2, <2>5, <2>6, <3>1, <3>4, <4>1 DEF Outcome
    <3>5. CASE First(k) = "BEFORE_FAILED"
      <4>1. commandProgress' = "FAILED" /\ reports' = reports \o << Ack("501") >>
        BY <2>9, <3>5 DEF TickProgress, Report
      <4> QED BY <2>1, <2>2, <2>7, <3>1, <3>5, <4>1, Phases
    <3>6. CASE First(k) = "BEFORE_EXECUTING"
      <4>1. commandProgress' = Underway(FinalCode(k)) /\ reports' = reports \o << Ack("501") >>
        BY <2>1, <2>9, <3>6 DEF TickProgress, Report, Told
      <4>2. commandProgress' = Second(k) /\ Second(k) # "WAITING"
        BY <3>6, <4>1 DEF Second, Underway
      <4> QED BY <2>2, <2>7, <3>1, <4>1, <4>2
    <3> QED BY <2>5, <3>2, <3>3, <3>4, <3>5, <3>6 DEF Outcome
  <2>10. CASE commandProgress = Second(k) /\ Second(k) # "WAITING"
    <3>1. reports = NewsDue(k) \o << AckOf("501", k) >>
      BY <2>1, <2>10 DEF Told
    <3>2. CASE First(k) = "BEFORE_FAILED"
      <4>1. commandProgress' = "WAITING" /\ reports' = reports \o << Ack("502") >>
        BY <2>1, <2>10, <3>2, Phases DEF TickProgress, Report
      <4> QED BY <2>2, <2>4, <2>5, <2>6, <3>1, <3>2, <4>1 DEF Outcome
    <3>3. CASE First(k) = "BEFORE_EXECUTING" /\ FinalCode(k) # "CMD_RESTART"
      <4>1. commandProgress' = "WAITING" /\ reports' = reports \o << Ack("503") >>
        BY <2>1, <2>10, <3>3, Phases DEF TickProgress, Report
      <4> QED BY <2>2, <2>4, <2>5, <2>6, <3>1, <3>3, <4>1 DEF Outcome
    <3>4. CASE First(k) = "BEFORE_EXECUTING" /\ FinalCode(k) = "CMD_RESTART"
      <4>1. commandProgress' = commandProgress /\ reports' = reports \o << >>
        BY <2>1, <2>10, <3>4, Phases DEF TickProgress, Report
      <4>2. reports' = reports
        BY <4>1, ConcatEmptySeq DEF TypeOK
      <4> QED BY <2>7, <2>10, <3>1, <4>1, <4>2
    <3> QED BY <2>1, <2>5, <2>10, <3>2, <3>3, <3>4, Phases DEF Outcome
  <2> QED BY <2>1, <2>8, <2>9, <2>10 DEF Told
<1> QED BY <1>3, <1>4

LEMMA OverlapStays == AppTask /\ overlap => overlap'
<1> SUFFICES ASSUME AppTask, overlap PROVE overlap'
  OBVIOUS
<1>1. CASE Dequeue
  BY <1>1, Zenon DEF Dequeue
<1>2. ASSUME ~Dequeue PROVE overlap' = overlap
  BY <1>2 DEF AppTask, PublishSkip, PublishBegin, PublishRefused, PublishEnd, Subscribe,
     PollSkip, ExecuteReset, ExecuteTemplate, ExecuteBody, ExecuteFinish
<1> QED BY <1>1, <1>2

LEMMA AckStep ==
  ASSUME TypeOK, Ordered, SubscribesOnce, Acknowledged, [Next]_vars, ~overlap'
  PROVE  Acknowledged'
<1>1. CASE SoftReset \/ Crash
  BY <1>1 DEF SoftReset, Crash, Reboot, Acknowledged, Executing
<1>2. CASE AppTask
  <2>1. ~overlap
    BY <1>2, OverlapStays
  <2> QED BY <1>2, <2>1, AckAppTask
<1>3. CASE TickAsset \/ TickProgress
  <2>1. ~overlap
    BY <1>3 DEF TickAsset, TickProgress
  <2> QED BY <1>3, <2>1, AckTickAsset, AckTickProgress
<1>4. CASE TickTake
  <2>1. ~overlap
    BY <1>4, Zenon DEF TickTake
  <2>2. /\ UNCHANGED << command, commandProgress, assetUpdateProcess, current, reports, app >>
        /\ tick' # "progress"
    BY <1>4 DEF TickTake, TickTo
  <2> QED BY <2>1, <2>2, AckQuiet
<1>5. ASSUME \/ TickRefused \/ (\E keepAlive \in BOOLEAN : TickGive(keepAlive))
             \/ RestartFire \/ Callbacks \/ UNCHANGED vars
      PROVE  Acknowledged'
  <2>1. /\ UNCHANGED << command, commandProgress, assetUpdateProcess, current, reports, app >>
        /\ overlap' = overlap /\ (tick' = tick \/ tick' # "progress")
    BY <1>5 DEF TickRefused, TickGive, TickTo, RestartFire, Callbacks, ClientReceive,
       ReceiveError, QueueCommand, Enqueue, shared, vars, ram
  <2> QED BY <2>1, AckQuiet
<1> QED BY <1>1, <1>2, <1>3, <1>4, <1>5 DEF Next, TimerTask

LEMMA SubscribeStep == SubscribesOnce /\ [Next]_vars => SubscribesOnce'
<1> SUFFICES ASSUME SubscribesOnce, [Next]_vars PROVE SubscribesOnce'
  OBVIOUS
<1> USE DEF SubscribesOnce
<1>1. CASE AppTask
  <2>1. ASSUME NEW ok \in BOOLEAN, PublishEnd(ok) \/ Subscribe(ok)
        PROVE  SubscribesOnce'
    BY <2>1 DEF PublishEnd, Subscribe, AfterPublish, AppTo, shared
  <2>2. CASE PublishSkip \/ PublishBegin \/ PublishRefused \/ PollSkip
    BY <2>2 DEF PublishSkip, PublishBegin, PublishRefused, PollSkip, AfterPublish,
       AppTo, shared
  <2>3. CASE Dequeue \/ ExecuteReset \/ ExecuteTemplate \/ ExecuteBody \/ ExecuteFinish
    BY <2>3 DEF Dequeue, ExecuteReset, ExecuteTemplate, ExecuteBody, ExecuteFinish, AppTo
  <2> QED BY <1>1, <2>1, <2>2, <2>3 DEF AppTask
<1>2. CASE TimerTask \/ Crash
  BY <1>2 DEF TimerTask, TickTake, TickRefused, TickAsset, TickProgress, TickGive,
     TickTo, RestartFire, SoftReset, Crash, Reboot, shared
<1>3. CASE Callbacks \/ UNCHANGED vars
  BY <1>3 DEF Callbacks, ClientReceive, ReceiveError, QueueCommand, Enqueue, shared,
     vars, ram
<1> QED BY <1>1, <1>2, <1>3 DEF Next

\* Whatever commands arrive and from whom, Cumulocity reads of each exactly what
\* its outcome demands, in that order (the tables of MQTTOperation.c:102-268 and
\* the two switches of AssetUpdate, 704-925), as long as AssetUpdate does not run
\* inside ExecuteCommand.
THEOREM CommandsAreAcknowledged == Spec => []AckProtocol
<1> DEFINE Inv == TypeOK /\ Ordered /\ SubscribesOnce /\ Acknowledged
<1>1. Init => SubscribesOnce /\ Acknowledged
  BY DEF Init, SubscribesOnce, Acknowledged, Executing
<1>2. Inv /\ [Next]_vars => SubscribesOnce' /\ Acknowledged'
  <2>1. Inv /\ [Next]_vars /\ overlap' => Acknowledged'
    BY Zenon DEF Acknowledged
  <2> QED BY <2>1, AckStep, SubscribeStep
<1>3. Inv => AckProtocol
  <2> SUFFICES ASSUME Inv, ~Executing, ~overlap, current # "none",
                      commandProgress \in {"WAITING", "BLOCKING"}
               PROVE  reports = Expected(current)
    BY DEF AckProtocol
  <2>1. Told /\ current \in Kinds
    BY DEF Acknowledged, TypeOK
  <2>2. CASE commandProgress = "WAITING"
    BY <2>1, <2>2 DEF Told
  <2>3. CASE commandProgress = "BLOCKING"
    <3>1. Outcome(current)
      BY <2>1, OutcomeHolds
    <3>2. /\ First(current) = "BEFORE_EXECUTING" /\ FinalCode(current) = "CMD_RESTART"
          /\ commandProgress = Second(current)
      BY <2>1, <2>3, <3>1, Phases DEF Told, Outcome
    <3> QED BY <2>1, <2>3, <3>1, <3>2 DEF Told, Outcome
  <2> QED BY <2>2, <2>3
<1> QED BY <1>1, <1>2, <1>3, TypeCorrect, OrderedHolds, PTL DEF Spec
=============================================================================
