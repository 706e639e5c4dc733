------------------------ MODULE SensorStream_proofs ------------------------
(***************************************************************************)
(* Proofs about SensorStream, for any number of lines, any capacity that   *)
(* holds one update and any queue.  Inv is inductive; its parts:           *)
(*   Fits       an update that runs stays within the bound;                *)
(*   Visits     what the App task has done since the last update;          *)
(*   Prompt     no update began on top of another: one update is all;      *)
(*   Exclusion  nobody waited too long: the semaphore excludes;            *)
(*   Whole      neither, and nothing was cleared: all of it or nothing.    *)
(***************************************************************************)
EXTENDS SensorStream, TLAPS

USE SizesAssumption, QueueAssumption

Looking == {"take", "send", "wait", "zero", "give", "clear"}

Fits ==
  Updating => /\ length + remaining <= MaxLength
              /\ tick = "count" => offset + remaining <= MaxLength /\ remaining > 0

Visits ==
  /\ visit # "due" => ~Updating
  /\ visit = "begun" => app \in Looking
  /\ visit = "begun" /\ app = "give" => length = 0
  /\ visit = "done" => length = 0
  /\ semaphoreSensorBuffer = 0 => Updating \/ Publishing

Prompt ==
  "behind" \notin excuses =>
    /\ length <= Lines
    /\ Updating => length + remaining <= Lines
    /\ tick = "count" => offset + remaining <= Lines

Exclusion ==
  "long" \notin excuses =>
    /\ ~(Updating /\ Publishing)
    /\ semaphoreSensorBuffer = 1 => ~Updating /\ ~Publishing

Whole ==
  excuses \cap {"behind", "long", "cleared"} = {} =>
    /\ Updating => length + remaining = Lines
    /\ tick = "count" => offset = length
    /\ ~Updating => length \in {0, Lines}
    /\ app \in {"take", "send"} /\ ~Updating => length = Lines
    /\ app = "wait" => payload = Lines

Inv == TypeOK /\ Fits /\ Visits /\ Prompt /\ Exclusion /\ Whole

\* What TickCount does.
Counted ==
    /\ tick = "count" /\ tick' = "format" /\ Updating /\ Updating'
    /\ length \in Nat /\ offset \in Nat /\ remaining \in Nat /\ remaining > 0
    /\ remaining' = remaining - 1 /\ remaining' \in 0..Lines
    /\ length' = length + 1 \/ length' = offset + 1
    /\ length' \in 0..MaxLength /\ length' + remaining' <= MaxLength
    /\ app' = app /\ payload' = payload /\ visit' = visit /\ excuses' = excuses
    /\ semaphoreSensorBuffer' = semaphoreSensorBuffer /\ offset' = offset
    /\ timer' = timer /\ retcodeOk' = retcodeOk /\ app_status' = app_status
    /\ commandQueue' = commandQueue /\ online' = online /\ wanted' = wanted

\* One line is counted: the length grows by one, or starts again from what it
\* was when the line was written.
LEMMA Counting == TypeOK /\ Fits /\ TickCount => Counted
<1> SUFFICES ASSUME TypeOK, Fits, TickCount PROVE Counted
  OBVIOUS
<1>1. tick = "count" /\ tick' = "format" /\ Updating /\ Updating'
  BY DEF TickCount, TickTo, Updating
<1>2. /\ length \in Nat /\ offset \in Nat /\ remaining \in 0..Lines /\ Lines \in Nat
      /\ MaxLength \in Nat /\ remaining > 0
      /\ length + remaining <= MaxLength /\ offset + remaining <= MaxLength
  BY <1>1 DEF TypeOK, Fits
<1>3. remaining' = remaining - 1 /\ (length' = length + 1 \/ length' = offset + 1)
  BY DEF TickCount
<1>4. remaining' \in 0..Lines /\ length' \in 0..MaxLength /\ length' + remaining' <= MaxLength
  BY <1>2, <1>3
<1>5. /\ app' = app /\ payload' = payload /\ visit' = visit /\ excuses' = excuses
      /\ semaphoreSensorBuffer' = semaphoreSensorBuffer /\ offset' = offset
      /\ timer' = timer /\ retcodeOk' = retcodeOk /\ app_status' = app_status
      /\ commandQueue' = commandQueue /\ online' = online /\ wanted' = wanted
  BY DEF TickCount, TickTo, control
<1>6. remaining \in Nat BY <1>2
<1> QED BY <1>1, <1>2, <1>3, <1>4, <1>5, <1>6 DEF Counted

\* Counting a line leaves room for those that remain,
LEMMA CountingPrompt == Prompt /\ Counted => Prompt'
<1> SUFFICES ASSUME Prompt, Counted, "behind" \notin excuses
             PROVE  length' <= Lines /\ length' + remaining' <= Lines
  BY DEF Prompt, Counted
<1>1. length + remaining <= Lines /\ offset + remaining <= Lines
  BY DEF Prompt, Counted
<1>2. /\ length \in Nat /\ offset \in Nat /\ remaining \in Nat /\ remaining > 0
      /\ remaining' = remaining - 1 /\ Lines \in Nat
      /\ length' = length + 1 \/ length' = offset + 1
  BY DEF Counted
<1> QED BY <1>1, <1>2

\* and keeps the sum when nobody interferes.
LEMMA CountingWhole == Whole /\ Counted => Whole'
<1> SUFFICES ASSUME Whole, Counted, excuses \cap {"behind", "long", "cleared"} = {}
             PROVE  length' + remaining' = Lines
  BY DEF Whole, Counted
<1>1. length + remaining = Lines /\ offset = length
  BY DEF Whole, Counted
<1>2. /\ length \in Nat /\ remaining \in Nat /\ Lines \in Nat
      /\ remaining' = remaining - 1
      /\ length' = length + 1 \/ length' = offset + 1
  BY DEF Counted
<1> QED BY <1>1, <1>2

\* Every step keeps the types, and an update within the bound.
LEMMA TypeStep == TypeOK /\ Fits /\ [Next]_vars => (TypeOK /\ Fits)'
<1> SUFFICES ASSUME TypeOK /\ Fits, [Next]_vars PROVE (TypeOK /\ Fits)'
  OBVIOUS
<1> USE DEF TypeOK, Fits, Updating, Statuses, Excuses, Commands, buffer, updating, control
<1>1. CASE TickFire BY <1>1 DEF TickFire, TickTo
<1>2. CASE TickTake
  <2>1. excuses' \subseteq Excuses
    BY <1>2 DEF TickTake, Excuse
  <2> QED
    BY <1>2, <2>1 DEF TickTake, TickTo, Take
<1>3. CASE TickRefused
  <2>1. excuses' \subseteq Excuses
    BY <1>3 DEF TickRefused, Excuse
  <2> QED
    BY <1>3, <2>1 DEF TickRefused, TickTo, Give
<1>4. CASE TickFormat BY <1>4 DEF TickFormat, TickTo
<1>5. CASE TickCount
  <2>1. Counted
    BY <1>5, Counting
  <2>2. Fits'
    BY <1>5, <2>1 DEF Counted
  <2>3. TypeOK'
    BY <1>5, <2>1 DEF Counted
  <2> QED
    BY <1>5, <2>2, <2>3
<1>6. CASE TickGive BY <1>6 DEF TickGive, TickTo, Give
<1>7. CASE ValidateFine BY <1>7 DEF ValidateFine, AppTo
<1>8. CASE ValidateLost BY <1>8 DEF ValidateLost, AppTo, SetAppStatus
<1>9. CASE Connecting
  <2>1. retcodeOk' \in BOOLEAN
    BY <1>9 DEF Connecting
  <2> QED
    BY <1>9, <2>1 DEF Connecting, AppTo
<1>10. CASE SectionEmpty BY <1>10 DEF SectionEmpty, AppTo
<1>11. CASE SectionFilled BY <1>11 DEF SectionFilled, AppTo, SetAppStatus, LookBegins
<1>12. CASE PublishTake BY <1>12 DEF PublishTake, AppTo, Take
<1>13. CASE PublishRefused
  <2>1. excuses' \subseteq Excuses
    BY <1>13 DEF PublishRefused, Excuse
  <2> QED
    BY <1>13, <2>1 DEF PublishRefused, AppTo, Give, LookEnds
<1>14. CASE PublishSend BY <1>14 DEF PublishSend, AppTo
<1>15. CASE PublishDone BY <1>15 DEF PublishDone, AppTo
<1>16. CASE PublishZero BY <1>16 DEF PublishZero, AppTo
<1>17. CASE PublishGive BY <1>17 DEF PublishGive, AppTo, Give, LookEnds
<1>18. CASE Clear
  <2>1. excuses' \subseteq Excuses
    BY <1>18 DEF Clear, Excuse
  <2> QED
    BY <1>18, <2>1 DEF Clear, AppTo, LookEnds
<1>19. CASE PollSkip BY <1>19 DEF PollSkip, AppTo
<1>20. CASE StartTimer BY <1>20 DEF StartTimer, ExecuteTo, SetAppStatus
<1>21. CASE StopTimer
  <2>1. excuses' \subseteq Excuses
    BY <1>21 DEF StopTimer, Excuse
  <2>2. app_status' \in Statuses /\ wanted' \in {"started", "stopped"}
    BY <1>21 DEF StopTimer, SetAppStatus
  <2>3. timer' \in BOOLEAN
    BY <1>21 DEF StopTimer
  <2>4. commandQueue' \in Seq(Commands) /\ Len(commandQueue') <= QueueLength
    BY <1>21 DEF StopTimer, ExecuteTo
  <2>5. Fits' /\ app' = "validate" /\ UNCHANGED << buffer, updating, retcodeOk, payload, online, visit >>
    BY <1>21 DEF StopTimer, ExecuteTo
  <2> QED
    BY <1>21, <2>1, <2>2, <2>3, <2>4, <2>5
<1>22. CASE Speed
  <2>1. excuses' \subseteq Excuses
    BY <1>22 DEF Speed, Excuse
  <2> QED
    BY <1>22, <2>1 DEF Speed, ExecuteTo
<1>23. CASE Restart BY <1>23 DEF Restart, ExecuteTo, SetAppStatus
<1>24. CASE ClientReceive BY <1>24 DEF ClientReceive, Enqueue
<1>25. CASE Button1
  <2>1. ASSUME NEW c \in Commands, Enqueue(c) PROVE (TypeOK /\ Fits)'
    BY <1>25, <2>1 DEF Enqueue
  <2> QED
    BY <1>25, <2>1 DEF Button1
<1>26. CASE Network BY <1>26 DEF Network
<1>27. CASE SoftReset BY <1>27 DEF SoftReset, Boot
<1>28. CASE UNCHANGED vars BY <1>28 DEF vars
<1> QED BY <1>1, <1>2, <1>3, <1>4, <1>5, <1>6, <1>7, <1>8, <1>9, <1>10, <1>11, <1>12, <1>13, <1>14, <1>15, <1>16, <1>17, <1>18, <1>19, <1>20, <1>21, <1>22, <1>23, <1>24, <1>25, <1>26, <1>27, <1>28 DEF Next, TimerTask, AppTask

\* Every step keeps the account of what the App task has seen.
LEMMA VisitsStep == TypeOK /\ Visits /\ [Next]_vars => (Visits)'
<1> SUFFICES ASSUME TypeOK /\ Visits, [Next]_vars PROVE (Visits)'
  OBVIOUS
<1> USE DEF TypeOK, Visits, Updating, Publishing, Looking, buffer, updating, control
<1>1. CASE TickFire BY <1>1 DEF TickFire, TickTo
<1>2. CASE TickTake BY <1>2 DEF TickTake, TickTo, Take, Excuse
<1>3. CASE TickRefused BY <1>3 DEF TickRefused, TickTo, Give, Excuse
<1>4. CASE TickFormat BY <1>4 DEF TickFormat, TickTo
<1>5. CASE TickCount BY <1>5 DEF TickCount, TickTo
<1>6. CASE TickGive BY <1>6 DEF TickGive, TickTo, Give
<1>7. CASE ValidateFine BY <1>7 DEF ValidateFine, AppTo
<1>8. CASE ValidateLost BY <1>8 DEF ValidateLost, AppTo, SetAppStatus
<1>9. CASE Connecting BY <1>9 DEF Connecting, AppTo
<1>10. CASE SectionEmpty BY <1>10 DEF SectionEmpty, AppTo
<1>11. CASE SectionFilled BY <1>11 DEF SectionFilled, AppTo, SetAppStatus, LookBegins
<1>12. CASE PublishTake BY <1>12 DEF PublishTake, AppTo, Take
<1>13. CASE PublishRefused BY <1>13 DEF PublishRefused, AppTo, Give, LookEnds, Excuse
<1>14. CASE PublishSend BY <1>14 DEF PublishSend, AppTo
<1>15. CASE PublishDone BY <1>15 DEF PublishDone, AppTo
<1>16. CASE PublishZero BY <1>16 DEF PublishZero, AppTo
<1>17. CASE PublishGive BY <1>17 DEF PublishGive, AppTo, Give, LookEnds
<1>18. CASE Clear BY <1>18 DEF Clear, AppTo, LookEnds, Excuse
<1>19. CASE PollSkip BY <1>19 DEF PollSkip, AppTo
<1>20. CASE StartTimer BY <1>20 DEF StartTimer, ExecuteTo, SetAppStatus
<1>21. CASE StopTimer BY <1>21 DEF StopTimer, ExecuteTo, SetAppStatus
<1>22. CASE Speed BY <1>22 DEF Speed, ExecuteTo, Excuse
<1>23. CASE Restart BY <1>23 DEF Restart, ExecuteTo, SetAppStatus
<1>24. CASE ClientReceive BY <1>24 DEF ClientReceive, Enqueue
<1>25. CASE Button1 BY <1>25 DEF Button1, Enqueue
<1>26. CASE Network BY <1>26 DEF Network
<1>27. CASE SoftReset BY <1>27 DEF SoftReset, Boot
<1>28. CASE UNCHANGED vars BY <1>28 DEF vars
<1> QED BY <1>1, <1>2, <1>3, <1>4, <1>5, <1>6, <1>7, <1>8, <1>9, <1>10, <1>11, <1>12, <1>13, <1>14, <1>15, <1>16, <1>17, <1>18, <1>19, <1>20, <1>21, <1>22, <1>23, <1>24, <1>25, <1>26, <1>27, <1>28 DEF Next, TimerTask, AppTask

\* Without an update on top of another, at most one is in the buffer.
LEMMA PromptStep == TypeOK /\ Fits /\ Visits /\ Prompt /\ [Next]_vars => (Prompt)'
<1> SUFFICES ASSUME TypeOK /\ Fits /\ Visits /\ Prompt, [Next]_vars PROVE (Prompt)'
  OBVIOUS
<1> USE DEF TypeOK, Fits, Visits, Prompt, Updating, Excuses, buffer, updating, control
<1>1. CASE TickFire BY <1>1 DEF TickFire, TickTo
<1>2. CASE TickTake BY <1>2 DEF TickTake, TickTo, Take, Excuse
<1>3. CASE TickRefused BY <1>3 DEF TickRefused, TickTo, Give, Excuse
<1>4. CASE TickFormat BY <1>4 DEF TickFormat, TickTo
<1>5. CASE TickCount
  <2>1. Counted
    BY <1>5, Counting
  <2> QED
    BY <1>5, <2>1, CountingPrompt
<1>6. CASE TickGive BY <1>6 DEF TickGive, TickTo, Give
<1>7. CASE ValidateFine BY <1>7 DEF ValidateFine, AppTo
<1>8. CASE ValidateLost BY <1>8 DEF ValidateLost, AppTo, SetAppStatus
<1>9. CASE Connecting BY <1>9 DEF Connecting, AppTo
<1>10. CASE SectionEmpty BY <1>10 DEF SectionEmpty, AppTo
<1>11. CASE SectionFilled BY <1>11 DEF SectionFilled, AppTo, SetAppStatus, LookBegins
<1>12. CASE PublishTake BY <1>12 DEF PublishTake, AppTo, Take
<1>13. CASE PublishRefused BY <1>13 DEF PublishRefused, AppTo, Give, LookEnds, Excuse
<1>14. CASE PublishSend BY <1>14 DEF PublishSend, AppTo
<1>15. CASE PublishDone BY <1>15 DEF PublishDone, AppTo
<1>16. CASE PublishZero BY <1>16 DEF PublishZero, AppTo
<1>17. CASE PublishGive BY <1>17 DEF PublishGive, AppTo, Give, LookEnds
<1>18. CASE Clear BY <1>18 DEF Clear, AppTo, LookEnds, Excuse
<1>19. CASE PollSkip BY <1>19 DEF PollSkip, AppTo
<1>20. CASE StartTimer BY <1>20 DEF StartTimer, ExecuteTo, SetAppStatus
<1>21. CASE StopTimer BY <1>21 DEF StopTimer, ExecuteTo, SetAppStatus
<1>22. CASE Speed BY <1>22 DEF Speed, ExecuteTo, Excuse
<1>23. CASE Restart BY <1>23 DEF Restart, ExecuteTo, SetAppStatus
<1>24. CASE ClientReceive BY <1>24 DEF ClientReceive, Enqueue
<1>25. CASE Button1 BY <1>25 DEF Button1, Enqueue
<1>26. CASE Network BY <1>26 DEF Network
<1>27. CASE SoftReset BY <1>27 DEF SoftReset, Boot
<1>28. CASE UNCHANGED vars BY <1>28 DEF vars
<1> QED BY <1>1, <1>2, <1>3, <1>4, <1>5, <1>6, <1>7, <1>8, <1>9, <1>10, <1>11, <1>12, <1>13, <1>14, <1>15, <1>16, <1>17, <1>18, <1>19, <1>20, <1>21, <1>22, <1>23, <1>24, <1>25, <1>26, <1>27, <1>28 DEF Next, TimerTask, AppTask

\* The semaphore excludes until somebody gives it without having it.
LEMMA ExclusionStep == TypeOK /\ Exclusion /\ [Next]_vars => (Exclusion)'
<1> SUFFICES ASSUME TypeOK /\ Exclusion, [Next]_vars PROVE (Exclusion)'
  OBVIOUS
<1> USE DEF TypeOK, Exclusion, Updating, Publishing, buffer, updating, control
<1>1. CASE TickFire BY <1>1 DEF TickFire, TickTo
<1>2. CASE TickTake BY <1>2 DEF TickTake, TickTo, Take, Excuse
<1>3. CASE TickRefused BY <1>3 DEF TickRefused, TickTo, Give, Excuse
<1>4. CASE TickFormat BY <1>4 DEF TickFormat, TickTo
<1>5. CASE TickCount BY <1>5 DEF TickCount, TickTo
<1>6. CASE TickGive BY <1>6 DEF TickGive, TickTo, Give
<1>7. CASE ValidateFine BY <1>7 DEF ValidateFine, AppTo
<1>8. CASE ValidateLost BY <1>8 DEF ValidateLost, AppTo, SetAppStatus
<1>9. CASE Connecting BY <1>9 DEF Connecting, AppTo
<1>10. CASE SectionEmpty BY <1>10 DEF SectionEmpty, AppTo
<1>11. CASE SectionFilled BY <1>11 DEF SectionFilled, AppTo, SetAppStatus, LookBegins
<1>12. CASE PublishTake BY <1>12 DEF PublishTake, AppTo, Take
<1>13. CASE PublishRefused BY <1>13 DEF PublishRefused, AppTo, Give, LookEnds, Excuse
<1>14. CASE PublishSend BY <1>14 DEF PublishSend, AppTo
<1>15. CASE PublishDone BY <1>15 DEF PublishDone, AppTo
<1>16. CASE PublishZero BY <1>16 DEF PublishZero, AppTo
<1>17. CASE PublishGive BY <1>17 DEF PublishGive, AppTo, Give, LookEnds
<1>18. CASE Clear BY <1>18 DEF Clear, AppTo, LookEnds, Excuse
<1>19. CASE PollSkip BY <1>19 DEF PollSkip, AppTo
<1>20. CASE StartTimer BY <1>20 DEF StartTimer, ExecuteTo, SetAppStatus
<1>21. CASE StopTimer BY <1>21 DEF StopTimer, ExecuteTo, SetAppStatus
<1>22. CASE Speed BY <1>22 DEF Speed, ExecuteTo, Excuse
<1>23. CASE Restart BY <1>23 DEF Restart, ExecuteTo, SetAppStatus
<1>24. CASE ClientReceive BY <1>24 DEF ClientReceive, Enqueue
<1>25. CASE Button1 BY <1>25 DEF Button1, Enqueue
<1>26. CASE Network BY <1>26 DEF Network
<1>27. CASE SoftReset BY <1>27 DEF SoftReset, Boot
<1>28. CASE UNCHANGED vars BY <1>28 DEF vars
<1> QED BY <1>1, <1>2, <1>3, <1>4, <1>5, <1>6, <1>7, <1>8, <1>9, <1>10, <1>11, <1>12, <1>13, <1>14, <1>15, <1>16, <1>17, <1>18, <1>19, <1>20, <1>21, <1>22, <1>23, <1>24, <1>25, <1>26, <1>27, <1>28 DEF Next, TimerTask, AppTask

\* What is in the buffer is a whole update, or one that is growing.
LEMMA WholeStep == Inv /\ [Next]_vars => (Whole)'
<1> SUFFICES ASSUME Inv, [Next]_vars PROVE (Whole)'
  OBVIOUS
<1> USE DEF Inv, TypeOK, Fits, Visits, Prompt, Exclusion, Whole, Updating, Publishing, buffer, updating, control
<1>1. CASE TickFire BY <1>1 DEF TickFire, TickTo
<1>2. CASE TickTake BY <1>2 DEF TickTake, TickTo, Take, Excuse
<1>3. CASE TickRefused BY <1>3 DEF TickRefused, TickTo, Give, Excuse
<1>4. CASE TickFormat BY <1>4 DEF TickFormat, TickTo
<1>5. CASE TickCount
  <2>1. Counted
    BY <1>5, Counting
  <2> QED
    BY <1>5, <2>1, CountingWhole
<1>6. CASE TickGive BY <1>6 DEF TickGive, TickTo, Give
<1>7. CASE ValidateFine BY <1>7 DEF ValidateFine, AppTo
<1>8. CASE ValidateLost BY <1>8 DEF ValidateLost, AppTo, SetAppStatus
<1>9. CASE Connecting BY <1>9 DEF Connecting, AppTo
<1>10. CASE SectionEmpty BY <1>10 DEF SectionEmpty, AppTo
<1>11. CASE SectionFilled BY <1>11 DEF SectionFilled, AppTo, SetAppStatus, LookBegins
<1>12. CASE PublishTake BY <1>12 DEF PublishTake, AppTo, Take
<1>13. CASE PublishRefused BY <1>13 DEF PublishRefused, AppTo, Give, LookEnds, Excuse
<1>14. CASE PublishSend BY <1>14 DEF PublishSend, AppTo
<1>15. CASE PublishDone BY <1>15 DEF PublishDone, AppTo
<1>16. CASE PublishZero BY <1>16 DEF PublishZero, AppTo
<1>17. CASE PublishGive BY <1>17 DEF PublishGive, AppTo, Give, LookEnds
<1>18. CASE Clear BY <1>18 DEF Clear, AppTo, LookEnds, Excuse
<1>19. CASE PollSkip BY <1>19 DEF PollSkip, AppTo
<1>20. CASE StartTimer BY <1>20 DEF StartTimer, ExecuteTo, SetAppStatus
<1>21. CASE StopTimer BY <1>21 DEF StopTimer, ExecuteTo, SetAppStatus
<1>22. CASE Speed BY <1>22 DEF Speed, ExecuteTo, Excuse
<1>23. CASE Restart BY <1>23 DEF Restart, ExecuteTo, SetAppStatus
<1>24. CASE ClientReceive BY <1>24 DEF ClientReceive, Enqueue
<1>25. CASE Button1 BY <1>25 DEF Button1, Enqueue
<1>26. CASE Network BY <1>26 DEF Network
<1>27. CASE SoftReset BY <1>27 DEF SoftReset, Boot
<1>28. CASE UNCHANGED vars BY <1>28 DEF vars
<1> QED BY <1>1, <1>2, <1>3, <1>4, <1>5, <1>6, <1>7, <1>8, <1>9, <1>10, <1>11, <1>12, <1>13, <1>14, <1>15, <1>16, <1>17, <1>18, <1>19, <1>20, <1>21, <1>22, <1>23, <1>24, <1>25, <1>26, <1>27, <1>28 DEF Next, TimerTask, AppTask

\* A stop that met nothing under way keeps everything silent.
LEMMA SilentStep == TypeOK /\ StoppedIsSilent /\ [Next]_vars => (StoppedIsSilent)'
<1> SUFFICES ASSUME TypeOK /\ StoppedIsSilent, [Next]_vars PROVE (StoppedIsSilent)'
  OBVIOUS
<1> USE DEF TypeOK, StoppedIsSilent, Statuses, buffer, updating, control
<1>1. CASE TickFire BY <1>1 DEF TickFire, TickTo
<1>2. CASE TickTake BY <1>2 DEF TickTake, TickTo, Take, Excuse
<1>3. CASE TickRefused BY <1>3 DEF TickRefused, TickTo, Give, Excuse
<1>4. CASE TickFormat BY <1>4 DEF TickFormat, TickTo
<1>5. CASE TickCount BY <1>5 DEF TickCount, TickTo
<1>6. CASE TickGive BY <1>6 DEF TickGive, TickTo, Give
<1>7. CASE ValidateFine BY <1>7 DEF ValidateFine, AppTo
<1>8. CASE ValidateLost BY <1>8 DEF ValidateLost, AppTo, SetAppStatus
<1>9. CASE Connecting BY <1>9 DEF Connecting, AppTo
<1>10. CASE SectionEmpty BY <1>10 DEF SectionEmpty, AppTo
<1>11. CASE SectionFilled BY <1>11 DEF SectionFilled, AppTo, SetAppStatus, LookBegins
<1>12. CASE PublishTake BY <1>12 DEF PublishTake, AppTo, Take
<1>13. CASE PublishRefused BY <1>13 DEF PublishRefused, AppTo, Give, LookEnds, Excuse
<1>14. CASE PublishSend BY <1>14 DEF PublishSend, AppTo
<1>15. CASE PublishDone BY <1>15 DEF PublishDone, AppTo
<1>16. CASE PublishZero BY <1>16 DEF PublishZero, AppTo
<1>17. CASE PublishGive BY <1>17 DEF PublishGive, AppTo, Give, LookEnds
<1>18. CASE Clear BY <1>18 DEF Clear, AppTo, LookEnds, Excuse
<1>19. CASE PollSkip BY <1>19 DEF PollSkip, AppTo
<1>20. CASE StartTimer BY <1>20 DEF StartTimer, ExecuteTo, SetAppStatus
<1>21. CASE StopTimer BY <1>21 DEF StopTimer, ExecuteTo, SetAppStatus
<1>22. CASE Speed BY <1>22 DEF Speed, ExecuteTo, Excuse
<1>23. CASE Restart BY <1>23 DEF Restart, ExecuteTo, SetAppStatus
<1>24. CASE ClientReceive BY <1>24 DEF ClientReceive, Enqueue
<1>25. CASE Button1 BY <1>25 DEF Button1, Enqueue
<1>26. CASE Network BY <1>26 DEF Network
<1>27. CASE SoftReset BY <1>27 DEF SoftReset, Boot
<1>28. CASE UNCHANGED vars BY <1>28 DEF vars
<1> QED BY <1>1, <1>2, <1>3, <1>4, <1>5, <1>6, <1>7, <1>8, <1>9, <1>10, <1>11, <1>12, <1>13, <1>14, <1>15, <1>16, <1>17, <1>18, <1>19, <1>20, <1>21, <1>22, <1>23, <1>24, <1>25, <1>26, <1>27, <1>28 DEF Next, TimerTask, AppTask

\* Everything together holds at the start and through every step.
LEMMA Invariance == Spec => [](Inv /\ StoppedIsSilent)
<1>1. Init => Inv /\ StoppedIsSilent
  BY DEF Init, Inv, TypeOK, Fits, Visits, Prompt, Exclusion, Whole, StoppedIsSilent,
     Updating, Publishing, Statuses, Excuses, Commands
<1>2. Inv /\ StoppedIsSilent /\ [Next]_vars => (Inv /\ StoppedIsSilent)'
  BY TypeStep, VisitsStep, PromptStep, ExclusionStep, WholeStep, SilentStep DEF Inv
<1> QED BY <1>1, <1>2, PTL DEF Spec

\* All variables keep their types: the queue, the lengths and the tasks.
THEOREM TypeCorrect == Spec => []TypeOK
<1>1. Inv => TypeOK BY DEF Inv
<1> QED BY <1>1, Invariance, PTL

\* MQTTOperation.c:553-559 and 521-545: whatever fails, one update at a time
\* never runs over the end of the buffer.
THEOREM OneUpdateFits == Spec => []PromptNeverOverruns
<1>1. Inv => PromptNeverOverruns BY DEF Inv, TypeOK, Prompt, PromptNeverOverruns
<1> QED BY <1>1, Invariance, PTL

\* What ClientPublish sends is one update, complete, unless a semaphore was
\* given untaken or the buffer emptied without it.
THEOREM UpdatesArePublishedWhole == Spec => []WholeUpdates
<1>1. Inv => WholeUpdates BY DEF Inv, Whole, WholeUpdates
<1> QED BY <1>1, Invariance, PTL

\* A device that was stopped stays silent and says that it is not publishing.
THEOREM StopSilences == Spec => []StoppedIsSilent
<1> QED BY Invariance, PTL
=============================================================================
