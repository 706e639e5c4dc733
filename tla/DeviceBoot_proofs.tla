------------------------- MODULE DeviceBoot_proofs -------------------------
(***************************************************************************)
(* Theorems about DeviceBoot, for any number of mishaps.                   *)
(***************************************************************************)
EXTENDS DeviceBoot, TLAPS

\* Before the task runs nothing is saved and no restart is due.
Quiet == step \notin {"running", "halted"} => saving = "idle" /\ ~restartTimer

\* Where credentials are, somebody supplied them.
Entitled ==
  /\ user = "device" \/ config = "device" \/ card = "device" => given
  /\ boot_mode = "operation" \/ saving = "append" => given

\* A change of identity is asked for before it is made.
Asking ==
  /\ step = "deleteConfig" => asked
  /\ boot_mode = "operation" /\ step \in {"enable", "connecting", "running"}
       => user = "device" \/ config # "device" \/ asked

\* From the parsed configuration to the restart, registration never has
\* credentials in flash that nobody acts on.
Registering ==
  /\ step = "setup" /\ config = "device" => overruled \/ user = "device"
  /\ boot_mode = "registration" /\ step \in {"enable", "connecting", "running"} =>
       /\ config = "device" => overruled \/ restartTimer \/ saving = "arm"
       /\ saving = "write" => user = "device"
       /\ restartTimer \/ saving = "arm" => config = "device" \/ skipped

Inv == TypeOK /\ Quiet /\ Entitled /\ Asking /\ Registering

-----------------------------------------------------------------------------
\* TypeOK in parts, which a step keeps one by one.
FileTypes == config \in Users \cup {"none"} /\ card \in Cards /\ user \in Users

ControlTypes ==
  /\ step \in StartUp \cup {"running", "halted", "idle"}
  /\ boot_mode \in {"unknown", "registration", "operation"}
  /\ saving \in {"idle", "append", "write", "arm"}

FlagTypes == /\ bootFile \in BOOLEAN /\ restartTimer \in BOOLEAN
             /\ given \in BOOLEAN /\ asked \in BOOLEAN
             /\ overruled \in BOOLEAN /\ skipped \in BOOLEAN

LEMMA Parts ==
  /\ TypeOK <=> /\ FileTypes /\ ControlTypes /\ FlagTypes
                /\ mishaps \in 0..MaxMishaps
  /\ TypeOK' <=> /\ FileTypes' /\ ControlTypes' /\ FlagTypes'
                 /\ mishaps' \in 0..MaxMishaps
BY DEF TypeOK, FileTypes, ControlTypes, FlagTypes

LEMMA Bounded ==
  mishaps \in 0..MaxMishaps /\ (Works \/ Fails) => mishaps' \in 0..MaxMishaps
BY MaxMishapsAssumption DEF Works, Fails

\* A reset keeps the invariant, whatever brings it about.
LEMMA ResetInv == Inv /\ Reset /\ (Works \/ Fails) => Inv'
<1> SUFFICES ASSUME Inv, Reset, Works \/ Fails PROVE Inv'
    OBVIOUS
<1>1. TypeOK'
  <2>1. FileTypes'
      BY Parts DEF Reset, Survives, ClearMemory, files, history, Inv,
         FileTypes, Users, Cards
  <2>2. ControlTypes'
      BY Parts DEF Reset, Survives, ClearMemory, files, history, Inv,
         ControlTypes, StartUp
  <2>3. FlagTypes'
      BY Parts DEF Reset, Survives, ClearMemory, files, history, Inv,
         FlagTypes
  <2>4. mishaps' \in 0..MaxMishaps
      BY Bounded, Parts DEF Inv
  <2> QED BY <2>1, <2>2, <2>3, <2>4, Parts
<1>2. Quiet'
    BY DEF Reset, Survives, ClearMemory, files, history, Inv, TypeOK, Quiet
<1>3. Entitled'
    BY DEF Reset, Survives, ClearMemory, files, history, Inv, TypeOK,
       Entitled, Default, Users, Cards
<1>4. Asking'
    BY DEF Reset, Survives, ClearMemory, files, history, Inv, TypeOK, Asking,
       Default, Users
<1>5. Registering'
    BY DEF Reset, Survives, ClearMemory, files, history, Inv, TypeOK,
       Registering, Default, Users, Quiet, Entitled, Asking
<1> QED BY <1>1, <1>2, <1>3, <1>4, <1>5 DEF Inv

LEMMA StorageInitInv == Inv /\ StorageInit => Inv'
<1> SUFFICES ASSUME Inv, StorageInit PROVE Inv'
    OBVIOUS
<1>1. TypeOK'
  <2>1. FileTypes'
      BY Parts DEF StorageInit, Go, files, history, Inv, FileTypes, Users,
         Cards
  <2>2. ControlTypes'
      BY Parts DEF StorageInit, Go, files, history, Inv, ControlTypes, StartUp
  <2>3. FlagTypes'
      BY Parts DEF StorageInit, Go, files, history, Inv, FlagTypes
  <2>4. mishaps' \in 0..MaxMishaps
      BY Bounded, Parts DEF StorageInit, Inv
  <2> QED BY <2>1, <2>2, <2>3, <2>4, Parts
<1>2. Quiet'
    BY DEF StorageInit, Go, files, history, Inv, TypeOK, Quiet
<1>3. Entitled'
    BY DEF StorageInit, Go, files, history, Inv, TypeOK, Entitled, Default,
       Users, Cards
<1>4. Asking'
    BY DEF StorageInit, Go, files, history, Inv, TypeOK, Asking, Default,
       Users
<1>5. Registering'
    BY DEF StorageInit, Go, files, history, Inv, TypeOK, Registering, Default,
       Users, Quiet, Entitled, Asking
<1> QED BY <1>1, <1>2, <1>3, <1>4, <1>5 DEF Inv

LEMMA CheckButtonInv == Inv /\ CheckButton => Inv'
<1> SUFFICES ASSUME Inv, CheckButton PROVE Inv'
    OBVIOUS
<1>1. TypeOK'
  <2>1. FileTypes'
      BY Parts DEF CheckButton, Go, files, history, Inv, FileTypes, Users,
         Cards
  <2>2. ControlTypes'
      BY Parts DEF CheckButton, Go, files, history, Inv, ControlTypes, StartUp
  <2>3. FlagTypes'
      BY Parts DEF CheckButton, Go, files, history, Inv, FlagTypes
  <2>4. mishaps' \in 0..MaxMishaps
      BY Parts DEF CheckButton, Inv
  <2> QED BY <2>1, <2>2, <2>3, <2>4, Parts
<1>2. Quiet'
    BY DEF CheckButton, Go, files, history, Inv, TypeOK, Quiet
<1>3. Entitled'
    BY DEF CheckButton, Go, files, history, Inv, TypeOK, Entitled, Default,
       Users, Cards
<1>4. Asking'
    BY DEF CheckButton, Go, files, history, Inv, TypeOK, Asking, Default,
       Users
<1>5. Registering'
    BY DEF CheckButton, Go, files, history, Inv, TypeOK, Registering, Default,
       Users, Quiet, Entitled, Asking
<1> QED BY <1>1, <1>2, <1>3, <1>4, <1>5 DEF Inv

LEMMA DeleteConfigInv == Inv /\ DeleteConfig => Inv'
<1> SUFFICES ASSUME Inv, DeleteConfig PROVE Inv'
    OBVIOUS
<1>1. TypeOK'
  <2>1. FileTypes'
      BY Parts DEF DeleteConfig, Go, files, history, Inv, FileTypes, Users,
         Cards
  <2>2. ControlTypes'
      BY Parts DEF DeleteConfig, Go, files, history, Inv, ControlTypes,
         StartUp
  <2>3. FlagTypes'
      BY Parts DEF DeleteConfig, Go, files, history, Inv, FlagTypes
  <2>4. mishaps' \in 0..MaxMishaps
      BY Bounded, Parts DEF DeleteConfig, Inv
  <2> QED BY <2>1, <2>2, <2>3, <2>4, Parts
<1>2. Quiet'
    BY DEF DeleteConfig, Go, files, history, Inv, TypeOK, Quiet
<1>3. Entitled'
    BY DEF DeleteConfig, Go, files, history, Inv, TypeOK, Entitled, Default,
       Users, Cards
<1>4. Asking'
    BY DEF DeleteConfig, Go, files, history, Inv, TypeOK, Asking, Default,
       Users
<1>5. Registering'
    BY DEF DeleteConfig, Go, files, history, Inv, TypeOK, Registering,
       Default, Users, Quiet, Entitled, Asking
<1> QED BY <1>1, <1>2, <1>3, <1>4, <1>5 DEF Inv

LEMMA DeleteBootFileInv == Inv /\ DeleteBootFile => Inv'
<1> SUFFICES ASSUME Inv, DeleteBootFile PROVE Inv'
    OBVIOUS
<1>1. TypeOK'
  <2>1. FileTypes'
      BY Parts DEF DeleteBootFile, ClearMemory, files, history, Inv,
         FileTypes, Users, Cards
  <2>2. ControlTypes'
      BY Parts DEF DeleteBootFile, ClearMemory, files, history, Inv,
         ControlTypes, StartUp
  <2>3. FlagTypes'
      BY Parts DEF DeleteBootFile, ClearMemory, files, history, Inv, FlagTypes
  <2>4. mishaps' \in 0..MaxMishaps
      BY Bounded, Parts DEF DeleteBootFile, Inv
  <2> QED BY <2>1, <2>2, <2>3, <2>4, Parts
<1>2. Quiet'
    BY DEF DeleteBootFile, ClearMemory, files, history, Inv, TypeOK, Quiet
<1>3. Entitled'
    BY DEF DeleteBootFile, ClearMemory, files, history, Inv, TypeOK, Entitled,
       Default, Users, Cards
<1>4. Asking'
    BY DEF DeleteBootFile, ClearMemory, files, history, Inv, TypeOK, Asking,
       Default, Users
<1>5. Registering'
    BY DEF DeleteBootFile, ClearMemory, files, history, Inv, TypeOK,
       Registering, Default, Users, Quiet, Entitled, Asking
<1> QED BY <1>1, <1>2, <1>3, <1>4, <1>5 DEF Inv

LEMMA ParseConfigInv == Inv /\ ParseConfig => Inv'
<1> SUFFICES ASSUME Inv, ParseConfig PROVE Inv'
    OBVIOUS
<1>1. TypeOK'
  <2>1. FileTypes'
      BY Parts DEF ParseConfig, UserOf, FlashReadable, CardReadable, Go,
         files, history, Inv, FileTypes, Users, Cards
  <2>2. ControlTypes'
      BY Parts DEF ParseConfig, UserOf, FlashReadable, CardReadable, Go,
         files, history, Inv, ControlTypes, StartUp
  <2>3. FlagTypes'
      BY Parts DEF ParseConfig, UserOf, FlashReadable, CardReadable, Go,
         files, history, Inv, FlagTypes
  <2>4. mishaps' \in 0..MaxMishaps
      BY Bounded, Parts DEF ParseConfig, Inv
  <2> QED BY <2>1, <2>2, <2>3, <2>4, Parts
<1>2. Quiet'
    BY DEF ParseConfig, UserOf, FlashReadable, CardReadable, Go, files,
       history, Inv, TypeOK, Quiet
<1>3. Entitled'
    BY DEF ParseConfig, UserOf, FlashReadable, CardReadable, Go, files,
       history, Inv, TypeOK, Entitled, Default, Users, Cards
<1>4. Asking'
    BY DEF ParseConfig, UserOf, FlashReadable, CardReadable, Go, files,
       history, Inv, TypeOK, Asking, Default, Users
<1>5. Registering'
    BY DEF ParseConfig, UserOf, FlashReadable, CardReadable, Go, files,
       history, Inv, TypeOK, Registering, Default, Users, Quiet, Entitled,
       Asking
<1> QED BY <1>1, <1>2, <1>3, <1>4, <1>5 DEF Inv

LEMMA SetupInv == Inv /\ Setup => Inv'
<1> SUFFICES ASSUME Inv, Setup PROVE Inv'
    OBVIOUS
<1>1. TypeOK'
  <2>1. FileTypes'
      BY Parts DEF Setup, GetMode, Go, files, history, Inv, FileTypes, Users,
         Cards
  <2>2. ControlTypes'
      BY Parts DEF Setup, GetMode, Go, files, history, Inv, ControlTypes,
         StartUp
  <2>3. FlagTypes'
      BY Parts DEF Setup, GetMode, Go, files, history, Inv, FlagTypes
  <2>4. mishaps' \in 0..MaxMishaps
      BY Bounded, Parts DEF Setup, Inv
  <2> QED BY <2>1, <2>2, <2>3, <2>4, Parts
<1>2. Quiet'
    BY DEF Setup, GetMode, Go, files, history, Inv, TypeOK, Quiet
<1>3. Entitled'
    BY DEF Setup, GetMode, Go, files, history, Inv, TypeOK, Entitled, Default,
       Users, Cards
<1>4. Asking'
    BY DEF Setup, GetMode, Go, files, history, Inv, TypeOK, Asking, Default,
       Users
<1>5. Registering'
    BY DEF Setup, GetMode, Go, files, history, Inv, TypeOK, Registering,
       Default, Users, Quiet, Entitled, Asking
<1> QED BY <1>1, <1>2, <1>3, <1>4, <1>5 DEF Inv

LEMMA EnableInv == Inv /\ Enable => Inv'
<1> SUFFICES ASSUME Inv, Enable, ~Reset PROVE Inv'
    BY ResetInv DEF Enable
<1>1. TypeOK'
  <2>1. FileTypes'
      BY Parts DEF Enable, Go, files, history, Inv, FileTypes, Users, Cards
  <2>2. ControlTypes'
      BY Parts DEF Enable, Go, files, history, Inv, ControlTypes, StartUp
  <2>3. FlagTypes'
      BY Parts DEF Enable, Go, files, history, Inv, FlagTypes
  <2>4. mishaps' \in 0..MaxMishaps
      BY Bounded, Parts DEF Enable, Inv
  <2> QED BY <2>1, <2>2, <2>3, <2>4, Parts
<1>2. Quiet'
    BY DEF Enable, Go, files, history, Inv, TypeOK, Quiet
<1>3. Entitled'
    BY DEF Enable, Go, files, history, Inv, TypeOK, Entitled, Default, Users,
       Cards
<1>4. Asking'
    BY DEF Enable, Go, files, history, Inv, TypeOK, Asking, Default, Users
<1>5. Registering'
    BY DEF Enable, Go, files, history, Inv, TypeOK, Registering, Default,
       Users, Quiet, Entitled, Asking
<1> QED BY <1>1, <1>2, <1>3, <1>4, <1>5 DEF Inv

LEMMA ConnectedInv == Inv /\ Connected => Inv'
<1> SUFFICES ASSUME Inv, Connected, ~Reset PROVE Inv'
    BY ResetInv DEF Connected
<1>1. TypeOK'
  <2>1. FileTypes'
      BY Parts DEF Connected, Go, files, history, Inv, FileTypes, Users, Cards
  <2>2. ControlTypes'
      BY Parts DEF Connected, Go, files, history, Inv, ControlTypes, StartUp
  <2>3. FlagTypes'
      BY Parts DEF Connected, Go, files, history, Inv, FlagTypes
  <2>4. mishaps' \in 0..MaxMishaps
      BY Bounded, Parts DEF Connected, Inv
  <2> QED BY <2>1, <2>2, <2>3, <2>4, Parts
<1>2. Quiet'
    BY DEF Connected, Go, files, history, Inv, TypeOK, Quiet
<1>3. Entitled'
    BY DEF Connected, Go, files, history, Inv, TypeOK, Entitled, Default,
       Users, Cards
<1>4. Asking'
    BY DEF Connected, Go, files, history, Inv, TypeOK, Asking, Default, Users
<1>5. Registering'
    BY DEF Connected, Go, files, history, Inv, TypeOK, Registering, Default,
       Users, Quiet, Entitled, Asking
<1> QED BY <1>1, <1>2, <1>3, <1>4, <1>5 DEF Inv

LEMMA ReceiveInv == Inv /\ Receive => Inv'
<1> SUFFICES ASSUME Inv, Receive PROVE Inv'
    OBVIOUS
<1>1. TypeOK'
  <2>1. FileTypes'
      BY Parts DEF Receive, Running, files, history, Inv, FileTypes, Users,
         Cards
  <2>2. ControlTypes'
      BY Parts DEF Receive, Running, files, history, Inv, ControlTypes,
         StartUp
  <2>3. FlagTypes'
      BY Parts DEF Receive, Running, files, history, Inv, FlagTypes
  <2>4. mishaps' \in 0..MaxMishaps
      BY Parts DEF Receive, Inv
  <2> QED BY <2>1, <2>2, <2>3, <2>4, Parts
<1>2. Quiet'
    BY DEF Receive, Running, files, history, Inv, TypeOK, Quiet
<1>3. Entitled'
    BY DEF Receive, Running, files, history, Inv, TypeOK, Entitled, Default,
       Users, Cards
<1>4. Asking'
    BY DEF Receive, Running, files, history, Inv, TypeOK, Asking, Default,
       Users
<1>5. Registering'
    BY DEF Receive, Running, files, history, Inv, TypeOK, Registering,
       Default, Users, Quiet, Entitled, Asking
<1> QED BY <1>1, <1>2, <1>3, <1>4, <1>5 DEF Inv

LEMMA AppendCredentialsInv == Inv /\ AppendCredentials => Inv'
<1> SUFFICES ASSUME Inv, AppendCredentials PROVE Inv'
    OBVIOUS
<1>1. TypeOK'
  <2>1. FileTypes'
      BY Parts DEF AppendCredentials, files, history, Inv, FileTypes, Users,
         Cards
  <2>2. ControlTypes'
      BY Parts DEF AppendCredentials, files, history, Inv, ControlTypes,
         StartUp
  <2>3. FlagTypes'
      BY Parts DEF AppendCredentials, files, history, Inv, FlagTypes
  <2>4. mishaps' \in 0..MaxMishaps
      BY Parts DEF AppendCredentials, Inv
  <2> QED BY <2>1, <2>2, <2>3, <2>4, Parts
<1>2. Quiet'
    BY DEF AppendCredentials, files, history, Inv, TypeOK, Quiet
<1>3. Entitled'
    BY DEF AppendCredentials, files, history, Inv, TypeOK, Entitled, Default,
       Users, Cards
<1>4. Asking'
    BY DEF AppendCredentials, files, history, Inv, TypeOK, Asking, Default,
       Users
<1>5. Registering'
    BY DEF AppendCredentials, files, history, Inv, TypeOK, Registering,
       Default, Users, Quiet, Entitled, Asking
<1> QED BY <1>1, <1>2, <1>3, <1>4, <1>5 DEF Inv

LEMMA WriteConfigInv == Inv /\ WriteConfig => Inv'
<1> SUFFICES ASSUME Inv, WriteConfig PROVE Inv'
    OBVIOUS
<1>1. TypeOK'
  <2>1. FileTypes'
      BY Parts DEF WriteConfig, Survives, files, history, Inv, FileTypes,
         Users, Cards
  <2>2. ControlTypes'
      BY Parts DEF WriteConfig, Survives, files, history, Inv, ControlTypes,
         StartUp
  <2>3. FlagTypes'
      BY Parts DEF WriteConfig, Survives, files, history, Inv, FlagTypes
  <2>4. mishaps' \in 0..MaxMishaps
      BY Bounded, Parts DEF WriteConfig, Inv
  <2> QED BY <2>1, <2>2, <2>3, <2>4, Parts
<1>2. Quiet'
    BY DEF WriteConfig, Survives, files, history, Inv, TypeOK, Quiet
<1>3. Entitled'
    BY DEF WriteConfig, Survives, files, history, Inv, TypeOK, Entitled,
       Default, Users, Cards
<1>4. Asking'
    BY DEF WriteConfig, Survives, files, history, Inv, TypeOK, Asking,
       Default, Users
<1>5. Registering'
    BY DEF WriteConfig, Survives, files, history, Inv, TypeOK, Registering,
       Default, Users, Quiet, Entitled, Asking
<1> QED BY <1>1, <1>2, <1>3, <1>4, <1>5 DEF Inv

LEMMA StartRestartTimerInv == Inv /\ StartRestartTimer => Inv'
<1> SUFFICES ASSUME Inv, StartRestartTimer PROVE Inv'
    OBVIOUS
<1>1. TypeOK'
  <2>1. FileTypes'
      BY Parts DEF StartRestartTimer, files, history, Inv, FileTypes, Users,
         Cards
  <2>2. ControlTypes'
      BY Parts DEF StartRestartTimer, files, history, Inv, ControlTypes,
         StartUp
  <2>3. FlagTypes'
      BY Parts DEF StartRestartTimer, files, history, Inv, FlagTypes
  <2>4. mishaps' \in 0..MaxMishaps
      BY Parts DEF StartRestartTimer, Inv
  <2> QED BY <2>1, <2>2, <2>3, <2>4, Parts
<1>2. Quiet'
    BY DEF StartRestartTimer, files, history, Inv, TypeOK, Quiet
<1>3. Entitled'
    BY DEF StartRestartTimer, files, history, Inv, TypeOK, Entitled, Default,
       Users, Cards
<1>4. Asking'
    BY DEF StartRestartTimer, files, history, Inv, TypeOK, Asking, Default,
       Users
<1>5. Registering'
    BY DEF StartRestartTimer, files, history, Inv, TypeOK, Registering,
       Default, Users, Quiet, Entitled, Asking
<1> QED BY <1>1, <1>2, <1>3, <1>4, <1>5 DEF Inv

LEMMA RestartCallbackInv == Inv /\ RestartCallback => Inv'
<1> SUFFICES ASSUME Inv, RestartCallback, ~Reset PROVE Inv'
    BY ResetInv DEF RestartCallback
<1>1. TypeOK'
  <2>1. FileTypes'
      BY Parts DEF RestartCallback, files, history, Inv, FileTypes, Users,
         Cards
  <2>2. ControlTypes'
      BY Parts DEF RestartCallback, files, history, Inv, ControlTypes, StartUp
  <2>3. FlagTypes'
      BY Parts DEF RestartCallback, files, history, Inv, FlagTypes
  <2>4. mishaps' \in 0..MaxMishaps
      BY Bounded, Parts DEF RestartCallback, Inv
  <2> QED BY <2>1, <2>2, <2>3, <2>4, Parts
<1>2. Quiet'
    BY DEF RestartCallback, files, history, Inv, TypeOK, Quiet
<1>3. Entitled'
  <2>1. UNCHANGED << config, card, user, boot_mode, saving, given >>
      BY DEF RestartCallback, files, history
  <2> QED BY <2>1 DEF Inv, Entitled
<1>4. Asking'
    BY DEF RestartCallback, files, history, Inv, TypeOK, Asking, Default,
       Users
<1>5. Registering'
    BY DEF RestartCallback, files, history, Inv, TypeOK, Registering, Default,
       Users, Quiet, Entitled, Asking
<1> QED BY <1>1, <1>2, <1>3, <1>4, <1>5 DEF Inv

LEMMA SaveConfigInv == Inv /\ SaveConfig => Inv'
<1> SUFFICES ASSUME Inv, SaveConfig PROVE Inv'
    OBVIOUS
<1>1. TypeOK'
  <2>1. FileTypes'
      BY Parts DEF SaveConfig, Running, files, history, Inv, FileTypes, Users,
         Cards
  <2>2. ControlTypes'
      BY Parts DEF SaveConfig, Running, files, history, Inv, ControlTypes,
         StartUp
  <2>3. FlagTypes'
      BY Parts DEF SaveConfig, Running, files, history, Inv, FlagTypes
  <2>4. mishaps' \in 0..MaxMishaps
      BY Parts DEF SaveConfig, Inv
  <2> QED BY <2>1, <2>2, <2>3, <2>4, Parts
<1>2. Quiet'
    BY DEF SaveConfig, Running, files, history, Inv, TypeOK, Quiet
<1>3. Entitled'
    BY DEF SaveConfig, Running, files, history, Inv, TypeOK, Entitled,
       Default, Users, Cards
<1>4. Asking'
    BY DEF SaveConfig, Running, files, history, Inv, TypeOK, Asking, Default,
       Users
<1>5. Registering'
    BY DEF SaveConfig, Running, files, history, Inv, TypeOK, Registering,
       Default, Users, Quiet, Entitled, Asking
<1> QED BY <1>1, <1>2, <1>3, <1>4, <1>5 DEF Inv

LEMMA RestartCommandInv == Inv /\ RestartCommand => Inv'
<1> SUFFICES ASSUME Inv, RestartCommand PROVE Inv'
    OBVIOUS
<1>1. TypeOK'
  <2>1. FileTypes'
      BY Parts DEF RestartCommand, Running, files, history, Inv, FileTypes,
         Users, Cards
  <2>2. ControlTypes'
      BY Parts DEF RestartCommand, Running, files, history, Inv, ControlTypes,
         StartUp
  <2>3. FlagTypes'
      BY Parts DEF RestartCommand, Running, files, history, Inv, FlagTypes
  <2>4. mishaps' \in 0..MaxMishaps
      BY Parts DEF RestartCommand, Inv
  <2> QED BY <2>1, <2>2, <2>3, <2>4, Parts
<1>2. Quiet'
    BY DEF RestartCommand, Running, files, history, Inv, TypeOK, Quiet
<1>3. Entitled'
    BY DEF RestartCommand, Running, files, history, Inv, TypeOK, Entitled,
       Default, Users, Cards
<1>4. Asking'
    BY DEF RestartCommand, Running, files, history, Inv, TypeOK, Asking,
       Default, Users
<1>5. Registering'
    BY DEF RestartCommand, Running, files, history, Inv, TypeOK, Registering,
       Default, Users, Quiet, Entitled, Asking
<1> QED BY <1>1, <1>2, <1>3, <1>4, <1>5 DEF Inv

LEMMA QueueCommandInv == Inv /\ QueueCommand => Inv'
<1> SUFFICES ASSUME Inv, QueueCommand PROVE Inv'
    OBVIOUS
<1>1. TypeOK'
  <2>1. FileTypes'
      BY Parts DEF QueueCommand, Running, files, history, Inv, FileTypes,
         Users, Cards
  <2>2. ControlTypes'
      BY Parts DEF QueueCommand, Running, files, history, Inv, ControlTypes,
         StartUp
  <2>3. FlagTypes'
      BY Parts DEF QueueCommand, Running, files, history, Inv, FlagTypes
  <2>4. mishaps' \in 0..MaxMishaps
      BY Parts DEF QueueCommand, Inv
  <2> QED BY <2>1, <2>2, <2>3, <2>4, Parts
<1>2. Quiet'
    BY DEF QueueCommand, Running, files, history, Inv, TypeOK, Quiet
<1>3. Entitled'
    BY DEF QueueCommand, Running, files, history, Inv, TypeOK, Entitled,
       Default, Users, Cards
<1>4. Asking'
    BY DEF QueueCommand, Running, files, history, Inv, TypeOK, Asking,
       Default, Users
<1>5. Registering'
    BY DEF QueueCommand, Running, files, history, Inv, TypeOK, Registering,
       Default, Users, Quiet, Entitled, Asking
<1> QED BY <1>1, <1>2, <1>3, <1>4, <1>5 DEF Inv

LEMMA ChangeCardInv == Inv /\ ChangeCard => Inv'
<1> SUFFICES ASSUME Inv, ChangeCard PROVE Inv'
    OBVIOUS
<1>1. TypeOK'
  <2>1. FileTypes'
      BY Parts DEF ChangeCard, files, history, Inv, FileTypes, Users, Cards
  <2>2. ControlTypes'
      BY Parts DEF ChangeCard, files, history, Inv, ControlTypes, StartUp
  <2>3. FlagTypes'
      BY Parts DEF ChangeCard, files, history, Inv, FlagTypes
  <2>4. mishaps' \in 0..MaxMishaps
      BY Bounded, Parts DEF ChangeCard, Inv
  <2> QED BY <2>1, <2>2, <2>3, <2>4, Parts
<1>2. Quiet'
    BY DEF ChangeCard, files, history, Inv, TypeOK, Quiet
<1>3. Entitled'
    BY DEF ChangeCard, files, history, Inv, TypeOK, Entitled, Default, Users,
       Cards
<1>4. Asking'
    BY DEF ChangeCard, files, history, Inv, TypeOK, Asking, Default, Users
<1>5. Registering'
    BY DEF ChangeCard, files, history, Inv, TypeOK, Registering, Default,
       Users, Quiet, Entitled, Asking
<1> QED BY <1>1, <1>2, <1>3, <1>4, <1>5 DEF Inv

LEMMA InitInv == Init => Inv
<1> SUFFICES ASSUME Init PROVE Inv
    OBVIOUS
<1>1. TypeOK
  <2>1. FileTypes
      BY DEF Init, FileTypes, Users, Cards, Default
  <2>2. ControlTypes
      BY DEF Init, ControlTypes, StartUp
  <2>3. FlagTypes
      BY DEF Init, FlagTypes
  <2>4. mishaps \in 0..MaxMishaps
      BY MaxMishapsAssumption DEF Init
  <2> QED BY <2>1, <2>2, <2>3, <2>4, Parts
<1>2. Quiet /\ Entitled /\ Asking /\ Registering
    BY DEF Init, Quiet, Entitled, Asking, Registering, Default
<1> QED BY <1>1, <1>2 DEF Inv

LEMMA StutterInv == Inv /\ UNCHANGED vars => Inv'
BY DEF vars, files, history, Inv, TypeOK, Quiet, Entitled, Asking, Registering

LEMMA NextInv == Inv /\ [Next]_vars => Inv'
<1> SUFFICES ASSUME Inv, [Next]_vars PROVE Inv'
    OBVIOUS
<1>1. CASE BootStep
    BY <1>1, StorageInitInv, CheckButtonInv, DeleteConfigInv,
       DeleteBootFileInv, ParseConfigInv, SetupInv, EnableInv,
       ConnectedInv DEF BootStep
<1>2. CASE SaveStep
    BY <1>2, AppendCredentialsInv, WriteConfigInv, StartRestartTimerInv
       DEF SaveStep
<1>3. CASE Receive \/ SaveConfig \/ RestartCommand \/ QueueCommand
    BY <1>3, ReceiveInv, SaveConfigInv, RestartCommandInv, QueueCommandInv
<1>4. CASE RestartCallback \/ SoftReset \/ PowerCycle
    BY <1>4, RestartCallbackInv, ResetInv DEF SoftReset, PowerCycle
<1>5. CASE ChangeCard
    BY <1>5, ChangeCardInv
<1>6. CASE UNCHANGED vars
    BY <1>6, StutterInv
<1> QED BY <1>1, <1>2, <1>3, <1>4, <1>5, <1>6 DEF Next

THEOREM InvHolds == Spec => []Inv
<1> QED BY InitInv, NextInv, PTL DEF Spec

\* Types, and the bound of the mishaps.
THEOREM TypeCorrect == Spec => []TypeOK
<1>1. Inv => TypeOK
    BY DEF Inv
<1> QED BY <1>1, InvHolds, PTL

\* MQTTCfgParser_ParseConfigFile, _GetMode and the save of MQTTRegistration_ClientReceive
\* together: no device runs in registration mode over credentials in its flash
\* without a reason.
THEOREM RegisteredDevicesOperate == Spec => []RegisteredOperates
<1>1. Inv => RegisteredOperates
    BY DEF Inv, Registering, RegisteredOperates, Running
<1> QED BY <1>1, InvHolds, PTL

\* MQTTRegistration_ClientReceive saves before it starts the restart timer.
THEOREM RestartsAreSaved == Spec => []RestartsWithCredentials
<1>1. Inv => RestartsWithCredentials
    BY DEF Inv, Registering, RestartsWithCredentials, Running
<1> QED BY <1>1, InvHolds, PTL

-----------------------------------------------------------------------------
\* The refinement: each step is one of DeviceLifecycle, or a stutter.

LEMMA ResetStep == Inv /\ Reset => Lifecycle!Next
BY DEF Reset, Survives, ClearMemory, Lifecycle!Next, Lifecycle!Learn,
   Lifecycle!Forget, Lifecycle!Start, Lifecycle!Stop, Running, files, history,
   Inv, TypeOK, Entitled

LEMMA StorageInitStep == Inv /\ StorageInit => Lifecycle!Next
BY DEF StorageInit, Go, Lifecycle!Next, Lifecycle!Learn, Lifecycle!Forget,
   Lifecycle!Start, Lifecycle!Stop, Running, files, history, Inv, TypeOK,
   Entitled, Asking, Quiet

LEMMA CheckButtonStep == Inv /\ CheckButton => Lifecycle!Next
BY DEF CheckButton, Go, Lifecycle!Next, Lifecycle!Learn, Lifecycle!Forget,
   Lifecycle!Start, Lifecycle!Stop, Running, files, history, Inv, TypeOK,
   Entitled, Asking, Quiet

LEMMA DeleteConfigStep == Inv /\ DeleteConfig => Lifecycle!Next
BY DEF DeleteConfig, Go, Lifecycle!Next, Lifecycle!Learn, Lifecycle!Forget,
   Lifecycle!Start, Lifecycle!Stop, Running, files, history, Inv, TypeOK,
   Entitled, Asking, Quiet

LEMMA DeleteBootFileStep == Inv /\ DeleteBootFile => Lifecycle!Next
BY DEF DeleteBootFile, ClearMemory, Lifecycle!Next, Lifecycle!Learn,
   Lifecycle!Forget, Lifecycle!Start, Lifecycle!Stop, Running, files, history,
   Inv, TypeOK, Entitled, Asking, Quiet

LEMMA ParseConfigStep == Inv /\ ParseConfig => Lifecycle!Next
BY DEF ParseConfig, UserOf, FlashReadable, CardReadable, Go, Lifecycle!Next,
   Lifecycle!Learn, Lifecycle!Forget, Lifecycle!Start, Lifecycle!Stop,
   Running, files, history, Inv, TypeOK, Entitled, Asking, Quiet

LEMMA SetupStep == Inv /\ Setup => Lifecycle!Next
BY DEF Setup, GetMode, Go, Lifecycle!Next, Lifecycle!Learn, Lifecycle!Forget,
   Lifecycle!Start, Lifecycle!Stop, Running, files, history, Inv, TypeOK,
   Entitled, Asking, Quiet

LEMMA EnableStep == Inv /\ Enable => Lifecycle!Next
<1>1. CASE Reset
    BY <1>1, ResetStep
<1>2. CASE ~Reset
    BY <1>2 DEF Enable, Go, Lifecycle!Next, Lifecycle!Learn, Lifecycle!Forget,
       Lifecycle!Start, Lifecycle!Stop, Running, files, history, Inv, TypeOK,
       Entitled, Asking, Quiet
<1> QED BY <1>1, <1>2

LEMMA ConnectedStep == Inv /\ Connected => Lifecycle!Next
<1>1. CASE Reset
    BY <1>1, ResetStep
<1>2. CASE ~Reset
    BY <1>2 DEF Connected, Go, Lifecycle!Next, Lifecycle!Learn,
       Lifecycle!Forget, Lifecycle!Start, Lifecycle!Stop, Running, files,
       history, Inv, TypeOK, Entitled, Asking, Quiet
<1> QED BY <1>1, <1>2

LEMMA ReceiveStep == Inv /\ Receive => Lifecycle!Next
BY DEF Receive, Running, Lifecycle!Next, Lifecycle!Learn, Lifecycle!Forget,
   Lifecycle!Start, Lifecycle!Stop, files, history, Inv, TypeOK, Entitled,
   Asking, Quiet

LEMMA AppendCredentialsStep == Inv /\ AppendCredentials => Lifecycle!Next
BY DEF AppendCredentials, Lifecycle!Next, Lifecycle!Learn, Lifecycle!Forget,
   Lifecycle!Start, Lifecycle!Stop, Running, files, history, Inv, TypeOK,
   Entitled, Asking, Quiet

LEMMA WriteConfigStep == Inv /\ WriteConfig => Lifecycle!Next
BY DEF WriteConfig, Survives, Lifecycle!Next, Lifecycle!Learn,
   Lifecycle!Forget, Lifecycle!Start, Lifecycle!Stop, Running, files, history,
   Inv, TypeOK, Entitled, Asking, Quiet, Registering

LEMMA StartRestartTimerStep == Inv /\ StartRestartTimer => Lifecycle!Next
BY DEF StartRestartTimer, Lifecycle!Next, Lifecycle!Learn, Lifecycle!Forget,
   Lifecycle!Start, Lifecycle!Stop, Running, files, history, Inv, TypeOK,
   Entitled, Asking, Quiet

LEMMA RestartCallbackStep == Inv /\ RestartCallback => Lifecycle!Next
<1>1. CASE Reset
    BY <1>1, ResetStep
<1>2. CASE ~Reset
    BY <1>2 DEF RestartCallback, Lifecycle!Next, Lifecycle!Learn,
       Lifecycle!Forget, Lifecycle!Start, Lifecycle!Stop, Running, files,
       history, Inv, TypeOK, Entitled, Asking, Quiet
<1> QED BY <1>1, <1>2

LEMMA SaveConfigStep == Inv /\ SaveConfig => Lifecycle!Next
BY DEF SaveConfig, Running, Lifecycle!Next, Lifecycle!Learn, Lifecycle!Forget,
   Lifecycle!Start, Lifecycle!Stop, files, history, Inv, TypeOK, Entitled,
   Asking, Quiet

LEMMA RestartCommandStep == Inv /\ RestartCommand => Lifecycle!Next
BY DEF RestartCommand, Running, Lifecycle!Next, Lifecycle!Learn,
   Lifecycle!Forget, Lifecycle!Start, Lifecycle!Stop, files, history, Inv,
   TypeOK, Entitled, Asking, Quiet

LEMMA QueueCommandStep == Inv /\ QueueCommand => Lifecycle!Next
BY DEF QueueCommand, Running, Lifecycle!Next, Lifecycle!Learn,
   Lifecycle!Forget, Lifecycle!Start, Lifecycle!Stop, files, history, Inv,
   TypeOK, Entitled, Asking, Quiet

LEMMA ChangeCardStep == Inv /\ ChangeCard => Lifecycle!Next
BY DEF ChangeCard, Lifecycle!Next, Lifecycle!Learn, Lifecycle!Forget,
   Lifecycle!Start, Lifecycle!Stop, Running, files, history, Inv, TypeOK,
   Entitled, Asking, Quiet

\* The owner of a device may rely on DeviceLifecycle.
THEOREM LifecycleImplemented == Spec => ImplementsLifecycle
<1>1. Init => Lifecycle!Init
    BY DEF Init, Lifecycle!Init, Running
<1>2. Inv /\ [Next]_vars => [Lifecycle!Next]_(Lifecycle!lifecycle)
  <2> SUFFICES ASSUME Inv, [Next]_vars
               PROVE  [Lifecycle!Next]_(Lifecycle!lifecycle)
      OBVIOUS
  <2>1. CASE BootStep
      BY <2>1, StorageInitStep, CheckButtonStep, DeleteConfigStep,
         DeleteBootFileStep, ParseConfigStep, SetupStep, EnableStep,
         ConnectedStep DEF BootStep
  <2>2. CASE SaveStep
      BY <2>2, AppendCredentialsStep, WriteConfigStep, StartRestartTimerStep
         DEF SaveStep
  <2>3. CASE Receive \/ SaveConfig \/ RestartCommand \/ QueueCommand
      BY <2>3, ReceiveStep, SaveConfigStep, RestartCommandStep, QueueCommandStep
  <2>4. CASE RestartCallback \/ SoftReset \/ PowerCycle
      BY <2>4, RestartCallbackStep, ResetStep DEF SoftReset, PowerCycle
  <2>5. CASE ChangeCard
      BY <2>5, ChangeCardStep
  <2>6. CASE UNCHANGED vars
      BY <2>6 DEF vars, files, history, Lifecycle!lifecycle, Running
  <2> QED BY <2>1, <2>2, <2>3, <2>4, <2>5, <2>6 DEF Next
<1> QED BY <1>1, <1>2, InvHolds, PTL DEF Spec, ImplementsLifecycle, Lifecycle!Spec
=============================================================================
