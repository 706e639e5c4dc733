------------------------ MODULE MCOperationCommands ------------------------
(***************************************************************************)
(* Instances of OperationCommands for TLC: which commands arrive.          *)
(***************************************************************************)
EXTENDS OperationCommands

\* Everything the broker may send and everything the buttons can, one command
\* for those that TemplateCode, FinalCode, ProgressAfter and the sets of kinds
\* treat alike up to the code they end with.
ManyCloudCommands == {"restart", "message", "start", "speed", "log", "firmware",
                      "shortFirmware", "badSensor"}
ManyButtons == {"stopButton", "resetBootstatus"}

\* For the liveness properties: the restart, a command that fails with news, and
\* one that stops the subscription.
SomeCloudCommands == {"restart", "badSensor"}
SomeButtons == {"startButton"}
=============================================================================
