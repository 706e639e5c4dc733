---------------------------- MODULE BrokerCalls ----------------------------
(***************************************************************************)
(* What the callers of source/MQTTClient.c rely on: a call to the broker   *)
(* returns, and it returns RETCODE_OK only if the broker accepted the      *)
(* request of that very call.                                              *)
(***************************************************************************)
CONSTANT Tasks

VARIABLES
  phase,     \* what the task's last call came to, or "called" while it runs
  accepted   \* the tasks whose running or last call the broker accepted

callVars == << phase, accepted >>

Init ==
  /\ phase = [t \in Tasks |-> "idle"]
  /\ accepted = {}

Call(t) ==
  /\ phase[t] # "called"
  /\ phase' = [phase EXCEPT ![t] = "called"]
  /\ accepted' = accepted \ {t}

\* The broker may also accept a request its caller has given up.
Accept(t) ==
  /\ phase[t] # "idle"
  /\ accepted' = accepted \cup {t}
  /\ UNCHANGED phase

Return(t) ==
  /\ phase[t] = "called"
  /\ \/ phase' = [phase EXCEPT ![t] = "failed"]
     \/ t \in accepted /\ phase' = [phase EXCEPT ![t] = "ok"]
  /\ UNCHANGED accepted

Next == \E t \in Tasks : Call(t) \/ Accept(t) \/ Return(t)

Spec == Init /\ [][Next]_callVars /\ \A t \in Tasks : WF_callVars(Return(t))
=============================================================================
