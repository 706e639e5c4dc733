---------------------------- MODULE LossyStream ----------------------------
(***************************************************************************)
(* What Cumulocity may rely on about the device's messages: they arrive in *)
(* the order in which they were written, each at most once and whole; what *)
(* is lost is everything that was waiting when a publication failed.       *)
(***************************************************************************)
EXTENDS Naturals, Sequences

VARIABLES
  written,    \* how many messages were written; their numbers are 1..written
  pending,    \* the messages that wait
  delivered   \* the messages that arrived

streamVars == << written, pending, delivered >>

Init == written = 0 /\ pending = << >> /\ delivered = << >>

Write ==
  /\ written' = written + 1
  /\ pending' = Append(pending, written')
  /\ UNCHANGED delivered

Deliver ==
  /\ delivered' = delivered \o pending
  /\ pending' = << >>
  /\ UNCHANGED written

Lose ==
  /\ pending' = << >>
  /\ UNCHANGED << written, delivered >>

Next == Write \/ Deliver \/ Lose

Spec == Init /\ [][Next]_streamVars
=============================================================================
