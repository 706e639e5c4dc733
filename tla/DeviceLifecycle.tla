-------------------------- MODULE DeviceLifecycle --------------------------
(***************************************************************************)
(* What the owner of an XDK may rely on across resets, failures of the     *)
(* storage and changes of the SD card: the device keeps credentials only   *)
(* when somebody gave it some, operates only then, and forgets them only   *)
(* because it was asked to or was stopped while rewriting them.            *)
(***************************************************************************)

VARIABLES
  known,       \* flash holds credentials of the device
  given,       \* Cumulocity, a card or an operation supplied credentials
  asked,       \* the owner is asking the device to change its identity
  writing,     \* the configuration in flash is being rewritten
  operating    \* the device runs in operation mode

lifecycle == << known, given, asked, writing, operating >>

Init == /\ known = FALSE /\ given \in BOOLEAN
        /\ asked = FALSE /\ writing = FALSE /\ operating = FALSE

Learn == ~known /\ given /\ writing /\ known' = TRUE

\* A device that goes on operating has not lost its credentials by rewriting
\* them.
Forget == known /\ known' = FALSE /\ (asked \/ (writing /\ ~operating'))

Start == ~operating /\ given /\ operating' = TRUE
Stop == operating /\ operating' = FALSE

Next == /\ Learn \/ Forget \/ UNCHANGED known
        /\ Start \/ Stop \/ UNCHANGED operating
        /\ given' \in {given, TRUE}
        /\ asked' \in BOOLEAN /\ writing' \in BOOLEAN

Spec == Init /\ [][Next]_lifecycle
=============================================================================
