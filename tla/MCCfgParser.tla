---------------------------- MODULE MCCfgParser ----------------------------
(* Model checking CfgParser: two attributes, two words and a word that is   *)
(* too long; cards hold any three symbols, or two of the lines below.       *)
EXTENDS CfgParser

TwoNames == << "WIFISSID", "MQTTUSER" >>
Defaults == [n \in {"WIFISSID", "MQTTUSER"} |-> << "default" >>]

\* One name and one word are enough, as three symbols make at most one setting.
AnySymbols ==
  UNION {[1..k -> Symbols \ {"WIFISSID", "two", "default"}] : k \in 0..3}

Lines == {
  << >>,
  << "WIFISSID", "=", "one" >>,
  << "WIFISSID", "=", "two" >>,
  << " ", "MQTTUSER", " ", "=", " ", "one", " ", "#", "two", " " >>,
  << "MQTTUSER", "=", "one", "=", "WIFISSID" >>,
  << "#", "MQTTUSER", "=", "two", "long" >>,
  << "WIFISSID", "=" >>,
  << "MQTTUSER", "=", "WIFISSID" >>,
  << "MQTTUSER", "one", "=", "two" >>,
  << "MQTTUSER", "=", "two", "\t" >>,
  << "MQTTUSER", "=", "one", "long" >> }

AnyLines == {a \o << "\n" >> \o b : a, b \in Lines}

\* A comment, a setting, another and its repetition, as Windows ends them.
WindowsLines ==
  LET End == << "\r", "\n" >>
      Some == {<< "#", "two" >>, << "WIFISSID", "=", "one" >>,
               << "MQTTUSER", " ", "=", "two" >>, << "MQTTUSER", "=", "one" >>}
  IN {a \o End \o b \o End : a, b \in Some}

Cards == AnySymbols \cup AnyLines \cup WindowsLines

\* The last one begins with a blank and is two lines to the parser: a "\r" that
\* a command came with.
Values == {<< "one", "=", "one" >>, << "MQTTUSER" >>,
           << " ", "one", "\r", "WIFISSID", "=", "two" >>}
=============================================================================
