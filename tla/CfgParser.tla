----------------------------- MODULE CfgParser -----------------------------
(***************************************************************************)
(* source/MQTTCfgParser.c: config.txt, on the WIFI chip (flash) and on the *)
(* SD card, is parsed at startup, the card after the flash; commands and   *)
(* credentials set attributes and save all of them to the flash.           *)
(*                                                                         *)
(* A file is a sequence of symbols: attribute names, words (the characters *)
(* in between that mean nothing to the parser), "=", "#", blanks and line  *)
(* ends.  A token is a sequence of symbols, so a name that is followed by  *)
(* a word is not a name.  LongWord stands for more characters than a token *)
(* may have (CFG_MAX_LINE_SIZE).  The buffers in which MQTTCfgParser.c     *)
(* and its callers hold a file are not bounded here.                       *)
(*                                                                         *)
(* One step gets one token, or skips one comment.                          *)
(***************************************************************************)
EXTENDS SequencesExt

CONSTANTS
  AttNames,       \* ATT_KEY_NAME, a sequence
  Words, LongWord,
  Default,        \* ConfigStructure[].defaultValue
  CardFiles,      \* what may be on a card
  CommandValues,  \* what commands and credentials set
  NoFile,
  MaxSaves, MaxBoots  \* bounds

Names == {AttNames[i] : i \in DOMAIN AttNames}
Space == {" ", "\t"}
LineEnds == {"\n", "\r"}
WhiteSpace == Space \cup LineEnds
Symbols == Names \cup Words \cup WhiteSpace \cup {"=", "#", LongWord}

ASSUME NamesAssumption ==
  /\ AttNames \in Seq(Names) /\ AttNames # << >>
  /\ \A i, j \in DOMAIN AttNames : AttNames[i] = AttNames[j] => i = j
  /\ Names \cap (WhiteSpace \cup {"=", "#", "NUL"}) = {}
ASSUME FilesAssumption ==
  /\ CardFiles \subseteq Seq(Symbols)
  /\ NoFile \notin Seq(Symbols) \cup [Names -> Seq(Symbols)]
ASSUME ValuesAssumption ==
  /\ Default \in [Names -> Seq(Symbols)]
  /\ CommandValues \subseteq Seq(Symbols)
ASSUME BoundsAssumption == MaxSaves \in Nat /\ MaxBoots \in Nat

VARIABLES
  flash, card,            \* the files
  phase,                  \* off, flash, card (being parsed), running, failed
  file, idxAtBuffer,      \* what is parsed, and from where
  state,                  \* what MQTTCfgParser_Config expects
  currentConfigToSet,
  returnValFlash,         \* the flash was parsed to its end
  attValue, defined,      \* of ConfigStructure
  saves, boots,           \* bounds
  saved                   \* history: the values when they were last saved

files == << flash, card >>
parser == << file, idxAtBuffer, state, currentConfigToSet >>
config == << attValue, defined >>
bounds == << saves, boots >>
vars == << files, phase, parser, returnValFlash, config, bounds, saved >>

Parsing == phase \in {"flash", "card"}

\* getAttValue
Value(n) == IF defined[n] THEN attValue[n] ELSE Default[n]

TypeOK ==
  /\ flash \in Seq(Symbols) \cup {NoFile}
  /\ card \in CardFiles \cup {NoFile}
  /\ phase \in {"off", "flash", "card", "running", "failed"}
  /\ file \in Seq(Symbols) /\ idxAtBuffer \in 1..Len(file) + 1
  /\ state \in {"NAME", "EQUAL", "VALUE"}
  /\ currentConfigToSet \in Names
  /\ returnValFlash \in BOOLEAN
  /\ attValue \in [Names -> Seq(Symbols)]
  /\ defined \in [Names -> BOOLEAN]
  /\ saves \in 0..MaxSaves /\ boots \in 0..MaxBoots
  /\ saved \in [Names -> Seq(Symbols)] \cup {NoFile}

Init ==
  /\ flash = NoFile
  /\ card \in CardFiles
  /\ phase = "off"
  /\ file = << >> /\ idxAtBuffer = 1
  /\ state = "NAME" /\ currentConfigToSet = AttNames[1]
  /\ returnValFlash = FALSE
  /\ attValue = [n \in Names |-> << >>]
  /\ defined = [n \in Names |-> FALSE]
  /\ saves = 0 /\ boots = 0
  /\ saved = NoFile

-----------------------------------------------------------------------------
\* GetToken

At(i) == IF i <= Len(file) THEN file[i] ELSE "NUL"

\* The first place from i on that holds one of the symbols, or the end.
Find(i, symbols) ==
  Min({j \in i..Len(file) + 1 : j = Len(file) + 1 \/ file[j] \in symbols})

\* Where the next token begins.
Start ==
  Find(idxAtBuffer, Symbols \ (IF state = "VALUE" THEN Space ELSE WhiteSpace))

\* Mutant: a value ends where other tokens do.
StopsAtBlank == LineEnds \cup {"\t", " ", "="}

\* A value may contain blanks and "=", but no tabulator.
Stops == LineEnds \cup {"\t"} \cup (IF state = "VALUE" THEN {} ELSE {" ", "="})

Token ==
  IF At(Start) = "=" THEN << "=" >>
  ELSE SubSeq(file, Start, Find(Start, Stops) - 1)

TokenType ==
  IF At(Start) = "=" THEN "EQUAL"
  ELSE IF Token = << >> THEN "EOF"
  ELSE IF \E n \in Names : Token = << n >> THEN "ATT_NAME"
  ELSE "VALUE"

InComment == state = "NAME" /\ At(Start) = "#"

\* A token that does not fit is never finished: the loop over its characters
\* stops advancing, and so does the device.
Endless == LongWord \in {Token[i] : i \in DOMAIN Token}

GetToken(expected, type) ==
  /\ Parsing /\ state = expected
  /\ ~InComment /\ ~Endless
  /\ TokenType = type
  /\ idxAtBuffer' = Start + Len(Token)
  /\ UNCHANGED << files, file, bounds, saved >>

\* Mutant: the comment is recognised but not passed over.
SkipNoComment ==
  /\ Parsing /\ InComment
  /\ idxAtBuffer' = Start
  /\ UNCHANGED << files, phase, file, state, currentConfigToSet, returnValFlash,
                  config, bounds, saved >>

\* To the end of the line; what follows belongs to the next token.
SkipComment ==
  /\ Parsing /\ InComment
  /\ idxAtBuffer' = Find(Start, LineEnds)
  /\ UNCHANGED << files, phase, file, state, currentConfigToSet, returnValFlash,
                  config, bounds, saved >>

-----------------------------------------------------------------------------
\* MQTTCfgParser_Config, and MQTTCfgParser_ParseConfigFile around it.

\* The flash is parsed without overwrite, the card with.
Overwrite == phase = "card"

GetName ==
  /\ GetToken("NAME", "ATT_NAME")
  /\ currentConfigToSet' = Token[1]
  /\ state' = "EQUAL"
  /\ UNCHANGED << phase, returnValFlash, config >>

GetEqual ==
  /\ GetToken("EQUAL", "EQUAL")
  /\ state' = "VALUE"
  /\ UNCHANGED << phase, currentConfigToSet, returnValFlash, config >>

GetValue ==
  /\ GetToken("VALUE", "VALUE")
  /\ Overwrite \/ ~defined[currentConfigToSet]
  /\ attValue' = [attValue EXCEPT ![currentConfigToSet] = Token]
  /\ defined' = [defined EXCEPT ![currentConfigToSet] = TRUE]
  /\ state' = "NAME"
  /\ UNCHANGED << phase, currentConfigToSet, returnValFlash >>

Expected == [NAME |-> "ATT_NAME", EQUAL |-> "EQUAL", VALUE |-> "VALUE"]

\* Mutant: the result of SD_ReadConfig is ignored.
ReadCardBlindly == phase' = "card" /\ file' = card

\* SD_ReadConfig finds a card; a line end is appended to what it holds.
ReadCard ==
  IF card # NoFile
  THEN phase' = "card" /\ file' = Append(card, "\n")
  ELSE phase' = (IF returnValFlash' THEN "running" ELSE "failed") /\ UNCHANGED file

\* Mutant: both files must be good.
ReturnBoth(result) ==
  /\ \/ /\ phase = "flash"
        /\ returnValFlash' = result
        /\ ReadCard
     \/ /\ phase = "card"
        /\ phase' = IF returnValFlash /\ result THEN "running" ELSE "failed"
        /\ UNCHANGED << file, returnValFlash >>
  /\ idxAtBuffer' = 1 /\ state' = "NAME"
  /\ UNCHANGED << files, currentConfigToSet, bounds, saved >>

\* MQTTCfgParser_Config returns, with TRUE or FALSE.
Return(result) ==
  /\ \/ /\ phase = "flash"
        /\ returnValFlash' = result
        /\ ReadCard
     \/ /\ phase = "card"
        /\ phase' = IF returnValFlash \/ result THEN "running" ELSE "failed"
        /\ UNCHANGED << file, returnValFlash >>
  /\ idxAtBuffer' = 1 /\ state' = "NAME"
  /\ UNCHANGED << files, currentConfigToSet, bounds, saved >>

\* Also when the value is missing: the rest of the file is ignored.
EndOfFile ==
  /\ Parsing /\ ~InComment /\ TokenType = "EOF"
  /\ Return(TRUE)
  /\ UNCHANGED config

Unexpected ==
  /\ Parsing /\ ~InComment /\ ~Endless
  /\ TokenType \notin {"EOF", Expected[state]}
  /\ Return(FALSE)
  /\ UNCHANGED config

\* The second definition of an attribute in the flash, which ends the parsing
\* when its value is already copied.
SetTwice ==
  /\ Parsing /\ state = "VALUE" /\ ~Endless /\ TokenType = "VALUE"
  /\ ~Overwrite /\ defined[currentConfigToSet]
  /\ attValue' = [attValue EXCEPT ![currentConfigToSet] = Token]
  /\ Return(FALSE)
  /\ UNCHANGED defined

\* MQTTCfgParser_Init
ConfigInit ==
  /\ phase = "off"
  /\ attValue' = [n \in Names |-> << >>]
  /\ defined' = [n \in Names |-> FALSE]
  /\ idxAtBuffer' = 1 /\ state' = "NAME"
  /\ returnValFlash' = FALSE
  /\ IF flash # NoFile THEN phase' = "flash" /\ file' = flash ELSE ReadCard
  /\ UNCHANGED << files, currentConfigToSet, bounds, saved >>

-----------------------------------------------------------------------------
\* MQTTCfgParser_SetConfig, _SetStreamRate, _SetSensor, _SetMqttUser, ...

\* Mutant: what is not defined is written from the empty attValue.
ConfigTextDefined ==
  FlattenSeq([i \in DOMAIN AttNames |->
    << AttNames[i], "=" >> \o attValue'[AttNames[i]] \o << "\n" >>])

\* MQTTCfgParser_GetConfig, with the defaults.  The code appends line by line
\* with sprintf to a buffer of 512 bytes and does not look whether it is full
\* (MQTTCfgParser.c:391-403); here there is always room.
ConfigText ==
  FlattenSeq([i \in DOMAIN AttNames |->
    LET n == AttNames[i]
    IN << n, "=" >> \o (IF defined'[n] THEN attValue'[n] ELSE Default[n]) \o << "\n" >>])

SetAttValue(n, value) ==
  /\ phase = "running"
  /\ attValue' = [attValue EXCEPT ![n] = value]
  /\ defined' = [defined EXCEPT ![n] = TRUE]
  /\ UNCHANGED << card, phase, parser, returnValFlash, boots >>

\* The commands config, speed and sensor, and the last of several.
SetAndSave ==
  /\ saves < MaxSaves /\ saves' = saves + 1
  /\ \E n \in Names, value \in CommandValues : SetAttValue(n, value)
  /\ flash' = ConfigText
  /\ saved' = [n \in Names |-> IF defined'[n] THEN attValue'[n] ELSE Default[n]]

\* The first tokens of firmware, and the user before the password.
SetOnly ==
  /\ saves < MaxSaves /\ saves' = saves + 1
  /\ \E n \in Names, value \in CommandValues : SetAttValue(n, value)
  /\ UNCHANGED << flash, saved >>

-----------------------------------------------------------------------------
\* The board is switched off or restarts.
Reset ==
  /\ phase \in {"running", "failed"}
  /\ boots < MaxBoots /\ boots' = boots + 1
  /\ phase' = "off"
  /\ UNCHANGED << files, parser, returnValFlash, config, saves, saved >>

RemoveCard ==
  /\ phase = "off" /\ card' = NoFile
  /\ UNCHANGED << flash, phase, parser, returnValFlash, config, bounds, saved >>

ParseStep == \/ ConfigInit \/ SkipComment \/ GetName \/ GetEqual \/ GetValue
             \/ EndOfFile \/ Unexpected \/ SetTwice

Next == ParseStep \/ SetAndSave \/ SetOnly \/ Reset \/ RemoveCard

Spec == Init /\ [][Next]_vars

FairSpec == Spec /\ WF_vars(ParseStep)

-----------------------------------------------------------------------------
\* What the files mean, line by line.
Text == INSTANCE ConfigFile

\* Without mistakes, as far as they are there; in the flash, to set an attribute
\* twice is one.
FlashGood == flash = NoFile \/ (Text!WellFormed(flash) /\ Text!SetsOnce(flash))
CardGood == card = NoFile \/ Text!WellFormed(card)
IsSet(f, n) == f # NoFile /\ Text!Sets(f, n)
NoInlineComments == \A f \in {flash, card} : f # NoFile => Text!NoInlineComments(f)

\* Card before flash before default.
MeantValue(n) ==
  IF IsSet(card, n) THEN Text!Meaning(card, n)
  ELSE IF IsSet(flash, n) THEN Text!Meaning(flash, n)
  ELSE Default[n]

\* The parser was at work and is done.
Parsed == Parsing /\ ~Parsing'

\* "The values defined in the config on the SDCard always take precedence"
\* (README.md:182), the last line of an attribute counts, and what neither file
\* sets has its default: whatever blanks, lines of comments and line ends, also
\* those of Windows, are around, as long as no comment follows a value.
CardThenFlashThenDefault ==
  [][Parsed /\ FlashGood /\ CardGood /\ NoInlineComments =>
       \A n \in Names : Value(n)' = MeantValue(n)]_vars

\* "Handling in-line comments for key value pair in the configuration file"
\* (MQTTCfgParser.c:209), as in "MQTTANONYMOUS=FALSE #this property is ..."
\* (MQTTCfgParser.c:48): the same of files with comments behind values.
InlineComments ==
  [][Parsed /\ FlashGood /\ CardGood =>
       \A n \in Names : Value(n)' = MeantValue(n)]_vars

\* What was saved comes back after a restart without a card: all attributes with
\* the values they had, unless one of them is no value to the parser.
SavedComesBack ==
  [][Parsed /\ card = NoFile /\ saved # NoFile
       /\ (\A n \in Names : Text!IsValue(saved[n]))
       => phase' = "running" /\ \A n \in Names : Value(n)' = saved[n]]_vars

\* One readable file is enough to start.
OneGoodFileIsEnough ==
  phase = "failed" => /\ flash = NoFile \/ ~FlashGood
                      /\ card = NoFile \/ ~CardGood

\* The parser comes to an end, whatever it reads, unless a token is too long.
ParsingEnds ==
  Parsing /\ (\A i \in DOMAIN file : file[i] # LongWord) ~> ~Parsing
=============================================================================
