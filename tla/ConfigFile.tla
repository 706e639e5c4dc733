----------------------------- MODULE ConfigFile -----------------------------
(***************************************************************************)
(* What a config.txt means to the one who writes it: lines of the form     *)
(* NAME=VALUE, empty lines and lines that begin with "#"; blanks may       *)
(* precede each part, and a comment may follow a value (the example at     *)
(* MQTTCfgParser.c:48).  This is the reference for CfgParser, which reads  *)
(* tokens and knows nothing of lines.                                      *)
(***************************************************************************)
EXTENDS SequencesExt

CONSTANTS Names, LongWord, LineEnds

Trim(s) ==
  LET dark == {i \in DOMAIN s : s[i] \notin {" ", "\t"}}
  IN IF dark = {} THEN << >> ELSE SubSeq(s, Min(dark), Len(s))

\* The lines of a file, each known by the place where it begins.
LineStarts(f) == {i \in DOMAIN f : i = 1 \/ f[i - 1] \in LineEnds}

LineAt(f, i) ==
  LET ends == {j \in i..Len(f) : f[j] \in LineEnds}
  IN Trim(SubSeq(f, i, IF ends = {} THEN Len(f) ELSE Min(ends) - 1))

\* The parser takes neither an attribute name nor what begins with "=" for a
\* value, it passes over leading blanks, and a tabulator ends it.
IsValue(v) ==
  /\ v # << >> /\ Head(v) \notin {"=", " "} /\ ToSet(v) \cap (LineEnds \cup {"\t", LongWord}) = {}
  /\ \A n \in Names : v # << n >>

Ignored(line) == line = << >> \/ Head(line) = "#"

Right(line) == Trim(Tail(line))

IsSetting(line) ==
  /\ line # << >> /\ Head(line) \in Names
  /\ Right(line) # << >> /\ Head(Right(line)) = "="

\* What stands behind the "=", a comment included.
ValueIn(line) == Trim(Tail(Right(line)))

\* What of it is meant: neither the comment nor the blanks before it.
Uncommented(v) ==
  IF "#" \notin ToSet(v) THEN v
  ELSE LET hash == Min({i \in DOMAIN v : v[i] = "#"})
           dark == {i \in 1..hash - 1 : v[i] \notin {" ", "\t"}}
       IN IF dark = {} THEN << >> ELSE SubSeq(v, 1, Max(dark))

WellFormed(f) ==
  \A i \in LineStarts(f) :
    \/ Ignored(LineAt(f, i))
    \/ IsSetting(LineAt(f, i)) /\ IsValue(ValueIn(LineAt(f, i)))

\* The lines that set an attribute; the last one counts.
Settings(f, n) ==
  {i \in LineStarts(f) : IsSetting(LineAt(f, i)) /\ Head(LineAt(f, i)) = n}
Sets(f, n) == Settings(f, n) # {}
SetsOnce(f) == \A n \in Names : \A i, j \in Settings(f, n) : i = j
Written(f, n) == ValueIn(LineAt(f, Max(Settings(f, n))))
Meaning(f, n) == Uncommented(Written(f, n))

NoInlineComments(f) ==
  \A n \in Names : \A i \in Settings(f, n) : "#" \notin ToSet(ValueIn(LineAt(f, i)))
=============================================================================
