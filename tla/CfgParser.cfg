SPECIFICATION FairSpec
CONSTANTS
  AttNames <- TwoNames
  Words = {"one", "two", "default"}
  LongWord = "long"
  Default <- Defaults
  CardFiles <- Cards
  CommandValues <- Values
  NoFile = NoFile
  MaxSaves = 2
  MaxBoots = 1
CHECK_DEADLOCK FALSE
INVARIANTS
  TypeOK
  OneGoodFileIsEnough
PROPERTIES
  
  SavedComesBack
  ParsingEnds
