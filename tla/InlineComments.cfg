SPECIFICATION Spec
CONSTANTS
  AttNames <- TwoNames
  Words = {"one", "two", "default"}
  LongWord = "long"
  Default <- Defaults
  CardFiles <- AnyLines
  CommandValues <- Values
  NoFile = NoFile
  MaxSaves = 0
  MaxBoots = 0
CHECK_DEADLOCK FALSE
PROPERTY InlineComments
