\* Sorted lists of up to three names, template lists of four elements, and
\* the years before and after which something is different.  One program
\* with two options.
CONSTANTS
  Names = {"a", "b", "c"}
  Values = {1, 2}
  MaxSerial = 1
  Before <- Alphabetical
  Foreign <- Shuffled
  Unreadable = Unreadable
  Keys = {1, 2, 3}
  MaxNodes = 5
  Years = {0, 1899, 1900, 1999, 2000, 65535}
  Days = {0, 1, 29, 31}
  Today <- Now
  Apps = {app}
  Options <- AskedFor
  Texts = {"On ", "on ", "On", "on"}
  Given = {"On "}
  Trimmed <- WithoutSpaces
  Lowered <- InLowerCase
  NoConf = NoConf
  NoFile = NoFile
  Files <- Edited
  SystemFiles <- Shipped
  MaxOptions = 2
  MaxEdits = 1
SPECIFICATION InMemorySpec
INVARIANTS
  InMemoryTypeOK
  Sorted
  IsASequence
PROPERTIES
  IsAStore
  DaysFollow
  IsAConfiguration
