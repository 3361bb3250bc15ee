\* The services on FLTK's loop.
CONSTANTS
  Names = {"a", "a/", "b"}
  Dirs = {"x", "y"}
  DirOf <- MCDirOf
  Asked = {{"DW_CREATE"}, {"DW_CREATE", "DW_MODIFY"}}
  Changes = {"IN_MOVED_TO", "IN_MODIFY"}
  MaxEntries = 2
  MaxChanges = 2
  Conns = {"e1", "e2"}
  Buses = {"session", "system"}
  Paths = {"/p", "/q"}
  Null = "Null"
  Joins <- MCJoins
  MaxCalls <- MCMaxCalls
  Mail <- MCMail
  Wins = {"w1", "w2"}
  Widgets = {"g1", "g2"}
  Icons = {"home", "empty", "/x.png"}
  Files = {"/x.png"}
  Contexts = {"apps", "actions"}
  Fallback <- MCFallback
  Themes = {"edeneu", "other"}
  Default = "edeneu"
  Has <- MCHas
  Colors = {"red"}
  Gray = "gray"
  None = None
SPECIFICATION FltkSpec
INVARIANTS FltkTypeOK DisplayFollows
PROPERTIES ReportsAreDue ListenersAreCalled WaitingIsServed
CHECK_DEADLOCK FALSE
