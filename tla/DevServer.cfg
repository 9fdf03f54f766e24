CONSTANTS
  None = None
  Post = {"a"}
  Page = {"index", "about"}
  Static = {"shadow"}
  Script = {"main"}
  Dest <- MCDest
  Html = {"index.html", "about.html", "post/a.html", "post.html"}
  Body <- MCBody
  MaxParsed = 2
  Texts <- MCTexts
  Start <- MCStart
  Editable = {"a", "flag", "index", "about", "shadow", "main", "partial", "template", "definitions"}
  MaxEdits = 2
  MaxFaults = 1
SPECIFICATION Spec
INVARIANTS BuildsAreCurrent CachesAreSound
PROPERTIES BuildsTouchWhatChanged
CHECK_DEADLOCK FALSE
