SPECIFICATION Spec
CONSTANTS
  Size = 3
  Threads = {shell}
  Keys = {"lshift", "rctrl", "letter", "bksp", "enter"}
  Width = 2
  Height = 2
  TabStop = 2
  LineMax = 2
  MaxEvents = 3
INVARIANTS TypeOK ModifiersFollowKeys CursorHeals 
PROPERTIES ImplementsQueue BufferedIsRead
CHECK_DEADLOCK TRUE
