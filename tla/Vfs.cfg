SPECIFICATION Spec
CONSTANTS
  Bytes = {1}
  MinCap = 1
  MaxSize = 2
  MaxNodes = 4
  Fds = {0, 1}
  OpenFlags = {{"append", "trunc"}, {"append", "creat"}}
  Paths <- MCPaths
  Default <- MCDefault
  ReadSize = 2
  Newline = 1
INVARIANTS
  TypeOK
  DescriptorsReturned
  CreatedIsFound
PROPERTIES
  ShellReturns
  
