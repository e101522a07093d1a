SPECIFICATION Spec
CONSTANTS
  Char <- SomeChars
  Files <- SomeFiles
  Settings <- SomeSettings
  Default <- SomeDefault
INVARIANTS
  PlainValueIsRead
  CommentIsNoValue
CHECK_DEADLOCK FALSE
