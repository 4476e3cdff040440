CONSTANTS
  Connections = {c1, c2}
  MaxRetries = 1
  Replies <- MCReplies
SPECIFICATION Spec
INVARIANTS  BooksAreTrue 
CHECK_DEADLOCK FALSE
