\* Three writes and four checkpoints of a file that is UTF-8 or is not.
CONSTANTS
  Binary = {TRUE, FALSE}
  MaxWritten = 5
  MaxSaved = 4
SPECIFICATION BoundedSpec
INVARIANT NothingIsLost
