CONSTANTS
  t1 = t1
  t2 = t2
  Threads = {t1, t2}
  Nobody = Nobody
  Forgotten = Forgotten
  Pieces = 2
  MaxMessages <- MCMessages
  OutputToConsole = FALSE
  NewLevels = {0}
  MaxChanges = 1
SPECIFICATION FairSpec
INVARIANTS Unmixed WrittenWhereDue QuietIsClean
PROPERTY StatementsEnd
\* All messages may have been written.
CHECK_DEADLOCK FALSE
