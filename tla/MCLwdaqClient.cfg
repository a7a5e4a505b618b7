\* One command and two lines under way, one line left unread.
CONSTANTS
  OtherErrors = FALSE
  MaxCommands = 1
  MaxReplies = 2
SPECIFICATION MCSpec
INVARIANTS TypeOK Reconnects IndexSafe NoConnectionNoState
