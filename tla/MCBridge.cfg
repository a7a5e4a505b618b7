\* Two clients; anything at any time, in the middle of what went before.
CONSTANTS
  g1 = g1
  g2 = g2
  Guis <- MCGuis
  MaxEvents = 2
  MaxUp = 2
  MaxDown = 3
SPECIFICATION MCFairSpec
INVARIANTS TypeOK StateInSync QuietClientsAgree HandledAgain LastChoiceWins
PROPERTIES Settles
\* users may go away
CHECK_DEADLOCK FALSE
