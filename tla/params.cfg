\* All options strings of up to five lexemes, and longer ones, in eleven packets.
SPECIFICATION Spec
CONSTANTS
  Here = Here
  Lexemes <- MCWords
  OptionsHere <- MCOptionsHere
  Layouts <- MCLayouts
  OptionTexts <- MCOptionTexts
INVARIANTS SettingsMatch OneIdentity ReplicationExplicit
CHECK_DEADLOCK FALSE
