SPECIFICATION Spec
CONSTANTS
  Texts <- MCTexts
  IsProgram <- MCIsProgram
  Beyond <- MCBeyond
INVARIANTS
  ReadsWhatIsWritten
  AcceptsOnlyTheClosed
  SourcesNest
CHECK_DEADLOCK FALSE
