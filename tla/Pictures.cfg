CONSTANTS
  Texts <- MCTexts
  Words <- MCWords
SPECIFICATION Spec
INVARIANT PictureRight
CHECK_DEADLOCK FALSE
