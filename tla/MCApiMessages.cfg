\* Messages of three encoder calls, all payloads and answers.
SPECIFICATION Spec
CONSTANTS
  Word = 32768
  MaxGroups = 3
  Fields <- MCFields
  Words <- MCWords
  Chunks <- MCChunks
  Texts <- MCTexts
  Hash <- MCHash
  Label <- MCLabel
  MaxSteps = 3
INVARIANTS
  TypeOK
  MessageIsRead
  CutIsPrefix
  AnswerIsRead
