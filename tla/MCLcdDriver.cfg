SPECIFICATION DriverSpec
CONSTANTS
  Width = 2
  Virtual = 4
  CharMax = 10
  Texts <- MCTexts
INVARIANTS DriverTypeOK CopyMatchesPanel ShowsText
PROPERTY EveryCharacterShown
