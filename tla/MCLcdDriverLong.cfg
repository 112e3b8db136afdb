SPECIFICATION DriverSpec
CONSTANTS
  Width = 16
  Virtual = 80
  CharMax = 127
  Texts <- MCLongTexts
PROPERTY EveryCharacterShown
