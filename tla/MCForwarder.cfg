SPECIFICATION Spec
CONSTANTS
  Token   <- Strings
  Numeral <- Numerals
  Lower   <- Lowers
  Url     <- Urls
  File    <- Files
INVARIANTS
  TypeOK
  ConfigAsWritten
  UrlUnderstood
  SendsOnLiveObjects
  ExitReleasesAll
PROPERTIES
  StopsWhenHooked
