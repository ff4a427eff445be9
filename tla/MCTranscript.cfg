SPECIFICATION Spec
CONSTANTS
  Rows = 4
  Seconds = 2
  Texts <- GaudyTexts
  Residue = {0, 7}
  MaxLength = 560
INVARIANTS
  AtMostOneOver
  PlainFits
  LiveShowsEnd
PROPERTIES
  Resumes
