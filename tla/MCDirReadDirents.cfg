\* One connection (a cursor is private to its connection), failing reads allowed.
CONSTANTS
  c1 = c1
  c2 = c2
  Conn = {c1}
  Names = {1, 2, 3}
  NameLen <- MCNameLen
  MaxFilename = 3
  MaxBytesChoices = {11, 23, 60}
  ReadCanFail = TRUE
SPECIFICATION Spec
INVARIANT TypeOK ListingComplete
PROPERTY ImplementsListing
