SPECIFICATION Spec
CONSTANTS
  Starts <- TestForms
  Words = {"a"}
  Edited = {"purpose", "last_name"}
  Sums = {"100"}
  Fees = {0, 5, 70, 105, 10000}
  Checks = {0, 7, 12340}
  MaxPayload = 9
  None = None
  MaxSlips = 1
  TextLength = 2
INVARIANTS SlipsShow KeyMeansDocument
PROPERTY UntouchedFieldsKept
CHECK_DEADLOCK FALSE
