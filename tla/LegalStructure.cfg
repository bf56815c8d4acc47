SPECIFICATION Parsing
CONSTANTS
  MaxLines = 5
  MaxPages = 2
INVARIANTS
  TextIsKept
  UnitsUnderTheirHeadings
  PagesInOrder
CHECK_DEADLOCK FALSE
