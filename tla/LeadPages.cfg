SPECIFICATION LeadSpec
CONSTANTS
  Urls = {"p"}
  Playwright = TRUE
  MaxLeads = 2
  MinScore = 50
  Scores = {90}
INVARIANT
  PageTextIsExtracted
CHECK_DEADLOCK FALSE
