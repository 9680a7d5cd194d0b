SPECIFICATION LiveSpec
CONSTANTS
  Tabs = {t1}
  Changes = {"past_due"}
  Adjusts = {}
  Mixed = FALSE
  MaxSent = 1
  MaxClock = 1
  MaxOpen = 1
PROPERTIES BackstopHolds
CHECK_DEADLOCK FALSE
