SPECIFICATION LiveSpec
CONSTANTS
  Tabs = {t1}
  Changes = {"active", "past_due", "paused", "canceled"}
  Adjusts = {"refund", "chargeback"}
  Mixed = FALSE
  MaxSent = 2
  MaxClock = 3
  MaxOpen = 1
 
PROPERTIES UserHasTheLastWord AccessEnds Converges
CHECK_DEADLOCK FALSE
