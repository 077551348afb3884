CONSTANTS
  d1 = d1
  Devices <- MCDevices
  Requests <- MCRequests
  Nobody = Nobody
  MaxQueue = 1
  Timeout = 1
  Interval = 1
  Retain = 1
  CleanEvery = 2
  AutoRemove = TRUE
SPECIFICATION SipSpec
INVARIANTS SipTypeOK OnlineFresh FinalAnswersKept
PROPERTIES AtMostOnce
CHECK_DEADLOCK FALSE
