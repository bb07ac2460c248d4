SPECIFICATION Spec
CONSTANTS
  MaxLen = 7
  Base = 2
  Digits = 2
  Requests <- MCRequests
  Replies <- MCReplies
INVARIANTS TypeOK ReadExact ReadNeverWrong PutExact HeadExact TokenExact ListingExact GetattrFilled
