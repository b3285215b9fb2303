SPECIFICATION ExchangeSpec
CONSTANTS
  Request <- TheRequest
  Response <- TheResponse
  Document <- TheDocument
  Page <- ThePage
  None = None
INVARIANT ResultRight
CHECK_DEADLOCK FALSE
