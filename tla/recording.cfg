SPECIFICATION Spec
CONSTANTS
  URI = {u}
  Field = {f}
  None = None
  Exchanges <- AllExchanges
  Responses <- AllResponses
  Hints <- Links
  StoredPage <- Page
  MaxParts = 2
INVARIANTS StoredIsWhatWasSent OneAnswer RefusedOnlyWhenForbidden
