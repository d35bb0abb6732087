SPECIFICATION Spec
CONSTANTS
  MaxGen = 2
  MaxRequests = 4
PROPERTY StateEventsOrdered
