SPECIFICATION FairSpec
CONSTANTS
    Requests <- MCRequests
    MaxRequests = 2
    Window = 2
    Flights = 2
    FlightLen = 3
INVARIANTS FramingExact ResponsesExact NoLostEdge
PROPERTIES GoodRequestsAnswered ConnectionEnds
