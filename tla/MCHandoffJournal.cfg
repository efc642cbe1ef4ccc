\* Two events in a session, and what a completed launch is said to have returned.
SPECIFICATION Spec
CONSTANTS
  c1 = c1
  c2 = c2
  Clients <- MCClients
  Attempts = 3
  MaxLaunches = 2
  MaxEvents = 2
INVARIANT
  CompletedReturnsJournal
CHECK_DEADLOCK FALSE
