\* Two handlers, the timer's runner and one started by hand, two requests.
CONSTANTS
  c1 = c1
  c2 = c2
  timer = timer
  hand = hand
  Callers = {c1, c2}
  Runners = {timer, hand}
  Timer = timer
  MaxRequests = 2
SPECIFICATION FairSpec
INVARIANTS
  SucceededIsFetched
  SecondOnlyByRace
PROPERTIES
  RequestsAreAnswered
