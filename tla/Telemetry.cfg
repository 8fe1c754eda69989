\* Two services, a short and a long payload, three events; Atreus and Chaos may
\* stop at any time.
CONSTANTS
  Name = {a, b}
  Payload = {1, 6}
  Unreliable = {"atreus", "chaos"}
  MaxEvents = 3
  None = None
SPECIFICATION FairSpec
INVARIANTS TypeOK NeverOverCounted AverageBounded AnswersTrue
PROPERTIES EverythingIsTaken LossesKnown
