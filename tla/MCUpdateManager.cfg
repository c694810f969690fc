SPECIFICATION Spec
CONSTANTS
  Service <- App
  Orders <- AppOrders
  Worlds <- MCWorlds
INVARIANTS
  CacheIsTrue
  NoneLeftBroken
PROPERTIES
  AnswerIsTold
  RolledBackStays
