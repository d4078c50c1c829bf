CONSTANTS
  w1 = w1
  w2 = w2
  bot1 = bot1
  bot2 = bot2
  Nobody = Nobody
  Held = Held
  Workers <- TwoWorkers
  Bots <- TwoBots
  Slow = FALSE
  MaxBoxes = 4
  MaxFence = 2
  MaxEvents = 1
  MaxUpdates = 1
  MaxBegun = 3
CHECK_DEADLOCK FALSE
SYMMETRY Interchangeable
SPECIFICATION Spec
PROPERTY ReservationRespected
