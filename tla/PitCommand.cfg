SPECIFICATION FairSpec
CONSTANTS
  ltr = ltr
  gal = gal
  lf = lf
  ws = ws
  Tires = {lf}
  Services = {ws}
  Units = {gal}
  MaxFuel = 1
  Litres <- MCLitres
  OneConnection = TRUE
  MaxSent = 2
INVARIANTS
  AsAsked
PROPERTIES
  ImplementsPitOrders
  KeepsSelected
  CarriedOut
