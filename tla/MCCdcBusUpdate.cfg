SPECIFICATION FairSpec
CONSTANTS
  MaxVersion = 3
  UpdateIn = {TRUE, FALSE}
  AcceptIn = {TRUE, FALSE}
INVARIANTS
  Coherent
PROPERTIES
  ImplementsLatestValue
  EveryOfferArrives
