SPECIFICATION Spec
CONSTANTS
  Catalogue <- MCCatalogue
  Typed <- MCTyped
  Starts <- MCStarts
  Within <- MCWithin
  Offers <- MCOffers
  None = None
  MaxLoops = 1
  MaxRequests = 1
INVARIANT Safety
PROPERTY ChosenIsOffered
