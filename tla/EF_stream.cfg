SPECIFICATION Spec
CONSTANTS
  Clients = {c1, c2}
  Restaurants = {r1, r2}
  NoRestaurant = NoRestaurant
  NoClient = NoClient
  MaxEvents = 2
INVARIANTS TypeOK MapsAgree StaysRegistered MissesOnlyWhatIsLost
PROPERTIES ImplementsFeed EventsArrive ListenerComesBack GoneAreForgotten

