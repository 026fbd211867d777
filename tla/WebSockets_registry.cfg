SPECIFICATION FairSpec
CONSTANTS
    k1 = k1
    k2 = k2
    k3 = k3
    k4 = k4
    alice = alice
    bob = bob
    home = home
    office = office
    Sockets <- SocketsOfTwo
    Clients = {alice, bob}
    Addresses = {home, office}
    ClientOf <- ClientsOfSockets
    AddressOf <- AddressesOfSockets
    NoSocket = NoSocket
    Replies = {r1}
    MaxSockets = 2
    MaxRestarts = 1
INVARIANTS TypeOK CountIsExact RegistryIsLive AloneIsReachable
PROPERTIES UnreachableIsGone PlaceIsFreed
CHECK_DEADLOCK FALSE
