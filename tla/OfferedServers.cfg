\* Against the remark on the cached name servers (wifi_sta.cpp:82).
SPECIFICATION Spec
CONSTANTS
    home = home
    site = site
    A = A
    B = B
    C = C
    G = G
    Configs = {c1}
    Peers = {p1}
    PeerChannels = {1, 6}
    PeerMax = 1
    Servers <- MCServers
    Fallback = G
    Networks <- MCNetworks
    Offers <- MCOffers
    Reachable <- MCReachable
PROPERTIES
    OfferedServersUsed
