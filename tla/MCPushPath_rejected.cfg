SPECIFICATION PushPathSpec
CONSTANTS
    Walks <- MCWalks
    Inventories <- MCInventories
    Raw <- MCRaw
INVARIANT DiscoveredIsPushable
