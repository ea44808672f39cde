SPECIFICATION Persistent
CONSTANTS
    None = None
    Tabs = {p1, p2}
    MaxReceipts = 1
    MaxRuns = 3
    MaxIds = 2
    MaxLost = 1
PROPERTIES
    RetryEventuallyGrants
CHECK_DEADLOCK FALSE
