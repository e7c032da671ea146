SPECIFICATION MCSpec
CONSTANTS
    Started = {"bloom", "processes", "pictures", "services", "xml", "messages"}
    FadeStep = 150
    Options <- MCOptions
    Heights <- MCHeights
    Indices = {1, 6}
    Tries = 5
    Filters = {1, 2}
    Elements <- MCElements
    First <- MCFirst
    Second <- MCSecond
    Shapes <- MCShapes
    MaxSaves = 1
    Ifaces = {"tun0", "eth0"}
    Addrs <- MCAddrs
    Iface <- MCIface
    Peer <- MCPeer
    LinkLocal = {"fe80"}
    Present = {"v4"}
    V6 = {"fe80"}
    Loopback = {}
    Buffer = 2
    Room = 1
    Pids = {1, 2}
    Names <- MCNames
    Shown <- MCShown
    Argv0 <- MCArgv0
    Kernel = {"kthread"}
    Threads = {1, 2}
    Churn = 2
    Batch = 2
    Slack = 1
    Calls <- MCCalls
    Demo <- MCDemo
    Levels <- MCLevels
    Side = 2
    Target = 3
    Few = 2
    Table = 3
    Truncated <- MCTruncated
    Services <- MCServices
    Clients <- MCClients
    Dumps <- MCDumps
    Families <- MCFamilies
    Requests <- MCRequests
    Foreign <- MCForeign
    MaxForeign = 1
    MaxLost = 1
    None = None
INVARIANTS ToldIsKnown ReadTrue
PROPERTY WaitsEnd
CHECK_DEADLOCK FALSE
