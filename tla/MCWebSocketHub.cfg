SPECIFICATION FairSpec
CONSTANTS
    Conns = {c1}
    Channels <- OneDevice
    Notices = {n1, n2}
    DeviceOf <- ToDevice
    TenantOf <- ToTenant
    MaxCasts = 3
    SendCap = 2
    QueueCap = 2
INVARIANTS TypeOK NeverSendsOnClosed InOrder
PROPERTIES OnlyToSubscribers LeaversAreForgotten
CHECK_DEADLOCK FALSE
