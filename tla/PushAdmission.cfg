SPECIFICATION Spec
CONSTANTS
    MaxLabel = 2
    MaxHost = 4
    DefaultPort = 4
    MaxPort = 41
    Ipv6Texts <- MCIpv6Texts
    IntMax = 32767
    Builds = {TRUE, FALSE}
    None = None
    Configs <- MCConfigs
    Pushes <- MCPushes
INVARIANTS
    TypeOK
    AcceptedIsSound
    RefusalIsJust
    OriginIsOfServer
    AcceptedIsDeliverable
    OneTrustSource
