CONSTANTS
    WanLists <- MCWanLists
    NetworkLists <- MCNetworkLists
    TunnelLists <- MCTunnelLists
    RuleLists <- MCRuleLists
    ForwardLists <- MCForwardLists
    Services <- MCServices
    TcpServices <- MCTcp
    UdpServices <- MCUdp
    DefaultPort = "51820"
SPECIFICATION Spec
INVARIANTS WanClosed RulesDecide CrossesByGrant InternetWorks SetsDeclared
