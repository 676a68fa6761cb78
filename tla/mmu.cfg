SPECIFICATION Spec
CONSTANTS
    VpnCount = 2
    PpnCount = 4
    RamPages = 2
    Fan = 2
    TlbSize = 2
    AsidCount = 2
    PteWrites <- MCPteWrites
    Satps <- MCSatps
    Privs = {"U", "M"}
    Maps <- MCMaps
    MaxMap = 1
INVARIANTS TypeOK TlbTransparent TlbCoherent
