SPECIFICATION Spec
CONSTANTS
    p1 = p1
    p2 = p2
    r1 = r1
    c1 = c1
    u1 = u1
    u2 = u2
    h1 = h1
    Refs = {r1}
    Consumers = {c1}
    Purposes = {"call"}
    Modes = {"terminal_print", "child_env", "brokered_http"}
    PeerValues = {u1, u2, h1}
    Hosts = {"api"}
    Methods = {"post", "POST", "GET"}
    Paths = {"v1", "v1models", "v1beta"}
    Upper <- MCUpper
    PrefixesOf <- MCPrefixesOf
    Star = Star
    None = None
    Procs = {p1, p2}
    PolicyIds = {1}
    PolicyBodies <- MCPolicyBodies
    Asks <- MCAsks
    OwnPeer <- MCOwnPeer
    Peers <- MCPeers
    Assurance = "A1"
    MaxSeeds = 2
    MaxStep = 2
    NoPolicy = NoPolicy
    Roles <- MCRoles
INVARIANTS
    TypeOK
    ExportWasOpen
    FactorWasProved
    EnabledDeliberately
    MfaPolicyHonoured
    PlaintextPeerNamed
PROPERTIES
    TighteningNeverGrants
