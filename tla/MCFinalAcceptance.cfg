SPECIFICATION Spec
CONSTANTS
    Originals = {o1, o2, o3, o4, o5}
    Resigned = {r1}
    Head <- MCHead
    Rest <- MCRest
    AssetId <- MCAssetId
    Bytes <- MCBytes
    Trusted <- MCTrusted
    None = None
    MaxChanges = 3
SYMMETRY Symmetry
INVARIANTS
    TypeOK
    CertifiedBytes
    CoherentSnapshot
    NoStandingRevocation
CHECK_DEADLOCK FALSE
