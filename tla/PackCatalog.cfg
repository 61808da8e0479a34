SPECIFICATION CatalogSpec
CONSTANTS
    base = base
    top = top
    hub = hub
    key = key
    sbom = sbom
    handler = handler
    None = None
    Offered <- Manifests
    Local <- LocalManifests
    PackOrder <- SortedPacks
    Sources = {hub}
    Keys = {key}
    Caller = {k1, k2}
    Zero <- VersionZero
SYMMETRY Interchangeable
INVARIANT UsedIsTrusted
