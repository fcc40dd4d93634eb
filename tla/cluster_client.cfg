SPECIFICATION Spec
CONSTANTS
    Tasks = {t1, t2}
    Proxies = {p0, p1, p2, r1, r2}
    FirstProxy = p0
    Removed = {r1, r2}
    Service = Service
    None = None
SYMMETRY Symmetry
INVARIANT TypeOK
INVARIANT OneOpenClientPerAddress
INVARIANT RedirectionsSuffice
