SPECIFICATION FairHistorySpec
CONSTANTS
    p1 = p1
    p2 = p2
    p4 = p4
    m1 = m1
    m2 = m2
    m3 = m3
    m4 = m4
    y1 = y1
    y2 = y2
    e1 = e1
    Null = Null
    Publishers = {p2, p4}
    Rollbacks = {r1}
    Manifests = {m1, m2, m3, m4}
    Yamls = {y1, y2}
    ManifestOf <- MCManifestOf
    YamlsOf <- MCYamlsOf
    Verified = {m1, m2, m3}
    Histories <- MCHistories
    Requests = {q1}
    Entities = {e1}
    RuleOf <- MCRuleOf
    Compatible = {m1, m2}
    MaxBoots = 2
INVARIANTS
    NoDangling
    ReportsTrue
    NoRuleMissing
    ServesPublished
CHECK_DEADLOCK FALSE
PROPERTIES
    KeepsPointerContract
    Converges
