CONSTANTS
    None = None
    Client = {c1, c2}
    Task = {t1, t2, t3}
    Providers = {"tavily", "linkup", "parallel", "exa", "firecrawl"}
    ReadErrors = TRUE
SPECIFICATION Spec
SYMMETRY Symmetry
INVARIANTS OnePaidTask OneActiveCrawl AtMostOneRecreation
PROPERTIES RunningTaskKeepsItsRecord
CHECK_DEADLOCK FALSE
