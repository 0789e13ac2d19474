SPECIFICATION FairSpec
CONSTANTS
  Tenants = {t1}
  Requests = {r1}
  Issuers = {r1}
  GCEnabled = TRUE
  MaxCommits = 1
  MaxFaults = 1
INVARIANTS RevisionNamesBundle LoadedTenantsAreTracked
PROPERTIES ImplementsPolicyView NoLostUpdate CatchUp RequestsReturn
