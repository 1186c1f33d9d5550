\* Two services that report one metric with two values.  Every event and every group
\* may hold a map: 2 + 2, and one for the call.  A label is in a map or not, whatever the
\* other labels do, so one shows what happens to each.
SPECIFICATION FairSpec
CONSTANTS
  Paths = {p}
  Identifiers = {i1, i2}
  Values = {v1, v2}
  Labels = {l1}
  Given <- AnyLabels
  Maps = {m1, m2, m3, m4, m5}
  NilMap = nil
  FreshMaps = TRUE
  None = none
INVARIANTS TypeOK GroupsOwnTheirMaps
PROPERTIES ImplementsChangeLog EveryChangeIsLogged
