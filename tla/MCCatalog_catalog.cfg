CONSTANTS
  d1 = d1
  d2 = d2
  o1 = o1
  Direct = {d1, d2}
  Routed = {o1}
  MirrorOf <- Mirrors
  Seeded = {d1}
  Listed = {d2}
  Asked = {d2}
  Readers = {g1}
  Editors = {e1}
  Absent = Absent
SPECIFICATION Spec
INVARIANTS TypeOK NoForeignKeyViolation StaleIsAccountedFor
PROPERTIES UserPriceSticks ListingSticks
