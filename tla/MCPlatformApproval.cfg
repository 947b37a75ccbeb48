\* A hard kill ends without two persons.
SPECIFICATION Spec
CONSTANTS
  Thread = {t1}
  Approver = {alice, bob}
  Blank = Blank
  MaxSamples = 1
  MaxOutcomes = 1
  MaxOperators = 1
  MayFailAudit = FALSE
  MayRestart = FALSE
PROPERTIES
  HardNeedsTwoPersons
