\* Predictions and operators interleave, with failing audits and restarts.
SPECIFICATION Spec
CONSTANTS
  Thread = {t1, t2}
  Approver = {alice, bob}
  Blank = Blank
  MaxSamples = 2
  MaxOutcomes = 3
  MaxOperators = 2
  MayFailAudit = TRUE
  MayRestart = TRUE
INVARIANTS
  DecisionIsLinearizable
  AuditedBeforeAnswer
  AuditTellsLevel
  CalibrationIsAligned
SYMMETRY Symmetry
