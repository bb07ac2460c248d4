SPECIFICATION Spec
CONSTANTS
  Args <- MCArgs
  MaxArgs = 2
  Secrets <- MCSecrets
  Faults = {}
INVARIANT TimeoutsHonoured
