SPECIFICATION Spec
CONSTANTS
  Fields = {"qpos", "opt"}
  Requests = {"reset", "newperturb"}
INVARIANTS
  WriterAlone
