CONSTANTS
  Http = {h1, h2}
  Main = main
  MaxEmits = 2
SPECIFICATION Spec
INVARIANTS
  TypeOK
  CallsPerManager
