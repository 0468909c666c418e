CONSTANTS
  main = main
  image = image
  root = root
  a = a
  b = b
  p1 = p1
  Absent = Absent
  Files = {main, image, root}
  CORE = {main}
  Main = main
  Root = root
  MaxVersion = 3
  Build <- MCBuild
  Workers <- MCWorkers
  Pages = {p1}
  MaxFailures = 1
SPECIFICATION Spec
INVARIANTS
  TypeOK
  CoreNoOlder
  OnlyResourcesCached
  WaitedIsFresh
PROPERTIES
  ShowGoesOn
CHECK_DEADLOCK FALSE
