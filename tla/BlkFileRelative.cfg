SPECIFICATION Spec
CONSTANTS
  f0 = f0
  f1 = f1
  f2 = f2
  gone = gone
  NoIndex = NoIndex
  Dirs <- RelativeDirs
INVARIANTS AllFilesIndexed
