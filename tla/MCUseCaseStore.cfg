SPECIFICATION StoreSpec
CONSTANTS
  h1 = h1
  h2 = h2
  q1 = q1
  q2 = q2
  s1 = s1
  Nothing = Nothing
  Free = Free
  Handlers = {h1, h2}
  Names = {"case", "case 2"}
  Ids = {"case", "case-2", "case 2-2"}
  Slug <- MCSlug
  Suffixed <- MCSuffixed
  MaxSuffix = 2
  Builtins = {"case"}
  QuestionMaps = {q1, q2}
  Inputs = {s1}
SYMMETRY Symmetry
INVARIANTS
  StoreTypeOK
  PromisesKept
  BuiltinsUnshadowed
