SPECIFICATION Spec
CONSTANTS
  o1 = o1
  s1 = s1
  c1 = c1
  Org = {o1}
  Version = {s1, c1}
  Bundled = {s1}
  SlugOf <- Slugs
  OwnerOf <- Owners
  Default = "seed"
  NoSlug = "none"
  NoVersion = NoVersion
  NoSource = NoSource
  Request = {r1, r2}
  Kind = {"plain", "recs", "seed", "legacy", "activate", "mode", "delete"}
SYMMETRY Symmetry
INVARIANTS  UnracedChoiceIsOne
PROPERTIES  ProgressIsKept
