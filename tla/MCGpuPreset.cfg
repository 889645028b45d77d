CONSTANTS
  Kinds = {"preset"}
  Shapes = {s1, s2, s3}
  Links = 2
  PendingMax = 2
  DeferMax = 1
  CacheMax = 2
  Failing <- WithPreset
  DeviceLoss = FALSE
  MaxCalls = 2
SPECIFICATION Spec
INVARIANTS PresetIsTheCallers
