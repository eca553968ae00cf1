CONSTANTS
  Tags <- SmallTags
  Area <- SmallArea
  Urls <- SmallUrls
  BufferSize = 64
SPECIFICATION Spec
INVARIANTS
  TypeOK
  WrittenIsWhole
  WritesInArea
  ReadsBack
