SPECIFICATION Spec
CONSTANTS
  Length = 4
  ScanEnd = 1
  Values = {0, 1}
  Exit = 1
  StateContents <- SomeContents
  Starts <- SomeStarts
  MaxBlock = 2
  Multiples <- SomeMultiples
  Dmas <- SomeDmas
  FlushAlign = 2
  FlushSlack = 2
  RAM_TRANSLATION_CACHE_SIZE = 9
  TRANSLATION_CACHE_LIMIT_THRESHOLD = 3
INVARIANTS TranslationsAreCurrent CacheAndTableApart
