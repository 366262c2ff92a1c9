SPECIFICATION FairSpec
CONSTANTS
  Sources = {l1, l2}
  Workers = {w1, w2}
  Sigs = {s1, s2}
  NoSig = NoSig
  MaxReceived = 4
INVARIANTS
  TypeOK
  NoSilentDrop
  NoMarkLeak
  RunOncePerWorker
  MarkIsOfOneRun
PROPERTIES
  EveryReceivedIsTaken
  MarksAreReleased
