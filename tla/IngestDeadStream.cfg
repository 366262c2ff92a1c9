SPECIFICATION FairSpec
CONSTANTS
  Sources = {l1, l2}
  Workers = {w1, w2}
  Sigs = {s1}
  NoSig = NoSig
  MaxReceived = 1
PROPERTY StreamErrorEndsLoop
