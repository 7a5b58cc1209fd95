SPECIFICATION FairSpec
CONSTANTS
  Txs = {t1, t2, t3}
  NoTx = NoTx
  Keys = {k1}
  NoKey = NoKey
  Sent = {"undefined", "text"}
  MaxSeq = 2
INVARIANTS
  ChainIsLinear
  OneEventPerKey
PROPERTIES
  AppendOnly
  AppendsProceed
