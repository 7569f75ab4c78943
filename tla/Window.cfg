SPECIFICATION FairSpec
CONSTANTS
  Writers = {w1, w2}
  Modulus = 4
  Amounts <- AllUint32
  Requests <- AllUint32
  MaxAdded = 7
INVARIANTS NoLostWakeup Conserved
