SPECIFICATION ApiSpec
CONSTANTS
  Wallet = {w1, w2, w3}
  CONSOLIDATIONS_LIMIT = 3
  MaxDay = 2
  MaxChanges = 3
SYMMETRY Symmetry
CONSTRAINT Bounded
INVARIANTS PublishedExactly NeverTwice NobodyLostAtFirst RootOfTable Regrouped QuietAnswers
