CONSTANT
  Sizes = {1, 3, 4}
SPECIFICATION Spec
INVARIANTS NeverTwice CountExplained NewestFirstRefusesNone
