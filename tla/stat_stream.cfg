SPECIFICATION Spec
CONSTANTS
  Second = 2
  Window = 2
  MaxTime = 6
  Streams = {r1, r2}
  Held = {1}
  Sizes = {0, 1, 4}
  MaxMoved = 5
  MaxAdds = 3
SYMMETRY StreamSymmetry
INVARIANTS TypeOK NoLeak SpeedOfWindow CountedOnce
