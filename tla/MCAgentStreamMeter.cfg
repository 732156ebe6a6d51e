\* Two streams read the energy counter at one time.
SPECIFICATION Spec
CONSTANTS
  s1 = s1
  s2 = s2
  Streams = {s1, s2}
  Draws = {1}
  MaxWatts = 2
  Wrap = 8
  Starts = {6}
  Passes = 2
  MaxTime = 4
INVARIANT PowerIsDelta
