SPECIFICATION Spec
CONSTANTS
  Uploads = {u1, u2, u3}
  Pngs = {png}
  Pictures = {gif}
  Clips = {clip}
  Texts = {text}
  Old = {clip}
  MaxFaults = 2
INVARIANT OptimisationIsNicety
CHECK_DEADLOCK FALSE
