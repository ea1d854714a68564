\* Every way to fill four strata with none, one, two, seven or sixteen reviews.
CONSTANTS
  s1 = s1
  s2 = s2
  s3 = s3
  s4 = s4
  Stratum = {s1, s2, s3, s4}
  Size = {0, 1, 2, 7, 16}
  Target = {4, 5, 10, 20}
  Share = 15

SPECIFICATION Spec
CHECK_DEADLOCK FALSE

PROPERTIES
  SampleSettles
