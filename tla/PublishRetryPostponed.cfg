SPECIFICATION MCSpec
CONSTANTS
  a1 = a1
  a2 = a2
  p1 = p1
  p2 = p2
  w1 = w1
  w2 = w2
  Articles = {a1}
  Paths = {p1, p2}
  Workers = {w1}
  Delays <- MCDelays
  NoPath = NoPath
  NoArticle = NoArticle
  Never = Never
  NoOne = NoOne
  MaxFaults = 1
  MaxOps = 0
  FirstPath = p1
PROPERTY RetriesComeDue
