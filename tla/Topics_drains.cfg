SPECIFICATION FairSpec
CONSTANTS
  w1 = w1
  w2 = w2
  r1 = r1
  r2 = r2
  a = a
  x = x
  y = y
  m = m
  n = n
  NoEntry = NoEntry
  NoTitle = NoTitle
  NoTopic = NoTopic
  Workers = {w1, w2}
  Requests = {r1}
  Entries = {a}
  TopicIDs = {x}
  Titles = {m}
  MaxFaults = 1
PROPERTY QueueDrains
