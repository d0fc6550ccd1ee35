SPECIFICATION Spec
CONSTANTS
  c1 = c1
  c2 = c2
  question = question
  paraphrase = paraphrase
  hello = hello
  thanks = thanks
  blank = blank
  Clients <- MCClients
  Prompts <- MCPrompts
  Similarity <- MCSimilarity
  Blank <- MCBlank
  Tokens <- MCTokens
  Hash <- MCHash
  Dim = 4
  Threshold = 80
  TTL = 1
  MaxSize = 2
  MaxTime = 2
  MaxStores = 4
  MaxRestarts = 1
INVARIANTS
  ServedAlike
CHECK_DEADLOCK FALSE
