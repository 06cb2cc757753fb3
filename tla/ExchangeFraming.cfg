SPECIFICATION Spec
CONSTANTS
  select1 = select1
  select2 = select2
  verify1 = verify1
  verify2 = verify2
  win = win
  until = until
  state = state
  extra = extra
  v = v
  w = w
  e = e
  f = f
  Foreign = foreign
  Null = null
  Lines <- ShortBatch
  VerifyCase = {verify1}
  Group = {select1}
  Winner = win
  Authority = state
  CrossMember = {win, until}
  Expected <- Wanted
  Answers <- Unusual
  InOrder = {"rust"}
INVARIANTS
  FramingIsNewline
