CONSTANTS
  announce = announce
  lookup = lookup
  ask = ask
  raw = raw
  Peers = {101, 102, 103}
  Ours = {101, 102}
  Lan = TRUE
  OwnAddrs <- MCOwnAddrs
  Book <- MCBook
  Cids = {201, 202}
  Code <- MCCode
  Calls <- MCCalls
  Caller <- MCCaller
  Callee <- MCCallee
  Type <- MCType
  About <- MCAbout
  Signal <- MCSignal
  Raw = {raw}
  From <- MCFrom
  To <- MCTo
  Together <- MCTogether
  Scripts <- MCScripts
  Replies <- SchemaReplies
SPECIFICATION Spec
INVARIANT SchemaIsUnderstood
CHECK_DEADLOCK FALSE
