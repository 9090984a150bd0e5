SPECIFICATION Spec
CONSTANTS
  Base = 4
  MaxPayload = 3
  Data <- MCData
  Replies <- MCReplies
  Pads <- MCPads
  Stale <- MCStale
  HostAddr <- MCHostAddr
  Words = {0, 1, 65535}
  Behind = {0, 1}
INVARIANTS TypeOK UdpExact WellFormedHandled AnswersVerify Ip6toaCorrect
CHECK_DEADLOCK FALSE
