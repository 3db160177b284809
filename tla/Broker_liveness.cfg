\* No module republishes inside Module_Receive, and a socket has room for
\* everything that is ever sent (MaxPublish messages, MaxAdd quit signals).
SPECIFICATION FairSpec
CONSTANTS
  None = None
  Modules = {m1, m2}
  Clients = {c1}
  Republishers = {}
  MayFail = {}
  RcvCap = 5
  MaxPublish = 2
  MaxAdd = 3
  MaxSub = 1
PROPERTIES
  RemoveReturns
  LinkedMessageArrives
  NoCloseDuringRecv
