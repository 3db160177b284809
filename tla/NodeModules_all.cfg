\* Two modules, the first with any of four scripts, one message, a start each.
SPECIFICATION MCSpec
CONSTANTS
  m1 = m1  m2 = m2
  Modules = {m1, m2}
  Messages = {x, y}
  Scripts <- SomeScripts
  Posts <- SomePosts
  MaxStarts = 1
  Active = {m1}
  MayFail = TRUE
  None = None
INVARIANTS
  NodeInv
  JavaScriptLife
  PublishKeepsMessage
PROPERTIES
  StartIsServed
  DestroyedIsRemoved
CHECK_DEADLOCK FALSE
