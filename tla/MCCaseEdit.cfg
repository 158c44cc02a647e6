\* A page that saves twice, a request to send, a format that can fail and one that cannot.
SPECIFICATION Spec
CONSTANTS
  p1 = p1
  s1 = s1
  outsop = outsop
  xml = xml
  Pages = {p1}
  Sends = {s1}
  Formats = {outsop, xml}
  SopFormats = {outsop}
  MaxEdits = 2
  MaxSaves = 2
  NotYet = NotYet
  Gone = Gone
  Unloaded = Unloaded
  NoResult = NoResult
  NoReply = NoReply
  None = None
INVARIANT UncontestedSaveKept
PROPERTIES ImplementsStore CalmSendFits
\* The bounds on edits and saves stop the run.
CHECK_DEADLOCK FALSE
