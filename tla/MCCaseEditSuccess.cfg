\* One page and nobody else; no conversion can fail.
SPECIFICATION Spec
CONSTANTS
  p1 = p1
  s1 = s1
  outsop = outsop
  xml = xml
  Pages = {p1}
  Sends = {}
  Formats = {xml}
  SopFormats = {}
  MaxEdits = 2
  MaxSaves = 1
  NotYet = NotYet
  Gone = Gone
  Unloaded = Unloaded
  NoResult = NoResult
  NoReply = NoReply
  None = None
INVARIANT SuccessIsTrue
\* The bounds on edits and saves stop the run.
CHECK_DEADLOCK FALSE
