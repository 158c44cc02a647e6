\* Two windows after one another, two files in each.
SPECIFICATION UploaderSpec
CONSTANTS
  MaxWindows = 2
  MaxFiles = 2
INVARIANTS WaitsForSomething SubmitNeverWaits
PROPERTIES UploadEnds
\* All windows may have been opened and closed.
CHECK_DEADLOCK FALSE
