SPECIFICATION RecordingSpec
CONSTANTS
  Handlers = {h1, h2}
  NoRequest = NoRequest
  MaxRequests = 3
  MaxFaults = 2
  MaxBoots = 1
SYMMETRY Interchangeable
INVARIANT RecordingTypeOK
INVARIANT LoggedOrReported
INVARIANT HarCanBeRead
INVARIANT LogKeepsUp
