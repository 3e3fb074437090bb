SPECIFICATION Spec
CONSTANTS
  Callers = {p1}
  Keys = {k1}
  None = None
  Asked = {"DISCOVERED"}
  AppendKinds = {"SOURCE_DISCOVERY"}
  MaxCommits = 2
  Pipelined = FALSE
PROPERTIES
  PreviewReplayReturns
