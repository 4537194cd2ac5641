SPECIFICATION Spec
CONSTANTS
  Names = {laptop, tv}
  Volumes = {usb}
  Custom = {}
  None = None
  ReqIds = {1, 2}
INVARIANTS TypeOK SharedOnlyByReclaim RegisteredName FiledAsShown
CHECK_DEADLOCK FALSE
