SPECIFICATION Spec
CONSTANTS
  Replies = {nil, body}
  NoData = NoData
  Cancellable = TRUE
INVARIANTS TypeOK FinishIsAnnounced CancelFinishes
PROPERTY ImplementsContract
