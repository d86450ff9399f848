CONSTANTS
  Columns = {c1}
  NoDescription = NoDescription
  MaxPending = 2
  PortalWorks = {c1, "copy_in", "copy_out"}
  QueryWorks = {c1, "no_rows", "copy_in", "copy_out", "copy_both"}
  Liberties = {"pipeline", "receive_raw"}
  ToServer = 2
  ToClient = 4
SPECIFICATION FairWireSpec
INVARIANT PendingIsToCome
INVARIANT ReadyMeansQuiet
 
PROPERTY LaterBatchUndisturbed
PROPERTY SyncIsRetired
