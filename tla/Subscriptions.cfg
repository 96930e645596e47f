SPECIFICATION LiveSpec
CONSTANTS
 a=a 
 b=b
 Conn={a,b}
 Starters={a}
 Requests={"start", "subscribe", "unsubscribe", "cancel", "disconnect", "silence"}
 MaxSeq=2
 MaxReplays=1
 MaxRequests=3
 QueueSize=1
 MayStall=FALSE
 None=None
INVARIANTS OnceInOrderAtFirst
PROPERTIES NothingUnaskedAtFirst WorkEnds
CHECK_DEADLOCK FALSE

