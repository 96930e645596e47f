SPECIFICATION Spec
CONSTANTS
 a=a 
 b=b
 Conn={a}
 Starters={a}
 Requests={"start", "subscribe", "unsubscribe"}
 MaxSeq=2
 MaxReplays=2
 MaxRequests=5
 QueueSize=1
 MayStall=FALSE
 None=None
INVARIANTS OnceInOrder
CHECK_DEADLOCK FALSE
