SPECIFICATION Spec
CONSTANTS
    w1 = w1
    q1 = q1
    q2 = q2
    w2 = w2
    Workers = {w1}
    Questions = {q1, q2}
    MaxMessages = 8
    MaxFrames = 3
    MaxPackets = 3
    MaxRequests = 4
    Kinds = {"message", "answer", "rename", "archive", "reactivate"}
    Raises = {}
INVARIANTS
    WaitingIsResumable
    
    
PROPERTY PacketLifecycle
CHECK_DEADLOCK FALSE
