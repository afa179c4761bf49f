CONSTANTS
    read = read  send = send  job1 = job1  cli = cli
    Calls = {send}
    Reads = {}
    Turns = {job1}
    Direct = {}
    ChatIds = 1
    MaxChats = 2
    MaxRequests = 1
    OnceTTL = 2
    SessionTTL = 1
    ScanLimit = 5
    NoCall = NoCall
SPECIFICATION Spec
INVARIANT SpentWhereGranted
