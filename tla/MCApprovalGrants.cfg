CONSTANTS
    read = read  send = send  job1 = job1  cli = cli
    Calls = {read, send}
    Reads = {read}
    Turns = {job1}
    Direct = {}
    ChatIds = 2
    MaxChats = 2
    MaxRequests = 3
    OnceTTL = 1
    SessionTTL = 1
    ScanLimit = 2
    NoCall = NoCall
SPECIFICATION Spec
INVARIANTS TypeOK GrantsHaveSource ChatOwnsItsGrants
PROPERTIES DecidedOnce KeepsConsent
