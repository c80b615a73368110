CONSTANTS
    client = client
    resolver = resolver
    server = server
    Flow <- MCFlow
    Refusable <- MCRefusable
    PlainDns <- MCPlainDns
    MaxDatagrams = 2
    MaxReplies = 1
    Quarters = 2
    MaxUnsolicited = 0
SPECIFICATION Spec
INVARIANTS
    DroppingIsHarmless
