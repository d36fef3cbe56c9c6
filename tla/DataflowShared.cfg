CONSTANTS
    Queues = {0, 1, 2}
    Links = {}
    Processes = {4, 5, 6}
    Ingress = {8}
    Egress = {9, 10}
    From <- SharedFrom
    To <- SharedTo
    Entries <- SharedEntries
    Bytes <- SharedBytes
    Labels = 1
SPECIFICATION FairSpec
INVARIANTS NoOverflow NoLostWakeup Conserved
PROPERTIES OutputKeepsComing MailboxDrains
