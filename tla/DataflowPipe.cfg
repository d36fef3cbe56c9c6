CONSTANTS
    Queues = {0, 1, 2}
    Links = {3}
    Processes = {4}
    Ingress = {8}
    Egress = {9}
    From <- PipeFrom
    To <- PipeTo
    Entries <- PipeEntries
    Bytes <- PipeBytes
    Labels = 8
SPECIFICATION Spec
INVARIANTS LinksNeverFail
PROPERTIES PipeIsFifo
