SPECIFICATION Spec
CONSTANTS
    Own = 9
    Internal <- InternalPeers
    IpType <- Special
    Internal0 <- InternalPeers
    IpType0 <- Special
    ApplyDir = {"ingress"}
    DefAction = "violate"
    Requests <- SomeRequests
    MaxRules = 3
    Code <- Codes
    Snooped <- DnsAnswers
    AppUnknown = 2
    Flows <- SomeFlows
INVARIANTS SessionByFirstRule AppDecisionIsOfARule SameRangeByFirstRule
CHECK_DEADLOCK FALSE
