SPECIFICATION PatientSpec
CONSTANTS
    Requests = {1}
    Count <- MCCount
    MaxConcurrency = 2
    MaxRetries = 1
    Token = 2
    Rate = 1
PROPERTY LimiterServes
