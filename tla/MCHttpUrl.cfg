\* http_url: the URL of a second request on a connection
SPECIFICATION HttpSpec
CONSTANTS
    HeaderMax = 3
    MaxHeaders = 3
    MaxMessages = 2
    MaxCuts = 2
INVARIANT UrlIsTheRequests
CHECK_DEADLOCK FALSE
