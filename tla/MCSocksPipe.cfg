CONSTANTS
    SpSource = {a, b}
    SpPeer = {p, q}
    SpRefused = {}
    SpDns = {p}
    SpQuarters = 1
    SpMaxSent = 4
    SpMaxReplies = 1
SPECIFICATION SpSpec
PROPERTIES
    SpJoinAddsPeer
