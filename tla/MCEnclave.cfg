SPECIFICATION Spec
CONSTANTS
    Clients = {c1}
    Owners = {c1, c2}
    Envelopes = {1, 2, 3}
    Challenges = {1, 2}
    Sessions = {11, 12}
    None = None
    AttestationTtl = 2
    ChallengeTtl = 1
    SessionTtl = 2
    ReplayTtl = 2
    MaxChallenges = 1
    MaxSessions = 1
    MaxSeen = 3
INVARIANTS
    ActedOnce
    SessionHonoured
