SPECIFICATION Spec
CONSTANTS
    boss = boss
    ann = ann
    bob = bob
    Emails = {boss, ann, bob}
    BootstrapEmail = boss
    Requests = {r1, r2}
    Orgs = {o1}
    MaxUsers = 3
    MaxLinks = 2
    MaxInvites = 1
    MaxTokens = 2
    MaxOrgInvites = 2
    Worlds <- MCWorlds
INVARIANTS LinksWithinOverlap InviteAdmitsOnce AdminClaimsHold SeatsWithinOverlap
CHECK_DEADLOCK FALSE
