--------------------------- MODULE MCUserAccounts ---------------------------
(* Instances for TLC: registration behind invites, the verification links, *)
(* sessions with an administrator at work, and the seats of an             *)
(* organisation.                                                           *)
EXTENDS OrgInvites

CONSTANTS boss, ann, bob

Row(e, role, verified) == [NewUser(e) EXCEPT !.role = role, !.verified = verified]
Admin == Row(boss, "admin", TRUE)
Ann   == Row(ann, "user", FALSE)
Bob   == Row(bob, "user", TRUE)
Door(e) == [email |-> e, by |-> 1, usedBy |-> NoOne, revoked |-> FALSE, expired |-> FALSE]
Seat(e) == [org |-> CHOOSE o \in Orgs : TRUE, email |-> e, by |-> 1, state |-> "pending", expired |-> FALSE]
Session == [user |-> 1, role |-> "admin"]
Patch(s, v) == [status |-> s, verified |-> v]

World(ops, closed, required, us, emails, restarts, failures) ==
    [ops |-> ops, closed |-> closed, required |-> required, users |-> us, emails |-> emails,
     restarts |-> restarts, failures |-> failures,
     tokens |-> << >>, invites |-> << >>, owner |-> NoOne, seatLimit |-> 1, orgInvites |-> << >>, patches |-> {}]

W1 == [World({"register"}, TRUE, TRUE, <<Admin>>, {ann, bob}, 1, 1) EXCEPT !.invites = <<Door(Anyone)>>]
W2 == [World({"register", "admin", "login"}, TRUE, FALSE, <<Admin>>, {boss, ann}, 0, 1) EXCEPT
        !.invites = <<Door(ann)>>]
W3 == World({"register", "resend", "verify"}, FALSE, TRUE, << >>, {ann}, 1, 1)
W4 == [World({"resend", "verify", "admin"}, FALSE, TRUE, <<Admin, Ann>>, {ann}, 0, 0) EXCEPT
        !.tokens = <<Session>>,
        !.patches = {Patch("active", "no")}]
W5 == [World({"invite", "accept"}, FALSE, FALSE, <<Admin>>, {boss, ann, bob}, 0, 1) EXCEPT
        !.tokens = <<Session>>, !.owner = 1, !.seatLimit = 2]
W6 == [World({"accept", "admin"}, FALSE, FALSE, <<Admin, Bob>>, {}, 0, 0) EXCEPT
        !.tokens = <<Session>>, !.owner = 1, !.seatLimit = 2, !.orgInvites = <<Seat(bob), Seat(ann)>>,
        !.patches = {Patch("suspended", "keep")}]
W7 == [World({"login", "admin"}, FALSE, TRUE, <<Row(boss, "user", TRUE), Row(ann, "admin", TRUE)>>, {boss, ann}, 1, 0) EXCEPT
        !.patches = {Patch("suspended", "keep"), Patch("keep", "yes")}]
W8 == [World({"accept", "register"}, FALSE, FALSE, <<Admin>>, {ann}, 0, 0) EXCEPT
        !.owner = 1, !.seatLimit = 2, !.orgInvites = <<Seat(ann)>>]
MCWorlds == {W1, W2, W3, W4, W5, W6, W7, W8}
=============================================================================
