----------------------------- MODULE OrgInvites -----------------------------
(* Invites to an organisation and their acceptance (modules/invites,        *)
(* store/invites.go, orgs.go, org_members.go): the seats an invite and a    *)
(* membership take, counted in statements that do not lock the              *)
(* organisation.  Organisations are rows of earlier releases: no route      *)
(* creates one any more, nor an invite (CreateOrgInvite and RevokeOrgInvite *)
(* are handlers without a route); PreviewInvite and AcceptInvite are served. *)
(* Acceptance also pauses the user's own webhooks and credentials, which    *)
(* WebhookConfig and BrokerCredentials hold.                                *)
EXTENDS UserAccounts

CONSTANTS Orgs, MaxOrgInvites

OrgInviteIds == 1..MaxOrgInvites

VARIABLES orgs,        \* organisation -> row of organizations, or NoRow
          members,     \* user -> the organisation of its row of org_members, or NoOrg
          orgInvites,  \* invite id -> row of org_invites, or NoRow
          accepts      \* organisation -> most acceptances that had counted and not committed

orgVars == <<orgs, members, orgInvites, accepts>>
vars == <<userVars, orgVars>>

NoOrg == "no organisation"
OrgRows == [owner : UserIds, seatLimit : Nat, status : {"active", "suspended"}]
OrgInviteRows == [org : Orgs, email : Emails, by : UserIds,
                  state : {"pending", "accepted", "revoked"}, expired : BOOLEAN]

\* idx_org_invites_pending_unique counts an invite that has expired as pending.
Pending(i) == Exists(orgInvites, i) /\ orgInvites[i].state = "pending"
Valid(i) == Pending(i) /\ ~orgInvites[i].expired
MembersOf(o) == {u \in UserIds : members[u] = o}

\* The transaction holds the invite's row from its first statement to its commit.
Locked(i) == \E q \in Requests : reqs[q].at = "commit" /\ reqs[q].orgInvite = i

-----------------------------------------------------------------------------
(* CreateOrgInvite: CountSeatsUsed reads the members, then the pending      *)
(* invites; then the invited account is looked up, and the row inserted.    *)

CountMembers(r, t, o, e) ==
    /\ Serves("invite") /\ Free(r) /\ Admitted(t) /\ Exists(orgs, o)
    /\ Move(r, [at |-> "count pending", org |-> o, email |-> e, by |-> tokens[t].user,
                seats |-> Cardinality(MembersOf(o)), limit |-> orgs[o].seatLimit])
    /\ UNCHANGED <<world, users, known, links, resends, invites, tokens, revoked, peak, orgVars>>

CountPending(r) ==
    /\ At(r, "count pending")
    /\ LET o == reqs[r].org
           pending == {i \in OrgInviteIds : Valid(i) /\ orgInvites[i].org = o}
       IN IF reqs[r].seats + Cardinality(pending) < reqs[r].limit THEN Step(r, "look up invitee")
          ELSE Done(r)
    /\ UNCHANGED <<world, users, known, links, resends, invites, tokens, revoked, faults, peak, orgVars>>

LookUpInvitee(r) ==
    /\ At(r, "look up invitee")
    /\ LET u == UserByEmail(reqs[r].email) IN
       IF u # NoOne => members[u] = NoOrg /\ users[u].status = "active" THEN Step(r, "insert invite")
       ELSE Done(r)
    /\ UNCHANGED <<world, users, known, links, resends, invites, tokens, revoked, faults, peak, orgVars>>

InsertOrgInvite(r) ==
    /\ At(r, "insert invite") /\ Done(r)
    /\ LET o == reqs[r].org  e == reqs[r].email
           taken == \E i \in OrgInviteIds : Pending(i) /\ orgInvites[i].org = o /\ orgInvites[i].email = e
       IN IF taken \/ ~Exists(orgs, o) \/ ~Exists(users, reqs[r].by) THEN UNCHANGED orgInvites
          ELSE \E i \in OrgInviteIds :
               /\ ~Exists(orgInvites, i) /\ \A k \in 1..(i - 1) : Exists(orgInvites, k)
               /\ orgInvites' = [orgInvites EXCEPT ![i] = [org |-> o, email |-> e, by |-> reqs[r].by,
                                                          state |-> "pending", expired |-> FALSE]]
    /\ UNCHANGED <<world, users, known, links, resends, invites, tokens, revoked, faults, peak,
                   orgs, members, accepts>>

RevokeOrgInvite(t, i) ==
    /\ Serves("invite") /\ Admitted(t) /\ Pending(i) /\ ~Locked(i)
    /\ orgInvites' = [orgInvites EXCEPT ![i].state = "revoked"]
    /\ UNCHANGED <<world, users, known, links, resends, invites, tokens, revoked, reqs, peak,
                   orgs, members, accepts>>

OrgInviteExpires(i) ==
    /\ Serves("accept") /\ Valid(i)
    /\ orgInvites' = [orgInvites EXCEPT ![i].expired = TRUE]
    /\ UNCHANGED <<world, users, known, links, resends, invites, tokens, revoked, reqs, faults, peak,
                   orgs, members, accepts>>

-----------------------------------------------------------------------------
(* AcceptInvite: the handler reads invite, account and membership; the      *)
(* transaction locks the invite's row, repeats the checks, counts the       *)
(* members against the seats, and commits; then the token is signed.        *)

AcceptLoad(r, i) ==
    /\ Serves("accept") /\ Free(r) /\ Valid(i)
    /\ LET u == UserByEmail(orgInvites[i].email) IN
       /\ u # NoOne => users[u].status = "active" /\ members[u] = NoOrg
       /\ Move(r, [at |-> "accept", orgInvite |-> i, user |-> u, email |-> orgInvites[i].email,
                   role |-> IF u = NoOne THEN "user" ELSE users[u].role])
    /\ UNCHANGED <<world, users, known, links, resends, invites, tokens, revoked, faults, peak, orgVars>>

\* Mutant: the count may reach the limit before the new member is added.
SeatFreeInclusive(o) == Cardinality(MembersOf(o)) <= orgs[o].seatLimit

\* memberCount >= seatLimit is refused.
SeatFree(o) == Cardinality(MembersOf(o)) < orgs[o].seatLimit

Accepting(rs, o) == {r \in Requests : rs[r].at = "commit" /\ rs[r].org = o}

AcceptCheck(r) ==
    /\ At(r, "accept")
    /\ LET i == reqs[r].orgInvite  u == reqs[r].user  o == orgInvites[i].org IN
       /\ ~Locked(i)
       /\ IF Valid(i) /\ orgs[o].status = "active" /\ SeatFree(o)
             /\ (u # NoOne => members[u] = NoOrg)
          THEN /\ Move(r, [at |-> "commit", orgInvite |-> i, user |-> u, email |-> reqs[r].email,
                           role |-> reqs[r].role, org |-> o])
               /\ accepts' = [accepts EXCEPT ![o] = Larger(@, Cardinality(Accepting(reqs', o)))]
          ELSE Done(r) /\ UNCHANGED accepts
    /\ UNCHANGED <<world, users, known, links, resends, invites, tokens, revoked, faults, peak,
                   orgs, members, orgInvites>>

\* An account that is not in the table is inserted, verified: a new one, and also
\* one that was read before and deleted since, as it was read.  users.email and
\* org_members.user_id are unique: the loser of a race rolls back.
AcceptCommit(r) ==
    /\ At(r, "commit")
    /\ LET e == reqs[r].email
           new == reqs[r].user = NoOne
           u == IF new THEN known + 1 ELSE reqs[r].user
           refused == UsersAt(e) \ {u} # {} \/ (~new /\ members[u] # NoOrg)
       IN IF refused
          THEN Done(r) /\ UNCHANGED <<users, known, members, orgInvites>>
          ELSE /\ new => known < MaxUsers
               /\ users' = [users EXCEPT ![u] = IF Exists(users, u) THEN [@ EXCEPT !.verified = TRUE]
                              ELSE [NewUser(e) EXCEPT !.role = reqs[r].role, !.verified = TRUE]]
               /\ known' = IF new THEN u ELSE known
               /\ members' = [members EXCEPT ![u] = reqs[r].org]
               /\ orgInvites' = [orgInvites EXCEPT ![reqs[r].orgInvite].state = "accepted"]
               /\ Move(r, [at |-> "sign", user |-> u, role |-> reqs[r].role])
    /\ UNCHANGED <<world, links, resends, invites, tokens, revoked, faults, peak, orgs, accepts>>

\* DeleteUser removes the user's organisations first, with their members and
\* invites; invites the user made to somebody else's organisation keep the row.
Delete(r) ==
    LET u == reqs[r].user
        own == {o \in Orgs : Exists(orgs, o) /\ orgs[o].owner = u}
        held == \E i \in OrgInviteIds :
                    Exists(orgInvites, i) /\ orgInvites[i].by = u /\ orgInvites[i].org \notin own
        gone == users'[u] = NoRow /\ Exists(users, u)
    IN /\ At(r, "delete")
       /\ \A i \in OrgInviteIds : Exists(orgInvites, i) /\ orgInvites[i].org \in own => ~Locked(i)
       /\ DeleteUser(r, held)
       /\ orgs' = [o \in Orgs |-> IF gone /\ o \in own THEN NoRow ELSE orgs[o]]
       /\ members' = [m \in UserIds |-> IF gone /\ (m = u \/ members[m] \in own) THEN NoOrg ELSE members[m]]
       /\ orgInvites' = [i \in OrgInviteIds |->
                            IF gone /\ Exists(orgInvites, i) /\ orgInvites[i].org \in own
                            THEN NoRow ELSE orgInvites[i]]
       /\ UNCHANGED accepts

-----------------------------------------------------------------------------
ASSUME OrgConstantsOK ==
    /\ NoOrg \notin Orgs
    /\ \A w \in Worlds : w.owner # NoOne => w.seatLimit \in Nat \ {0}   \* a seat for the owner

Init ==
    /\ UserInit
    /\ orgs = [o \in Orgs |-> IF world.owner = NoOne THEN NoRow
                              ELSE [owner |-> world.owner, seatLimit |-> world.seatLimit, status |-> "active"]]
    /\ members = [u \in UserIds |-> IF u = world.owner THEN CHOOSE o \in Orgs : TRUE ELSE NoOrg]
    /\ orgInvites = [i \in OrgInviteIds |-> IF i <= Len(world.orgInvites) THEN world.orgInvites[i] ELSE NoRow]
    /\ accepts = [o \in Orgs |-> 0]

OrgNext ==
    \/ \E r \in Requests :
          \/ CountPending(r) \/ LookUpInvitee(r) \/ InsertOrgInvite(r)
          \/ AcceptCheck(r) \/ AcceptCommit(r) \/ Delete(r)
          \/ \E i \in OrgInviteIds : AcceptLoad(r, i)
          \/ \E t \in TokenIds, o \in Orgs, e \in world.emails : CountMembers(r, t, o, e)
    \/ \E t \in TokenIds, i \in OrgInviteIds : RevokeOrgInvite(t, i)
    \/ \E i \in OrgInviteIds : OrgInviteExpires(i)

Next == OrgNext \/ (UserNext /\ UNCHANGED orgVars)
Spec == Init /\ [][Next]_vars

-----------------------------------------------------------------------------
(* Rows of the organisations refer to rows that exist; one organisation a user. *)
TypeOK ==
    /\ UserTypeOK
    /\ \A o \in Orgs : Exists(orgs, o) => orgs[o] \in OrgRows /\ Exists(users, orgs[o].owner)
    /\ \A u \in UserIds : members[u] # NoOrg => Exists(users, u) /\ Exists(orgs, members[u])
    /\ \A i \in OrgInviteIds : Exists(orgInvites, i) =>
          orgInvites[i] \in OrgInviteRows /\ Exists(users, orgInvites[i].by) /\ Exists(orgs, orgInvites[i].org)

(* The members of an organisation exceed its seats by no more than the          *)
(* acceptances that overlapped another one: AcceptOrgInvite counts the members  *)
(* without locking the organisation, and accepts of two invites can both see    *)
(* the last free seat.                                                          *)
SeatsWithinOverlap ==
    \A o \in Orgs : Exists(orgs, o) =>
        Cardinality(MembersOf(o)) <= orgs[o].seatLimit + Larger(accepts[o], 1) - 1
=============================================================================
