-------------------------- MODULE OrgInvitesProofs --------------------------
(* The administrator's claims, for every number of users, tokens, requests,  *)
(* organisations and invites, and every kind and number of faults.           *)
EXTENDS OrgInvites, FiniteSetTheorems, TLAPS

Roles == {"user", "admin"}
AdminIn(us, u) == u \in UserIds /\ us[u] # NoRow /\ us[u].role = "admin"

\* Requests that hold a role read from a row, and those about to delete one.
Carrying == {"sign", "accept", "commit"}
Joining == {"accept", "commit"}
Quiet(job) == "at" \in DOMAIN job /\ job.at \notin Carrying \cup {"delete"}

RowOK(row, u, n) ==
    row # NoRow => "role" \in DOMAIN row /\ row.role \in Roles /\ u <= n
TokenOK(claims, us) ==
    claims # NoRow /\ claims.role = "admin" => AdminIn(us, claims.user)
JobOK(job, us, n) ==
    /\ "at" \in DOMAIN job
    /\ job.at \in Carrying /\ job.role = "admin" => AdminIn(us, job.user)
    /\ job.at \in Joining => job.role \in Roles /\ job.user \in 0..n
    /\ job.at = "delete" => ~AdminIn(us, job.user)

UsersInv ==
    DOMAIN users = UserIds /\ known \in Nat /\ \A u \in UserIds : RowOK(users[u], u, known)
TokensInv == DOMAIN tokens = TokenIds /\ \A t \in TokenIds : TokenOK(tokens[t], users)
RequestsInv == DOMAIN reqs = Requests /\ \A r \in Requests : JobOK(reqs[r], users, known)

(* A deletion in flight aims at no administrator, and a role read from a row  *)
(* is still that row's: only a restart promotes, and it drops the requests.   *)
AdminInv == UsersInv /\ TokensInv /\ RequestsInv

-----------------------------------------------------------------------------
(* What a step may do to the rows, the tokens and the requests. *)

SameAdmins ==
    /\ UsersInv' /\ known <= known'
    /\ \A u \in UserIds : AdminIn(users', u) <=> AdminIn(users, u)
FewerTokens ==
    /\ DOMAIN tokens' = TokenIds
    /\ \A t \in TokenIds : tokens'[t] \in {NoRow, tokens[t]}
QuietMove ==
    \/ reqs' = reqs
    \/ \E r \in Requests : \E job : Quiet(job) /\ reqs' = [reqs EXCEPT ![r] = job]

LEMMA AdminsNamed ==
    ASSUME SameAdmins
    PROVE  \A u : AdminIn(users', u) <=> AdminIn(users, u)
  BY DEF SameAdmins, AdminIn

LEMMA JobKept ==
    ASSUME UsersInv, SameAdmins, NEW job, JobOK(job, users, known)
    PROVE  JobOK(job, users', known')
<1>1. 0..known \subseteq 0..known'
  BY DEF SameAdmins, UsersInv
<1> QED
  BY <1>1, AdminsNamed DEF JobOK

LEMMA QuietJobOK ==
    ASSUME NEW job, Quiet(job), NEW us, NEW n
    PROVE  JobOK(job, us, n)
  BY DEF Quiet, JobOK, Carrying, Joining

LEMMA TokensKept ==
    ASSUME TokensInv, SameAdmins, FewerTokens
    PROVE  TokensInv'
  BY AdminsNamed DEF TokensInv, FewerTokens, TokenOK

\* One request moves on to a job that is in order; the other requests stay.
LEMMA RequestMoves ==
    ASSUME UsersInv, RequestsInv, SameAdmins, NEW r \in Requests, NEW job,
           JobOK(job, users', known'), reqs' = [reqs EXCEPT ![r] = job]
    PROVE  RequestsInv'
<1>1. DOMAIN reqs' = Requests
  BY DEF RequestsInv
<1>2. ASSUME NEW q \in Requests PROVE JobOK(reqs'[q], users', known')
  <2>1. CASE q = r
    BY <2>1 DEF RequestsInv
  <2>2. CASE q # r
    <3>1. reqs'[q] = reqs[q]
      BY <2>2 DEF RequestsInv
    <3> QED
      BY <3>1, JobKept DEF RequestsInv
  <2> QED
    BY <2>1, <2>2
<1> QED
  BY <1>1, <1>2 DEF RequestsInv

LEMMA QuietStep ==
    ASSUME AdminInv, SameAdmins, FewerTokens, QuietMove
    PROVE  AdminInv'
<1>1. RequestsInv'
  <2>1. CASE reqs' = reqs
    BY <2>1, JobKept DEF AdminInv, RequestsInv
  <2>2. CASE \E r \in Requests : \E job : Quiet(job) /\ reqs' = [reqs EXCEPT ![r] = job]
    BY <2>2, QuietJobOK, RequestMoves DEF AdminInv
  <2> QED
    BY <2>1, <2>2 DEF QuietMove
<1> QED
  BY <1>1, TokensKept DEF AdminInv, SameAdmins

-----------------------------------------------------------------------------
(* The rows that steps write. *)

LEMMA RowsUntouched ==
    ASSUME UsersInv, users' = users, known' = known
    PROVE  SameAdmins
  BY DEF SameAdmins, UsersInv

LEMMA TokensUntouched ==
    ASSUME TokensInv, tokens' = tokens
    PROVE  FewerTokens
  BY DEF FewerTokens, TokensInv

\* An update of a row that is not there changes nothing.
LEMMA NoRowToUpdate ==
    /\ \A b : [NoRow EXCEPT !.verified = b] = NoRow
    /\ \A s : [NoRow EXCEPT !.status = s] = NoRow
  BY DEF NoRow

\* One row changes, and its role stays.
LEMMA OneRowChanges ==
    ASSUME UsersInv, NEW u, NEW row, users' = [users EXCEPT ![u] = row], known' = known,
           u \in UserIds => RowOK(row, u, known),
           u \in UserIds => (row # NoRow /\ row.role = "admin" <=> users[u] # NoRow /\ users[u].role = "admin")
    PROVE  SameAdmins
<1>1. \A v \in UserIds : users'[v] = IF v = u THEN row ELSE users[v]
  BY DEF UsersInv
<1>2. UsersInv'
  BY <1>1 DEF UsersInv
<1> QED
  BY <1>1, <1>2 DEF SameAdmins, AdminIn, UsersInv

LEMMA Verifies ==
    ASSUME UsersInv, NEW u, NEW b, users' = [users EXCEPT ![u].verified = b], known' = known
    PROVE  SameAdmins
<1> DEFINE row == [users[u] EXCEPT !.verified = b]
<1>1. u \in UserIds => RowOK(row, u, known)
  BY NoRowToUpdate DEF UsersInv, RowOK
<1>2. u \in UserIds => (row # NoRow /\ row.role = "admin" <=> users[u] # NoRow /\ users[u].role = "admin")
  BY NoRowToUpdate DEF UsersInv, RowOK, NoRow
<1>3. users' = [users EXCEPT ![u] = row]
  OBVIOUS
<1> HIDE DEF row
<1> QED
  BY <1>1, <1>2, <1>3, OneRowChanges

LEMMA Suspends ==
    ASSUME UsersInv, NEW u, NEW s, users' = [users EXCEPT ![u].status = s], known' = known
    PROVE  SameAdmins
<1> DEFINE row == [users[u] EXCEPT !.status = s]
<1>1. u \in UserIds => RowOK(row, u, known)
  BY NoRowToUpdate DEF UsersInv, RowOK
<1>2. u \in UserIds => (row # NoRow /\ row.role = "admin" <=> users[u] # NoRow /\ users[u].role = "admin")
  BY NoRowToUpdate DEF UsersInv, RowOK, NoRow
<1>3. users' = [users EXCEPT ![u] = row]
  OBVIOUS
<1> HIDE DEF row
<1> QED
  BY <1>1, <1>2, <1>3, OneRowChanges

\* A new user takes the next number and is no administrator.
LEMMA UserAdded ==
    ASSUME UsersInv, NEW row, row # NoRow, "role" \in DOMAIN row, row.role = "user",
           known' = known + 1, users' = [users EXCEPT ![known + 1] = row]
    PROVE  SameAdmins
<1>1. \A v \in UserIds : users'[v] = IF v = known + 1 THEN row ELSE users[v]
  BY DEF UsersInv
<1>2. \A v \in UserIds : v = known + 1 => users[v] = NoRow
  BY DEF UsersInv, RowOK, UserIds
<1>3. \A v \in UserIds : RowOK(users'[v], v, known')
  BY <1>1 DEF UsersInv, RowOK, Roles, UserIds
<1>4. UsersInv'
  BY <1>3 DEF UsersInv
<1> QED
  BY <1>1, <1>2, <1>4 DEF SameAdmins, AdminIn, UsersInv

-----------------------------------------------------------------------------
(* The steps that leave requests quiet. *)

LEMMA MoveQuiet ==
    ASSUME NEW r \in Requests, NEW job, Quiet(job), Move(r, job)
    PROVE  QuietMove
  BY DEF Move, QuietMove

LEMMA DoneQuiet ==
    ASSUME NEW r \in Requests, Done(r)
    PROVE  QuietMove
<1>1. Quiet(Idle)
  BY DEF Quiet, Idle, Carrying
<1> QED
  BY <1>1, MoveQuiet DEF Done

LEMMA StepQuiet ==
    ASSUME RequestsInv, NEW r \in Requests, NEW s, s \notin Carrying \cup {"delete"}, Step(r, s)
    PROVE  QuietMove
<1>1. Quiet([reqs[r] EXCEPT !.at = s])
  BY DEF Quiet, RequestsInv, JobOK
<1> QED
  BY <1>1, MoveQuiet DEF Step

LEMMA RegistrationQuiet ==
    ASSUME AdminInv, NEW r \in Requests
    PROVE  /\ \A e, i : Register(r, e, i) => AdminInv'
           /\ RegisterCreate(r) \/ RegisterMark(r) \/ RegisterVerify(r) => AdminInv'
<1> USE DEF AdminInv
<1>1. ASSUME NEW e, NEW i, Register(r, e, i) PROVE AdminInv'
  <2>1. Quiet([at |-> "create", email |-> e, invite |-> i])
    BY DEF Quiet, Carrying
  <2>2. QuietMove
    BY <1>1, <2>1, MoveQuiet DEF Register
  <2> QED
    BY <1>1, <2>2, RowsUntouched, TokensUntouched, QuietStep DEF Register
<1>2. ASSUME RegisterCreate(r) PROVE AdminInv'
  <2> DEFINE e == reqs[r].email
             job == [at |-> IF reqs[r].invite = NoOne THEN Welcome ELSE "mark",
                     email |-> e, user |-> known + 1, invite |-> reqs[r].invite]
  <2>1. FewerTokens
    BY <1>2, TokensUntouched DEF RegisterCreate
  <2>2. CASE Done(r) /\ UNCHANGED <<users, known>>
    BY <2>1, <2>2, DoneQuiet, RowsUntouched, QuietStep
  <2>3. CASE /\ users' = [users EXCEPT ![known + 1] = NewUser(e)]
             /\ known' = known + 1 /\ Move(r, job)
    <3>1. NewUser(e) # NoRow /\ "role" \in DOMAIN NewUser(e) /\ NewUser(e).role = "user"
      BY DEF NewUser, NoRow
    <3>2. Quiet(job)
      BY DEF Quiet, Carrying, Welcome
    <3>3. SameAdmins
      BY <2>3, <3>1, UserAdded
    <3>4. QuietMove
      BY <2>3, <3>2, MoveQuiet
    <3> QED
      BY <2>1, <3>3, <3>4, QuietStep
  <2> QED
    BY <1>2, <2>2, <2>3 DEF RegisterCreate
<1>3. ASSUME RegisterMark(r) PROVE AdminInv'
  <2>1. Welcome \notin Carrying \cup {"delete"}
    BY DEF Welcome, Carrying
  <2>2. QuietMove
    BY <1>3, <2>1, StepQuiet DEF RegisterMark
  <2> QED
    BY <1>3, <2>2, RowsUntouched, TokensUntouched, QuietStep DEF RegisterMark
<1>4. ASSUME RegisterVerify(r) PROVE AdminInv'
  <2>1. SameAdmins
    BY <1>4, RowsUntouched, Verifies DEF RegisterVerify
  <2> QED
    BY <1>4, <2>1, DoneQuiet, TokensUntouched, QuietStep DEF RegisterVerify
<1> QED
  BY <1>1, <1>2, <1>3, <1>4

LEMMA LinksQuiet ==
    ASSUME AdminInv, NEW r \in Requests
    PROVE  /\ IssueInvalidate(r) \/ IssueInsert(r) \/ IssueMail(r) => AdminInv'
           /\ \A e : ResendVerification(r, e) => AdminInv'
           /\ \A l : VerifyEmail(r, l) => AdminInv'
           /\ ResendLookUp(r) \/ VerifyConsume(r) => AdminInv'
<1> USE DEF AdminInv
<1>1. ASSUME IssueInvalidate(r) PROVE AdminInv'
  <2>1. QuietMove
    BY <1>1, StepQuiet DEF IssueInvalidate, Carrying
  <2> QED
    BY <1>1, <2>1, RowsUntouched, TokensUntouched, QuietStep DEF IssueInvalidate
<1>2. ASSUME IssueInsert(r) PROVE AdminInv'
  <2>1. \A l : Quiet([at |-> "mail", link |-> l])
    BY DEF Quiet, Carrying
  <2>2. QuietMove
    BY <1>2, <2>1, MoveQuiet, DoneQuiet DEF IssueInsert
  <2> QED
    BY <1>2, <2>2, RowsUntouched, TokensUntouched, QuietStep DEF IssueInsert
<1>3. ASSUME IssueMail(r) PROVE AdminInv'
  BY <1>3, DoneQuiet, RowsUntouched, TokensUntouched, QuietStep DEF IssueMail
<1>4. ASSUME NEW e, ResendVerification(r, e) PROVE AdminInv'
  <2>1. Quiet([at |-> "look up", email |-> e])
    BY DEF Quiet, Carrying
  <2>2. QuietMove
    <3>1. CASE reqs' = reqs
      BY <3>1 DEF QuietMove
    <3>2. CASE Move(r, [at |-> "look up", email |-> e])
      BY <2>1, <3>2, MoveQuiet
    <3> QED
      BY <1>4, <3>1, <3>2 DEF ResendVerification
  <2> QED
    BY <1>4, <2>2, RowsUntouched, TokensUntouched, QuietStep DEF ResendVerification
<1>5. ASSUME NEW l, VerifyEmail(r, l) PROVE AdminInv'
  <2>1. Quiet([at |-> "consume", link |-> l, user |-> links[l].user])
    BY DEF Quiet, Carrying
  <2>2. QuietMove
    BY <1>5, <2>1, MoveQuiet DEF VerifyEmail
  <2> QED
    BY <1>5, <2>2, RowsUntouched, TokensUntouched, QuietStep DEF VerifyEmail
<1>6. ASSUME ResendLookUp(r) PROVE AdminInv'
  <2>1. Quiet([at |-> "invalidate", user |-> UserByEmail(reqs[r].email)])
    BY DEF Quiet, Carrying
  <2>2. QuietMove
    BY <1>6, <2>1, MoveQuiet, DoneQuiet DEF ResendLookUp
  <2> QED
    BY <1>6, <2>2, RowsUntouched, TokensUntouched, QuietStep DEF ResendLookUp
<1>7. ASSUME VerifyConsume(r) PROVE AdminInv'
  <2>1. SameAdmins
    BY <1>7, RowsUntouched, Verifies DEF VerifyConsume
  <2> QED
    BY <1>7, <2>1, DoneQuiet, TokensUntouched, QuietStep DEF VerifyConsume
<1> QED
  BY <1>1, <1>2, <1>3, <1>4, <1>5, <1>6, <1>7

LEMMA AdminQuiet ==
    ASSUME AdminInv, NEW r \in Requests
    PROVE  /\ \A t, u, patch : PatchLoad(r, t, u, patch) => AdminInv'
           /\ PatchStatus(r) \/ PatchVerified(r) => AdminInv'
           /\ ClearResends(r) \/ RequestFails(r) => AdminInv'
<1> USE DEF AdminInv
<1>1. ASSUME NEW t, NEW u, NEW patch, PatchLoad(r, t, u, patch) PROVE AdminInv'
  <2>1. Quiet([at |-> "patch status", user |-> u, patch |-> patch])
    BY DEF Quiet, Carrying
  <2>2. QuietMove
    BY <1>1, <2>1, MoveQuiet DEF PatchLoad
  <2> QED
    BY <1>1, <2>2, RowsUntouched, TokensUntouched, QuietStep DEF PatchLoad
<1>2. ASSUME PatchStatus(r) PROVE AdminInv'
  <2>1. SameAdmins
    BY <1>2, RowsUntouched, Suspends DEF PatchStatus
  <2>2. QuietMove
    BY <1>2, StepQuiet, DoneQuiet DEF PatchStatus, Carrying
  <2> QED
    BY <1>2, <2>1, <2>2, TokensUntouched, QuietStep DEF PatchStatus
<1>3. ASSUME PatchVerified(r) PROVE AdminInv'
  <2>1. SameAdmins
    BY <1>3, RowsUntouched, Verifies DEF PatchVerified
  <2> QED
    BY <1>3, <2>1, DoneQuiet, TokensUntouched, QuietStep DEF PatchVerified
<1>4. ASSUME ClearResends(r) PROVE AdminInv'
  BY <1>4, DoneQuiet, RowsUntouched, TokensUntouched, QuietStep DEF ClearResends
<1>5. ASSUME RequestFails(r) PROVE AdminInv'
  BY <1>5, DoneQuiet, RowsUntouched, TokensUntouched, QuietStep DEF RequestFails
<1> QED
  BY <1>1, <1>2, <1>3, <1>4, <1>5

-----------------------------------------------------------------------------
(* The steps of no request, and those of the organisations that are quiet. *)

LEMMA OthersQuiet ==
    ASSUME AdminInv
    PROVE  /\ \A x : ResendHourPasses(x) \/ LinkExpires(x) \/ InviteExpires(x) => AdminInv'
           /\ \A t : Logout(t) \/ TokenExpires(t) => AdminInv'
           /\ \A t, x : CreatePlatformInvite(t, x) \/ RevokePlatformInvite(t, x) => AdminInv'
           /\ \A t, i : RevokeOrgInvite(t, i) => AdminInv'
           /\ \A i : OrgInviteExpires(i) => AdminInv'
           /\ UNCHANGED vars => AdminInv'
<1> USE DEF AdminInv
<1>1. ASSUME users' = users, known' = known, reqs' = reqs, FewerTokens PROVE AdminInv'
  BY <1>1, RowsUntouched, QuietStep DEF QuietMove
<1>2. ASSUME users' = users, known' = known, reqs' = reqs, tokens' = tokens PROVE AdminInv'
  BY <1>1, <1>2, TokensUntouched
<1>3. ASSUME NEW x, ResendHourPasses(x) \/ LinkExpires(x) \/ InviteExpires(x) PROVE AdminInv'
  BY <1>2, <1>3 DEF ResendHourPasses, LinkExpires, InviteExpires
<1>4. ASSUME NEW t, Logout(t) PROVE AdminInv'
  BY <1>2, <1>4 DEF Logout
<1>5. ASSUME NEW t, TokenExpires(t) PROVE AdminInv'
  <2>1. FewerTokens
    BY <1>5 DEF TokenExpires, FewerTokens, TokensInv
  <2> QED
    BY <1>1, <1>5, <2>1 DEF TokenExpires
<1>6. ASSUME NEW t, NEW x, CreatePlatformInvite(t, x) \/ RevokePlatformInvite(t, x) PROVE AdminInv'
  BY <1>2, <1>6 DEF CreatePlatformInvite, RevokePlatformInvite
<1>7. ASSUME NEW t, NEW i, RevokeOrgInvite(t, i) PROVE AdminInv'
  BY <1>2, <1>7 DEF RevokeOrgInvite
<1>8. ASSUME NEW i, OrgInviteExpires(i) PROVE AdminInv'
  BY <1>2, <1>8 DEF OrgInviteExpires
<1>9. ASSUME UNCHANGED vars PROVE AdminInv'
  BY <1>2, <1>9 DEF vars, userVars
<1> QED
  BY <1>3, <1>4, <1>5, <1>6, <1>7, <1>8, <1>9

LEMMA InvitingQuiet ==
    ASSUME AdminInv, NEW r \in Requests
    PROVE  /\ \A t, o, e : CountMembers(r, t, o, e) => AdminInv'
           /\ CountPending(r) \/ LookUpInvitee(r) \/ InsertOrgInvite(r) => AdminInv'
<1> USE DEF AdminInv
<1>1. ASSUME NEW t, NEW o, NEW e, CountMembers(r, t, o, e) PROVE AdminInv'
  <2> DEFINE job == [at |-> "count pending", org |-> o, email |-> e, by |-> tokens[t].user,
                     seats |-> Cardinality(MembersOf(o)), limit |-> orgs[o].seatLimit]
  <2>1. Quiet(job)
    BY DEF Quiet, Carrying
  <2>2. Move(r, job)
    BY <1>1 DEF CountMembers
  <2> HIDE DEF job
  <2>3. QuietMove
    BY <2>1, <2>2, MoveQuiet
  <2> QED
    BY <1>1, <2>3, RowsUntouched, TokensUntouched, QuietStep DEF CountMembers
<1>2. ASSUME CountPending(r) PROVE AdminInv'
  <2>1. QuietMove
    BY <1>2, StepQuiet, DoneQuiet DEF CountPending, Carrying
  <2> QED
    BY <1>2, <2>1, RowsUntouched, TokensUntouched, QuietStep DEF CountPending
<1>3. ASSUME LookUpInvitee(r) PROVE AdminInv'
  <2>1. QuietMove
    BY <1>3, StepQuiet, DoneQuiet DEF LookUpInvitee, Carrying
  <2> QED
    BY <1>3, <2>1, RowsUntouched, TokensUntouched, QuietStep DEF LookUpInvitee
<1>4. ASSUME InsertOrgInvite(r) PROVE AdminInv'
  BY <1>4, DoneQuiet, RowsUntouched, TokensUntouched, QuietStep DEF InsertOrgInvite
<1> QED
  BY <1>1, <1>2, <1>3, <1>4

-----------------------------------------------------------------------------
(* The steps that read a role, hand it on, or delete. *)

LEMMA UserFound ==
    ASSUME UsersInv, NEW e, UserByEmail(e) # NoOne
    PROVE  /\ UserByEmail(e) \in UserIds /\ users[UserByEmail(e)] # NoRow
           /\ UserByEmail(e) \in 1..known
           /\ users[UserByEmail(e)].role \in Roles
<1>1. UserByEmail(e) \in UsersAt(e)
  BY DEF UserByEmail
<1> QED
  BY <1>1 DEF UsersAt, Exists, UsersInv, RowOK, UserIds

LEMMA LoginReads ==
    ASSUME AdminInv, NEW r \in Requests, NEW e, Login(r, e)
    PROVE  AdminInv'
<1> DEFINE u == UserByEmail(e)
           job == [at |-> "sign", user |-> u, role |-> users[u].role]
<1>1. u \in UserIds /\ users[u] # NoRow /\ SameAdmins /\ FewerTokens
  BY UserFound, RowsUntouched, TokensUntouched DEF AdminInv, Login
<1>2. JobOK(job, users', known')
  BY <1>1 DEF Login, JobOK, AdminIn, Joining
<1>3. reqs' = [reqs EXCEPT ![r] = job]
  BY DEF Login, Move
<1> HIDE DEF job
<1> QED
  BY <1>1, <1>2, <1>3, RequestMoves, TokensKept DEF AdminInv, SameAdmins

LEMMA SignHands ==
    ASSUME AdminInv, NEW r \in Requests, Sign(r)
    PROVE  AdminInv'
<1>1. SameAdmins
  BY RowsUntouched DEF AdminInv, Sign
<1>2. RequestsInv'
  <2>1. JobOK(Idle, users', known')
    BY DEF JobOK, Idle, Carrying, Joining
  <2> QED
    BY <1>1, <2>1, RequestMoves DEF AdminInv, Sign, Done, Move
<1>3. TokensInv'
  <2>1. PICK t \in TokenIds :
          tokens' = [tokens EXCEPT ![t] = [user |-> reqs[r].user, role |-> reqs[r].role]]
    BY DEF Sign
  <2>2. TokenOK([user |-> reqs[r].user, role |-> reqs[r].role], users)
    BY DEF AdminInv, RequestsInv, JobOK, Sign, At, Carrying, TokenOK
  <2> QED
    BY <2>1, <2>2 DEF AdminInv, TokensInv, Sign
<1> QED
  BY <1>1, <1>2, <1>3 DEF AdminInv, SameAdmins

LEMMA DeleteAims ==
    ASSUME AdminInv, NEW r \in Requests, NEW t, NEW u, DeleteLoad(r, t, u)
    PROVE  AdminInv'
<1> DEFINE job == [at |-> "delete", user |-> u, email |-> users[u].email]
<1>1. SameAdmins /\ FewerTokens
  BY RowsUntouched, TokensUntouched DEF AdminInv, DeleteLoad
<1>2. JobOK(job, users', known')
  BY DEF DeleteLoad, Deletable, JobOK, AdminIn, Carrying, Joining
<1>3. reqs' = [reqs EXCEPT ![r] = job]
  BY DEF DeleteLoad, Move
<1> HIDE DEF job
<1> QED
  BY <1>1, <1>2, <1>3, RequestMoves, TokensKept DEF AdminInv, SameAdmins

LEMMA DeleteSpares ==
    ASSUME AdminInv, NEW r \in Requests, NEW held, DeleteUser(r, held)
    PROVE  AdminInv'
<1> USE DEF AdminInv
<1>1. FewerTokens
  BY TokensUntouched DEF DeleteUser
<1>2. CASE Done(r) /\ UNCHANGED users
  BY <1>1, <1>2, DoneQuiet, RowsUntouched, QuietStep DEF DeleteUser
<1>3. CASE users' = [users EXCEPT ![reqs[r].user] = NoRow] /\ Step(r, "clear resends")
  <2>1. ~AdminIn(users, reqs[r].user)
    BY DEF RequestsInv, JobOK, DeleteUser, At
  <2>2. SameAdmins
    BY <1>3, <2>1, OneRowChanges DEF DeleteUser, AdminIn, RowOK
  <2>3. QuietMove
    BY <1>3, StepQuiet DEF Carrying
  <2> QED
    BY <1>1, <2>2, <2>3, QuietStep
<1> QED
  BY <1>2, <1>3 DEF DeleteUser

LEMMA AcceptReads ==
    ASSUME AdminInv, NEW r \in Requests, NEW i, AcceptLoad(r, i)
    PROVE  AdminInv'
<1> DEFINE u == UserByEmail(orgInvites[i].email)
           job == [at |-> "accept", orgInvite |-> i, user |-> u, email |-> orgInvites[i].email,
                   role |-> IF u = NoOne THEN "user" ELSE users[u].role]
<1>1. SameAdmins /\ FewerTokens
  BY RowsUntouched, TokensUntouched DEF AdminInv, AcceptLoad
<1>2. u # NoOne => u \in UserIds /\ users[u] # NoRow /\ u \in 1..known /\ users[u].role \in Roles
  BY UserFound DEF AdminInv
<1>3. u \in 0..known
  BY <1>2 DEF AdminInv, UsersInv, NoOne
<1>4. JobOK(job, users', known')
  <2> HIDE DEF u
  <2> QED
    BY <1>2, <1>3 DEF AcceptLoad, JobOK, AdminIn, Joining, Carrying, Roles
<1>5. reqs' = [reqs EXCEPT ![r] = job]
  BY DEF AcceptLoad, Move
<1> HIDE DEF job
<1> QED
  BY <1>1, <1>4, <1>5, RequestMoves, TokensKept DEF AdminInv, SameAdmins

LEMMA AcceptHands ==
    ASSUME AdminInv, NEW r \in Requests, AcceptCheck(r)
    PROVE  AdminInv'
<1> USE DEF AdminInv
<1> DEFINE job == [at |-> "commit", orgInvite |-> reqs[r].orgInvite, user |-> reqs[r].user,
                   email |-> reqs[r].email, role |-> reqs[r].role,
                   org |-> orgInvites[reqs[r].orgInvite].org]
<1>1. SameAdmins /\ FewerTokens
  BY RowsUntouched, TokensUntouched DEF AcceptCheck
<1>2. CASE Done(r)
  BY <1>1, <1>2, DoneQuiet, QuietStep
<1>3. CASE Move(r, job)
  <2>1. JobOK(reqs[r], users, known) /\ reqs[r].at = "accept"
    BY DEF RequestsInv, AcceptCheck, At
  <2>2. JobOK(job, users, known)
    BY <2>1 DEF JobOK, Carrying, Joining
  <2>3. JobOK(job, users', known')
    BY <2>2, JobKept, <1>1
  <2>4. reqs' = [reqs EXCEPT ![r] = job]
    BY <1>3 DEF Move
  <2> HIDE DEF job
  <2> QED
    BY <1>1, <2>3, <2>4, RequestMoves, TokensKept DEF SameAdmins
<1> QED
  BY <1>2, <1>3 DEF AcceptCheck

\* A row that was there keeps its role; one that was not comes back as it was
\* read, and no administrator's row can have been deleted in between.
LEMMA AcceptJoins ==
    ASSUME AdminInv, NEW r \in Requests, AcceptCommit(r)
    PROVE  AdminInv'
<1> USE DEF AdminInv
<1> DEFINE e == reqs[r].email
           new == reqs[r].user = NoOne
           u == IF new THEN known + 1 ELSE reqs[r].user
           row == IF Exists(users, u) THEN [users[u] EXCEPT !.verified = TRUE]
                  ELSE [NewUser(e) EXCEPT !.role = reqs[r].role, !.verified = TRUE]
           job == [at |-> "sign", user |-> u, role |-> reqs[r].role]
<1>1. FewerTokens
  BY TokensUntouched DEF AcceptCommit
<1>2. CASE Done(r) /\ UNCHANGED <<users, known>>
  BY <1>1, <1>2, DoneQuiet, RowsUntouched, QuietStep
<1>3. CASE /\ users' = [users EXCEPT ![u] = row]
           /\ known' = (IF new THEN u ELSE known)
           /\ Move(r, job)
  <2>1. /\ reqs[r].role \in Roles /\ reqs[r].user \in 0..known
        /\ reqs[r].role = "admin" => AdminIn(users, reqs[r].user)
    BY DEF RequestsInv, JobOK, AcceptCommit, At, Carrying, Joining
  <2>2. known \in Nat
    BY DEF UsersInv
  <2>3. /\ new => known' = known + 1 /\ u = known + 1 /\ reqs[r].role = "user"
        /\ ~new => known' = known /\ u = reqs[r].user
        /\ u \in 1..known' /\ known <= known'
    BY <1>3, <2>1, <2>2 DEF Roles, AdminIn, UserIds, NoOne
  <2>4. u \in UserIds /\ new => users[u] = NoRow
    BY <2>2, <2>3 DEF UsersInv, RowOK, UserIds
  <2>5. /\ u \in UserIds => row # NoRow /\ "role" \in DOMAIN row
        /\ u \in UserIds /\ users[u] # NoRow => row.role = users[u].role
        /\ u \in UserIds /\ users[u] = NoRow => row.role = reqs[r].role
    <3>1. CASE users[u] # NoRow
      <4>1. u \in UserIds => "role" \in DOMAIN users[u]
        BY <3>1 DEF UsersInv, RowOK
      <4> HIDE DEF u
      <4>2. row = [users[u] EXCEPT !.verified = TRUE]
        BY <3>1 DEF Exists
      <4>3. u \in UserIds => "role" \in DOMAIN row /\ row.role = users[u].role
        BY <4>1, <4>2
      <4> HIDE DEF row
      <4> QED
        BY <3>1, <4>3 DEF NoRow
    <3>2. CASE users[u] = NoRow
      <4> HIDE DEF u
      <4>1. row = [email |-> e, role |-> reqs[r].role, status |-> "active", verified |-> TRUE]
        BY <3>2 DEF Exists, NewUser
      <4> HIDE DEF row
      <4> QED
        BY <3>2, <4>1 DEF NoRow
    <3> QED
      BY <3>1, <3>2
  <2>6. u \in UserIds /\ users[u] = NoRow => row.role = "user"
    BY <2>1, <2>3, <2>5 DEF AdminIn, Roles
  <2> HIDE DEF row
  <2>7. \A v \in UserIds : users'[v] = IF v = u THEN row ELSE users[v]
    BY <1>3 DEF UsersInv
  <2>8. SameAdmins
    <3>1. ASSUME NEW v \in UserIds PROVE RowOK(users'[v], v, known') /\ (AdminIn(users', v) <=> AdminIn(users, v))
      <4> HIDE DEF u
      <4>1. CASE v = u
        <5>1. v <= known'
          BY <2>3, <4>1
        <5>2. row.role \in Roles
          BY <2>5, <2>6, <4>1 DEF UsersInv, RowOK, Roles
        <5> QED
          BY <2>5, <2>6, <2>7, <4>1, <5>1, <5>2 DEF RowOK, AdminIn
      <4>2. CASE v # u
        <5>1. RowOK(users[v], v, known) /\ users'[v] = users[v]
          BY <2>7, <4>2 DEF UsersInv
        <5>2. users[v] # NoRow => v <= known'
          BY <2>2, <2>3, <5>1 DEF RowOK, UserIds
        <5> QED
          BY <5>1, <5>2 DEF RowOK, AdminIn
      <4> QED
        BY <4>1, <4>2
    <3>2. known' \in Nat /\ DOMAIN users' = UserIds
      BY <1>3, <2>2, <2>3 DEF UsersInv
    <3> QED
      BY <3>1, <3>2, <2>3 DEF SameAdmins, UsersInv
  <2>9. JobOK(job, users', known')
    <3>1. reqs[r].role = "admin" => AdminIn(users', u)
      BY <2>1, <2>3, <2>8, AdminsNamed
    <3> HIDE DEF u
    <3> QED
      BY <3>1 DEF JobOK, Joining
  <2>10. reqs' = [reqs EXCEPT ![r] = job]
    BY <1>3 DEF Move
  <2> HIDE DEF job
  <2> QED
    BY <1>1, <2>8, <2>9, <2>10, RequestMoves, TokensKept DEF SameAdmins
<1> QED
  BY <1>2, <1>3 DEF AcceptCommit

LEMMA AdminBorn ==
    LET born == [NewUser(BootstrapEmail) EXCEPT !.role = "admin", !.verified = TRUE]
    IN  "role" \in DOMAIN born /\ born.role = "admin" /\ born # NoRow
<1> DEFINE row == NewUser(BootstrapEmail)
           born == [row EXCEPT !.role = "admin", !.verified = TRUE]
<1>1. "role" \in DOMAIN row
  BY DEF NewUser
<1> HIDE DEF row
<1>2. "role" \in DOMAIN born /\ born.role = "admin"
  BY <1>1
<1> HIDE DEF born
<1>3. born # NoRow
  BY <1>2 DEF NoRow
<1> QED
  BY <1>2, <1>3 DEF born, row

\* The only step that makes an administrator drops every request.
LEMMA RestartPromotes ==
    ASSUME AdminInv, NEW create \in BOOLEAN, Restart(create)
    PROVE  AdminInv'
<1> USE DEF AdminInv
<1> DEFINE u == UserByEmail(BootstrapEmail)
           born == [NewUser(BootstrapEmail) EXCEPT !.role = "admin", !.verified = TRUE]
           risen == [users[u] EXCEPT !.role = "admin", !.verified = TRUE]
<1>1. UsersInv' /\ \A v : AdminIn(users, v) => AdminIn(users', v)
  <2>1. CASE UNCHANGED <<users, known>>
    BY <2>1 DEF UsersInv
  <2>2. CASE u # NoOne /\ users' = [users EXCEPT ![u] = risen] /\ known' = known
    <3>1. u \in UserIds /\ users[u] # NoRow /\ u \in 1..known
      BY <2>2, UserFound
    <3>2. "role" \in DOMAIN users[u]
      BY <3>1 DEF UsersInv, RowOK
    <3> HIDE DEF u
    <3>3. "role" \in DOMAIN risen /\ risen.role = "admin"
      BY <3>2
    <3> HIDE DEF risen
    <3>4. risen # NoRow
      BY <3>3 DEF NoRow
    <3>5. \A v \in UserIds : users'[v] = IF v = u THEN risen ELSE users[v]
      BY <2>2 DEF UsersInv
    <3>6. UsersInv'
      BY <2>2, <3>1, <3>3, <3>5 DEF UsersInv, RowOK, Roles
    <3> QED
      BY <3>3, <3>4, <3>5, <3>6 DEF AdminIn
  <2>3. CASE users' = [users EXCEPT ![known + 1] = born] /\ known' = known + 1
    <3>1. "role" \in DOMAIN born /\ born.role = "admin" /\ born # NoRow
      BY AdminBorn
    <3> HIDE DEF born
    <3>2. \A v \in UserIds : users'[v] = IF v = known + 1 THEN born ELSE users[v]
      BY <2>3 DEF UsersInv
    <3>3. \A v \in UserIds : v = known + 1 => users[v] = NoRow
      BY DEF UsersInv, RowOK, UserIds
    <3>4. \A v \in UserIds : RowOK(users'[v], v, known')
      BY <2>3, <3>1, <3>2 DEF UsersInv, RowOK, Roles, UserIds
    <3>5. UsersInv'
      BY <2>3, <3>4 DEF UsersInv
    <3> QED
      BY <3>1, <3>2, <3>3, <3>5 DEF AdminIn
  <2>4. \/ UNCHANGED <<users, known>>
        \/ u # NoOne /\ users' = [users EXCEPT ![u] = risen] /\ known' = known
        \/ users' = [users EXCEPT ![known + 1] = born] /\ known' = known + 1
    <3> HIDE DEF u, risen, born
    <3> QED
      BY DEF Restart, u, risen, born
  <2> QED
    BY <2>1, <2>2, <2>3, <2>4
<1>2. TokensInv'
  BY <1>1 DEF Restart, TokensInv, TokenOK
<1>3. RequestsInv'
  BY DEF Restart, RequestsInv, JobOK, Idle, Carrying, Joining
<1> QED
  BY <1>1, <1>2, <1>3

-----------------------------------------------------------------------------
LEMMA InitAdminInv == Init => AdminInv
<1> SUFFICES ASSUME Init PROVE AdminInv
  OBVIOUS
<1> DEFINE us == world.users
           ts == world.tokens
<1>1. /\ MaxUsers \in Nat /\ us \in Seq(UserRows) /\ Len(us) <= MaxUsers /\ ts \in Seq(Claims)
      /\ \A t \in DOMAIN ts : ts[t].role = "admin" =>
            ts[t].user \in DOMAIN us /\ us[ts[t].user].role = "admin"
  BY AccountConstantsOK DEF Init, UserInit
<1>2. /\ users = [u \in UserIds |-> IF u <= Len(us) THEN us[u] ELSE NoRow]
      /\ tokens = [t \in TokenIds |-> IF t <= Len(ts) THEN ts[t] ELSE NoRow]
      /\ known = Len(us) /\ reqs = [r \in Requests |-> Idle]
  BY DEF Init, UserInit
<1> HIDE DEF us, ts
<1>3. \A u \in DOMAIN us : u \in UserIds /\ u <= Len(us) /\ us[u] \in UserRows
  BY <1>1 DEF UserIds
<1>4. \A row \in UserRows : row # NoRow /\ "role" \in DOMAIN row /\ row.role \in Roles
  BY DEF UserRows, NoRow, Roles
<1>5. UsersInv
  <2>1. \A u \in UserIds : u <= Len(us) => u \in DOMAIN us
    BY <1>1 DEF UserIds
  <2>2. Len(us) \in Nat
    BY <1>1
  <2> QED
    BY <1>2, <1>3, <1>4, <2>1, <2>2 DEF UsersInv, RowOK
<1>6. TokensInv
  <2>1. \A t \in TokenIds : t <= Len(ts) => t \in DOMAIN ts
    BY <1>1 DEF TokenIds
  <2>2. \A u \in DOMAIN us : us[u].role = "admin" => AdminIn(users, u)
    BY <1>2, <1>3, <1>4 DEF AdminIn
  <2>3. \A t \in TokenIds : t <= Len(ts) => TokenOK(ts[t], users)
    BY <1>1, <2>1, <2>2 DEF TokenOK
  <2> QED
    BY <1>2, <2>3 DEF TokensInv, TokenOK
<1>7. RequestsInv
  BY <1>2 DEF RequestsInv, JobOK, Idle, Carrying, Joining
<1> QED
  BY <1>5, <1>6, <1>7 DEF AdminInv

LEMMA NextAdminInv == AdminInv /\ [Next]_vars => AdminInv'
<1> SUFFICES ASSUME AdminInv, [Next]_vars PROVE AdminInv'
  OBVIOUS
<1>1. CASE UNCHANGED vars
  BY <1>1, OthersQuiet
<1>2. CASE OrgNext
  <2>1. ASSUME NEW r \in Requests,
               \/ CountPending(r) \/ LookUpInvitee(r) \/ InsertOrgInvite(r)
               \/ \E t \in TokenIds, o \in Orgs, e \in world.emails : CountMembers(r, t, o, e)
        PROVE  AdminInv'
    BY <2>1, InvitingQuiet
  <2>2. ASSUME NEW r \in Requests,
               AcceptCheck(r) \/ AcceptCommit(r) \/ Delete(r) \/ \E i \in OrgInviteIds : AcceptLoad(r, i)
        PROVE  AdminInv'
    BY <2>2, AcceptReads, AcceptHands, AcceptJoins, DeleteSpares DEF Delete
  <2> QED
    BY <1>2, <2>1, <2>2, OthersQuiet DEF OrgNext
<1>3. CASE UserNext
  <2>1. ASSUME NEW r \in Requests, NEW e \in world.emails,
               \/ \E i \in InviteIds \cup {NoOne} : Register(r, e, i)
               \/ ResendVerification(r, e) \/ Login(r, e)
        PROVE  AdminInv'
    BY <2>1, RegistrationQuiet, LinksQuiet, LoginReads
  <2>2. ASSUME NEW r \in Requests,
               \/ RegisterCreate(r) \/ RegisterMark(r) \/ RegisterVerify(r)
               \/ IssueInvalidate(r) \/ IssueInsert(r) \/ IssueMail(r) \/ ResendLookUp(r)
               \/ VerifyConsume(r) \/ Sign(r) \/ PatchStatus(r) \/ PatchVerified(r)
               \/ ClearResends(r) \/ RequestFails(r)
               \/ \E l \in LinkIds : VerifyEmail(r, l)
        PROVE  AdminInv'
    BY <2>2, RegistrationQuiet, LinksQuiet, AdminQuiet, SignHands
  <2>3. ASSUME NEW r \in Requests, NEW t \in TokenIds, NEW u \in UserIds,
               DeleteLoad(r, t, u) \/ \E patch \in world.patches : PatchLoad(r, t, u, patch)
        PROVE  AdminInv'
    BY <2>3, DeleteAims, AdminQuiet
  <2>4. ASSUME NEW t \in TokenIds,
               \/ Logout(t) \/ TokenExpires(t)
               \/ \E e \in world.emails \cup {Anyone} : CreatePlatformInvite(t, e)
               \/ \E i \in InviteIds : RevokePlatformInvite(t, i)
        PROVE  AdminInv'
    BY <2>4, OthersQuiet
  <2> QED
    BY <1>3, <2>1, <2>2, <2>3, <2>4, OthersQuiet, RestartPromotes DEF UserNext
<1> QED
  BY <1>1, <1>2, <1>3 DEF Next

(* A token whose claims pass RequirePlatformAdmin, which reads no row, names a *)
(* user who is an administrator in the table now: through logins and           *)
(* acceptances that sign a role read earlier, deletions decided on a row read  *)
(* earlier, promotions at a restart and failures of any statement.             *)
THEOREM AdminClaimsAlwaysHold == Spec => []AdminClaimsHold
<1>1. AdminInv => AdminClaimsHold
  BY DEF AdminInv, TokensInv, TokenOK, AdminIn, AdminClaimsHold, Exists, RequirePlatformAdmin
<1> QED
  BY <1>1, InitAdminInv, NextAdminInv, PTL DEF Spec

-----------------------------------------------------------------------------
(* What overlaps: each bound of a run's invariant counts the rows that are     *)
(* there and the requests on their way to add one.                             *)

LinksIn(ls, u) == {l \in LinkIds : ls[l] # NoRow /\ ls[l].user = u}
MembersIn(ms, o) == {u \in UserIds : ms[u] = o}
Creating(rs, i) == {r \in Requests : rs[r].at = "create" /\ rs[r].invite = i}
Marking(rs, i) == {r \in Requests : rs[r].at = "mark" /\ rs[r].invite = i}
Used(is, i) == is[i] # NoRow /\ is[i].usedBy # NoOne

PeakInv ==
    /\ peak \in [issues : [UserIds -> Nat], entries : [InviteIds -> Nat],
                 admitted : [InviteIds -> Nat], lost : [InviteIds -> Nat]]
    /\ accepts \in [Orgs -> Nat]
    /\ DOMAIN reqs = Requests

LinksInv ==
    /\ DOMAIN links = LinkIds
    /\ \A l \in LinkIds : links[l] # NoRow => "user" \in DOMAIN links[l]
    /\ \A u \in UserIds :
          Cardinality(LinksIn(links, u)) + Cardinality(Issuing(reqs, u)) <= peak.issues[u]

\* While nobody has marked an invite, its accounts are about to mark it or lost
\* the mark; from then on no registration gets in any more.
DoorOK(is, rs, pk, i) ==
    /\ Cardinality(Creating(rs, i)) + Cardinality(Marking(rs, i)) <= pk.entries[i]
    /\ Used(is, i) => pk.admitted[i] + Cardinality(Creating(rs, i)) <= pk.entries[i] + pk.lost[i]
    /\ ~Used(is, i) => pk.admitted[i] = Cardinality(Marking(rs, i)) + pk.lost[i]
Holding(job, is) ==
    /\ job.at \in {"create", "mark"} /\ job.invite # NoOne =>
          job.invite \in InviteIds /\ is[job.invite] # NoRow
    /\ job.at = "mark" => job.invite # NoOne /\ job.user # NoOne
DoorsInv ==
    /\ DOMAIN invites = InviteIds
    /\ \A i \in InviteIds : invites[i] # NoRow => "usedBy" \in DOMAIN invites[i]
    /\ \A i \in InviteIds : DoorOK(invites, reqs, peak, i)
    /\ \A r \in Requests : Holding(reqs[r], invites)

SeatsInv ==
    /\ DOMAIN orgs = Orgs /\ DOMAIN members = UserIds
    /\ \A o \in Orgs : orgs[o] # NoRow =>
          /\ orgs[o].seatLimit \in Nat
          /\ Cardinality(MembersIn(members, o)) + Cardinality(Accepting(reqs, o))
                <= orgs[o].seatLimit + Larger(accepts[o], 1) - 1

OverlapInv == PeakInv /\ LinksInv /\ DoorsInv /\ SeatsInv

LEMMA RequestCounts ==
    ASSUME NEW S, S \subseteq Requests
    PROVE  IsFiniteSet(S) /\ Cardinality(S) \in Nat
  BY AccountConstantsOK, FS_Subset, FS_CardinalityType

LEMMA AllCounts ==
    /\ \A ls, u : IsFiniteSet(LinksIn(ls, u)) /\ Cardinality(LinksIn(ls, u)) \in Nat
    /\ \A ms, o : IsFiniteSet(MembersIn(ms, o)) /\ Cardinality(MembersIn(ms, o)) \in Nat
    /\ \A rs, i : IsFiniteSet(Creating(rs, i)) /\ Cardinality(Creating(rs, i)) \in Nat
    /\ \A rs, i : IsFiniteSet(Marking(rs, i)) /\ Cardinality(Marking(rs, i)) \in Nat
    /\ \A rs, u : IsFiniteSet(Issuing(rs, u)) /\ Cardinality(Issuing(rs, u)) \in Nat
    /\ \A rs, o : IsFiniteSet(Accepting(rs, o)) /\ Cardinality(Accepting(rs, o)) \in Nat
    /\ \A rs, i : Cardinality(Admitting(rs, i)) = Cardinality(Creating(rs, i)) + Cardinality(Marking(rs, i))
<1>1. IsFiniteSet(LinkIds) /\ IsFiniteSet(UserIds)
  BY AccountConstantsOK, FS_Interval DEF LinkIds, UserIds
<1>2. ASSUME NEW ls, NEW u PROVE IsFiniteSet(LinksIn(ls, u)) /\ Cardinality(LinksIn(ls, u)) \in Nat
  <2>1. LinksIn(ls, u) \subseteq LinkIds
    BY DEF LinksIn
  <2> QED
    BY <1>1, <2>1, FS_Subset, FS_CardinalityType
<1>3. ASSUME NEW ms, NEW o PROVE IsFiniteSet(MembersIn(ms, o)) /\ Cardinality(MembersIn(ms, o)) \in Nat
  <2>1. MembersIn(ms, o) \subseteq UserIds
    BY DEF MembersIn
  <2> QED
    BY <1>1, <2>1, FS_Subset, FS_CardinalityType
<1>4. \A rs, i : Creating(rs, i) \subseteq Requests /\ Marking(rs, i) \subseteq Requests
  BY DEF Creating, Marking
<1>5. \A rs, x : Issuing(rs, x) \subseteq Requests /\ Accepting(rs, x) \subseteq Requests
  BY DEF Issuing, Accepting
<1>6. ASSUME NEW rs, NEW i
      PROVE  Cardinality(Admitting(rs, i)) = Cardinality(Creating(rs, i)) + Cardinality(Marking(rs, i))
  <2>1. /\ Admitting(rs, i) = Creating(rs, i) \cup Marking(rs, i)
        /\ Creating(rs, i) \cap Marking(rs, i) = {}
    BY DEF Admitting, Creating, Marking
  <2>2. IsFiniteSet(Creating(rs, i)) /\ IsFiniteSet(Marking(rs, i))
    BY <1>4, RequestCounts
  <2>3. Cardinality(Creating(rs, i)) \in Nat /\ Cardinality(Marking(rs, i)) \in Nat
    BY <1>4, RequestCounts
  <2> QED
    BY <2>1, <2>2, <2>3, FS_Union, FS_EmptySet
<1> QED
  BY <1>2, <1>3, <1>4, <1>5, <1>6, RequestCounts

LEMMA LargerBounds ==
    ASSUME NEW a \in Nat, NEW b \in Nat
    PROVE  Larger(a, b) \in Nat /\ a <= Larger(a, b) /\ b <= Larger(a, b)
  BY DEF Larger

-----------------------------------------------------------------------------
(* Steps that add nothing to any count. *)

Counted == {"create", "mark", "insert link", "commit"}
PlainMove ==
    \/ reqs' = reqs
    \/ \E r \in Requests : \E job :
          reqs[r].at # "mark" /\ job.at \notin Counted /\ reqs' = [reqs EXCEPT ![r] = job]
LinksShrink ==
    /\ DOMAIN links' = LinkIds
    /\ \A l \in LinkIds : links'[l] # NoRow =>
          links[l] # NoRow /\ links'[l].user = links[l].user /\ "user" \in DOMAIN links'[l]
SameDoors ==
    /\ DOMAIN invites' = InviteIds
    /\ \A i \in InviteIds :
          /\ Used(invites', i) <=> Used(invites, i)
          /\ invites'[i] # NoRow => "usedBy" \in DOMAIN invites'[i]
          /\ invites[i] # NoRow => invites'[i] # NoRow
OrgsShrink ==
    /\ DOMAIN orgs' = Orgs /\ DOMAIN members' = UserIds
    /\ \A o \in Orgs : orgs'[o] \in {NoRow, orgs[o]}
    /\ \A o \in Orgs : MembersIn(members', o) \subseteq MembersIn(members, o)

LEMMA PlainCounts ==
    ASSUME PeakInv, PlainMove
    PROVE  /\ DOMAIN reqs' = Requests
           /\ \A u : Issuing(reqs', u) \subseteq Issuing(reqs, u)
           /\ \A i : Creating(reqs', i) \subseteq Creating(reqs, i)
           /\ \A i : Marking(reqs', i) = Marking(reqs, i)
           /\ \A o : Accepting(reqs', o) \subseteq Accepting(reqs, o)
<1>1. CASE reqs' = reqs
  BY <1>1 DEF PeakInv
<1>2. CASE \E r \in Requests : \E job :
             reqs[r].at # "mark" /\ job.at \notin Counted /\ reqs' = [reqs EXCEPT ![r] = job]
  <2>0. PICK r \in Requests : \E job :
             reqs[r].at # "mark" /\ job.at \notin Counted /\ reqs' = [reqs EXCEPT ![r] = job]
    BY <1>2
  <2>1. PICK job :
             reqs[r].at # "mark" /\ job.at \notin Counted /\ reqs' = [reqs EXCEPT ![r] = job]
    BY <2>0
  <2>2. \A q \in Requests : reqs'[q] = IF q = r THEN job ELSE reqs[q]
    BY <2>1 DEF PeakInv
  <2>3. DOMAIN reqs' = Requests
    BY <2>1 DEF PeakInv
  <2> QED
    BY <2>1, <2>2, <2>3 DEF Issuing, Creating, Marking, Accepting, Counted
<1> QED
  BY <1>1, <1>2 DEF PlainMove

LEMMA Fewer ==
    ASSUME NEW S, NEW T, IsFiniteSet(T), S \subseteq T
    PROVE  Cardinality(S) <= Cardinality(T) /\ Cardinality(S) \in Nat /\ Cardinality(T) \in Nat
  BY FS_Subset, FS_CardinalityType

\* The links keep their bound when links and requests on the way only get fewer.
LEMMA LinksFrame ==
    ASSUME PeakInv, PeakInv', LinksInv, LinksShrink,
           \A u \in UserIds : Issuing(reqs', u) \subseteq Issuing(reqs, u),
           \A u \in UserIds : peak.issues[u] <= peak'.issues[u]
    PROVE  LinksInv'
<1>1. ASSUME NEW u \in UserIds
      PROVE  Cardinality(LinksIn(links', u)) + Cardinality(Issuing(reqs', u)) <= peak'.issues[u]
  <2>1. LinksIn(links', u) \subseteq LinksIn(links, u)
    BY DEF LinksIn, LinksShrink
  <2>2. /\ Cardinality(LinksIn(links', u)) <= Cardinality(LinksIn(links, u))
        /\ Cardinality(Issuing(reqs', u)) <= Cardinality(Issuing(reqs, u))
    BY <2>1, AllCounts, Fewer
  <2>3. peak.issues[u] \in Nat /\ peak'.issues[u] \in Nat
    BY DEF PeakInv
  <2>4. Cardinality(LinksIn(links, u)) + Cardinality(Issuing(reqs, u)) <= peak.issues[u]
    BY DEF LinksInv
  <2> QED
    BY <2>2, <2>3, <2>4, AllCounts
<1> QED
  BY <1>1 DEF LinksInv, LinksShrink

LEMMA DoorFrame ==
    ASSUME PeakInv, PeakInv', NEW i \in InviteIds, DoorOK(invites, reqs, peak, i),
           Used(invites', i) <=> Used(invites, i),
           Creating(reqs', i) \subseteq Creating(reqs, i), Marking(reqs', i) = Marking(reqs, i),
           peak.entries[i] <= peak'.entries[i],
           peak'.admitted[i] = peak.admitted[i], peak'.lost[i] = peak.lost[i]
    PROVE  DoorOK(invites', reqs', peak', i)
<1>1. Cardinality(Creating(reqs', i)) <= Cardinality(Creating(reqs, i))
  BY AllCounts, Fewer
<1>2. /\ peak.entries[i] \in Nat /\ peak'.entries[i] \in Nat
      /\ peak.admitted[i] \in Nat /\ peak.lost[i] \in Nat
  BY DEF PeakInv
<1> QED
  BY <1>1, <1>2, AllCounts DEF DoorOK

LEMMA SeatsFrame ==
    ASSUME PeakInv, SeatsInv, OrgsShrink, accepts' = accepts,
           \A o \in Orgs : Accepting(reqs', o) \subseteq Accepting(reqs, o)
    PROVE  SeatsInv'
<1>1. ASSUME NEW o \in Orgs, orgs'[o] # NoRow
      PROVE  /\ orgs'[o].seatLimit \in Nat
             /\ Cardinality(MembersIn(members', o)) + Cardinality(Accepting(reqs', o))
                   <= orgs'[o].seatLimit + Larger(accepts'[o], 1) - 1
  <2>1. orgs'[o] = orgs[o]
    BY <1>1 DEF OrgsShrink
  <2>2. /\ Cardinality(MembersIn(members', o)) <= Cardinality(MembersIn(members, o))
        /\ Cardinality(Accepting(reqs', o)) <= Cardinality(Accepting(reqs, o))
    BY AllCounts, Fewer DEF OrgsShrink
  <2>3. Larger(accepts[o], 1) \in Nat
    BY LargerBounds DEF PeakInv
  <2>4. /\ orgs[o].seatLimit \in Nat
        /\ Cardinality(MembersIn(members, o)) + Cardinality(Accepting(reqs, o))
              <= orgs[o].seatLimit + Larger(accepts[o], 1) - 1
    BY <1>1, <2>1 DEF SeatsInv
  <2> QED
    BY <2>1, <2>2, <2>3, <2>4, AllCounts
<1> QED
  BY <1>1 DEF SeatsInv, OrgsShrink

PlainStep ==
    /\ PlainMove /\ LinksShrink /\ SameDoors /\ OrgsShrink
    /\ peak' = peak /\ accepts' = accepts

\* A job that holds no invite is in order, and one that does stays in order.
LEMMA HoldingKept ==
    ASSUME PeakInv, DoorsInv, PlainMove,
           \A i \in InviteIds : invites[i] # NoRow => invites'[i] # NoRow
    PROVE  \A r \in Requests : Holding(reqs'[r], invites')
<1>1. \A r \in Requests : Holding(reqs[r], invites')
  BY DEF DoorsInv, Holding
<1>2. \A job : job.at \notin Counted => Holding(job, invites')
  BY DEF Holding, Counted
<1> QED
  BY <1>1, <1>2 DEF PlainMove, PeakInv

LEMMA PlainOverlap ==
    ASSUME OverlapInv, PlainStep
    PROVE  OverlapInv'
<1> USE DEF OverlapInv
<1>1. PeakInv'
  BY PlainCounts DEF PlainStep, PeakInv
<1>2. LinksInv'
  <2>1. \A u \in UserIds : peak.issues[u] <= peak'.issues[u]
    BY DEF PlainStep, PeakInv
  <2> QED
    BY <1>1, <2>1, PlainCounts, LinksFrame DEF PlainStep
<1>3. DoorsInv'
  <2>1. \A i \in InviteIds : peak.entries[i] <= peak'.entries[i]
    BY DEF PlainStep, PeakInv
  <2>2. \A i \in InviteIds : DoorOK(invites', reqs', peak', i)
    BY <1>1, <2>1, PlainCounts, DoorFrame DEF PlainStep, DoorsInv, SameDoors
  <2>3. \A r \in Requests : Holding(reqs'[r], invites')
    BY HoldingKept DEF PlainStep, SameDoors
  <2> QED
    BY <2>2, <2>3 DEF PlainStep, SameDoors, DoorsInv
<1>4. SeatsInv'
  BY PlainCounts, SeatsFrame DEF PlainStep
<1> QED
  BY <1>1, <1>2, <1>3, <1>4

LEMMA PlainMoves ==
    ASSUME NEW r \in Requests, reqs[r].at # "mark"
    PROVE  /\ \A job : job.at \notin Counted /\ Move(r, job) => PlainMove
           /\ Done(r) => PlainMove
           /\ \A s : RequestsInv /\ s \notin Counted /\ Step(r, s) => PlainMove
<1>1. \A job : job.at \notin Counted /\ Move(r, job) => PlainMove
  BY DEF Move, PlainMove
<1>2. Idle.at \notin Counted
  BY DEF Idle, Counted
<1>3. ASSUME NEW s, RequestsInv, s \notin Counted PROVE [reqs[r] EXCEPT !.at = s].at \notin Counted
  BY <1>3 DEF RequestsInv, JobOK
<1> QED
  BY <1>1, <1>2, <1>3 DEF Done, Step

LEMMA FreeIsPlain ==
    ASSUME NEW r, Free(r)
    PROVE  reqs[r].at # "mark"
  BY DEF Free, Idle

LEMMA Unshrunk ==
    ASSUME OverlapInv
    PROVE  /\ links' = links => LinksShrink
           /\ invites' = invites => SameDoors
           /\ orgs' = orgs /\ members' = members => OrgsShrink
  BY DEF OverlapInv, LinksInv, LinksShrink, DoorsInv, SameDoors, SeatsInv, OrgsShrink

LEMMA RegistrationPlain ==
    ASSUME OverlapInv, RequestsInv, UNCHANGED orgVars, NEW r \in Requests
    PROVE  /\ RegisterVerify(r) \/ IssueMail(r) => OverlapInv'
           /\ \A e : ResendVerification(r, e) => OverlapInv'
           /\ \A l : VerifyEmail(r, l) => OverlapInv'
           /\ ResendLookUp(r) \/ VerifyConsume(r) => OverlapInv'
<1> USE DEF orgVars
<1>1. ASSUME RegisterVerify(r) PROVE OverlapInv'
  BY <1>1, PlainMoves, Unshrunk, PlainOverlap DEF RegisterVerify, At, PlainStep
<1>2. ASSUME IssueMail(r) PROVE OverlapInv'
  <2>1. LinksShrink
    BY <1>2 DEF IssueMail, Exists, OverlapInv, LinksInv, LinksShrink
  <2> QED
    BY <1>2, <2>1, PlainMoves, Unshrunk, PlainOverlap DEF IssueMail, At, PlainStep
<1>3. ASSUME NEW e, ResendVerification(r, e) PROVE OverlapInv'
  <2>1. [at |-> "look up", email |-> e].at \notin Counted
    BY DEF Counted
  <2>2. PlainMove
    <3>1. CASE reqs' = reqs
      BY <3>1 DEF PlainMove
    <3>2. CASE Move(r, [at |-> "look up", email |-> e])
      BY <1>3, <2>1, <3>2, FreeIsPlain, PlainMoves DEF ResendVerification
    <3> QED
      BY <1>3, <3>1, <3>2 DEF ResendVerification
  <2> QED
    BY <1>3, <2>2, Unshrunk, PlainOverlap DEF ResendVerification, PlainStep
<1>4. ASSUME NEW l, VerifyEmail(r, l) PROVE OverlapInv'
  <2>1. [at |-> "consume", link |-> l, user |-> links[l].user].at \notin Counted
    BY DEF Counted
  <2>2. PlainMove
    BY <1>4, <2>1, FreeIsPlain, PlainMoves DEF VerifyEmail
  <2> QED
    BY <1>4, <2>2, Unshrunk, PlainOverlap DEF VerifyEmail, PlainStep
<1>5. ASSUME ResendLookUp(r) PROVE OverlapInv'
  <2>1. [at |-> "invalidate", user |-> UserByEmail(reqs[r].email)].at \notin Counted
    BY DEF Counted
  <2>2. PlainMove
    BY <1>5, <2>1, PlainMoves DEF ResendLookUp, At
  <2> QED
    BY <1>5, <2>2, Unshrunk, PlainOverlap DEF ResendLookUp, PlainStep
<1>6. ASSUME VerifyConsume(r) PROVE OverlapInv'
  <2>1. LinksShrink
    BY <1>6 DEF VerifyConsume, OverlapInv, LinksInv, LinksShrink
  <2> QED
    BY <1>6, <2>1, PlainMoves, Unshrunk, PlainOverlap DEF VerifyConsume, At, PlainStep
<1> QED
  BY <1>1, <1>2, <1>3, <1>4, <1>5, <1>6

LEMMA AdminPlain ==
    ASSUME OverlapInv, RequestsInv, UNCHANGED orgVars, NEW r \in Requests
    PROVE  /\ \A e : Login(r, e) => OverlapInv'
           /\ \A t, u : DeleteLoad(r, t, u) => OverlapInv'
           /\ \A t, u, patch : PatchLoad(r, t, u, patch) => OverlapInv'
           /\ PatchStatus(r) \/ PatchVerified(r) => OverlapInv'
           /\ Sign(r) \/ ClearResends(r) \/ RequestFails(r) => OverlapInv'
<1> USE DEF orgVars
<1>1. ASSUME NEW e, Login(r, e) PROVE OverlapInv'
  <2> DEFINE job == [at |-> "sign", user |-> UserByEmail(e), role |-> users[UserByEmail(e)].role]
  <2>1. job.at \notin Counted
    BY DEF Counted
  <2>2. Move(r, job)
    BY <1>1 DEF Login
  <2> HIDE DEF job
  <2>3. PlainMove
    BY <1>1, <2>1, <2>2, FreeIsPlain, PlainMoves DEF Login
  <2> QED
    BY <1>1, <2>3, Unshrunk, PlainOverlap DEF Login, PlainStep
<1>2. ASSUME NEW t, NEW u, DeleteLoad(r, t, u) PROVE OverlapInv'
  <2>1. [at |-> "delete", user |-> u, email |-> users[u].email].at \notin Counted
    BY DEF Counted
  <2>2. PlainMove
    BY <1>2, <2>1, FreeIsPlain, PlainMoves DEF DeleteLoad
  <2> QED
    BY <1>2, <2>2, Unshrunk, PlainOverlap DEF DeleteLoad, PlainStep
<1>3. ASSUME NEW t, NEW u, NEW patch, PatchLoad(r, t, u, patch) PROVE OverlapInv'
  <2>1. [at |-> "patch status", user |-> u, patch |-> patch].at \notin Counted
    BY DEF Counted
  <2>2. PlainMove
    BY <1>3, <2>1, FreeIsPlain, PlainMoves DEF PatchLoad
  <2> QED
    BY <1>3, <2>2, Unshrunk, PlainOverlap DEF PatchLoad, PlainStep
<1>4. ASSUME PatchStatus(r) PROVE OverlapInv'
  <2>1. PlainMove
    BY <1>4, PlainMoves DEF PatchStatus, At, Counted
  <2> QED
    BY <1>4, <2>1, Unshrunk, PlainOverlap DEF PatchStatus, PlainStep
<1>5. ASSUME PatchVerified(r) PROVE OverlapInv'
  BY <1>5, PlainMoves, Unshrunk, PlainOverlap DEF PatchVerified, At, PlainStep
<1>6. ASSUME Sign(r) PROVE OverlapInv'
  BY <1>6, PlainMoves, Unshrunk, PlainOverlap DEF Sign, At, PlainStep
<1>7. ASSUME ClearResends(r) PROVE OverlapInv'
  BY <1>7, PlainMoves, Unshrunk, PlainOverlap DEF ClearResends, At, PlainStep
<1>8. ASSUME RequestFails(r) PROVE OverlapInv'
  BY <1>8, PlainMoves, Unshrunk, PlainOverlap DEF RequestFails, PlainStep
<1> QED
  BY <1>1, <1>2, <1>3, <1>4, <1>5, <1>6, <1>7, <1>8

LEMMA OthersPlain ==
    ASSUME OverlapInv
    PROVE  /\ \A x : UNCHANGED orgVars /\ (ResendHourPasses(x) \/ LinkExpires(x) \/ InviteExpires(x)) => OverlapInv'
           /\ \A t : UNCHANGED orgVars /\ (Logout(t) \/ TokenExpires(t)) => OverlapInv'
           /\ \A t, x : UNCHANGED orgVars /\ (CreatePlatformInvite(t, x) \/ RevokePlatformInvite(t, x)) => OverlapInv'
           /\ \A t, i : RevokeOrgInvite(t, i) => OverlapInv'
           /\ \A i : OrgInviteExpires(i) => OverlapInv'
           /\ UNCHANGED vars => OverlapInv'
<1>1. ASSUME reqs' = reqs, orgs' = orgs, members' = members, accepts' = accepts, peak' = peak,
             LinksShrink, SameDoors
      PROVE  OverlapInv'
  BY <1>1, Unshrunk, PlainOverlap DEF PlainStep, PlainMove
<1>2. ASSUME NEW x, UNCHANGED orgVars, ResendHourPasses(x) PROVE OverlapInv'
  BY <1>1, <1>2, Unshrunk DEF ResendHourPasses, orgVars
<1>3. ASSUME NEW x, UNCHANGED orgVars, LinkExpires(x) PROVE OverlapInv'
  <2>1. LinksShrink
    BY <1>3 DEF LinkExpires, OverlapInv, LinksInv, LinksShrink
  <2> QED
    BY <1>1, <1>3, <2>1, Unshrunk DEF LinkExpires, orgVars
<1>4. ASSUME NEW x, UNCHANGED orgVars, InviteExpires(x) PROVE OverlapInv'
  <2>1. invites' = [invites EXCEPT ![x].expired = TRUE] /\ invites[x] # NoRow
    BY <1>4 DEF InviteExpires, Exists
  <2>2. SameDoors
    BY <2>1 DEF OverlapInv, DoorsInv, SameDoors, Used, NoRow
  <2> QED
    BY <1>1, <1>4, <2>2, Unshrunk DEF InviteExpires, orgVars
<1>5. ASSUME NEW t, UNCHANGED orgVars, Logout(t) \/ TokenExpires(t) PROVE OverlapInv'
  BY <1>1, <1>5, Unshrunk DEF Logout, TokenExpires, orgVars
<1>6. ASSUME NEW t, NEW e, UNCHANGED orgVars, CreatePlatformInvite(t, e) PROVE OverlapInv'
  <2> DEFINE row == [email |-> e, by |-> tokens[t].user, usedBy |-> NoOne,
                     revoked |-> FALSE, expired |-> FALSE]
  <2>1. PICK i \in InviteIds : invites[i] = NoRow /\ invites' = [invites EXCEPT ![i] = row]
    BY <1>6 DEF CreatePlatformInvite, Exists
  <2>2. "usedBy" \in DOMAIN row /\ row.usedBy = NoOne
    OBVIOUS
  <2> HIDE DEF row
  <2>3. row # NoRow
    BY <2>2 DEF NoRow
  <2>4. SameDoors
    BY <2>1, <2>2, <2>3 DEF OverlapInv, DoorsInv, SameDoors, Used
  <2> QED
    BY <1>1, <1>6, <2>4, Unshrunk DEF CreatePlatformInvite, orgVars
<1>7. ASSUME NEW t, NEW i, UNCHANGED orgVars, RevokePlatformInvite(t, i) PROVE OverlapInv'
  <2>1. invites' = [invites EXCEPT ![i].revoked = TRUE] /\ invites[i] # NoRow
    BY <1>7 DEF RevokePlatformInvite, Exists
  <2>2. SameDoors
    BY <2>1 DEF OverlapInv, DoorsInv, SameDoors, Used, NoRow
  <2> QED
    BY <1>1, <1>7, <2>2, Unshrunk DEF RevokePlatformInvite, orgVars
<1>8. ASSUME NEW t, NEW i, RevokeOrgInvite(t, i) PROVE OverlapInv'
  BY <1>1, <1>8, Unshrunk DEF RevokeOrgInvite
<1>9. ASSUME NEW i, OrgInviteExpires(i) PROVE OverlapInv'
  BY <1>1, <1>9, Unshrunk DEF OrgInviteExpires
<1>10. ASSUME UNCHANGED vars PROVE OverlapInv'
  BY <1>1, <1>10, Unshrunk DEF vars, userVars, orgVars
<1> QED
  BY <1>2, <1>3, <1>4, <1>5, <1>6, <1>7, <1>8, <1>9, <1>10

LEMMA InvitesPlain ==
    ASSUME OverlapInv, RequestsInv, NEW r \in Requests
    PROVE  /\ \A t, o, e : CountMembers(r, t, o, e) => OverlapInv'
           /\ CountPending(r) \/ LookUpInvitee(r) \/ InsertOrgInvite(r) => OverlapInv'
           /\ \A i : AcceptLoad(r, i) => OverlapInv'
<1>1. ASSUME NEW t, NEW o, NEW e, CountMembers(r, t, o, e) PROVE OverlapInv'
  <2> DEFINE job == [at |-> "count pending", org |-> o, email |-> e, by |-> tokens[t].user,
                     seats |-> Cardinality(MembersOf(o)), limit |-> orgs[o].seatLimit]
  <2>1. job.at \notin Counted
    BY DEF Counted
  <2>2. Move(r, job)
    BY <1>1 DEF CountMembers
  <2> HIDE DEF job
  <2>3. PlainMove
    BY <1>1, <2>1, <2>2, FreeIsPlain, PlainMoves DEF CountMembers
  <2> QED
    BY <1>1, <2>3, Unshrunk, PlainOverlap DEF CountMembers, orgVars, PlainStep
<1>2. ASSUME CountPending(r) PROVE OverlapInv'
  <2>1. PlainMove
    BY <1>2, PlainMoves DEF CountPending, At, Counted
  <2> QED
    BY <1>2, <2>1, Unshrunk, PlainOverlap DEF CountPending, orgVars, PlainStep
<1>3. ASSUME LookUpInvitee(r) PROVE OverlapInv'
  <2>1. PlainMove
    BY <1>3, PlainMoves DEF LookUpInvitee, At, Counted
  <2> QED
    BY <1>3, <2>1, Unshrunk, PlainOverlap DEF LookUpInvitee, orgVars, PlainStep
<1>4. ASSUME InsertOrgInvite(r) PROVE OverlapInv'
  BY <1>4, PlainMoves, Unshrunk, PlainOverlap DEF InsertOrgInvite, At, PlainStep
<1>5. ASSUME NEW i, AcceptLoad(r, i) PROVE OverlapInv'
  <2> DEFINE u == UserByEmail(orgInvites[i].email)
             job == [at |-> "accept", orgInvite |-> i, user |-> u, email |-> orgInvites[i].email,
                     role |-> IF u = NoOne THEN "user" ELSE users[u].role]
  <2>1. job.at \notin Counted
    BY DEF Counted
  <2>2. Move(r, job)
    BY <1>5 DEF AcceptLoad
  <2> HIDE DEF job
  <2>3. PlainMove
    BY <1>5, <2>1, <2>2, FreeIsPlain, PlainMoves DEF AcceptLoad
  <2> QED
    BY <1>5, <2>3, Unshrunk, PlainOverlap DEF AcceptLoad, orgVars, PlainStep
<1> QED
  BY <1>1, <1>2, <1>3, <1>4, <1>5

\* A deletion takes rows away: the user's links, organisations and memberships.
LEMMA DeletePlain ==
    ASSUME OverlapInv, RequestsInv, NEW r \in Requests, Delete(r)
    PROVE  OverlapInv'
<1> DEFINE held == \E i \in OrgInviteIds :
                      /\ Exists(orgInvites, i) /\ orgInvites[i].by = reqs[r].user
                      /\ orgInvites[i].org \notin {o \in Orgs : Exists(orgs, o) /\ orgs[o].owner = reqs[r].user}
<1>1. DeleteUser(r, held)
  BY DEF Delete
<1> HIDE DEF held
<1>2. PlainMove
  BY <1>1, PlainMoves DEF DeleteUser, At, Counted
<1>3. LinksShrink
  BY <1>1 DEF DeleteUser, Exists, OverlapInv, LinksInv, LinksShrink
<1>4. invites' = invites /\ peak' = peak /\ accepts' = accepts
  BY <1>1 DEF DeleteUser, Delete
<1>5. OrgsShrink
  <2> DEFINE u == reqs[r].user
             own == {o \in Orgs : Exists(orgs, o) /\ orgs[o].owner = u}
             gone == users'[u] = NoRow /\ Exists(users, u)
  <2>1. /\ orgs' = [o \in Orgs |-> IF gone /\ o \in own THEN NoRow ELSE orgs[o]]
        /\ members' = [m \in UserIds |-> IF gone /\ (m = u \/ members[m] \in own) THEN NoOrg ELSE members[m]]
    BY DEF Delete
  <2> HIDE DEF u, own, gone
  <2>2. \A m \in UserIds : members'[m] \in {NoOrg, members[m]}
    BY <2>1
  <2>3. \A o \in Orgs : MembersIn(members', o) \subseteq MembersIn(members, o)
    BY <2>2, OrgConstantsOK DEF MembersIn
  <2>4. \A o \in Orgs : orgs'[o] \in {NoRow, orgs[o]}
    BY <2>1
  <2> QED
    BY <2>1, <2>3, <2>4 DEF OrgsShrink
<1> QED
  BY <1>2, <1>3, <1>4, <1>5, Unshrunk, PlainOverlap DEF PlainStep

-----------------------------------------------------------------------------
(* The steps that count. *)

\* What moving one request does to the sets it leaves and joins.
LEMMA MoveCounts ==
    ASSUME DOMAIN reqs = Requests, NEW r \in Requests, NEW job, reqs' = [reqs EXCEPT ![r] = job]
    PROVE  /\ DOMAIN reqs' = Requests
           /\ \A q \in Requests : reqs'[q] = IF q = r THEN job ELSE reqs[q]
           /\ job.at # "insert link" => \A u : Issuing(reqs', u) = Issuing(reqs, u) \ {r}
           /\ job.at # "create" => \A i : Creating(reqs', i) = Creating(reqs, i) \ {r}
           /\ job.at # "mark" => \A i : Marking(reqs', i) = Marking(reqs, i) \ {r}
           /\ job.at # "commit" => \A o : Accepting(reqs', o) = Accepting(reqs, o) \ {r}
           /\ reqs[r].at # "mark" => \A i : r \notin Marking(reqs, i)
<1>1. \A q \in Requests : reqs'[q] = IF q = r THEN job ELSE reqs[q]
  OBVIOUS
<1> QED
  BY <1>1 DEF Issuing, Creating, Marking, Accepting

LEMMA Gone ==
    ASSUME NEW S, NEW x, IsFiniteSet(S)
    PROVE  /\ x \in S => Cardinality(S \ {x}) = Cardinality(S) - 1
           /\ x \notin S => Cardinality(S \ {x}) = Cardinality(S)
  BY FS_RemoveElement

LEMMA Added ==
    ASSUME NEW S, NEW x, IsFiniteSet(S)
    PROVE  /\ Cardinality(S \cup {x}) <= Cardinality(S) + 1
           /\ x \notin S => Cardinality(S \cup {x}) = Cardinality(S) + 1
<1>1. Cardinality(S) \in Nat
  BY FS_CardinalityType
<1>2. Cardinality(S \cup {x}) = IF x \in S THEN Cardinality(S) ELSE Cardinality(S) + 1
  BY FS_AddElement
<1> QED
  BY <1>1, <1>2

LEMMA PeaksRaise ==
    ASSUME PeakInv, NEW rs
    PROVE  LET p == Peaks(rs) IN
           /\ p \in [issues : [UserIds -> Nat], entries : [InviteIds -> Nat],
                     admitted : [InviteIds -> Nat], lost : [InviteIds -> Nat]]
           /\ \A u \in UserIds : p.issues[u] = Larger(peak.issues[u], Cardinality(Issuing(rs, u)))
           /\ \A i \in InviteIds : p.entries[i] = Larger(peak.entries[i], Cardinality(Admitting(rs, i)))
           /\ p.admitted = peak.admitted /\ p.lost = peak.lost
<1> DEFINE is == [u \in UserIds |-> Larger(peak.issues[u], Cardinality(Issuing(rs, u)))]
           es == [i \in InviteIds |-> Larger(peak.entries[i], Cardinality(Admitting(rs, i)))]
<1>1. is \in [UserIds -> Nat]
  BY AllCounts, LargerBounds DEF PeakInv
<1>2. es \in [InviteIds -> Nat]
  <2>1. ASSUME NEW i \in InviteIds PROVE Cardinality(Admitting(rs, i)) \in Nat
    BY AllCounts
  <2> QED
    BY <2>1, LargerBounds DEF PeakInv
<1>3. Peaks(rs) = [peak EXCEPT !.issues = is, !.entries = es]
  BY DEF Peaks
<1>4. /\ \A u \in UserIds : is[u] = Larger(peak.issues[u], Cardinality(Issuing(rs, u)))
      /\ \A i \in InviteIds : es[i] = Larger(peak.entries[i], Cardinality(Admitting(rs, i)))
  OBVIOUS
<1> HIDE DEF is, es
<1> QED
  BY <1>1, <1>2, <1>3, <1>4 DEF PeakInv

\* The links are invalidated and the request joins those on the way; the peak
\* takes their number.
LEMMA InvalidateOverlap ==
    ASSUME OverlapInv, UNCHANGED orgVars, NEW r \in Requests, IssueInvalidate(r), RequestsInv
    PROVE  OverlapInv'
<1> USE DEF OverlapInv
<1> DEFINE job == [reqs[r] EXCEPT !.at = "insert link"]
<1>1. reqs' = [reqs EXCEPT ![r] = job] /\ job.at = "insert link" /\ reqs[r].at = "invalidate"
  BY DEF IssueInvalidate, At, Step, Move, RequestsInv, JobOK
<1> HIDE DEF job
<1>2. /\ DOMAIN reqs' = Requests
      /\ \A i : Creating(reqs', i) \subseteq Creating(reqs, i)
      /\ \A i : Marking(reqs', i) = Marking(reqs, i)
      /\ \A o : Accepting(reqs', o) \subseteq Accepting(reqs, o)
  <2>1. /\ DOMAIN reqs' = Requests
        /\ \A i : Creating(reqs', i) = Creating(reqs, i) \ {r}
        /\ \A i : Marking(reqs', i) = Marking(reqs, i) \ {r} /\ r \notin Marking(reqs, i)
        /\ \A o : Accepting(reqs', o) = Accepting(reqs, o) \ {r}
    BY <1>1, MoveCounts DEF PeakInv
  <2> QED
    BY <2>1
<1>3. peak' = Peaks(reqs')
  BY DEF IssueInvalidate
<1>4. /\ PeakInv'
      /\ \A u \in UserIds : peak'.issues[u] = Larger(peak.issues[u], Cardinality(Issuing(reqs', u)))
      /\ \A i \in InviteIds : peak'.entries[i] = Larger(peak.entries[i], Cardinality(Admitting(reqs', i)))
      /\ peak'.admitted = peak.admitted /\ peak'.lost = peak.lost
  BY <1>2, <1>3, PeaksRaise DEF PeakInv, orgVars
<1>5. LinksInv'
  <2> DEFINE u == reqs[r].user
  <2>1. links' = Invalidated(u)
    BY DEF IssueInvalidate
  <2>2. \A l \in LinkIds : links'[l] = IF links[l] # NoRow /\ links[l].user = u THEN NoRow ELSE links[l]
    BY <2>1 DEF Invalidated, Exists
  <2>3. DOMAIN links' = LinkIds
    BY <2>1 DEF Invalidated
  <2>4. \A l \in LinkIds : links'[l] # NoRow => "user" \in DOMAIN links'[l]
    BY <2>2 DEF LinksInv
  <2>5. ASSUME NEW v \in UserIds
        PROVE  Cardinality(LinksIn(links', v)) + Cardinality(Issuing(reqs', v)) <= peak'.issues[v]
    <3>1. /\ peak.issues[v] \in Nat /\ peak'.issues[v] \in Nat
          /\ peak.issues[v] <= peak'.issues[v] /\ Cardinality(Issuing(reqs', v)) <= peak'.issues[v]
      BY <1>4, AllCounts, LargerBounds DEF PeakInv
    <3>2. CASE v = u
      <4>1. LinksIn(links', v) = {}
        BY <2>2, <3>2 DEF LinksIn
      <4>2. Cardinality(LinksIn(links', v)) = 0
        BY <4>1, FS_EmptySet
      <4> QED
        BY <3>1, <4>2, AllCounts
    <3>3. CASE v # u
      <4>1. LinksIn(links', v) = LinksIn(links, v)
        BY <2>2, <3>3 DEF LinksIn
      <4>2. job.user = u
        BY DEF job
      <4>3. Issuing(reqs', v) \subseteq Issuing(reqs, v)
        BY <1>1, <3>3, <4>2 DEF Issuing, PeakInv
      <4>4. Cardinality(Issuing(reqs', v)) <= Cardinality(Issuing(reqs, v))
        BY <4>3, AllCounts, Fewer
      <4> QED
        BY <3>1, <4>1, <4>4, AllCounts DEF LinksInv
    <3> QED
      BY <3>2, <3>3
  <2> QED
    BY <2>3, <2>4, <2>5 DEF LinksInv
<1>6. DoorsInv'
  <2>1. invites' = invites
    BY DEF IssueInvalidate
  <2>2. \A i \in InviteIds : peak.entries[i] <= peak'.entries[i]
    <3>1. \A i \in InviteIds : Cardinality(Admitting(reqs', i)) \in Nat
      BY AllCounts
    <3> QED
      BY <1>4, <3>1, LargerBounds DEF PeakInv
  <2>3. \A i \in InviteIds : DoorOK(invites', reqs', peak', i)
    BY <1>2, <1>4, <2>1, <2>2, DoorFrame DEF DoorsInv
  <2>4. \A q \in Requests : Holding(reqs'[q], invites')
    BY <1>1, <2>1 DEF DoorsInv, Holding, PeakInv
  <2> QED
    BY <2>1, <2>3, <2>4 DEF DoorsInv
<1>7. SeatsInv'
  BY <1>2, Unshrunk, SeatsFrame DEF orgVars
<1> QED
  BY <1>4, <1>5, <1>6, <1>7

\* The request leaves those on the way, and its link is there.
LEMMA InsertOverlap ==
    ASSUME OverlapInv, UNCHANGED orgVars, NEW r \in Requests, IssueInsert(r)
    PROVE  OverlapInv'
<1> USE DEF OverlapInv
<1> DEFINE u == reqs[r].user
<1>1. invites' = invites /\ peak' = peak /\ accepts' = accepts /\ reqs[r].at = "insert link"
  BY DEF IssueInsert, At, orgVars
<1>2. CASE Done(r) /\ UNCHANGED links
  BY <1>1, <1>2, PlainMoves, Unshrunk, PlainOverlap DEF orgVars, PlainStep
<1>3. CASE \E l \in FreshLinks :
             /\ links' = [links EXCEPT ![l] = [user |-> u, mailed |-> FALSE]]
             /\ Move(r, [at |-> "mail", link |-> l])
  <2>1. PICK l \in FreshLinks :
             /\ links' = [links EXCEPT ![l] = [user |-> u, mailed |-> FALSE]]
             /\ Move(r, [at |-> "mail", link |-> l])
    BY <1>3
  <2> DEFINE job == [at |-> "mail", link |-> l]
             row == [user |-> u, mailed |-> FALSE]
  <2>2. l \in LinkIds /\ links[l] = NoRow
    BY DEF FreshLinks, Exists
  <2>3. reqs' = [reqs EXCEPT ![r] = job] /\ job.at = "mail"
    BY <2>1 DEF Move
  <2> HIDE DEF job
  <2>4. /\ DOMAIN reqs' = Requests
        /\ \A v : Issuing(reqs', v) = Issuing(reqs, v) \ {r}
        /\ \A i : Creating(reqs', i) = Creating(reqs, i) \ {r}
        /\ \A i : Marking(reqs', i) = Marking(reqs, i) \ {r} /\ r \notin Marking(reqs, i)
        /\ \A o : Accepting(reqs', o) = Accepting(reqs, o) \ {r}
    BY <1>1, <2>3, MoveCounts DEF PeakInv
  <2>5. PeakInv'
    BY <1>1, <2>4 DEF PeakInv
  <2>6. LinksInv'
    <3>1. row.user = u /\ "user" \in DOMAIN row
      OBVIOUS
    <3> HIDE DEF row
    <3>2. /\ DOMAIN links' = LinkIds
          /\ \A k \in LinkIds : links'[k] = IF k = l THEN row ELSE links[k]
      BY <2>1, <2>2 DEF LinksInv, row
    <3>3. ASSUME NEW v \in UserIds
          PROVE  Cardinality(LinksIn(links', v)) + Cardinality(Issuing(reqs', v)) <= peak'.issues[v]
      <4>1. peak.issues[v] \in Nat /\ peak'.issues[v] = peak.issues[v]
        BY <1>1 DEF PeakInv
      <4>2. CASE v = u
        <5>1. LinksIn(links', v) \subseteq LinksIn(links, v) \cup {l}
          BY <3>2 DEF LinksIn
        <5>2. Cardinality(LinksIn(links', v)) <= Cardinality(LinksIn(links, v)) + 1
          <6>1. Cardinality(LinksIn(links, v) \cup {l}) <= Cardinality(LinksIn(links, v)) + 1
            BY AllCounts, Added
          <6>2. IsFiniteSet(LinksIn(links, v) \cup {l})
            BY AllCounts, FS_AddElement
          <6> QED
            BY <5>1, <6>1, <6>2, AllCounts, Fewer
        <5>3. r \in Issuing(reqs, v)
          BY <1>1, <4>2 DEF Issuing
        <5>4. Cardinality(Issuing(reqs', v)) = Cardinality(Issuing(reqs, v)) - 1
          BY <2>4, <5>3, AllCounts, Gone
        <5> QED
          BY <4>1, <5>2, <5>4, AllCounts DEF LinksInv
      <4>3. CASE v # u
        <5>1. LinksIn(links', v) = LinksIn(links, v)
          BY <2>2, <3>1, <3>2, <4>3 DEF LinksIn
        <5>2. Cardinality(Issuing(reqs', v)) <= Cardinality(Issuing(reqs, v))
          BY <2>4, AllCounts, Fewer
        <5> QED
          BY <4>1, <5>1, <5>2, AllCounts DEF LinksInv
      <4> QED
        BY <4>2, <4>3
    <3> QED
      BY <3>1, <3>2, <3>3 DEF LinksInv
  <2>7. DoorsInv'
    <3>1. \A i \in InviteIds : DoorOK(invites', reqs', peak', i)
      <4>1. \A i \in InviteIds : Creating(reqs', i) \subseteq Creating(reqs, i) /\ Marking(reqs', i) = Marking(reqs, i)
        BY <2>4
      <4>2. \A i \in InviteIds : peak.entries[i] \in Nat
        BY DEF PeakInv
      <4>3. \A i \in InviteIds : peak.entries[i] <= peak'.entries[i]
        <5>1. peak'.entries = peak.entries
          BY <1>1
        <5>2. \A n \in Nat : n <= n
          OBVIOUS
        <5> QED
          BY <4>2, <5>1, <5>2
      <4> QED
        BY <1>1, <2>5, <4>1, <4>3, DoorFrame DEF DoorsInv, PeakInv
    <3>2. \A q \in Requests : Holding(reqs'[q], invites')
      BY <1>1, <2>3 DEF DoorsInv, Holding, PeakInv
    <3> QED
      BY <1>1, <3>1, <3>2 DEF DoorsInv
  <2>8. SeatsInv'
    <3>1. \A o \in Orgs : Accepting(reqs', o) \subseteq Accepting(reqs, o)
      BY <2>4
    <3> QED
      BY <3>1, Unshrunk, SeatsFrame DEF orgVars
  <2> QED
    BY <2>5, <2>6, <2>7, <2>8
<1> QED
  BY <1>2, <1>3 DEF IssueInsert

\* Steps on the doors leave links and seats alone.
LEMMA DoorStep ==
    ASSUME OverlapInv, UNCHANGED orgVars, links' = links, PeakInv', DoorsInv',
           NEW r \in Requests, NEW job, reqs' = [reqs EXCEPT ![r] = job],
           job.at \notin {"insert link", "commit"},
           \A u \in UserIds : peak.issues[u] <= peak'.issues[u]
    PROVE  OverlapInv'
<1> USE DEF OverlapInv
<1>1. /\ \A u : Issuing(reqs', u) = Issuing(reqs, u) \ {r}
      /\ \A o : Accepting(reqs', o) = Accepting(reqs, o) \ {r}
  BY MoveCounts DEF PeakInv
<1>2. LinksInv'
  BY <1>1, Unshrunk, LinksFrame
<1>3. SeatsInv'
  <2>1. \A o \in Orgs : Accepting(reqs', o) \subseteq Accepting(reqs, o)
    BY <1>1
  <2> QED
    BY <2>1, Unshrunk, SeatsFrame DEF orgVars
<1> QED
  BY <1>2, <1>3

LEMMA RegisterOverlap ==
    ASSUME OverlapInv, UNCHANGED orgVars, NEW r \in Requests, NEW e, NEW i \in InviteIds \cup {NoOne},
           Register(r, e, i)
    PROVE  OverlapInv'
<1> USE DEF OverlapInv
<1> DEFINE job == [at |-> "create", email |-> e, invite |-> i]
<1>1. /\ reqs' = [reqs EXCEPT ![r] = job] /\ job.at = "create" /\ job.invite = i
      /\ reqs[r].at = "idle"
  BY DEF Register, Move, Free, Idle
<1>2. /\ i # NoOne => i \in InviteIds /\ invites[i] # NoRow /\ ~Used(invites, i)
      /\ peak' = Peaks(reqs') /\ links' = links /\ invites' = invites
  BY DEF Register, InviteOpen, Exists, Used
<1> HIDE DEF job
<1>3. /\ DOMAIN reqs' = Requests
      /\ \A q \in Requests : reqs'[q] = IF q = r THEN job ELSE reqs[q]
      /\ \A k : Marking(reqs', k) = Marking(reqs, k) \ {r} /\ r \notin Marking(reqs, k)
  BY <1>1, MoveCounts DEF PeakInv
<1>4. /\ PeakInv'
      /\ \A u \in UserIds : peak'.issues[u] = Larger(peak.issues[u], Cardinality(Issuing(reqs', u)))
      /\ \A k \in InviteIds : peak'.entries[k] = Larger(peak.entries[k], Cardinality(Admitting(reqs', k)))
      /\ peak'.admitted = peak.admitted /\ peak'.lost = peak.lost
  BY <1>2, <1>3, PeaksRaise DEF PeakInv, orgVars
<1>5. \A u \in UserIds : peak.issues[u] <= peak'.issues[u]
  BY <1>4, AllCounts, LargerBounds DEF PeakInv
<1>6. ASSUME NEW k \in InviteIds PROVE DoorOK(invites', reqs', peak', k)
  <2>1. Marking(reqs', k) = Marking(reqs, k)
    BY <1>3
  <2>2. Cardinality(Admitting(reqs', k)) = Cardinality(Creating(reqs', k)) + Cardinality(Marking(reqs', k))
    BY AllCounts
  <2>3. /\ peak.entries[k] \in Nat /\ peak'.entries[k] \in Nat /\ peak.entries[k] <= peak'.entries[k]
        /\ Cardinality(Creating(reqs', k)) + Cardinality(Marking(reqs', k)) <= peak'.entries[k]
        /\ peak.admitted[k] \in Nat /\ peak.lost[k] \in Nat
        /\ peak'.admitted[k] = peak.admitted[k] /\ peak'.lost[k] = peak.lost[k]
    <3>1. Cardinality(Admitting(reqs', k)) \in Nat /\ peak.entries[k] \in Nat
      BY <2>2, AllCounts DEF PeakInv
    <3> QED
      BY <1>4, <2>2, <3>1, LargerBounds DEF PeakInv
  <2>4. CASE k = i
    <3>1. ~Used(invites', k) /\ ~Used(invites, k)
      BY <1>2, <2>4 DEF InviteIds, NoOne
    <3>2. peak.admitted[k] = Cardinality(Marking(reqs, k)) + peak.lost[k]
      BY <3>1 DEF DoorsInv, DoorOK
    <3> QED
      BY <2>1, <2>3, <3>1, <3>2 DEF DoorOK
  <2>5. CASE k # i
    <3>1. Creating(reqs', k) \subseteq Creating(reqs, k)
      BY <1>1, <1>3, <2>5 DEF Creating
    <3> QED
      BY <1>2, <1>4, <2>1, <2>3, <3>1, DoorFrame DEF DoorsInv
  <2> QED
    BY <2>4, <2>5
<1>7. DoorsInv'
  <2>1. \A q \in Requests : Holding(reqs'[q], invites')
    BY <1>1, <1>2, <1>3 DEF DoorsInv, Holding
  <2> QED
    BY <1>2, <1>6, <2>1 DEF DoorsInv
<1> QED
  BY <1>1, <1>2, <1>4, <1>5, <1>7, DoorStep

LEMMA Bumped ==
    ASSUME NEW S, NEW f \in [S -> Nat], NEW x \in S
    PROVE  [f EXCEPT ![x] = @ + 1] \in [S -> Nat]
  OBVIOUS

\* The registration has its account and goes on to mark the invite.
LEMMA CreateOverlap ==
    ASSUME OverlapInv, AdminInv, UNCHANGED orgVars, NEW r \in Requests, RegisterCreate(r)
    PROVE  OverlapInv'
<1> USE DEF OverlapInv
<1> DEFINE e == reqs[r].email
           inv == reqs[r].invite
           job == [at |-> IF inv = NoOne THEN Welcome ELSE "mark",
                   email |-> e, user |-> known + 1, invite |-> inv]
<1>1. links' = links /\ invites' = invites /\ reqs[r].at = "create"
  BY DEF RegisterCreate, At
<1>2. CASE Done(r) /\ peak' = peak
  BY <1>1, <1>2, PlainMoves, Unshrunk, PlainOverlap DEF orgVars, PlainStep
<1>3. CASE Move(r, job) /\ inv = NoOne /\ peak' = peak
  <2>1. job.at \notin Counted
    BY <1>3 DEF Welcome, Counted
  <2> HIDE DEF job
  <2>2. PlainMove
    BY <1>1, <1>3, <2>1, PlainMoves
  <2> QED
    BY <1>1, <1>3, <2>2, Unshrunk, PlainOverlap DEF orgVars, PlainStep
<1>4. CASE Move(r, job) /\ inv # NoOne /\ peak' = [peak EXCEPT !.admitted[inv] = @ + 1]
  <2>1. /\ reqs' = [reqs EXCEPT ![r] = job] /\ job.at = "mark" /\ job.invite = inv
        /\ job.user # NoOne
    BY <1>4 DEF Move, AdminInv, UsersInv, NoOne
  <2> HIDE DEF job
  <2>2. inv \in InviteIds /\ invites[inv] # NoRow
    BY <1>1, <1>4 DEF DoorsInv, Holding
  <2> HIDE DEF inv
  <2>3. /\ DOMAIN reqs' = Requests
        /\ \A q \in Requests : reqs'[q] = IF q = r THEN job ELSE reqs[q]
        /\ \A k : Creating(reqs', k) = Creating(reqs, k) \ {r}
    BY <2>1, MoveCounts DEF PeakInv
  <2>4. /\ peak'.issues = peak.issues /\ peak'.entries = peak.entries /\ peak'.lost = peak.lost
        /\ peak'.admitted = [peak.admitted EXCEPT ![inv] = @ + 1]
        /\ peak.admitted \in [InviteIds -> Nat]
    BY <1>4 DEF PeakInv
  <2>5. PeakInv'
    <3>1. peak'.admitted \in [InviteIds -> Nat]
      BY <2>2, <2>4, Bumped
    <3>2. peak' = [peak EXCEPT !.admitted = peak'.admitted]
      BY <1>4, <2>4 DEF PeakInv
    <3> QED
      BY <2>3, <3>1, <3>2 DEF PeakInv, orgVars
  <2>6. ASSUME NEW k \in InviteIds PROVE DoorOK(invites', reqs', peak', k)
    <3>1. /\ peak.entries[k] \in Nat /\ peak.admitted[k] \in Nat /\ peak.lost[k] \in Nat
          /\ peak'.entries[k] = peak.entries[k] /\ peak'.lost[k] = peak.lost[k]
      BY <2>4 DEF PeakInv
    <3>2. DoorOK(invites, reqs, peak, k)
      BY DEF DoorsInv
    <3>3. CASE k = inv
      <4>1. r \in Creating(reqs, k) /\ r \notin Marking(reqs, k)
        BY <1>1, <3>3 DEF Creating, Marking, inv
      <4>2. Marking(reqs', k) = Marking(reqs, k) \cup {r}
        BY <2>1, <2>3, <3>3 DEF Marking
      <4>3. Cardinality(Creating(reqs', k)) = Cardinality(Creating(reqs, k)) - 1
        BY <2>3, <4>1, AllCounts, Gone
      <4>4. Cardinality(Marking(reqs', k)) = Cardinality(Marking(reqs, k)) + 1
        BY <4>1, <4>2, AllCounts, Added
      <4>5. peak'.admitted[k] = peak.admitted[k] + 1
        BY <2>4, <3>3
      <4>6. Used(invites', k) <=> Used(invites, k)
        BY <1>1
      <4> QED
        BY <3>1, <3>2, <4>3, <4>4, <4>5, <4>6, AllCounts DEF DoorOK
    <3>4. CASE k # inv
      <4>1. Marking(reqs', k) = Marking(reqs, k)
        BY <1>1, <2>1, <2>3, <3>4 DEF Marking
      <4>2. Creating(reqs', k) \subseteq Creating(reqs, k)
        BY <2>3
      <4>3. peak'.admitted[k] = peak.admitted[k]
        BY <2>4, <3>4
      <4>4. peak.entries[k] <= peak'.entries[k]
        BY <3>1
      <4> QED
        BY <1>1, <2>5, <3>1, <3>2, <4>1, <4>2, <4>3, <4>4, DoorFrame
    <3> QED
      BY <3>3, <3>4
  <2>7. DoorsInv'
    <3>1. \A q \in Requests : Holding(reqs'[q], invites')
      BY <1>1, <1>4, <2>1, <2>2, <2>3 DEF DoorsInv, Holding
    <3> QED
      BY <1>1, <2>6, <3>1 DEF DoorsInv
  <2>8. \A u \in UserIds : peak.issues[u] <= peak'.issues[u]
    <3>1. \A n \in Nat : n <= n
      OBVIOUS
    <3> QED
      BY <2>4, <3>1 DEF PeakInv
  <2> QED
    BY <1>1, <2>1, <2>5, <2>7, <2>8, DoorStep
<1>5. \/ Done(r) /\ peak' = peak
      \/ Move(r, job) /\ inv = NoOne /\ peak' = peak
      \/ Move(r, job) /\ inv # NoOne /\ peak' = [peak EXCEPT !.admitted[inv] = @ + 1]
  BY DEF RegisterCreate
<1> QED
  BY <1>2, <1>3, <1>4, <1>5

\* The invite is marked, or the mark is lost and counted.
LEMMA MarkOverlap ==
    ASSUME OverlapInv, AdminInv, UNCHANGED orgVars, NEW r \in Requests, RegisterMark(r)
    PROVE  OverlapInv'
<1> USE DEF OverlapInv
<1> DEFINE i == reqs[r].invite
           job == [reqs[r] EXCEPT !.at = Welcome]
<1>1. /\ reqs' = [reqs EXCEPT ![r] = job] /\ reqs[r].at = "mark" /\ links' = links
      /\ job.at \notin Counted
  BY DEF RegisterMark, At, Step, Move, Welcome, Counted, AdminInv, RequestsInv, JobOK
<1>2. i \in InviteIds /\ invites[i] # NoRow /\ "usedBy" \in DOMAIN invites[i] /\ reqs[r].user # NoOne
  BY <1>1 DEF DoorsInv, Holding
<1> HIDE DEF job
<1>3. /\ DOMAIN reqs' = Requests
      /\ \A q \in Requests : reqs'[q] = IF q = r THEN job ELSE reqs[q]
      /\ \A k : Creating(reqs', k) = Creating(reqs, k) \ {r} /\ Marking(reqs', k) = Marking(reqs, k) \ {r}
  BY <1>1, MoveCounts DEF PeakInv, Counted
<1>4. /\ r \in Marking(reqs, i)
      /\ \A k : r \notin Creating(reqs, k)
      /\ \A k : k # i => r \notin Marking(reqs, k)
  BY <1>1 DEF Marking, Creating
<1> DEFINE marked == [invites EXCEPT ![i].usedBy = reqs[r].user]
<1>5. \/ invites' = (IF invites[i].usedBy # NoOne THEN invites ELSE marked) /\ peak' = peak
      \/ invites' = invites /\ peak' = [peak EXCEPT !.lost[i] = @ + 1]
  BY DEF RegisterMark
<1> HIDE DEF i
<1>6. /\ DOMAIN marked = InviteIds
      /\ \A k \in InviteIds : k # i => marked[k] = invites[k]
      /\ Used(marked, i) /\ "usedBy" \in DOMAIN marked[i]
  BY <1>2 DEF DoorsInv, Used, NoRow
<1> HIDE DEF marked
<1>7. /\ DOMAIN invites' = InviteIds
      /\ \A k \in InviteIds : k # i => invites'[k] = invites[k]
      /\ \A k \in InviteIds : invites'[k] # NoRow => "usedBy" \in DOMAIN invites'[k]
      /\ \A k \in InviteIds : invites[k] # NoRow => invites'[k] # NoRow
  BY <1>2, <1>5, <1>6 DEF DoorsInv, Used
<1>8. /\ peak'.issues = peak.issues /\ peak'.entries = peak.entries /\ peak'.admitted = peak.admitted
      /\ \/ peak'.lost = peak.lost /\ Used(invites', i)
         \/ peak'.lost = [peak.lost EXCEPT ![i] = @ + 1] /\ (Used(invites', i) <=> Used(invites, i))
  BY <1>2, <1>5, <1>6 DEF PeakInv, Used
<1>9. PeakInv'
  <2>1. peak.lost \in [InviteIds -> Nat]
    BY DEF PeakInv
  <2>2. peak'.lost \in [InviteIds -> Nat]
    BY <1>8, <2>1
  <2>3. peak' = peak \/ peak' = [peak EXCEPT !.lost = peak'.lost]
    BY <1>5, <1>8 DEF PeakInv
  <2> QED
    BY <1>3, <2>2, <2>3 DEF PeakInv, orgVars
<1>10. ASSUME NEW k \in InviteIds PROVE DoorOK(invites', reqs', peak', k)
  <2>1. /\ peak.entries[k] \in Nat /\ peak.admitted[k] \in Nat /\ peak.lost[k] \in Nat
        /\ peak'.entries[k] = peak.entries[k] /\ peak'.admitted[k] = peak.admitted[k]
    BY <1>8 DEF PeakInv
  <2>2. DoorOK(invites, reqs, peak, k)
    BY DEF DoorsInv
  <2>3. Creating(reqs', k) = Creating(reqs, k)
    BY <1>3, <1>4
  <2>4. CASE k = i
    <3>1. Cardinality(Marking(reqs', k)) = Cardinality(Marking(reqs, k)) - 1
      BY <1>3, <1>4, <2>4, AllCounts, Gone
    <3>2. \/ peak'.lost[k] = peak.lost[k] /\ Used(invites', k)
          \/ peak'.lost[k] = peak.lost[k] + 1 /\ (Used(invites', k) <=> Used(invites, k))
      BY <1>8, <2>4 DEF PeakInv
    <3> QED
      BY <2>1, <2>2, <2>3, <3>1, <3>2, AllCounts DEF DoorOK
  <2>5. CASE k # i
    <3>1. Marking(reqs', k) = Marking(reqs, k)
      BY <1>3, <1>4, <2>5
    <3>2. peak'.lost[k] = peak.lost[k]
      BY <1>8, <2>5 DEF PeakInv
    <3>3. Used(invites', k) <=> Used(invites, k)
      BY <1>7, <2>5 DEF Used
    <3> QED
      BY <2>1, <2>2, <2>3, <3>1, <3>2, <3>3 DEF DoorOK
  <2> QED
    BY <2>4, <2>5
<1>11. DoorsInv'
  <2>1. \A q \in Requests : Holding(reqs'[q], invites')
    BY <1>1, <1>3, <1>7 DEF DoorsInv, Holding, Counted
  <2> QED
    BY <1>7, <1>10, <2>1 DEF DoorsInv
<1>12. \A u \in UserIds : peak.issues[u] <= peak'.issues[u]
  <2>1. \A n \in Nat : n <= n
    OBVIOUS
  <2> QED
    BY <1>8, <2>1 DEF PeakInv
<1> QED
  BY <1>1, <1>9, <1>11, <1>12, DoorStep DEF Counted

LEMMA NatReflexive == \A n \in Nat : n <= n
  OBVIOUS

LEMMA LessAbsent ==
    /\ \A S, x : S \ {x} \subseteq S
    /\ \A S, x : x \notin S => S \ {x} = S
  OBVIOUS

\* Steps on the seats leave links and doors alone.
LEMMA SeatStep ==
    ASSUME OverlapInv, links' = links, invites' = invites, peak' = peak, PeakInv', SeatsInv',
           NEW r \in Requests, NEW job, reqs' = [reqs EXCEPT ![r] = job],
           reqs[r].at # "mark", job.at \notin {"create", "mark", "insert link"}
    PROVE  OverlapInv'
<1> USE DEF OverlapInv
<1>1. /\ \A u : Issuing(reqs', u) = Issuing(reqs, u) \ {r}
      /\ \A i : Creating(reqs', i) = Creating(reqs, i) \ {r}
      /\ \A i : Marking(reqs', i) = Marking(reqs, i) \ {r} /\ r \notin Marking(reqs, i)
      /\ \A q \in Requests : reqs'[q] = IF q = r THEN job ELSE reqs[q]
  BY MoveCounts DEF PeakInv
<1>2. \A n \in Nat : n <= n
  BY NatReflexive
<1>3. LinksInv'
  <2>1. \A u \in UserIds : peak.issues[u] <= peak'.issues[u]
    BY <1>2 DEF PeakInv
  <2> QED
    BY <1>1, <2>1, Unshrunk, LinksFrame
<1>4. DoorsInv'
  <2>1. \A i \in InviteIds : peak.entries[i] <= peak'.entries[i]
    BY <1>2 DEF PeakInv
  <2>2. \A i \in InviteIds : Creating(reqs', i) \subseteq Creating(reqs, i) /\ Marking(reqs', i) = Marking(reqs, i)
    <3> HIDE DEF OverlapInv
    <3> QED
      BY <1>1, LessAbsent
  <2>3. \A i \in InviteIds : DoorOK(invites', reqs', peak', i)
    BY <2>1, <2>2, DoorFrame DEF DoorsInv
  <2>4. \A q \in Requests : Holding(reqs'[q], invites')
    BY <1>1 DEF DoorsInv, Holding
  <2> QED
    BY <2>3, <2>4 DEF DoorsInv
<1> QED
  BY <1>3, <1>4

\* The acceptance has seen a free seat and joins those on the way.
LEMMA AcceptCheckOverlap ==
    ASSUME OverlapInv, NEW r \in Requests, AcceptCheck(r)
    PROVE  OverlapInv'
<1> USE DEF OverlapInv
<1> DEFINE o == orgInvites[reqs[r].orgInvite].org
           job == [at |-> "commit", orgInvite |-> reqs[r].orgInvite, user |-> reqs[r].user,
                   email |-> reqs[r].email, role |-> reqs[r].role, org |-> o]
<1>1. /\ links' = links /\ invites' = invites /\ peak' = peak /\ orgs' = orgs /\ members' = members
      /\ reqs[r].at = "accept"
  BY DEF AcceptCheck, At
<1>2. CASE Done(r) /\ UNCHANGED accepts
  BY <1>1, <1>2, PlainMoves, Unshrunk, PlainOverlap DEF PlainStep
<1>3. CASE /\ SeatFree(o) /\ Move(r, job)
           /\ accepts' = [accepts EXCEPT ![o] = Larger(@, Cardinality(Accepting(reqs', o)))]
  <2>1. reqs' = [reqs EXCEPT ![r] = job] /\ job.at = "commit" /\ job.org = o
    BY <1>3 DEF Move
  <2> HIDE DEF job
  <2>2. SeatFree(o) /\ accepts' = [accepts EXCEPT ![o] = Larger(@, Cardinality(Accepting(reqs', o)))]
    BY <1>3
  <2> HIDE DEF o
  <2>3. \A q \in Requests : reqs'[q] = IF q = r THEN job ELSE reqs[q]
    BY <2>1 DEF PeakInv
  <2>4. \A k \in Orgs : accepts'[k] = IF k = o THEN Larger(accepts[k], Cardinality(Accepting(reqs', k)))
                                      ELSE accepts[k]
    BY <2>2 DEF PeakInv
  <2>5. accepts' \in [Orgs -> Nat]
    <3>1. \A k \in Orgs : accepts'[k] \in Nat
      BY <2>4, AllCounts, LargerBounds DEF PeakInv
    <3>2. accepts' = [k \in Orgs |-> accepts'[k]]
      BY <2>2 DEF PeakInv
    <3> QED
      BY <3>1, <3>2
  <2>6. PeakInv'
    BY <1>1, <2>1, <2>5 DEF PeakInv
  <2>7. ASSUME NEW k \in Orgs, orgs[k] # NoRow
        PROVE  Cardinality(MembersIn(members, k)) + Cardinality(Accepting(reqs', k))
                  <= orgs[k].seatLimit + Larger(accepts'[k], 1) - 1
    <3>1. orgs[k].seatLimit \in Nat
      BY <2>7 DEF SeatsInv
    <3>2. CASE k = o
      <4>1. Cardinality(MembersIn(members, k)) < orgs[k].seatLimit
        BY <2>2, <3>2 DEF SeatFree, MembersOf, MembersIn
      <4>2. accepts'[k] \in Nat /\ Cardinality(Accepting(reqs', k)) <= accepts'[k]
        BY <2>4, <2>5, <3>2, AllCounts, LargerBounds DEF PeakInv
      <4>3. Larger(accepts'[k], 1) \in Nat /\ accepts'[k] <= Larger(accepts'[k], 1)
        BY <4>2, LargerBounds
      <4> QED
        BY <3>1, <4>1, <4>2, <4>3, AllCounts
    <3>3. CASE k # o
      <4>1. Accepting(reqs', k) \subseteq Accepting(reqs, k)
        BY <2>1, <2>3, <3>3 DEF Accepting
      <4>2. Cardinality(Accepting(reqs', k)) <= Cardinality(Accepting(reqs, k))
        BY <4>1, AllCounts, Fewer
      <4>3. accepts'[k] = accepts[k] /\ Larger(accepts[k], 1) \in Nat
        BY <2>4, <3>3, LargerBounds DEF PeakInv
      <4> QED
        BY <2>7, <3>1, <4>2, <4>3, AllCounts DEF SeatsInv
    <3> QED
      BY <3>2, <3>3
  <2>8. SeatsInv'
    BY <1>1, <2>7 DEF SeatsInv
  <2> QED
    BY <1>1, <2>1, <2>6, <2>8, SeatStep
<1> QED
  BY <1>2, <1>3 DEF AcceptCheck

\* The acceptance leaves those on the way, and its member is there.
LEMMA AcceptCommitOverlap ==
    ASSUME OverlapInv, NEW r \in Requests, AcceptCommit(r)
    PROVE  OverlapInv'
<1> USE DEF OverlapInv
<1> DEFINE o == reqs[r].org
           u == IF reqs[r].user = NoOne THEN known + 1 ELSE reqs[r].user
           job == [at |-> "sign", user |-> u, role |-> reqs[r].role]
<1>1. /\ links' = links /\ invites' = invites /\ peak' = peak /\ orgs' = orgs /\ accepts' = accepts
      /\ reqs[r].at = "commit"
  BY DEF AcceptCommit, At
<1>2. CASE Done(r) /\ members' = members
  BY <1>1, <1>2, PlainMoves, Unshrunk, PlainOverlap DEF PlainStep
<1>3. CASE Move(r, job) /\ members' = [members EXCEPT ![u] = o]
  <2>1. reqs' = [reqs EXCEPT ![r] = job] /\ job.at = "sign"
    BY <1>3 DEF Move
  <2>2. members' = [members EXCEPT ![u] = o]
    BY <1>3
  <2> HIDE DEF job, u
  <2>3. /\ DOMAIN reqs' = Requests
        /\ \A k : Accepting(reqs', k) = Accepting(reqs, k) \ {r}
    BY <2>1, MoveCounts DEF PeakInv
  <2>4. PeakInv'
    BY <1>1, <2>3 DEF PeakInv
  <2>5. DOMAIN members' = UserIds /\ \A v \in UserIds : members'[v] = IF v = u THEN o ELSE members[v]
    BY <2>2 DEF SeatsInv
  <2>6. ASSUME NEW k \in Orgs, orgs[k] # NoRow
        PROVE  Cardinality(MembersIn(members', k)) + Cardinality(Accepting(reqs', k))
                  <= orgs[k].seatLimit + Larger(accepts[k], 1) - 1
    <3>1. orgs[k].seatLimit \in Nat /\ Larger(accepts[k], 1) \in Nat
      BY <2>6, LargerBounds DEF SeatsInv, PeakInv
    <3>2. CASE k = o
      <4>1. MembersIn(members', k) \subseteq MembersIn(members, k) \cup {u}
        BY <2>5 DEF MembersIn
      <4>2. Cardinality(MembersIn(members', k)) <= Cardinality(MembersIn(members, k)) + 1
        <5>1. Cardinality(MembersIn(members, k) \cup {u}) <= Cardinality(MembersIn(members, k)) + 1
          BY AllCounts, Added
        <5>2. IsFiniteSet(MembersIn(members, k) \cup {u})
          BY AllCounts, FS_AddElement
        <5> QED
          BY <4>1, <5>1, <5>2, AllCounts, Fewer
      <4>3. r \in Accepting(reqs, k)
        BY <1>1, <3>2 DEF Accepting
      <4>4. Cardinality(Accepting(reqs', k)) = Cardinality(Accepting(reqs, k)) - 1
        BY <2>3, <4>3, AllCounts, Gone
      <4> QED
        BY <2>6, <3>1, <4>2, <4>4, AllCounts DEF SeatsInv
    <3>3. CASE k # o
      <4>1. MembersIn(members', k) \subseteq MembersIn(members, k)
        BY <2>5, <3>3 DEF MembersIn
      <4>2. /\ Cardinality(MembersIn(members', k)) <= Cardinality(MembersIn(members, k))
            /\ Cardinality(Accepting(reqs', k)) <= Cardinality(Accepting(reqs, k))
        BY <2>3, <4>1, AllCounts, Fewer
      <4> QED
        BY <2>6, <3>1, <4>2, AllCounts DEF SeatsInv
    <3> QED
      BY <3>2, <3>3
  <2>7. SeatsInv'
    BY <1>1, <2>5, <2>6 DEF SeatsInv
  <2> QED
    BY <1>1, <2>1, <2>4, <2>7, SeatStep
<1> QED
  BY <1>2, <1>3 DEF AcceptCommit

\* A restart empties the way: the marks that were on it are lost.
LEMMA RestartOverlap ==
    ASSUME OverlapInv, UNCHANGED orgVars, NEW create, Restart(create)
    PROVE  OverlapInv'
<1> USE DEF OverlapInv
<1> DEFINE lostNow == [i \in InviteIds |-> peak.lost[i] + Cardinality(Marking(reqs, i))]
<1>1. /\ reqs' = [r \in Requests |-> Idle] /\ links' = links /\ invites' = invites
      /\ peak' = [peak EXCEPT !.lost = lostNow]
  BY DEF Restart, Marking, PeakInv
<1>2. \A r \in Requests : reqs'[r].at = "idle"
  BY <1>1 DEF Idle
<1>3. /\ \A u : Issuing(reqs', u) = {} /\ \A i : Creating(reqs', i) = {} /\ Marking(reqs', i) = {}
      /\ \A o : Accepting(reqs', o) = {}
  BY <1>2 DEF Issuing, Creating, Marking, Accepting
<1>4. lostNow \in [InviteIds -> Nat]
  BY AllCounts DEF PeakInv
<1>5. \A i \in InviteIds : lostNow[i] = peak.lost[i] + Cardinality(Marking(reqs, i))
  OBVIOUS
<1> HIDE DEF lostNow
<1>6. /\ PeakInv' /\ peak'.lost = lostNow
      /\ peak'.issues = peak.issues /\ peak'.entries = peak.entries /\ peak'.admitted = peak.admitted
  BY <1>1, <1>4 DEF PeakInv, orgVars
<1>7. LinksInv'
  <2>1. \A n \in Nat : n <= n
    OBVIOUS
  <2>2. \A u \in UserIds : peak.issues[u] <= peak'.issues[u]
    BY <1>6, <2>1 DEF PeakInv
  <2>3. \A u \in UserIds : Issuing(reqs', u) \subseteq Issuing(reqs, u)
    BY <1>3
  <2> QED
    BY <1>1, <1>6, <2>2, <2>3, Unshrunk, LinksFrame
<1>8. ASSUME NEW i \in InviteIds PROVE DoorOK(invites', reqs', peak', i)
  <2>1. /\ Cardinality(Creating(reqs', i)) = 0 /\ Cardinality(Marking(reqs', i)) = 0
    BY <1>3, FS_EmptySet
  <2>2. /\ peak.entries[i] \in Nat /\ peak.admitted[i] \in Nat /\ peak.lost[i] \in Nat
        /\ peak'.entries[i] = peak.entries[i] /\ peak'.admitted[i] = peak.admitted[i]
        /\ peak'.lost[i] = peak.lost[i] + Cardinality(Marking(reqs, i))
    BY <1>5, <1>6 DEF PeakInv
  <2>3. DoorOK(invites, reqs, peak, i) /\ (Used(invites', i) <=> Used(invites, i))
    BY <1>1 DEF DoorsInv
  <2> QED
    BY <2>1, <2>2, <2>3, AllCounts DEF DoorOK
<1>9. DoorsInv'
  BY <1>1, <1>2, <1>8 DEF DoorsInv, Holding
<1>10. SeatsInv'
  <2>1. \A o \in Orgs : Accepting(reqs', o) \subseteq Accepting(reqs, o)
    BY <1>3
  <2> QED
    BY <2>1, Unshrunk, SeatsFrame DEF orgVars
<1> QED
  BY <1>6, <1>7, <1>9, <1>10

-----------------------------------------------------------------------------
LEMMA InitOverlapInv == Init => OverlapInv
<1> SUFFICES ASSUME Init PROVE OverlapInv
  OBVIOUS
<1> DEFINE is == world.invites
<1>1. /\ is \in Seq(InviteRows)
      /\ world.owner # NoOne => world.seatLimit \in Nat \ {0}
  BY AccountConstantsOK, OrgConstantsOK DEF Init, UserInit
<1>2. /\ links = [l \in LinkIds |-> NoRow]
      /\ invites = [i \in InviteIds |-> IF i <= Len(is) THEN is[i] ELSE NoRow]
      /\ reqs = [r \in Requests |-> Idle]
      /\ peak = [issues |-> [u \in UserIds |-> 0], entries |-> [i \in InviteIds |-> 0],
                 admitted |-> [i \in InviteIds |-> 0], lost |-> [i \in InviteIds |-> 0]]
  BY DEF Init, UserInit
<1> HIDE DEF is
<1>3. /\ orgs = [o \in Orgs |-> IF world.owner = NoOne THEN NoRow
                                ELSE [owner |-> world.owner, seatLimit |-> world.seatLimit, status |-> "active"]]
      /\ members = [u \in UserIds |-> IF u = world.owner THEN CHOOSE o \in Orgs : TRUE ELSE NoOrg]
      /\ accepts = [o \in Orgs |-> 0]
  BY DEF Init
<1>4. /\ \A u : Issuing(reqs, u) = {} /\ \A i : Creating(reqs, i) = {} /\ Marking(reqs, i) = {}
      /\ \A o : Accepting(reqs, o) = {}
  BY <1>2 DEF Issuing, Creating, Marking, Accepting, Idle
<1>5. PeakInv
  BY <1>2, <1>3 DEF PeakInv
<1>6. LinksInv
  <2>1. \A u \in UserIds : LinksIn(links, u) = {} /\ peak.issues[u] = 0
    BY <1>2 DEF LinksIn
  <2>2. \A u \in UserIds : Cardinality(LinksIn(links, u)) = 0 /\ Cardinality(Issuing(reqs, u)) = 0
    BY <1>4, <2>1, FS_EmptySet
  <2> QED
    BY <1>2, <2>1, <2>2 DEF LinksInv
<1>7. DoorsInv
  <2>1. ASSUME NEW i \in InviteIds PROVE DoorOK(invites, reqs, peak, i)
    <3>1. Cardinality(Creating(reqs, i)) = 0 /\ Cardinality(Marking(reqs, i)) = 0
      BY <1>4, FS_EmptySet
    <3>2. peak.entries[i] = 0 /\ peak.admitted[i] = 0 /\ peak.lost[i] = 0
      BY <1>2
    <3> QED
      BY <3>1, <3>2 DEF DoorOK
  <2>2. \A i \in InviteIds : invites[i] # NoRow => invites[i] \in InviteRows
    <3>1. \A i \in InviteIds : i <= Len(is) => i \in 1..Len(is)
      BY <1>1 DEF InviteIds
    <3> QED
      BY <1>1, <1>2, <3>1
  <2>3. \A row \in InviteRows : "usedBy" \in DOMAIN row
    BY DEF InviteRows
  <2>4. \A r \in Requests : Holding(reqs[r], invites)
    BY <1>2 DEF Holding, Idle
  <2> QED
    BY <1>2, <2>1, <2>2, <2>3, <2>4 DEF DoorsInv
<1>8. SeatsInv
  <2>1. ASSUME NEW o \in Orgs, orgs[o] # NoRow
        PROVE  /\ orgs[o].seatLimit \in Nat
               /\ Cardinality(MembersIn(members, o)) + Cardinality(Accepting(reqs, o))
                     <= orgs[o].seatLimit + Larger(accepts[o], 1) - 1
    <3>1. orgs[o].seatLimit \in Nat \ {0}
      BY <1>1, <1>3, <2>1
    <3>2. MembersIn(members, o) \subseteq {world.owner}
      BY <1>3, OrgConstantsOK DEF MembersIn
    <3>3. Cardinality({world.owner}) = 1 /\ IsFiniteSet({world.owner})
      BY FS_Singleton
    <3>4. Cardinality(MembersIn(members, o)) <= 1
      BY <3>2, <3>3, AllCounts, Fewer
    <3>5. Cardinality(Accepting(reqs, o)) = 0
      BY <1>4, FS_EmptySet
    <3>6. Larger(accepts[o], 1) = 1
      BY <1>3 DEF Larger
    <3> QED
      BY <3>1, <3>4, <3>5, <3>6, AllCounts
  <2> QED
    BY <1>3, <2>1 DEF SeatsInv
<1> QED
  BY <1>5, <1>6, <1>7, <1>8 DEF OverlapInv

LEMMA NextOverlapInv == AdminInv /\ OverlapInv /\ [Next]_vars => OverlapInv'
<1> SUFFICES ASSUME AdminInv, OverlapInv, [Next]_vars PROVE OverlapInv'
  OBVIOUS
<1>0. RequestsInv
  BY DEF AdminInv
<1>1. CASE UNCHANGED vars
  BY <1>1, OthersPlain
<1>2. CASE OrgNext
  <2>1. ASSUME NEW r \in Requests,
               \/ CountPending(r) \/ LookUpInvitee(r) \/ InsertOrgInvite(r)
               \/ \E i \in OrgInviteIds : AcceptLoad(r, i)
               \/ \E t \in TokenIds, o \in Orgs, e \in world.emails : CountMembers(r, t, o, e)
        PROVE  OverlapInv'
    BY <1>0, <2>1, InvitesPlain
  <2>2. ASSUME NEW r \in Requests, AcceptCheck(r) \/ AcceptCommit(r) \/ Delete(r)
        PROVE  OverlapInv'
    BY <1>0, <2>2, AcceptCheckOverlap, AcceptCommitOverlap, DeletePlain
  <2> QED
    BY <1>2, <2>1, <2>2, OthersPlain DEF OrgNext
<1>3. CASE UserNext /\ UNCHANGED orgVars
  <2>1. ASSUME NEW r \in Requests, NEW e \in world.emails,
               \/ \E i \in InviteIds \cup {NoOne} : Register(r, e, i)
               \/ ResendVerification(r, e) \/ Login(r, e)
        PROVE  OverlapInv'
    BY <1>0, <1>3, <2>1, RegisterOverlap, RegistrationPlain, AdminPlain
  <2>2. ASSUME NEW r \in Requests,
               \/ RegisterCreate(r) \/ RegisterMark(r)
               \/ IssueInvalidate(r) \/ IssueInsert(r)
        PROVE  OverlapInv'
    BY <1>0, <1>3, <2>2, CreateOverlap, MarkOverlap, InvalidateOverlap, InsertOverlap
  <2>3. ASSUME NEW r \in Requests,
               \/ RegisterVerify(r) \/ IssueMail(r) \/ ResendLookUp(r) \/ VerifyConsume(r)
               \/ Sign(r) \/ PatchStatus(r) \/ PatchVerified(r) \/ ClearResends(r) \/ RequestFails(r)
               \/ \E l \in LinkIds : VerifyEmail(r, l)
        PROVE  OverlapInv'
    BY <1>0, <1>3, <2>3, RegistrationPlain, AdminPlain
  <2>4. ASSUME NEW r \in Requests, NEW t \in TokenIds, NEW u \in UserIds,
               DeleteLoad(r, t, u) \/ \E patch \in world.patches : PatchLoad(r, t, u, patch)
        PROVE  OverlapInv'
    BY <1>0, <1>3, <2>4, AdminPlain
  <2>5. ASSUME NEW t \in TokenIds,
               \/ Logout(t) \/ TokenExpires(t)
               \/ \E e \in world.emails \cup {Anyone} : CreatePlatformInvite(t, e)
               \/ \E i \in InviteIds : RevokePlatformInvite(t, i)
        PROVE  OverlapInv'
    BY <1>3, <2>5, OthersPlain
  <2> QED
    BY <1>3, <2>1, <2>2, <2>3, <2>4, <2>5, OthersPlain, RestartOverlap DEF UserNext
<1> QED
  BY <1>1, <1>2, <1>3 DEF Next

LEMMA Overlaps == Spec => [](AdminInv /\ OverlapInv)
<1>1. AdminInv /\ OverlapInv /\ [Next]_vars => (AdminInv /\ OverlapInv)'
  BY NextAdminInv, NextOverlapInv
<1> QED
  BY <1>1, InitAdminInv, InitOverlapInv, PTL DEF Spec

(* However many requests issue, resend, expire and consume the verification    *)
(* links of a user, the usable ones never outnumber the requests that issued   *)
(* one at the same moment.                                                     *)
THEOREM LinksAlwaysWithinOverlap == Spec => []LinksWithinOverlap
<1>1. OverlapInv => LinksWithinOverlap
  <2> SUFFICES ASSUME OverlapInv, NEW u \in UserIds
               PROVE  Cardinality({l \in LinkIds : Exists(links, l) /\ links[l].user = u}) <= peak.issues[u]
    BY DEF LinksWithinOverlap
  <2>1. {l \in LinkIds : Exists(links, l) /\ links[l].user = u} = LinksIn(links, u)
    BY DEF LinksIn, Exists
  <2>2. peak.issues[u] \in Nat
    BY DEF OverlapInv, PeakInv
  <2>3. Cardinality(LinksIn(links, u)) <= peak.issues[u]
    BY <2>2, AllCounts DEF OverlapInv, LinksInv
  <2> QED
    BY <2>1, <2>3
<1> QED
  BY <1>1, Overlaps, PTL

(* A platform invite lets in no more accounts than the registrations that held *)
(* it together, and one for every mark lost to a failure or a restart.         *)
THEOREM InvitesAlwaysAdmitOnce == Spec => []InviteAdmitsOnce
<1>1. OverlapInv => InviteAdmitsOnce
  <2> SUFFICES ASSUME OverlapInv, NEW i \in InviteIds
               PROVE  peak.admitted[i] <= Larger(1, peak.entries[i]) + peak.lost[i]
    BY DEF InviteAdmitsOnce
  <2>1. peak.admitted[i] \in Nat /\ peak.entries[i] \in Nat /\ peak.lost[i] \in Nat
    BY DEF OverlapInv, PeakInv
  <2>2. DoorOK(invites, reqs, peak, i)
    BY DEF OverlapInv, DoorsInv
  <2>3. peak.admitted[i] <= peak.entries[i] + peak.lost[i]
    BY <2>1, <2>2, AllCounts DEF DoorOK
  <2>4. Larger(1, peak.entries[i]) \in Nat /\ peak.entries[i] <= Larger(1, peak.entries[i])
    BY <2>1, LargerBounds
  <2> QED
    BY <2>1, <2>3, <2>4
<1> QED
  BY <1>1, Overlaps, PTL

(* The members of an organisation exceed its seats by no more than the         *)
(* acceptances that counted the members while another had not committed.       *)
THEOREM SeatsAlwaysWithinOverlap == Spec => []SeatsWithinOverlap
<1>1. OverlapInv => SeatsWithinOverlap
  <2> SUFFICES ASSUME OverlapInv, NEW o \in Orgs, orgs[o] # NoRow
               PROVE  Cardinality(MembersOf(o)) <= orgs[o].seatLimit + Larger(accepts[o], 1) - 1
    BY DEF SeatsWithinOverlap, Exists
  <2>1. MembersOf(o) = MembersIn(members, o)
    BY DEF MembersOf, MembersIn
  <2>2. orgs[o].seatLimit \in Nat /\ Larger(accepts[o], 1) \in Nat
    BY LargerBounds DEF OverlapInv, PeakInv, SeatsInv
  <2> QED
    BY <2>1, <2>2, AllCounts DEF OverlapInv, SeatsInv
<1> QED
  BY <1>1, Overlaps, PTL
=============================================================================
