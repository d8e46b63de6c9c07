---------------------------- MODULE UserAccounts ----------------------------
(* Accounts of the platform: registration behind a one-time invite, the    *)
(* e-mail verification links, login and logout, and the administrator's    *)
(* changes (modules/auth, modules/admin, store/users.go,                   *)
(* email_verification.go, platform_invites.go).  Every request runs as a   *)
(* sequence of statements, and the statements of two requests interleave.  *)
(*                                                                         *)
(* A user is identified by a number that is never given out twice, as the  *)
(* code's fresh UUIDs are; passwords and token formats are left out: a     *)
(* request that shows a wrong one is refused and changes nothing.  OrgInvites *)
(* adds the organisations, whose rows a user's deletion touches.           *)
EXTENDS Integers, FiniteSets, Sequences

CONSTANTS Emails, Requests,
          BootstrapEmail,     \* BOOTSTRAP_ADMIN_EMAIL
          MaxUsers, MaxLinks, MaxInvites, MaxTokens,   \* bounds: rows ever inserted
          Worlds              \* the configurations a run explores

NoOne  == 0                   \* no user, no invite, no link
Anyone == "anyone"            \* a platform invite for no address in particular
maxVerifyResendsPerHour == 3

UserIds == 1..MaxUsers
LinkIds == 1..MaxLinks
InviteIds == 1..MaxInvites
TokenIds == 1..MaxTokens

VARIABLES world,    \* ops served, closed registration, verification required, first rows,
                    \* and bounds: addresses used, restarts, failing statements
          users,    \* user id -> row of users, or NoRow
          known,    \* users ever inserted
          links,    \* link id -> usable row of email_verifications, or NoRow
          resends,  \* Redis: address -> resends counted in the running hour
          invites,  \* invite id -> row of platform_invites, or NoRow
          tokens,   \* token id -> claims of a JWT that has not expired, or NoRow
          revoked,  \* Redis: tokens logged out
          reqs,     \* request slot -> the request it serves
          faults,   \* [restarts, failures] so far
          peak      \* what overlapped: link issues per user, registrations per invite; marks lost

userVars == <<world, users, known, links, resends, invites, tokens, revoked, reqs, faults, peak>>

NoRow == [gone |-> TRUE]
Exists(f, k) == f[k] # NoRow

UserRows == [email : Emails, role : {"user", "admin"}, status : {"active", "suspended"},
             verified : BOOLEAN]
LinkRows == [user : UserIds, mailed : BOOLEAN]   \* a spent or expired link is refused like no link
InviteRows == [email : Emails \cup {Anyone}, by : UserIds, usedBy : UserIds \cup {NoOne},
               revoked : BOOLEAN, expired : BOOLEAN]
Claims == [user : UserIds, role : {"user", "admin"}]

Idle == [at |-> "idle"]
Patches == [status : {"keep", "active", "suspended"}, verified : {"keep", "yes", "no"}]

NewUser(e) == [email |-> e, role |-> "user", status |-> "active", verified |-> FALSE]
UsersAt(e) == {u \in UserIds : Exists(users, u) /\ users[u].email = e}
UserByEmail(e) == IF UsersAt(e) = {} THEN NoOne ELSE CHOOSE u \in UsersAt(e) : TRUE

-----------------------------------------------------------------------------
(* Requests. *)

Serves(op) == op \in world.ops
Free(r) == reqs[r] = Idle
At(r, step) == reqs[r].at = step
Move(r, job) == reqs' = [reqs EXCEPT ![r] = job]
Step(r, step) == Move(r, [reqs[r] EXCEPT !.at = step])
Done(r) == Move(r, Idle)

\* The requests that have invalidated the links of u and not yet inserted theirs.
Issuing(rs, u) == {r \in Requests : rs[r].at = "insert link" /\ rs[r].user = u}
\* The registrations that have read the invite and not yet marked it used.
Admitting(rs, i) == {r \in Requests : rs[r].at \in {"create", "mark"} /\ rs[r].invite = i}

Larger(a, b) == IF a > b THEN a ELSE b
Peaks(rs) == [peak EXCEPT
    !.issues = [u \in UserIds |-> Larger(@[u], Cardinality(Issuing(rs, u)))],
    !.entries = [i \in InviteIds |-> Larger(@[i], Cardinality(Admitting(rs, i)))]]

Failing == /\ faults.failures < world.failures
           /\ faults' = [faults EXCEPT !.failures = @ + 1]

\* A statement of the request fails and the handler answers 500; only the
\* invite mark and the mails are logged and passed over.
RequestFails(r) ==
    /\ ~Free(r) /\ reqs[r].at # "mark" /\ Failing /\ Done(r)
    /\ UNCHANGED <<world, users, known, links, resends, invites, tokens, revoked, peak>>

-----------------------------------------------------------------------------
(* The middleware: a JWT is accepted until it expires; the look-up of the   *)
(* logged-out tokens lets a token pass when Redis does not answer.  The     *)
(* user's row is not read.                                                  *)

CheckRevoked(t) == \/ t \notin revoked /\ UNCHANGED faults
                   \/ t \in revoked /\ Failing
RequirePlatformAdmin(t) == tokens[t].role = "admin"
Admitted(t) == Exists(tokens, t) /\ CheckRevoked(t)

-----------------------------------------------------------------------------
(* Registration. *)

\* Mutant: a used invite opens the door again.
InviteOpenUsed(i, e) ==
    /\ Exists(invites, i)
    /\ ~invites[i].revoked /\ ~invites[i].expired
    /\ invites[i].email \in {Anyone, e}

\* GetValidPlatformInviteByTokenHash, and the address of the invite.
InviteOpen(i, e) ==
    /\ Exists(invites, i)
    /\ invites[i].usedBy = NoOne /\ ~invites[i].revoked /\ ~invites[i].expired
    /\ invites[i].email \in {Anyone, e}

Register(r, e, i) ==
    /\ Serves("register") /\ Free(r)
    /\ IF world.closed THEN i # NoOne /\ InviteOpen(i, e) ELSE i = NoOne
    /\ Move(r, [at |-> "create", email |-> e, invite |-> i])
    /\ peak' = Peaks(reqs')
    /\ UNCHANGED <<world, users, known, links, resends, invites, tokens, revoked, faults>>

\* After the account exists: verify it by mail, or at once.
Welcome == IF world.required THEN "invalidate" ELSE "auto verify"

RegisterCreate(r) ==
    /\ At(r, "create")
    /\ LET e == reqs[r].email
           u == known + 1
       IN IF UsersAt(e) # {}
          THEN Done(r) /\ UNCHANGED <<users, known, peak>>      \* 409: users.email is unique
          ELSE /\ known < MaxUsers
               /\ users' = [users EXCEPT ![u] = NewUser(e)]
               /\ known' = u
               /\ Move(r, [at |-> IF reqs[r].invite = NoOne THEN Welcome ELSE "mark",
                           email |-> e, user |-> u, invite |-> reqs[r].invite])
               /\ peak' = IF reqs[r].invite = NoOne THEN peak
                          ELSE [peak EXCEPT !.admitted[reqs[r].invite] = @ + 1]
    /\ UNCHANGED <<world, links, resends, invites, tokens, revoked, faults>>

\* UsePlatformInvite: a failure is logged and the registration goes on.  The
\* mark refers to the user, so it fails too when the account is gone again.
RegisterMark(r) ==
    /\ At(r, "mark") /\ Step(r, Welcome)
    /\ LET i == reqs[r].invite IN
       \/ /\ Exists(users, reqs[r].user)
          /\ invites' = IF invites[i].usedBy # NoOne THEN invites
                        ELSE [invites EXCEPT ![i].usedBy = reqs[r].user]
          /\ UNCHANGED <<faults, peak>>
       \/ /\ IF Exists(users, reqs[r].user) THEN Failing ELSE UNCHANGED faults
          /\ peak' = [peak EXCEPT !.lost[i] = @ + 1]
          /\ UNCHANGED invites
    /\ UNCHANGED <<world, users, known, links, resends, tokens, revoked>>

RegisterVerify(r) ==
    /\ At(r, "auto verify") /\ Done(r)
    /\ users' = IF Exists(users, reqs[r].user)
                THEN [users EXCEPT ![reqs[r].user].verified = TRUE] ELSE users
    /\ UNCHANGED <<world, known, links, resends, invites, tokens, revoked, faults, peak>>

-----------------------------------------------------------------------------
(* Verification links: IssueVerificationEmail consumes the pending ones,    *)
(* inserts a new one and mails it, in three steps.                          *)

\* Mutant: the links sent earlier are left to expire.
InvalidatedNever(u) == [l \in LinkIds |-> links[l]]

Invalidated(u) == [l \in LinkIds |->
    IF Exists(links, l) /\ links[l].user = u THEN NoRow ELSE links[l]]

IssueInvalidate(r) ==
    /\ At(r, "invalidate")
    /\ links' = Invalidated(reqs[r].user)
    /\ Step(r, "insert link")
    /\ peak' = Peaks(reqs')
    /\ UNCHANGED <<world, users, known, resends, invites, tokens, revoked, faults>>

FreshLinks == {l \in LinkIds : ~Exists(links, l)
                  /\ \A r \in Requests : reqs[r].at \in {"mail", "consume"} => reqs[r].link # l}

IssueInsert(r) ==
    /\ At(r, "insert link")
    /\ LET u == reqs[r].user IN
       IF ~Exists(users, u) THEN Done(r) /\ UNCHANGED links     \* the row must refer to a user
       ELSE \E l \in FreshLinks :
            /\ \A k \in FreshLinks : l <= k
            /\ links' = [links EXCEPT ![l] = [user |-> u, mailed |-> FALSE]]
            /\ Move(r, [at |-> "mail", link |-> l])
    /\ UNCHANGED <<world, users, known, resends, invites, tokens, revoked, faults, peak>>

\* SendVerification: when the mail fails the row stays, with a link nobody has.
IssueMail(r) ==
    /\ At(r, "mail") /\ Done(r)
    /\ links' = IF Exists(links, reqs[r].link)
                THEN [links EXCEPT ![reqs[r].link].mailed = TRUE] ELSE links
    /\ UNCHANGED <<world, users, known, resends, invites, tokens, revoked, faults, peak>>

\* ResendVerification counts the attempt first, for addresses of nobody too.
ResendVerification(r, e) ==
    /\ Serves("resend") /\ Free(r)
    /\ resends[e] <= maxVerifyResendsPerHour          \* bound: counts past the limit alike
    /\ resends' = [resends EXCEPT ![e] = @ + 1]
    /\ IF resends'[e] > maxVerifyResendsPerHour THEN UNCHANGED reqs
       ELSE Move(r, [at |-> "look up", email |-> e])
    /\ UNCHANGED <<world, users, known, links, invites, tokens, revoked, faults, peak>>

ResendLookUp(r) ==
    /\ At(r, "look up")
    /\ LET u == UserByEmail(reqs[r].email) IN
       IF u # NoOne => users[u].verified THEN Done(r)
       ELSE Move(r, [at |-> "invalidate", user |-> u])
    /\ UNCHANGED <<world, users, known, links, resends, invites, tokens, revoked, faults, peak>>

\* An hour without an attempt: the counter's key expires.
ResendHourPasses(e) ==
    /\ resends[e] > 0
    /\ resends' = [resends EXCEPT ![e] = 0]
    /\ UNCHANGED <<world, users, known, links, invites, tokens, revoked, reqs, faults, peak>>

VerifyEmail(r, l) ==
    /\ Serves("verify") /\ Free(r)
    /\ Exists(links, l) /\ links[l].mailed
    /\ Move(r, [at |-> "consume", link |-> l, user |-> links[l].user])
    /\ UNCHANGED <<world, users, known, links, resends, invites, tokens, revoked, faults, peak>>

\* ConsumeEmailVerification: one transaction, guarded by the row's state.
VerifyConsume(r) ==
    /\ At(r, "consume") /\ Done(r)
    /\ IF Exists(links, reqs[r].link)
       THEN /\ links' = [links EXCEPT ![reqs[r].link] = NoRow]
            /\ users' = [users EXCEPT ![reqs[r].user].verified = TRUE]
       ELSE UNCHANGED <<links, users>>
    /\ UNCHANGED <<world, known, resends, invites, tokens, revoked, faults, peak>>

LinkExpires(l) ==
    /\ Serves("verify") /\ Exists(links, l)
    /\ links' = [links EXCEPT ![l] = NoRow]
    /\ UNCHANGED <<world, users, known, resends, invites, tokens, revoked, reqs, faults, peak>>

-----------------------------------------------------------------------------
(* Login and logout. *)

\* LoginBlockedByEmailVerification, and the account's status.
MayLogIn(u) == users[u].status = "active" /\ (world.required => users[u].verified)

Login(r, e) ==
    /\ Serves("login") /\ Free(r)
    /\ LET u == UserByEmail(e) IN
       /\ u # NoOne /\ MayLogIn(u)
       /\ Move(r, [at |-> "sign", user |-> u, role |-> users[u].role])
    /\ UNCHANGED <<world, users, known, links, resends, invites, tokens, revoked, faults, peak>>

\* The claims are those of the row read before.  An acceptance of an organisation's
\* invite signs its token the same way.
Sign(r) ==
    /\ At(r, "sign") /\ Done(r)
    /\ \E t \in TokenIds :
       /\ ~Exists(tokens, t) /\ \A k \in 1..(t - 1) : Exists(tokens, k)
       /\ tokens' = [tokens EXCEPT ![t] = [user |-> reqs[r].user, role |-> reqs[r].role]]
    /\ UNCHANGED <<world, users, known, links, resends, invites, revoked, faults, peak>>

\* RevokeJWT keeps the token's hash for the time the token has left.
Logout(t) ==
    /\ Serves("login") /\ Admitted(t)
    /\ revoked' = revoked \cup {t}
    /\ UNCHANGED <<world, users, known, links, resends, invites, tokens, reqs, peak>>

TokenExpires(t) ==
    /\ Exists(tokens, t)
    /\ tokens' = [tokens EXCEPT ![t] = NoRow]
    /\ revoked' = revoked \ {t}
    /\ UNCHANGED <<world, users, known, links, resends, invites, reqs, faults, peak>>

-----------------------------------------------------------------------------
(* The administrator. *)

AdminMay(t) == Serves("admin") /\ Admitted(t) /\ RequirePlatformAdmin(t)

\* AdminPatchUser: the role is checked on the row read first; status and
\* verification are written one after the other.
PatchLoad(r, t, u, patch) ==
    /\ Free(r) /\ AdminMay(t) /\ Exists(users, u)
    /\ users[u].role = "admin" => patch.status # "suspended"
    /\ Move(r, [at |-> "patch status", user |-> u, patch |-> patch])
    /\ UNCHANGED <<world, users, known, links, resends, invites, tokens, revoked, peak>>

PatchStatus(r) ==
    /\ At(r, "patch status")
    /\ LET u == reqs[r].user  want == reqs[r].patch.status IN
       IF want = "keep" THEN Step(r, "patch verified") /\ UNCHANGED users
       ELSE IF ~Exists(users, u) THEN Done(r) /\ UNCHANGED users
       ELSE Step(r, "patch verified") /\ users' = [users EXCEPT ![u].status = want]
    /\ UNCHANGED <<world, known, links, resends, invites, tokens, revoked, faults, peak>>

PatchVerified(r) ==
    /\ At(r, "patch verified") /\ Done(r)
    /\ LET u == reqs[r].user  want == reqs[r].patch.verified IN
       users' = IF want = "keep" \/ ~Exists(users, u) THEN users
                ELSE [users EXCEPT ![u].verified = (want = "yes")]
    /\ UNCHANGED <<world, known, links, resends, invites, tokens, revoked, faults, peak>>

\* Mutant: only the caller's own account is protected.
DeletableOther(t, u) == u # tokens[t].user

\* AdminDeleteUser may not name the caller's own account nor an administrator's.
Deletable(t, u) == u # tokens[t].user /\ users[u].role # "admin"

DeleteLoad(r, t, u) ==
    /\ Free(r) /\ AdminMay(t) /\ Exists(users, u) /\ Deletable(t, u)
    /\ Move(r, [at |-> "delete", user |-> u, email |-> users[u].email])
    /\ UNCHANGED <<world, users, known, links, resends, invites, tokens, revoked, peak>>

\* Verification links go with the user; the platform invites a user created or
\* used refer to the row without a cascade and keep it.
HeldByInvite(u) == \E i \in InviteIds : Exists(invites, i) /\ u \in {invites[i].by, invites[i].usedBy}

\* "held" adds the references other tables make.
DeleteUser(r, held) ==
    /\ At(r, "delete")
    /\ LET u == reqs[r].user IN
       IF ~Exists(users, u) \/ HeldByInvite(u) \/ held
       THEN Done(r) /\ UNCHANGED <<users, links>>
       ELSE /\ users' = [users EXCEPT ![u] = NoRow]
            /\ links' = [l \in LinkIds |-> IF Exists(links, l) /\ links[l].user = u
                                          THEN NoRow ELSE links[l]]
            /\ Step(r, "clear resends")
    /\ UNCHANGED <<world, known, resends, invites, tokens, revoked, faults, peak>>

ClearResends(r) ==
    /\ At(r, "clear resends") /\ Done(r)
    /\ resends' = [resends EXCEPT ![reqs[r].email] = 0]
    /\ UNCHANGED <<world, users, known, links, invites, tokens, revoked, faults, peak>>

\* AdminCreatePlatformInvite; created_by must name a user that still exists.
CreatePlatformInvite(t, e) ==
    /\ AdminMay(t) /\ Exists(users, tokens[t].user)
    /\ \E i \in InviteIds :
       /\ ~Exists(invites, i) /\ \A k \in 1..(i - 1) : Exists(invites, k)
       /\ invites' = [invites EXCEPT ![i] = [email |-> e, by |-> tokens[t].user, usedBy |-> NoOne,
                                             revoked |-> FALSE, expired |-> FALSE]]
    /\ UNCHANGED <<world, users, known, links, resends, tokens, revoked, reqs, peak>>

RevokePlatformInvite(t, i) ==
    /\ AdminMay(t) /\ Exists(invites, i) /\ ~invites[i].revoked /\ invites[i].usedBy = NoOne
    /\ invites' = [invites EXCEPT ![i].revoked = TRUE]
    /\ UNCHANGED <<world, users, known, links, resends, tokens, revoked, reqs, peak>>

InviteExpires(i) ==
    /\ Serves("register") /\ Exists(invites, i) /\ ~invites[i].expired
    /\ invites' = [invites EXCEPT ![i].expired = TRUE]
    /\ UNCHANGED <<world, users, known, links, resends, tokens, revoked, reqs, faults, peak>>

\* A restart drops the requests in flight; bootstrapAdmin creates or promotes
\* the account of the configured address (create: a password is configured) and verifies it.
Restart(create) ==
    /\ faults.restarts < world.restarts
    /\ faults' = [faults EXCEPT !.restarts = @ + 1]
    /\ reqs' = [r \in Requests |-> Idle]
    /\ peak' = [peak EXCEPT !.lost = [i \in InviteIds |->
                  @[i] + Cardinality({r \in Requests : reqs[r].at = "mark" /\ reqs[r].invite = i})]]
    /\ LET u == UserByEmail(BootstrapEmail) IN
       CASE u # NoOne -> /\ users' = [users EXCEPT ![u].role = "admin", ![u].verified = TRUE]
                         /\ UNCHANGED known
         [] u = NoOne /\ create ->
              /\ known < MaxUsers /\ known' = known + 1
              /\ users' = [users EXCEPT ![known + 1] = [NewUser(BootstrapEmail) EXCEPT
                               !.role = "admin", !.verified = TRUE]]
         [] OTHER -> UNCHANGED <<users, known>>
    /\ UNCHANGED <<world, links, resends, invites, tokens, revoked>>

-----------------------------------------------------------------------------
\* The rows a run starts from fit in the tables, and its sessions tell the truth.
ASSUME AccountConstantsOK ==
    /\ MaxUsers \in Nat /\ MaxLinks \in Nat /\ IsFiniteSet(Requests)
    /\ \A w \in Worlds :
          /\ w.users \in Seq(UserRows) /\ Len(w.users) <= MaxUsers
          /\ w.invites \in Seq(InviteRows)
          /\ w.tokens \in Seq(Claims)
          /\ \A t \in DOMAIN w.tokens : w.tokens[t].role = "admin" =>
                /\ w.tokens[t].user \in DOMAIN w.users
                /\ w.users[w.tokens[t].user].role = "admin"

UserInit ==
    /\ world \in Worlds
    /\ users = [u \in UserIds |-> IF u <= Len(world.users) THEN world.users[u] ELSE NoRow]
    /\ known = Len(world.users)
    /\ links = [l \in LinkIds |-> NoRow]
    /\ resends = [e \in Emails |-> 0]
    /\ invites = [i \in InviteIds |-> IF i <= Len(world.invites) THEN world.invites[i] ELSE NoRow]
    /\ tokens = [t \in TokenIds |-> IF t <= Len(world.tokens) THEN world.tokens[t] ELSE NoRow]
    /\ revoked = {}
    /\ reqs = [r \in Requests |-> Idle]
    /\ faults = [restarts |-> 0, failures |-> 0]
    /\ peak = [issues |-> [u \in UserIds |-> 0], entries |-> [i \in InviteIds |-> 0],
               admitted |-> [i \in InviteIds |-> 0], lost |-> [i \in InviteIds |-> 0]]

\* All steps but the deletion, which other tables take part in.
UserNext ==
    \/ \E r \in Requests, e \in world.emails :
          \/ \E i \in InviteIds \cup {NoOne} : Register(r, e, i)
          \/ ResendVerification(r, e) \/ Login(r, e)
    \/ \E r \in Requests :
          \/ RegisterCreate(r) \/ RegisterMark(r) \/ RegisterVerify(r)
          \/ IssueInvalidate(r) \/ IssueInsert(r) \/ IssueMail(r) \/ ResendLookUp(r)
          \/ VerifyConsume(r) \/ Sign(r) \/ PatchStatus(r) \/ PatchVerified(r)
          \/ ClearResends(r) \/ RequestFails(r)
          \/ \E l \in LinkIds : VerifyEmail(r, l)
          \/ \E t \in TokenIds, u \in UserIds :
                DeleteLoad(r, t, u) \/ \E patch \in world.patches : PatchLoad(r, t, u, patch)
    \/ \E e \in world.emails : ResendHourPasses(e)
    \/ \E l \in LinkIds : LinkExpires(l)
    \/ \E i \in InviteIds : InviteExpires(i)
    \/ \E t \in TokenIds :
          \/ Logout(t) \/ TokenExpires(t)
          \/ \E e \in world.emails \cup {Anyone} : CreatePlatformInvite(t, e)
          \/ \E i \in InviteIds : RevokePlatformInvite(t, i)
    \/ \E create \in BOOLEAN : Restart(create)

-----------------------------------------------------------------------------
(* The rows refer to rows that exist, and addresses are unique. *)
UserTypeOK ==
    /\ \A u \in UserIds : Exists(users, u) => u <= known /\ users[u] \in UserRows
    /\ \A e \in Emails : Cardinality(UsersAt(e)) <= 1
    /\ \A l \in LinkIds : Exists(links, l) => links[l] \in LinkRows /\ Exists(users, links[l].user)
    /\ \A i \in InviteIds : Exists(invites, i) =>
          /\ invites[i] \in InviteRows /\ Exists(users, invites[i].by)
          /\ invites[i].usedBy # NoOne => Exists(users, invites[i].usedBy)
    /\ \A t \in TokenIds : Exists(tokens, t) => tokens[t] \in Claims
    /\ revoked \subseteq {t \in TokenIds : Exists(tokens, t)}
    /\ resends \in [Emails -> 0..(maxVerifyResendsPerHour + 1)]

(* A user never holds more usable verification links than there were requests   *)
(* issuing one at the same moment: IssueVerificationEmail invalidates and       *)
(* inserts in two statements, so only overlapping ones can leave a second link. *)
LinksWithinOverlap ==
    \A u \in UserIds :
        Cardinality({l \in LinkIds : Exists(links, l) /\ links[l].user = u}) <= peak.issues[u]

(* A platform invite admits one account, and one more for every registration    *)
(* that held it at the same moment and for every mark that was lost to a failed *)
(* statement or a restart (Register reads the invite, creates the user and      *)
(* marks the invite in three statements).                                       *)
InviteAdmitsOnce ==
    \A i \in InviteIds : peak.admitted[i] <= Larger(1, peak.entries[i]) + peak.lost[i]

(* Whoever passes RequirePlatformAdmin, which reads the claims only, is still   *)
(* an administrator in the table.                                               *)
AdminClaimsHold ==
    \A t \in TokenIds : Exists(tokens, t) /\ RequirePlatformAdmin(t) =>
        Exists(users, tokens[t].user) /\ users[tokens[t].user].role = "admin"
=============================================================================
