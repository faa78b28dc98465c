------------------------------ MODULE Accounts ------------------------------
(***************************************************************************)
(* User accounts, their memberships in companies and their sessions.       *)
(*                                                                         *)
(* The member page of a company and the account page (member-management,   *)
(* user-management) check first and write later, with nothing held in      *)
(* between.  The developer's console (developer-management) works in       *)
(* serializable transactions.  These keep apart from one another, not from *)
(* the writes of the pages, which are READ COMMITTED: whatever looks at    *)
(* other users before it writes is two steps, its reads and its commit,    *)
(* and others may come between.  A transaction of the console that writes  *)
(* only what it has looked at is one.                                      *)
(*                                                                         *)
(* status and isActive of a user are always written together and are one   *)
(* value.  The developer is outside the model: no operation changes him.   *)
(* Of an invitation only its effect is kept, a membership.                 *)
(***************************************************************************)
EXTENDS FiniteSets, Naturals

CONSTANTS
    Users, Companies, Requests,
    Developer,  \* the actor of the developer's console
    MaxLoad     \* bound on the companies and the requests in flight together

ASSUME MaxLoadAssumption == MaxLoad \in Nat
ASSUME DeveloperAssumption == Developer \notin Users

VARIABLES
    user,      \* status of each user
    company,   \* status of each company
    member,    \* the membership of each user in each company
    session,   \* the users who hold a token with their current sessionVersion
    request    \* what is between its checks and its write

vars == <<user, company, member, session, request>>

NotMember    == [role |-> "NONE", status |-> "NONE"]
Active(role) == [role |-> role, status |-> "ACTIVE"]
Roles        == {"ADMIN", "STAFF"}
Memberships  == [role: Roles, status: {"ACTIVE", "DISABLED"}] \cup {NotMember}

(* What a request is to write.  Not in the code are "moved", the companies *)
(* whose administrators others have changed since its checks, and "alone", *)
(* whether its user is as it was.  A transaction of the console has looked *)
(* at the administrators of "counted", its user is the last one of "last", *)
(* which are suspended or go to its heir.                                  *)
NoRequest  == [op |-> "NONE"]
ConsoleOps == {"SUSPEND", "DELETE", "DEMOTE"}
Pending ==
    [op: {"MEMBER_ROLE", "USER_ROLE"}, user: Users, company: Companies, to: Roles,
     alone: BOOLEAN, moved: SUBSET Companies]
    \cup [op: {"MEMBER_STATUS"}, user: Users, company: Companies, to: {"ACTIVE", "DISABLED"},
          alone: BOOLEAN, moved: SUBSET Companies]
    \cup [op: {"USER_STATUS"}, user: Users, to: {"ACTIVE", "SUSPENDED"},
          alone: BOOLEAN, moved: SUBSET Companies]
    \cup [op: ConsoleOps, user: Users, counted: SUBSET Companies, last: SUBSET Companies,
          heirs: SUBSET Users, moved: SUBSET Companies]

Init ==
    /\ user = [u \in Users |-> "NONE"]
    /\ company = [c \in Companies |-> "NONE"]
    /\ member = [u \in Users |-> [c \in Companies |-> NotMember]]
    /\ session = {}
    /\ request = [r \in Requests |-> NoRequest]

Load == Cardinality({c \in Companies : company[c] # "NONE"})
          + Cardinality({r \in Requests : request[r] # NoRequest})

(* The administrators of a company with the status of each; those who can  *)
(* run it, and whether somebody but u can                                  *)
Holders(c)  == {v \in Users : member[v][c] = Active("ADMIN")}
Standing(c) == [v \in Holders(c) |-> user[v]]
Admins(c) == {u \in Users : user[u] = "ACTIVE" /\ member[u][c] = Active("ADMIN")}
OtherAdmin(u, c) == Admins(c) \ {u} # {}

(* A membership without which nobody logs in or has an access context      *)
Employed(u) == \E c \in Companies : member[u][c].status = "ACTIVE" /\ company[c] = "ACTIVE"

(* getCurrentUser and the access context, read anew by every request       *)
Admin(a, c) == a \in session \cap Admins(c) /\ company[c] = "ACTIVE"

Begin(req) ==
    /\ Load < MaxLoad
    /\ \E r \in Requests :
         /\ request[r] = NoRequest
         /\ request' = [request EXCEPT ![r] = req]
    /\ UNCHANGED <<user, company, member, session>>
-----------------------------------------------------------------------------
(* What a commit does to the requests in flight                            *)

(* Bug: the sessions of the new administrator go on, his row is untouched. *)
WrittenQuiet(r) == {request[r].user}

(* The users whose rows a transaction of the console writes                *)
Written(r) == {request[r].user} \cup request[r].heirs

(* PostgreSQL ends a serializable transaction that is to write a row which *)
(* another one, of any level, has written since its snapshot.  us and cs   *)
(* are the users and companies whose rows were written.                    *)
Overwritten(us, cs) == {q \in Requests :
    /\ request[q].op \in ConsoleOps
    /\ \/ Written(q) \cap us # {}
       \/ request[q].heirs = {} /\ request[q].last \cap cs # {}}

(* It ends one of two that have looked at the administrators of the same   *)
(* company: each has read what the other writes.                           *)
Dependent(r) == {q \in Requests :
    /\ request[q].op \in ConsoleOps
    /\ request[q].counted \cap request[r].counted # {}}

(* Request q after a commit that is in order with the transactions of the  *)
(* console as far as the companies of "ordered" go                         *)
Overtaken(q, ordered) ==
    LET req   == request[q]
        other == {c \in Companies : Standing(c)' # Standing(c)}
    IN  IF req.op \in ConsoleOps
        THEN [req EXCEPT !.moved = @ \cup (other \ ordered)
                                     \cup {c \in Companies : company'[c] # company[c]}]
        ELSE [req EXCEPT !.moved = @ \cup other,
                         !.alone = @ /\ user'[req.user] = user[req.user]
                                     /\ member'[req.user] = member[req.user]]

Commits(ended, ordered) == request' = [q \in Requests |->
    IF request[q] = NoRequest \/ q \in ended THEN NoRequest ELSE Overtaken(q, ordered)]
-----------------------------------------------------------------------------
(* developer-management.service.ts                                         *)

AdminOf(u) == {c \in Companies : company[c] = "ACTIVE" /\ member[u][c] = Active("ADMIN")}

(* Bug: the membership of a suspended user counts as an administrator.     *)
LastAdminOfAny(u) == {c \in AdminOf(u) : Holders(c) = {u}}

(* findLastAdminCompanyIds: suspended companies are not looked at.         *)
LastAdminOf(u) == {c \in AdminOf(u) : ~OtherAdmin(u, c)}

Replacements(cs) == {v \in Users :
    user[v] = "ACTIVE" /\ \A c \in cs : member[v][c] = Active("STAFF")}

(* resolveLastAdminCompanies: one of their staff becomes administrator of  *)
(* all the companies, or they are suspended, without an heir; NONE is      *)
(* refused.                                                                *)
Resolutions(cs) == {{}} \cup (IF cs = {} THEN {} ELSE {{v} : v \in Replacements(cs)})

BeginConsole(op, u, counted, last) == \E heirs \in Resolutions(last) :
    Begin([op |-> op, user |-> u, counted |-> counted, last |-> last, heirs |-> heirs,
           moved |-> {}])

SuspendUser(u) ==
    /\ user[u] = "ACTIVE"
    /\ BeginConsole("SUSPEND", u, AdminOf(u), LastAdminOf(u))

SoftDeleteUser(u) ==
    /\ user[u] \in {"ACTIVE", "SUSPENDED"}
    /\ BeginConsole("DELETE", u, AdminOf(u), LastAdminOf(u))

(* changeUserRole to staff                                                 *)
DemoteUser(u, c) ==
    /\ user[u] = "ACTIVE"
    /\ member[u][c] = Active("ADMIN")
    /\ BeginConsole("DEMOTE", u, {c}, IF OtherAdmin(u, c) THEN {} ELSE {c})

(* The writes and the commit of the three                                  *)
CommitConsole(r) ==
    LET req       == request[r]
        suspended == IF req.heirs = {} THEN req.last ELSE {}
    IN
    /\ req.op \in ConsoleOps
    /\ company' = [c \in Companies |-> IF c \in suspended THEN "SUSPENDED" ELSE company[c]]
    /\ user' = [user EXCEPT ![req.user] =
         CASE req.op = "SUSPEND" -> "SUSPENDED"
           [] req.op = "DELETE"  -> "DELETED"
           [] req.op = "DEMOTE"  -> @]
    /\ member' = [v \in Users |-> [c \in Companies |->
         IF v \in req.heirs /\ c \in req.last THEN Active("ADMIN")
         ELSE IF req.op = "DEMOTE" /\ v = req.user /\ c \in req.counted THEN Active("STAFF")
         ELSE member[v][c]]]
    /\ session' = session \ Written(r)
    /\ Commits({r} \cup Dependent(r) \cup Overwritten(Written(r), suspended),
               Companies \ req.moved)

RestoreUser(u) ==
    /\ user[u] = "SUSPENDED"
    /\ user' = [user EXCEPT ![u] = "ACTIVE"]
    /\ session' = session \ {u}
    /\ UNCHANGED <<company, member>>
    /\ Commits(Overwritten({u}, {}), Companies)

ForceLogoutUser(u) ==
    /\ u \in session
    /\ session' = session \ {u}
    /\ UNCHANGED <<user, company, member>>
    /\ Commits(Overwritten({u}, {}), Companies)

(* changeUserRole to administrator                                         *)
PromoteUser(u, c) ==
    /\ user[u] = "ACTIVE"
    /\ member[u][c] = Active("STAFF")
    /\ member' = [member EXCEPT ![u][c] = Active("ADMIN")]
    /\ session' = session \ {u}
    /\ UNCHANGED <<user, company>>
    /\ Commits(Overwritten({u}, {}), Companies)

TransferCompanyAdmin(c, v) ==
    /\ v \in Replacements({c})
    /\ member' = [member EXCEPT ![v][c] = Active("ADMIN")]
    /\ session' = session \ {v}
    /\ UNCHANGED <<user, company>>
    /\ Commits(Overwritten({v}, {}), Companies)

SuspendCompany(c) ==
    /\ company[c] = "ACTIVE"
    /\ company' = [company EXCEPT ![c] = "SUSPENDED"]
    /\ UNCHANGED <<user, member, session>>
    /\ Commits(Overwritten({}, {c}), Companies)

RestoreCompany(c) ==
    /\ company[c] = "SUSPENDED"
    /\ company' = [company EXCEPT ![c] = "ACTIVE"]
    /\ UNCHANGED <<user, member, session>>
    /\ Commits(Overwritten({}, {c}), Companies)
-----------------------------------------------------------------------------
(* How users, companies and memberships come about, and sessions           *)

CreateCompany(c) ==
    /\ company[c] = "NONE"
    /\ Load < MaxLoad
    /\ company' = [company EXCEPT ![c] = "ACTIVE"]
    /\ UNCHANGED <<user, member, session>>
    /\ Commits({}, {})

(* signupAction with a new company                                         *)
SignUp(u, c) ==
    /\ user[u] = "NONE"
    /\ company[c] = "NONE"
    /\ Load < MaxLoad
    /\ user' = [user EXCEPT ![u] = "ACTIVE"]
    /\ company' = [company EXCEPT ![c] = "ACTIVE"]
    /\ member' = [member EXCEPT ![u][c] = Active("ADMIN")]
    /\ UNCHANGED session
    /\ Commits({}, {})

(* signupAction and acceptInvitationCodeAction with a code for the role    *)
Join(u, c, role) ==
    /\ \/ user[u] = "NONE"
       \/ u \in session /\ Employed(u)
    /\ company[c] = "ACTIVE"
    /\ member[u][c] = NotMember
    /\ user' = [user EXCEPT ![u] = "ACTIVE"]
    /\ member' = [member EXCEPT ![u][c] = Active(role)]
    /\ UNCHANGED <<company, session>>
    /\ Commits({}, {})

(* createManagedUserAction; canCreateUserRole lets an administrator create *)
(* staff only.                                                             *)
CreateManagedUser(a, u, c, role, status) ==
    /\ \/ a = Developer
       \/ Admin(a, c) /\ role = "STAFF"
    /\ user[u] = "NONE"
    /\ company[c] # "NONE"
    /\ user' = [user EXCEPT ![u] = status]
    /\ member' = [member EXCEPT ![u][c] = Active(role)]
    /\ UNCHANGED <<company, session>>
    /\ Commits({}, {})

(* authenticateLoginAttempt; the token carries the sessionVersion that was *)
(* read with the password.                                                 *)
LogIn(u) ==
    /\ u \notin session
    /\ user[u] = "ACTIVE"
    /\ Employed(u)
    /\ session' = session \cup {u}
    /\ UNCHANGED <<user, company, member, request>>
-----------------------------------------------------------------------------
(* member-management.actions.ts and user-management.actions.ts: the checks *)

(* managementContext and assertCanManageMember                             *)
Manages(a, u, c) ==
    /\ a # u
    /\ IF a = Developer THEN company[c] = "ACTIVE" ELSE Admin(a, c)
    /\ member[u][c] # NotMember

(* assertLastActiveAdminSafe, with the count its callers make: memberships *)
(* whatever the status of their users.                                     *)
LastActiveAdminSafe(u, c) ==
    member[u][c].role = "ADMIN" =>
        Cardinality({v \in Users : member[v][c] = Active("ADMIN")}) > 1

BeginMemberRole(a, u, c, role) ==
    /\ Manages(a, u, c)
    /\ role = "STAFF" => LastActiveAdminSafe(u, c)
    /\ Begin([op |-> "MEMBER_ROLE", user |-> u, company |-> c, to |-> role,
              alone |-> TRUE, moved |-> {}])

BeginMemberStatus(a, u, c, status) ==
    /\ Manages(a, u, c)
    /\ status = "DISABLED" => LastActiveAdminSafe(u, c)
    /\ Begin([op |-> "MEMBER_STATUS", user |-> u, company |-> c, to |-> status,
              alone |-> TRUE, moved |-> {}])

(* targetInfo and canManageTarget: an administrator manages the staff of   *)
(* the company he works in, the developer everybody.                       *)
ManagesAccount(a, u, c) ==
    /\ a # u
    /\ user[u] # "NONE"
    /\ a # Developer => Admin(a, c) /\ member[u][c].role = "STAFF"

BeginUserStatus(a, u, c, status) ==
    /\ ManagesAccount(a, u, c)
    /\ user[u] # "DELETED"
    /\ status = "SUSPENDED" =>
         \A d \in Companies : member[u][d] = Active("ADMIN") => OtherAdmin(u, d)
    /\ Begin([op |-> "USER_STATUS", user |-> u, to |-> status,
              alone |-> TRUE, moved |-> {}])

(* The role of the target is that of one of his memberships, not always of *)
(* the one in company c.                                                   *)
TargetRoles(u) ==
    LET held == {member[u][d].role : d \in Companies} \ {"NONE"}
    IN  IF held = {} THEN {"STAFF"} ELSE held

BeginUserRole(a, u, c, role) ==
    /\ ManagesAccount(a, u, c)
    /\ company[c] # "NONE"
    /\ a # Developer => role = "STAFF"
    /\ \E held \in (IF a = Developer THEN TargetRoles(u) ELSE {"STAFF"}) :
         held = "ADMIN" /\ role = "STAFF" => OtherAdmin(u, c)
    /\ Begin([op |-> "USER_ROLE", user |-> u, company |-> c, to |-> role,
              alone |-> TRUE, moved |-> {}])
-----------------------------------------------------------------------------
(* and their writes, which look at nothing again                           *)

(* A new role replaces the membership rows of its user: the others that    *)
(* are to write one of them fail.                                          *)
Rowless(r) == {q \in Requests :
    /\ request[r].op = "USER_ROLE"
    /\ request[q].op \in {"MEMBER_ROLE", "MEMBER_STATUS"}
    /\ request[q].user = request[r].user}

Ended(r) == {r} \cup Rowless(r) \cup Overwritten({request[r].user}, {})

WriteMember(r) ==
    LET req == request[r] IN
    /\ req.op \in {"MEMBER_ROLE", "MEMBER_STATUS"}
    /\ member' = [member EXCEPT ![req.user][req.company] =
         IF req.op = "MEMBER_ROLE" THEN [@ EXCEPT !.role = req.to]
                                   ELSE [@ EXCEPT !.status = req.to]]
    /\ session' = session \ {req.user}
    /\ UNCHANGED <<user, company>>
    /\ Commits(Ended(r), {})

(* Bug: a suspended account keeps its sessions.                            *)
WriteUserStatusQuiet(r) ==
    /\ request[r].op = "USER_STATUS"
    /\ user' = [user EXCEPT ![request[r].user] = request[r].to]
    /\ UNCHANGED <<company, member, session>>
    /\ Commits(Ended(r), {})

WriteUserStatus(r) ==
    /\ request[r].op = "USER_STATUS"
    /\ user' = [user EXCEPT ![request[r].user] = request[r].to]
    /\ session' = session \ {request[r].user}
    /\ UNCHANGED <<company, member>>
    /\ Commits(Ended(r), {})

WriteUserRole(r) ==
    LET req == request[r] IN
    /\ req.op = "USER_ROLE"
    /\ member' = [member EXCEPT ![req.user] = [c \in Companies |->
         IF c = req.company THEN Active(req.to) ELSE NotMember]]
    /\ session' = session \ {req.user}
    /\ UNCHANGED <<user, company>>
    /\ Commits(Ended(r), {})

(* The connection or a statement fails; PostgreSQL may end a serializable  *)
(* transaction although it need not.                                       *)
Abandon(r) ==
    /\ request[r] # NoRequest
    /\ request' = [request EXCEPT ![r] = NoRequest]
    /\ UNCHANGED <<user, company, member, session>>

Write(r) == WriteMember(r) \/ WriteUserStatus(r) \/ WriteUserRole(r)

Console ==
    \/ \E u \in Users : RestoreUser(u) \/ ForceLogoutUser(u)
    \/ \E u \in Users, c \in Companies : PromoteUser(u, c) \/ TransferCompanyAdmin(c, u)
    \/ \E c \in Companies : SuspendCompany(c) \/ RestoreCompany(c) \/ CreateCompany(c)

ConsoleCheck == \E u \in Users :
    \/ SuspendUser(u) \/ SoftDeleteUser(u)
    \/ \E c \in Companies : DemoteUser(u, c)

Check == \E a \in Users \cup {Developer}, u \in Users, c \in Companies :
    \/ \E role \in Roles : BeginMemberRole(a, u, c, role) \/ BeginUserRole(a, u, c, role)
    \/ \E status \in {"ACTIVE", "DISABLED"} : BeginMemberStatus(a, u, c, status)
    \/ \E status \in {"ACTIVE", "SUSPENDED"} : BeginUserStatus(a, u, c, status)

Arrive ==
    \/ \E u \in Users : LogIn(u)
    \/ \E u \in Users, c \in Companies : SignUp(u, c)
    \/ \E u \in Users, c \in Companies, role \in Roles :
         \/ Join(u, c, role)
         \/ \E a \in Users \cup {Developer}, status \in {"ACTIVE", "SUSPENDED"} :
              CreateManagedUser(a, u, c, role, status)

Next ==
    \/ Console \/ ConsoleCheck \/ Check \/ Arrive
    \/ \E r \in Requests : CommitConsole(r) \/ Write(r) \/ Abandon(r)

Spec == Init /\ [][Next]_vars
-----------------------------------------------------------------------------
(* Every session is one of an active user.                                 *)
TypeOK ==
    /\ user \in [Users -> {"NONE", "ACTIVE", "SUSPENDED", "DELETED"}]
    /\ company \in [Companies -> {"NONE", "ACTIVE", "SUSPENDED"}]
    /\ member \in [Users -> [Companies -> Memberships]]
    /\ session \subseteq {u \in Users : user[u] = "ACTIVE"}
    /\ request \in [Requests -> Pending \cup {NoRequest}]

(* A request that does not see whether it takes the last administrator of  *)
(* c: others have changed the administrators of c since its checks, it     *)
(* counts the membership of a suspended administrator, or it replaces      *)
(* memberships in several companies and checks one.  The transactions of   *)
(* the console are among the others for a page; for the console they are   *)
(* not, unless one was itself overtaken.                                   *)
Unprotected(r, c) ==
    LET req == request[r] IN
    \/ c \in req.moved
    \/ /\ req.op \in {"MEMBER_ROLE", "MEMBER_STATUS"}
       /\ \E v \in Users \ Admins(c) : member[v][c] = Active("ADMIN")
    \/ /\ req.op = "USER_ROLE"
       /\ \/ ~req.alone
          \/ \E d \in Companies \ {c} : d = req.company \/ member[req.user][d] # NotMember

LosesAdmin(c) ==
    /\ company[c] = "ACTIVE" /\ company'[c] = "ACTIVE"
    /\ Admins(c) # {} /\ Admins(c)' = {}

Returns(u) == user[u] = "DELETED" /\ user'[u] # "DELETED"

(* What the checks are for.  An active company loses its last              *)
(* administrator only by a write, of a page or of the console, that cannot *)
(* see it; two transactions of the console never take the last two between *)
(* them.  user-management.actions.ts:66: the status of a withdrawn account *)
(* does not change; only a request that the withdrawal overtook changes    *)
(* it.                                                                     *)
ChecksProtect ==
    [][/\ \A c \in Companies : LosesAdmin(c) =>
            \E r \in Requests : (Write(r) \/ CommitConsole(r)) /\ Unprotected(r, c)
       /\ \A u \in Users : Returns(u) =>
            \E r \in Requests : WriteUserStatus(r) /\ ~request[r].alone]_vars

(* Who is given, or loses, a role or his standing by somebody else has to  *)
(* log in again: no token goes on with rights its user had before.         *)
ChangedIsLoggedOut == [][\A u \in session :
    \/ user'[u] = user[u] /\ member'[u] = member[u]
    \/ u \notin session'
    \/ \E c \in Companies, role \in Roles : Join(u, c, role)]_vars
=============================================================================
