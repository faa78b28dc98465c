-------------------------- MODULE Accounts_proofs --------------------------
(* Proofs about Accounts for every number of users, companies and requests *)
(* in flight.                                                              *)
EXTENDS Accounts, FiniteSetTheorems, TLAPS

USE DEF Active, NotMember, Roles, ConsoleOps

(* The empty state is well formed.                                         *)
LEMMA InitType == Init => TypeOK
BY DEF Init, TypeOK, Memberships

(* What each kind of request has in hand.                                  *)
LEMMA RequestFacts ==
    ASSUME TypeOK, NEW r \in Requests
    PROVE  /\ request[r].op \in {"MEMBER_ROLE", "MEMBER_STATUS", "USER_ROLE"} =>
                request[r].user \in Users /\ request[r].company \in Companies
           /\ request[r].op \in {"MEMBER_ROLE", "USER_ROLE"} => request[r].to \in Roles
           /\ request[r].op = "MEMBER_STATUS" => request[r].to \in {"ACTIVE", "DISABLED"}
           /\ request[r].op = "USER_STATUS" =>
                request[r].user \in Users /\ request[r].to \in {"ACTIVE", "SUSPENDED"}
           /\ request[r].op \in ConsoleOps =>
                /\ request[r].user \in Users
                /\ request[r].counted \subseteq Companies
                /\ request[r].last \subseteq Companies
                /\ request[r].heirs \subseteq Users
<1>1. request[r] \in Pending \/ request[r].op = "NONE"
  BY DEF TypeOK, NoRequest
<1> QED BY <1>1 DEF Pending

(* Companies whose administrators stand as they stood have the same ones.  *)
LEMMA StandingFacts ==
    ASSUME NEW c \in Companies, Standing(c)' = Standing(c)
    PROVE  Holders(c)' = Holders(c) /\ Admins(c)' = Admins(c)
<1>1. Holders(c)' = Holders(c)
  <2>1. DOMAIN Standing(c) = Holders(c) /\ DOMAIN Standing(c)' = Holders(c)'
    BY DEF Standing
  <2> QED BY <2>1
<1>2. \A v \in Holders(c) : user'[v] = user[v]
  <2>1. \A v \in Holders(c) : Standing(c)[v] = user[v] /\ (Standing(c)')[v] = user'[v]
    BY <1>1 DEF Standing
  <2> QED BY <2>1
<1> QED BY <1>1, <1>2 DEF Admins, Holders

(* A request of a page after a commit of others: what it is to write is    *)
(* the same, and what is not marked has not changed.                       *)
LEMMA PageOvertaken ==
    ASSUME TypeOK, NEW q \in Requests, NEW ordered, request[q] # NoRequest,
           request[q].op \notin ConsoleOps
    PROVE  LET req == request[q]
               new == Overtaken(q, ordered)
           IN  /\ new \in Pending
               /\ new.op = req.op /\ new.user = req.user /\ new.to = req.to
               /\ req.op # "USER_STATUS" => new.company = req.company
               /\ \A c \in Companies \ new.moved : c \notin req.moved /\ Standing(c)' = Standing(c)
               /\ new.alone => /\ req.alone
                               /\ user'[req.user] = user[req.user]
                               /\ member'[req.user] = member[req.user]
<1> DEFINE req   == request[q]
           other == {c \in Companies : Standing(c)' # Standing(c)}
           same  == user'[req.user] = user[req.user] /\ member'[req.user] = member[req.user]
           new   == [req EXCEPT !.moved = req.moved \cup other, !.alone = req.alone /\ same]
<1>1. req \in Pending
  BY DEF TypeOK
<1>2. Overtaken(q, ordered) = new
  BY DEF Overtaken
<1>3. same \in BOOLEAN /\ other \in SUBSET Companies
  OBVIOUS
<1>4. /\ req.alone \in BOOLEAN /\ req.moved \in SUBSET Companies
      /\ "alone" \in DOMAIN req /\ "moved" \in DOMAIN req
  BY <1>1 DEF Pending
<1>5. (req.alone /\ same) \in BOOLEAN
  OBVIOUS
<1>6. \A c \in Companies \ (req.moved \cup other) : c \notin req.moved /\ Standing(c)' = Standing(c)
  OBVIOUS
<1> HIDE DEF same, other
<1>7. /\ new \in Pending
      /\ new.op = req.op /\ new.user = req.user /\ new.to = req.to
      /\ req.op # "USER_STATUS" => new.company = req.company
      /\ new.moved = req.moved \cup other
  BY <1>1, <1>3, <1>4, <1>5 DEF Pending
<1>8. new.alone = (req.alone /\ same)
  BY <1>4
<1> QED BY <1>2, <1>6, <1>7, <1>8 DEF same

(* The same of a transaction of the console.                               *)
LEMMA ConsoleOvertaken ==
    ASSUME TypeOK, NEW q \in Requests, NEW ordered, request[q].op \in ConsoleOps
    PROVE  LET req == request[q]
               new == Overtaken(q, ordered)
           IN  /\ new \in Pending
               /\ new.op = req.op /\ new.user = req.user
               /\ new.counted = req.counted /\ new.last = req.last /\ new.heirs = req.heirs
               /\ \A c \in Companies \ new.moved :
                    /\ c \notin req.moved
                    /\ company'[c] = company[c]
                    /\ c \in ordered \/ Standing(c)' = Standing(c)
<1> DEFINE req   == request[q]
           other == {c \in Companies : Standing(c)' # Standing(c)} \ ordered
           turned == {c \in Companies : company'[c] # company[c]}
           new   == [req EXCEPT !.moved = req.moved \cup other \cup turned]
<1>1. req \in Pending
  BY DEF TypeOK, NoRequest
<1>2. Overtaken(q, ordered) = new
  BY DEF Overtaken
<1>3. other \in SUBSET Companies /\ turned \in SUBSET Companies
  OBVIOUS
<1>4. \A c \in Companies \ (req.moved \cup other \cup turned) :
         /\ c \notin req.moved
         /\ company'[c] = company[c]
         /\ c \in ordered \/ Standing(c)' = Standing(c)
  OBVIOUS
<1> HIDE DEF other, turned
<1>5. /\ new \in Pending
      /\ new.op = req.op /\ new.user = req.user
      /\ new.counted = req.counted /\ new.last = req.last /\ new.heirs = req.heirs
      /\ new.moved = req.moved \cup other \cup turned
  BY <1>1, <1>3 DEF Pending
<1> QED BY <1>2, <1>4, <1>5

(* A commit leaves the requests in flight well formed.                     *)
LEMMA CommitsType ==
    ASSUME TypeOK, NEW ended, NEW ordered, Commits(ended, ordered)
    PROVE  request' \in [Requests -> Pending \cup {NoRequest}]
<1>1. \A q \in Requests : request[q] # NoRequest => Overtaken(q, ordered) \in Pending
  BY PageOvertaken, ConsoleOvertaken
<1> QED BY <1>1 DEF Commits

(* So does the console,                                                    *)
LEMMA ConsoleType == TypeOK /\ Console => TypeOK'
<1> SUFFICES ASSUME TypeOK, Console
             PROVE  TypeOK'
  OBVIOUS
<1>0. request' \in [Requests -> Pending \cup {NoRequest}]
  BY CommitsType DEF Console, RestoreUser, ForceLogoutUser, PromoteUser, TransferCompanyAdmin,
     SuspendCompany, RestoreCompany, CreateCompany
<1>1. ASSUME NEW u \in Users, RestoreUser(u) \/ ForceLogoutUser(u)
      PROVE  TypeOK'
  BY <1>0, <1>1 DEF RestoreUser, ForceLogoutUser, TypeOK
<1>2. ASSUME NEW u \in Users, NEW c \in Companies, PromoteUser(u, c) \/ TransferCompanyAdmin(c, u)
      PROVE  TypeOK'
  <2>1. Active("ADMIN") \in Memberships
    BY DEF Memberships
  <2>2. member' = [member EXCEPT ![u][c] = Active("ADMIN")]
    BY <1>2 DEF PromoteUser, TransferCompanyAdmin
  <2>3. member' \in [Users -> [Companies -> Memberships]]
    BY <2>1, <2>2 DEF TypeOK
  <2> QED BY <1>0, <1>2, <2>3 DEF PromoteUser, TransferCompanyAdmin, TypeOK
<1>3. ASSUME NEW c \in Companies, SuspendCompany(c) \/ RestoreCompany(c) \/ CreateCompany(c)
      PROVE  TypeOK'
  BY <1>0, <1>3 DEF SuspendCompany, RestoreCompany, CreateCompany, TypeOK
<1> QED BY <1>1, <1>2, <1>3 DEF Console

(* the commit of a transaction of the console,                             *)
LEMMA CommitType == ASSUME TypeOK, NEW r \in Requests, CommitConsole(r) PROVE TypeOK'
<1> DEFINE req == request[r]
<1>1. /\ req.op \in ConsoleOps /\ req.user \in Users /\ req.last \subseteq Companies
      /\ req.counted \subseteq Companies /\ req.heirs \subseteq Users
  BY RequestFacts DEF CommitConsole
<1>2. request' \in [Requests -> Pending \cup {NoRequest}]
  BY CommitsType DEF CommitConsole
<1>3. company' \in [Companies -> {"NONE", "ACTIVE", "SUSPENDED"}]
  BY DEF CommitConsole, TypeOK
<1>4. Active("ADMIN") \in Memberships /\ Active("STAFF") \in Memberships
  BY DEF Memberships
<1>5. member' \in [Users -> [Companies -> Memberships]]
  BY <1>4 DEF CommitConsole, TypeOK
<1>6. /\ user' \in [Users -> {"NONE", "ACTIVE", "SUSPENDED", "DELETED"}]
      /\ \A v \in Users \ {req.user} : user'[v] = user[v]
  BY <1>1 DEF CommitConsole, TypeOK
<1>7. session' \subseteq session /\ req.user \notin session'
  BY DEF CommitConsole, Written
<1>8. session' \subseteq {u \in Users : user'[u] = "ACTIVE"}
  BY <1>6, <1>7 DEF TypeOK
<1> QED BY <1>2, <1>3, <1>5, <1>6, <1>8 DEF TypeOK

(* log-ins, sign-ups, invitations and new accounts,                        *)
LEMMA ArriveType == TypeOK /\ Arrive => TypeOK'
<1> SUFFICES ASSUME TypeOK, Arrive
             PROVE  TypeOK'
  OBVIOUS
<1>0. \A role \in Roles : Active(role) \in Memberships
  BY DEF Memberships
<1>1. ASSUME NEW u \in Users, LogIn(u)
      PROVE  TypeOK'
  BY <1>1 DEF LogIn, TypeOK
<1>2. ASSUME NEW u \in Users, NEW c \in Companies, SignUp(u, c)
      PROVE  TypeOK'
  <2>1. member' \in [Users -> [Companies -> Memberships]]
    BY <1>0, <1>2 DEF SignUp, TypeOK
  <2> QED BY <1>2, <2>1, CommitsType DEF SignUp, TypeOK
<1>3. ASSUME NEW u \in Users, NEW c \in Companies, NEW role \in Roles, Join(u, c, role)
      PROVE  TypeOK'
  <2>1. member' \in [Users -> [Companies -> Memberships]]
    BY <1>0, <1>3 DEF Join, TypeOK
  <2> QED BY <1>3, <2>1, CommitsType DEF Join, TypeOK
<1>4. ASSUME NEW a, NEW u \in Users, NEW c \in Companies, NEW role \in Roles,
             NEW status \in {"ACTIVE", "SUSPENDED"}, CreateManagedUser(a, u, c, role, status)
      PROVE  TypeOK'
  <2>1. member' \in [Users -> [Companies -> Memberships]]
    BY <1>0, <1>4 DEF CreateManagedUser, TypeOK
  <2> QED BY <1>4, <2>1, CommitsType DEF CreateManagedUser, TypeOK
<1> QED BY <1>1, <1>2, <1>3, <1>4 DEF Arrive

(* and a request that begins.                                              *)
LEMMA BeginType ==
    ASSUME TypeOK, NEW req \in Pending, Begin(req)
    PROVE  TypeOK'
BY DEF Begin, TypeOK

(* So do the checks of the console                                         *)
LEMMA ConsoleCheckType == TypeOK /\ ConsoleCheck => TypeOK'
<1> SUFFICES ASSUME TypeOK, ConsoleCheck
             PROVE  TypeOK'
  OBVIOUS
<1>1. ASSUME NEW op \in ConsoleOps, NEW u \in Users, NEW counted \in SUBSET Companies,
             NEW last \in SUBSET Companies, BeginConsole(op, u, counted, last)
      PROVE  TypeOK'
  <2>1. PICK heirs \in Resolutions(last) :
           Begin([op |-> op, user |-> u, counted |-> counted, last |-> last, heirs |-> heirs,
                  moved |-> {}])
    BY <1>1 DEF BeginConsole
  <2>2. heirs \in SUBSET Users
    BY DEF Resolutions, Replacements
  <2>3. [op |-> op, user |-> u, counted |-> counted, last |-> last, heirs |-> heirs,
         moved |-> {}] \in Pending
    BY <2>2 DEF Pending
  <2> QED BY <2>1, <2>3, BeginType
<1>2. ASSUME NEW u \in Users
      PROVE  AdminOf(u) \in SUBSET Companies /\ LastAdminOf(u) \in SUBSET Companies
  BY DEF AdminOf, LastAdminOf
<1>3. ASSUME NEW u \in Users, SuspendUser(u) \/ SoftDeleteUser(u)
      PROVE  TypeOK'
  BY <1>1, <1>2, <1>3 DEF SuspendUser, SoftDeleteUser
<1>4. ASSUME NEW u \in Users, NEW c \in Companies, DemoteUser(u, c)
      PROVE  TypeOK'
  <2>1. {c} \in SUBSET Companies /\ (IF OtherAdmin(u, c) THEN {} ELSE {c}) \in SUBSET Companies
    OBVIOUS
  <2>2. BeginConsole("DEMOTE", u, {c}, IF OtherAdmin(u, c) THEN {} ELSE {c})
    BY <1>4 DEF DemoteUser
  <2> QED BY <1>1, <2>1, <2>2
<1> QED BY <1>3, <1>4 DEF ConsoleCheck

(* and those of the member page and the account page.                      *)
LEMMA CheckType == TypeOK /\ Check => TypeOK'
<1> SUFFICES ASSUME TypeOK, NEW a, NEW u \in Users, NEW c \in Companies,
                    \/ \E role \in Roles : BeginMemberRole(a, u, c, role) \/ BeginUserRole(a, u, c, role)
                    \/ \E status \in {"ACTIVE", "DISABLED"} : BeginMemberStatus(a, u, c, status)
                    \/ \E status \in {"ACTIVE", "SUSPENDED"} : BeginUserStatus(a, u, c, status)
             PROVE  TypeOK'
  BY DEF Check
<1>1. ASSUME NEW role \in Roles, BeginMemberRole(a, u, c, role) \/ BeginUserRole(a, u, c, role)
      PROVE  TypeOK'
  <2> DEFINE req(op) == [op |-> op, user |-> u, company |-> c, to |-> role,
                         alone |-> TRUE, moved |-> {}]
  <2>1. req("MEMBER_ROLE") \in Pending /\ req("USER_ROLE") \in Pending
    BY DEF Pending
  <2> QED BY <1>1, <2>1, BeginType DEF BeginMemberRole, BeginUserRole
<1>2. ASSUME NEW status \in {"ACTIVE", "DISABLED"}, BeginMemberStatus(a, u, c, status)
      PROVE  TypeOK'
  <2>1. [op |-> "MEMBER_STATUS", user |-> u, company |-> c, to |-> status,
         alone |-> TRUE, moved |-> {}] \in Pending
    BY DEF Pending
  <2> QED BY <1>2, <2>1, BeginType DEF BeginMemberStatus
<1>3. ASSUME NEW status \in {"ACTIVE", "SUSPENDED"}, BeginUserStatus(a, u, c, status)
      PROVE  TypeOK'
  <2>1. [op |-> "USER_STATUS", user |-> u, to |-> status,
         alone |-> TRUE, moved |-> {}] \in Pending
    BY DEF Pending
  <2> QED BY <1>3, <2>1, BeginType DEF BeginUserStatus
<1> QED BY <1>1, <1>2, <1>3
-----------------------------------------------------------------------------
(* What the check of a page has seen, as far as nothing was changed since  *)
PageHolds(req) ==
    /\ /\ \/ req.op = "MEMBER_ROLE" /\ req.to = "STAFF"
          \/ req.op = "MEMBER_STATUS" /\ req.to = "DISABLED"
       /\ req.company \notin req.moved
       /\ req.user \in Holders(req.company)
       => Holders(req.company) \ {req.user} # {}
    /\ req.op = "USER_STATUS" =>
         /\ req.alone => user[req.user] # "DELETED"
         /\ req.to = "SUSPENDED" =>
              \A d \in Companies \ req.moved : req.user \in Holders(d) => OtherAdmin(req.user, d)
    /\ req.op = "USER_ROLE" /\ req.to = "STAFF" /\ req.alone /\ req.company \notin req.moved =>
         \E held \in TargetRoles(req.user) : held = "ADMIN" => OtherAdmin(req.user, req.company)

(* and what a transaction of the console has: the companies its user is    *)
(* administrator of, and that they have another one                        *)
ConsoleHolds(req) == \A c \in Companies \ req.moved : company[c] = "ACTIVE" =>
    /\ req.op # "DEMOTE" /\ req.user \in Holders(c) => c \in req.counted
    /\ c \in req.counted \ req.last => OtherAdmin(req.user, c)

(* Its own rows nobody can have changed: it would have been ended.         *)
OwnRows(req) ==
    /\ user[req.user] \notin {"NONE", "DELETED"}
    /\ \A v \in req.heirs : user[v] = "ACTIVE" /\ \A c \in req.last : member[v][c] = Active("STAFF")

Holds(req) ==
    /\ req.op \notin ConsoleOps => PageHolds(req)
    /\ req.op \in ConsoleOps => ConsoleHolds(req) /\ OwnRows(req)

Checked == \A r \in Requests : request[r].op # "NONE" => Holds(request[r])

(* The membership that a request is to change is there.                    *)
Rows == \A r \in Requests : request[r].op \in {"MEMBER_ROLE", "MEMBER_STATUS"} =>
            member[request[r].user][request[r].company] # NotMember

AccountsInv == TypeOK /\ Checked /\ Rows

(* Nothing is in flight at first.                                          *)
LEMMA InvInit == Init => AccountsInv
<1> SUFFICES ASSUME Init
             PROVE  AccountsInv
  OBVIOUS
<1>1. \A r \in Requests : request[r].op = "NONE"
  BY DEF Init, NoRequest
<1> QED BY <1>1, InitType DEF AccountsInv, Checked, Rows

(* Others can commit what they like: a check of a page holds as far as     *)
(* nothing it has looked at is marked.                                     *)
LEMMA PageKept ==
    ASSUME TypeOK, Checked, NEW q \in Requests, NEW ordered,
           request[q] # NoRequest, request[q].op \notin ConsoleOps,
           request'[q] = Overtaken(q, ordered)
    PROVE  PageHolds(request[q])'
<1> DEFINE req == request[q]
           new == request'[q]
<1>1. /\ new.op = req.op /\ new.user = req.user /\ new.to = req.to
      /\ req.op # "USER_STATUS" => new.company = req.company
      /\ \A c \in Companies \ new.moved : c \notin req.moved /\ Standing(c)' = Standing(c)
      /\ new.alone => /\ req.alone
                      /\ user'[req.user] = user[req.user]
                      /\ member'[req.user] = member[req.user]
  BY PageOvertaken
<1>2. request[q] \in Pending /\ request[q].op # "NONE"
  BY DEF TypeOK, Pending
<1>3. PageHolds(request[q])
  BY <1>2 DEF Checked, Holds
<1>4. \A c \in Companies \ new.moved : Holders(c)' = Holders(c) /\ Admins(c)' = Admins(c)
  BY <1>1, StandingFacts
<1>5. PICK u : u = req.user
  OBVIOUS
<1>6. CASE req.op = "USER_STATUS"
  <2>1. new.op = "USER_STATUS" /\ new.user = u
    BY <1>1, <1>5, <1>6
  <2>2. new.alone => user'[u] # "DELETED"
    BY <1>1, <1>3, <1>5, <1>6 DEF PageHolds
  <2>3. ASSUME new.to = "SUSPENDED", NEW d \in Companies \ new.moved, u \in Holders(d)'
        PROVE  OtherAdmin(u, d)'
    <3>1. OtherAdmin(u, d)
      BY <1>1, <1>3, <1>4, <1>5, <1>6, <2>3 DEF PageHolds
    <3> QED BY <1>4, <2>3, <3>1 DEF OtherAdmin
  <2> QED BY <2>1, <2>2, <2>3 DEF PageHolds, Holders, OtherAdmin, Admins
<1>7. CASE req.op = "USER_ROLE"
  <2>1. PICK c \in Companies : c = req.company
    BY <1>2, <1>7 DEF Pending
  <2>2. new.op = "USER_ROLE" /\ new.user = u /\ new.company = c
    BY <1>1, <1>5, <1>7, <2>1
  <2>3. ASSUME new.to = "STAFF", new.alone, c \notin new.moved
        PROVE  \E held \in TargetRoles(u)' : held = "ADMIN" => OtherAdmin(u, c)'
    <3>1. PICK held \in TargetRoles(u) : held = "ADMIN" => OtherAdmin(u, c)
      BY <1>1, <1>3, <1>5, <1>7, <2>1, <2>3 DEF PageHolds
    <3>2. TargetRoles(u)' = TargetRoles(u)
      <4>1. member'[u] = member[u]
        BY <1>1, <1>5, <2>3
      <4> QED BY <4>1 DEF TargetRoles
    <3>3. OtherAdmin(u, c)' = OtherAdmin(u, c)
      BY <1>4, <2>3 DEF OtherAdmin
    <3> QED BY <3>1, <3>2, <3>3
  <2> QED BY <2>2, <2>3 DEF PageHolds, TargetRoles, OtherAdmin, Admins
<1>8. CASE req.op \in {"MEMBER_ROLE", "MEMBER_STATUS"}
  <2>1. PICK c \in Companies : c = req.company
    BY <1>2, <1>8 DEF Pending
  <2>2. new.op = req.op /\ new.user = u /\ new.company = c
    BY <1>1, <1>5, <1>8, <2>1
  <2>3. ASSUME \/ req.op = "MEMBER_ROLE" /\ new.to = "STAFF"
               \/ req.op = "MEMBER_STATUS" /\ new.to = "DISABLED",
               c \notin new.moved, u \in Holders(c)'
        PROVE  Holders(c)' \ {u} # {}
    <3>1. Holders(c)' = Holders(c) /\ c \notin req.moved
      BY <1>1, <1>4, <2>3
    <3> QED BY <1>1, <1>3, <1>5, <2>1, <2>3, <3>1 DEF PageHolds
  <2> QED BY <1>8, <2>2, <2>3 DEF PageHolds, Holders
<1> QED BY <1>2, <1>6, <1>7, <1>8 DEF Pending

(* A transaction of the console keeps what it has seen when its own rows   *)
(* are left alone and the commits in order with it take no administrator   *)
(* from a company it has looked at.                                        *)
LEMMA ConsoleKept ==
    ASSUME TypeOK, Checked, NEW q \in Requests, NEW ordered,
           request[q].op \in ConsoleOps, request'[q] = Overtaken(q, ordered),
           \A v \in Written(q) :
              /\ user'[v] = user[v]
              /\ \A c \in Companies : member[v][c] # NotMember => member'[v][c] = member[v][c],
           \A c \in ordered \cap Companies :
              company[c] = "ACTIVE" /\ c \notin request[q].moved =>
                 /\ request[q].user \in Holders(c)' => request[q].user \in Holders(c)
                 /\ c \in request[q].counted /\ OtherAdmin(request[q].user, c) =>
                      Admins(c)' \ {request[q].user} # {}
    PROVE  ConsoleHolds(request[q])' /\ OwnRows(request[q])'
<1> DEFINE req == request[q]
           new == request'[q]
<1>1. /\ new.op = req.op /\ new.user = req.user
      /\ new.counted = req.counted /\ new.last = req.last /\ new.heirs = req.heirs
      /\ \A c \in Companies \ new.moved :
           /\ c \notin req.moved
           /\ company'[c] = company[c]
           /\ c \in ordered \/ Standing(c)' = Standing(c)
  BY ConsoleOvertaken
<1>2. ConsoleHolds(req) /\ OwnRows(req)
  BY DEF Checked, Holds
<1>3. /\ req.user \in Users /\ req.counted \subseteq Companies
      /\ req.last \subseteq Companies /\ req.heirs \subseteq Users
  BY RequestFacts
<1>4. PICK u \in Users : u = req.user
  BY <1>3
<1>5. ASSUME NEW c \in Companies \ new.moved, company'[c] = "ACTIVE"
      PROVE  /\ req.op # "DEMOTE" /\ u \in Holders(c)' => c \in req.counted
             /\ c \in req.counted \ req.last => Admins(c)' \ {u} # {}
  <2>1. /\ company[c] = "ACTIVE" /\ c \notin req.moved
        /\ c \in ordered \/ Standing(c)' = Standing(c)
    BY <1>1, <1>5
  <2>2. /\ req.op # "DEMOTE" /\ u \in Holders(c) => c \in req.counted
        /\ c \in req.counted \ req.last => OtherAdmin(u, c)
    BY <1>2, <1>4, <2>1 DEF ConsoleHolds
  <2>3. CASE Standing(c)' = Standing(c)
    <3>1. Holders(c)' = Holders(c) /\ Admins(c)' = Admins(c)
      BY <2>3, StandingFacts
    <3> QED BY <2>2, <3>1 DEF OtherAdmin
  <2>4. CASE c \in ordered
    BY <1>4, <2>1, <2>2, <2>4
  <2> QED BY <2>1, <2>3, <2>4
<1>6. ConsoleHolds(request[q])'
  BY <1>1, <1>4, <1>5 DEF ConsoleHolds, OtherAdmin, Holders, Admins
<1>7. OwnRows(request[q])'
  <2>1. user'[u] \notin {"NONE", "DELETED"} /\ new.user = u
    BY <1>1, <1>2, <1>4 DEF OwnRows, Written
  <2>2. ASSUME NEW v \in req.heirs
        PROVE  /\ user'[v] = "ACTIVE"
               /\ \A c \in req.last : member'[v][c] = Active("STAFF")
    BY <1>2, <1>3 DEF OwnRows, Written
  <2> QED BY <1>1, <2>1, <2>2 DEF OwnRows
<1> QED BY <1>6, <1>7

(* What a commit has to leave to those it does not end                     *)
Spares(ended, ordered) ==
    \A q \in Requests \ ended :
       /\ request[q].op \in ConsoleOps =>
            /\ \A v \in Written(q) :
                 /\ user'[v] = user[v]
                 /\ \A c \in Companies : member[v][c] # NotMember => member'[v][c] = member[v][c]
            /\ \A c \in ordered \cap Companies :
                 company[c] = "ACTIVE" /\ c \notin request[q].moved =>
                    /\ request[q].user \in Holders(c)' => request[q].user \in Holders(c)
                    /\ c \in request[q].counted /\ OtherAdmin(request[q].user, c) =>
                         Admins(c)' \ {request[q].user} # {}
       /\ request[q].op \in {"MEMBER_ROLE", "MEMBER_STATUS"} =>
            member'[request[q].user][request[q].company] # NotMember

(* Then the invariant goes on.                                             *)
LEMMA CommitsInv ==
    ASSUME AccountsInv, NEW ended, NEW ordered, Commits(ended, ordered), Spares(ended, ordered)
    PROVE  Checked' /\ Rows'
<1>0. TypeOK /\ Checked /\ Rows
  BY DEF AccountsInv
<1>1. ASSUME NEW q \in Requests, request'[q].op # "NONE"
      PROVE  q \notin ended /\ request[q] # NoRequest /\ request'[q] = Overtaken(q, ordered)
  BY <1>1 DEF Commits, NoRequest
<1>2. ASSUME NEW q \in Requests, request'[q].op # "NONE"
      PROVE  Holds(request[q])'
  <2>1. q \notin ended /\ request[q] # NoRequest /\ request'[q] = Overtaken(q, ordered)
    BY <1>1, <1>2
  <2>2. CASE request[q].op \in ConsoleOps
    <3>1. request'[q].op = request[q].op
      BY <1>0, <2>1, <2>2, ConsoleOvertaken
    <3>2. /\ \A v \in Written(q) :
               /\ user'[v] = user[v]
               /\ \A c \in Companies : member[v][c] # NotMember => member'[v][c] = member[v][c]
          /\ \A c \in ordered \cap Companies :
               company[c] = "ACTIVE" /\ c \notin request[q].moved =>
                  /\ request[q].user \in Holders(c)' => request[q].user \in Holders(c)
                  /\ c \in request[q].counted /\ OtherAdmin(request[q].user, c) =>
                       Admins(c)' \ {request[q].user} # {}
      BY <2>1, <2>2 DEF Spares
    <3>3. ConsoleHolds(request[q])' /\ OwnRows(request[q])'
      BY <1>0, <2>1, <2>2, <3>2, ConsoleKept
    <3> QED BY <2>2, <3>1, <3>3 DEF Holds
  <2>3. CASE request[q].op \notin ConsoleOps
    <3>1. request'[q].op = request[q].op
      BY <1>0, <2>1, <2>3, PageOvertaken
    <3>2. PageHolds(request[q])'
      BY <1>0, <2>1, <2>3, PageKept
    <3> QED BY <2>3, <3>1, <3>2 DEF Holds
  <2> QED BY <2>2, <2>3
<1>3. ASSUME NEW q \in Requests, request'[q].op \in {"MEMBER_ROLE", "MEMBER_STATUS"}
      PROVE  member'[request'[q].user][request'[q].company] # NotMember
  <2>1. q \notin ended /\ request[q] # NoRequest /\ request'[q] = Overtaken(q, ordered)
    BY <1>1, <1>3
  <2>2. request[q].op \notin ConsoleOps
    BY <1>0, <1>3, <2>1, ConsoleOvertaken
  <2>3. /\ request'[q].op = request[q].op /\ request'[q].user = request[q].user
        /\ request'[q].company = request[q].company
    BY <1>0, <1>3, <2>1, <2>2, PageOvertaken
  <2> QED BY <1>3, <2>1, <2>3 DEF Spares
<1> QED BY <1>2, <1>3 DEF Checked, Rows

(* Membership rows stay for the requests that are to write them when none  *)
(* is removed.                                                             *)
LEMMA RowsSpared ==
    ASSUME AccountsInv,
           \A u \in Users, c \in Companies : member[u][c] # NotMember => member'[u][c] # NotMember
    PROVE  \A q \in Requests : request[q].op \in {"MEMBER_ROLE", "MEMBER_STATUS"} =>
              member'[request[q].user][request[q].company] # NotMember
BY RequestFacts DEF AccountsInv, Rows

(* The users whose rows a transaction of the console is to write have an   *)
(* account.                                                                *)
LEMMA WrittenFacts ==
    ASSUME AccountsInv, NEW q \in Requests, request[q].op \in ConsoleOps
    PROVE  \A v \in Written(q) : v \in Users /\ user[v] # "NONE"
BY RequestFacts DEF AccountsInv, Checked, Holds, OwnRows, Written
-----------------------------------------------------------------------------
(* Administrators who stay as they are keep their company administered.    *)
LEMMA AdminsGrow ==
    ASSUME \A u \in Users, c \in Companies : u \in Admins(c) => u \in Admins(c)'
    PROVE  /\ \A c \in Companies : ~LosesAdmin(c)
           /\ \A c \in Companies, w \in Users : OtherAdmin(w, c) => Admins(c)' \ {w} # {}
<1>1. \A c \in Companies : Admins(c) \subseteq Users
  BY DEF Admins
<1> QED BY <1>1 DEF LosesAdmin, OtherAdmin

(* The operations of the console that are one step change the rows of the  *)
(* users us and the companies cs only: they take no administrator, bring   *)
(* nobody back, and leave the others what they have seen.                  *)
LEMMA GainSpares ==
    ASSUME AccountsInv, NEW us \in SUBSET Users, NEW cs,
           Commits(Overwritten(us, cs), Companies),
           \A v \in Users \ us : user'[v] = user[v] /\ member'[v] = member[v],
           \A u \in Users, c \in Companies : u \in Admins(c) => u \in Admins(c)',
           \A u \in Users, c \in Companies : member[u][c] # NotMember => member'[u][c] # NotMember
    PROVE  Spares(Overwritten(us, cs), Companies) /\ \A c \in Companies : ~LosesAdmin(c)
<1>1. ASSUME NEW q \in Requests \ Overwritten(us, cs), request[q].op \in ConsoleOps
      PROVE  /\ \A v \in Written(q) : user'[v] = user[v] /\ member'[v] = member[v]
             /\ request[q].user \in Users \ us
             /\ \A c \in Companies :
                  /\ request[q].user \in Holders(c)' => request[q].user \in Holders(c)
                  /\ OtherAdmin(request[q].user, c) => Admins(c)' \ {request[q].user} # {}
  <2>1. Written(q) \cap us = {}
    BY <1>1 DEF Overwritten
  <2>2. \A v \in Written(q) : v \in Users \ us
    BY <1>1, <2>1, WrittenFacts
  <2>3. request[q].user \in Written(q)
    BY DEF Written
  <2>4. \A v \in Users \ us, c \in Companies : v \in Holders(c)' => v \in Holders(c)
    BY DEF Holders
  <2> QED BY <2>2, <2>3, <2>4, AdminsGrow
<1> QED BY <1>1, RowsSpared, AdminsGrow DEF Spares

(* What a step does that takes no administrator                            *)
Harmless ==
    /\ Checked' /\ Rows'
    /\ \A u \in Users : ~Returns(u)
    /\ \A c \in Companies : ~LosesAdmin(c)

(* No one-step operation of the console harms.                             *)
LEMMA ConsoleHarmless == AccountsInv /\ Console => Harmless
<1> SUFFICES ASSUME AccountsInv, Console
             PROVE  Harmless
  OBVIOUS
<1>0. TypeOK
  BY DEF AccountsInv
<1>1. ASSUME NEW us \in SUBSET Users, NEW cs,
             Commits(Overwritten(us, cs), Companies),
             \A v \in Users \ us : user'[v] = user[v] /\ member'[v] = member[v],
             \A u \in Users, c \in Companies : u \in Admins(c) => u \in Admins(c)',
             \A u \in Users, c \in Companies : member[u][c] # NotMember => member'[u][c] # NotMember,
             \A u \in Users : ~Returns(u)
      PROVE  Harmless
  <2>1. Spares(Overwritten(us, cs), Companies) /\ \A c \in Companies : ~LosesAdmin(c)
    BY <1>1, GainSpares
  <2>2. Checked' /\ Rows'
    BY <1>1, <2>1, CommitsInv
  <2> QED BY <1>1, <2>1, <2>2 DEF Harmless
<1>2. ASSUME NEW u \in Users, RestoreUser(u) \/ ForceLogoutUser(u)
      PROVE  Harmless
  <2>1. /\ member' = member /\ Commits(Overwritten({u}, {}), Companies)
        /\ \/ user' = user
           \/ user[u] = "SUSPENDED" /\ user' = [user EXCEPT ![u] = "ACTIVE"]
    BY <1>2 DEF RestoreUser, ForceLogoutUser
  <2>2. \A v \in Users \ {u} : user'[v] = user[v]
    BY <1>0, <2>1 DEF TypeOK
  <2>3. \A v \in Users, c \in Companies : v \in Admins(c) => v \in Admins(c)'
    BY <1>0, <2>1 DEF Admins, TypeOK
  <2>4. \A v \in Users : ~Returns(v)
    BY <1>0, <2>1 DEF Returns, TypeOK
  <2> QED BY <1>1, <2>1, <2>2, <2>3, <2>4, {u} \in SUBSET Users
<1>3. ASSUME NEW u \in Users, NEW c \in Companies, PromoteUser(u, c) \/ TransferCompanyAdmin(c, u)
      PROVE  Harmless
  <2>1. /\ member[u][c] = Active("STAFF")
        /\ member' = [member EXCEPT ![u][c] = Active("ADMIN")]
        /\ user' = user /\ Commits(Overwritten({u}, {}), Companies)
    BY <1>3 DEF PromoteUser, TransferCompanyAdmin, Replacements
  <2>2. /\ \A v \in Users \ {u} : member'[v] = member[v]
        /\ \A d \in Companies : member'[u][d] = IF d = c THEN Active("ADMIN") ELSE member[u][d]
    BY <1>0, <2>1 DEF TypeOK
  <2>3. \A v \in Users, d \in Companies : v \in Admins(d) => v \in Admins(d)'
    BY <2>1, <2>2 DEF Admins
  <2>4. \A v \in Users, d \in Companies : member[v][d] # NotMember => member'[v][d] # NotMember
    BY <2>2
  <2>5. \A v \in Users : ~Returns(v)
    BY <2>1 DEF Returns
  <2> QED BY <1>1, <2>1, <2>2, <2>3, <2>4, <2>5, {u} \in SUBSET Users
<1>4. ASSUME NEW c \in Companies, SuspendCompany(c) \/ RestoreCompany(c)
      PROVE  Harmless
  <2>1. user' = user /\ member' = member /\ Commits(Overwritten({}, {c}), Companies)
    BY <1>4 DEF SuspendCompany, RestoreCompany
  <2>2. \A v \in Users, d \in Companies : v \in Admins(d) => v \in Admins(d)'
    BY <2>1 DEF Admins
  <2>3. \A v \in Users : ~Returns(v)
    BY <2>1 DEF Returns
  <2> QED BY <1>1, <2>1, <2>2, <2>3, {} \in SUBSET Users
<1>5. ASSUME NEW c \in Companies, CreateCompany(c)
      PROVE  Harmless
  <2>1. user' = user /\ member' = member /\ Commits({}, {})
    BY <1>5 DEF CreateCompany
  <2>2. Spares({}, {})
    BY <2>1, RowsSpared DEF Spares
  <2>3. \A v \in Users, d \in Companies : v \in Admins(d) => v \in Admins(d)'
    BY <2>1 DEF Admins
  <2> QED BY <2>1, <2>2, <2>3, CommitsInv, AdminsGrow DEF Harmless, Returns
<1> QED BY <1>2, <1>3, <1>4, <1>5 DEF Console

(* Nobody who arrives harms.                                               *)
LEMMA ArriveHarmless == AccountsInv /\ Arrive => Harmless \/ UNCHANGED <<user, company, member, request>>
<1> SUFFICES ASSUME AccountsInv, Arrive
             PROVE  Harmless \/ UNCHANGED <<user, company, member, request>>
  OBVIOUS
<1>0. TypeOK
  BY DEF AccountsInv
(* A newcomer, or an active user, gets a membership he has not.            *)
<1>1. ASSUME NEW u \in Users, NEW c \in Companies, NEW role \in Roles,
             NEW status \in {"ACTIVE", "SUSPENDED"},
             \/ user[u] = "NONE"
             \/ user[u] = "ACTIVE" /\ status = "ACTIVE" /\ member[u][c] = NotMember,
             user' = [user EXCEPT ![u] = status],
             member' = [member EXCEPT ![u][c] = Active(role)],
             Commits({}, {})
      PROVE  Harmless
  <2>1. /\ \A v \in Users : v # u => user'[v] = user[v]
        /\ user'[u] = status
        /\ \A v \in Users, d \in Companies : v # u \/ d # c => member'[v][d] = member[v][d]
        /\ member'[u][c] = Active(role)
    BY <1>0, <1>1 DEF TypeOK
  <2>2. \A v \in Users, d \in Companies : v \in Admins(d) => v \in Admins(d)'
    BY <1>1, <2>1 DEF Admins
  <2>3. \A v \in Users, d \in Companies : member[v][d] # NotMember => member'[v][d] # NotMember
    BY <2>1
  <2>4. ASSUME NEW v \in Users, user[v] # "NONE"
        PROVE  /\ user'[v] = user[v]
               /\ \A d \in Companies : member[v][d] # NotMember => member'[v][d] = member[v][d]
    BY <1>1, <2>1, <2>4
  <2>5. Spares({}, {})
    BY <2>3, <2>4, WrittenFacts, RowsSpared DEF Spares
  <2>6. \A v \in Users : ~Returns(v)
    BY <1>1, <2>1 DEF Returns
  <2> QED BY <1>1, <2>2, <2>5, <2>6, CommitsInv, AdminsGrow DEF Harmless
<1>2. ASSUME NEW u \in Users, LogIn(u)
      PROVE  UNCHANGED <<user, company, member, request>>
  BY <1>2 DEF LogIn
<1>3. ASSUME NEW u \in Users, NEW c \in Companies, SignUp(u, c)
      PROVE  Harmless
  BY <1>1, <1>3 DEF SignUp
<1>4. ASSUME NEW u \in Users, NEW c \in Companies, NEW role \in Roles, Join(u, c, role)
      PROVE  Harmless
  BY <1>0, <1>1, <1>4 DEF Join, TypeOK
<1>5. ASSUME NEW a, NEW u \in Users, NEW c \in Companies, NEW role \in Roles,
             NEW status \in {"ACTIVE", "SUSPENDED"}, CreateManagedUser(a, u, c, role, status)
      PROVE  Harmless
  <2>1. /\ user[u] = "NONE"
        /\ user' = [user EXCEPT ![u] = status]
        /\ member' = [member EXCEPT ![u][c] = Active(role)]
        /\ Commits({}, {})
    BY <1>5 DEF CreateManagedUser
  <2> QED BY <1>1, <2>1
<1> QED BY <1>2, <1>3, <1>4, <1>5 DEF Arrive
-----------------------------------------------------------------------------
(* A request begins with what its check has seen.                          *)
LEMMA BeginInv ==
    ASSUME AccountsInv, NEW req, Begin(req), Holds(req),
           req.op \in {"MEMBER_ROLE", "MEMBER_STATUS"} => member[req.user][req.company] # NotMember
    PROVE  Checked' /\ Rows'
<1>1. \A r \in Requests : request'[r] = request[r] \/ request'[r] = req
  BY DEF Begin, AccountsInv, TypeOK
<1>2. UNCHANGED <<user, company, member>>
  BY DEF Begin
<1>3. ASSUME NEW r \in Requests, request'[r].op # "NONE"
      PROVE  Holds(request'[r])
  BY <1>1, <1>3 DEF AccountsInv, Checked
<1>4. Checked'
  <2>1. ASSUME NEW r \in Requests, request'[r].op # "NONE"
        PROVE  Holds(request[r])'
    BY <1>2, <1>3, <2>1 DEF Holds, PageHolds, ConsoleHolds, OwnRows, OtherAdmin, Admins, Holders,
       TargetRoles
  <2> QED BY <2>1 DEF Checked
<1>5. Rows'
  BY <1>1, <1>2 DEF AccountsInv, Rows
<1> QED BY <1>4, <1>5

(* So does a transaction of the console.                                   *)
LEMMA ConsoleCheckInv ==
    ASSUME AccountsInv, ConsoleCheck
    PROVE  Checked' /\ Rows' /\ UNCHANGED <<user, company, member>>
<1>0. TypeOK
  BY DEF AccountsInv
<1>1. ASSUME NEW op \in ConsoleOps, NEW u \in Users, NEW counted, NEW last,
             BeginConsole(op, u, counted, last), user[u] \in {"ACTIVE", "SUSPENDED"},
             \A c \in Companies : company[c] = "ACTIVE" /\ op # "DEMOTE" /\ u \in Holders(c) => c \in counted,
             \A c \in counted \ last : OtherAdmin(u, c)
      PROVE  Checked' /\ Rows' /\ UNCHANGED <<user, company, member>>
  <2>1. PICK heirs \in Resolutions(last) :
           Begin([op |-> op, user |-> u, counted |-> counted, last |-> last, heirs |-> heirs,
                  moved |-> {}])
    BY <1>1 DEF BeginConsole
  <2> DEFINE req == [op |-> op, user |-> u, counted |-> counted, last |-> last, heirs |-> heirs,
                     moved |-> {}]
  <2>2. \A v \in heirs : user[v] = "ACTIVE" /\ \A c \in last : member[v][c] = Active("STAFF")
    BY DEF Resolutions, Replacements
  <2>3. Holds(req)
    BY <1>1, <2>2 DEF Holds, ConsoleHolds, OwnRows
  <2>4. req.op \notin {"MEMBER_ROLE", "MEMBER_STATUS"}
    BY <1>1
  <2> HIDE DEF req
  <2>5. Begin(req)
    BY <2>1 DEF req
  <2> QED BY <2>3, <2>4, <2>5, BeginInv DEF Begin
<1>2. ASSUME NEW u \in Users
      PROVE  /\ \A c \in Companies : company[c] = "ACTIVE" /\ u \in Holders(c) => c \in AdminOf(u)
             /\ \A c \in AdminOf(u) \ LastAdminOf(u) : OtherAdmin(u, c)
  BY DEF AdminOf, LastAdminOf, Holders
<1>3. ASSUME NEW u \in Users, SuspendUser(u) \/ SoftDeleteUser(u)
      PROVE  Checked' /\ Rows' /\ UNCHANGED <<user, company, member>>
  BY <1>1, <1>2, <1>3 DEF SuspendUser, SoftDeleteUser
<1>4. ASSUME NEW u \in Users, NEW c \in Companies, DemoteUser(u, c)
      PROVE  Checked' /\ Rows' /\ UNCHANGED <<user, company, member>>
  <2>1. /\ BeginConsole("DEMOTE", u, {c}, IF OtherAdmin(u, c) THEN {} ELSE {c})
        /\ user[u] = "ACTIVE"
    BY <1>4 DEF DemoteUser
  <2>2. \A d \in {c} \ (IF OtherAdmin(u, c) THEN {} ELSE {c}) : OtherAdmin(u, d)
    OBVIOUS
  <2> QED BY <1>1, <2>1, <2>2
<1> QED BY <1>3, <1>4 DEF ConsoleCheck

(* So does a request of a page.                                            *)
LEMMA CheckInv ==
    ASSUME AccountsInv, Check
    PROVE  Checked' /\ Rows' /\ UNCHANGED <<user, company, member>>
<1>0. TypeOK
  BY DEF AccountsInv
<1>1. UNCHANGED <<user, company, member>>
  BY DEF Check, BeginMemberRole, BeginUserRole, BeginMemberStatus, BeginUserStatus, Begin
<1>2. ASSUME NEW req, Begin(req), req.op \notin ConsoleOps, PageHolds(req),
             req.op \in {"MEMBER_ROLE", "MEMBER_STATUS"} => member[req.user][req.company] # NotMember
      PROVE  Checked' /\ Rows'
  BY <1>2, BeginInv DEF Holds
<1>3. PICK a \in Users \cup {Developer}, u \in Users, c \in Companies :
         \/ \E role \in Roles : BeginMemberRole(a, u, c, role) \/ BeginUserRole(a, u, c, role)
         \/ \E status \in {"ACTIVE", "DISABLED"} : BeginMemberStatus(a, u, c, status)
         \/ \E status \in {"ACTIVE", "SUSPENDED"} : BeginUserStatus(a, u, c, status)
  BY DEF Check
(* The count of memberships is more than one: there is another one.        *)
<1>4. ASSUME LastActiveAdminSafe(u, c), u \in Holders(c)
      PROVE  Holders(c) \ {u} # {}
  <2>1. Cardinality(Holders(c)) > 1
    BY <1>4 DEF LastActiveAdminSafe, Holders
  <2> SUFFICES ASSUME Holders(c) = {u}
               PROVE  FALSE
    BY <1>4
  <2>2. Cardinality(Holders(c)) = 1
    BY FS_Singleton
  <2> QED BY <2>1, <2>2
<1>5. ASSUME NEW role \in Roles, BeginMemberRole(a, u, c, role)
      PROVE  Checked' /\ Rows'
  <2> DEFINE req == [op |-> "MEMBER_ROLE", user |-> u, company |-> c, to |-> role,
                     alone |-> TRUE, moved |-> {}]
  <2>1. PageHolds(req)
    BY <1>4, <1>5 DEF BeginMemberRole, PageHolds
  <2>2. Begin(req) /\ member[u][c] # NotMember
    BY <1>5 DEF BeginMemberRole, Manages
  <2> QED BY <1>2, <2>1, <2>2
<1>6. ASSUME NEW role \in Roles, BeginUserRole(a, u, c, role)
      PROVE  Checked' /\ Rows'
  <2> DEFINE req == [op |-> "USER_ROLE", user |-> u, company |-> c, to |-> role,
                     alone |-> TRUE, moved |-> {}]
  <2>1. a # Developer => "STAFF" \in TargetRoles(u)
    BY <1>6 DEF BeginUserRole, ManagesAccount, TargetRoles
  <2>2. PageHolds(req)
    BY <1>6, <2>1 DEF BeginUserRole, PageHolds
  <2>3. Begin(req)
    BY <1>6 DEF BeginUserRole
  <2> QED BY <1>2, <2>2, <2>3
<1>7. ASSUME NEW status \in {"ACTIVE", "DISABLED"}, BeginMemberStatus(a, u, c, status)
      PROVE  Checked' /\ Rows'
  <2> DEFINE req == [op |-> "MEMBER_STATUS", user |-> u, company |-> c, to |-> status,
                     alone |-> TRUE, moved |-> {}]
  <2>1. PageHolds(req)
    BY <1>4, <1>7 DEF BeginMemberStatus, PageHolds
  <2>2. Begin(req) /\ member[u][c] # NotMember
    BY <1>7 DEF BeginMemberStatus, Manages
  <2> QED BY <1>2, <2>1, <2>2
<1>8. ASSUME NEW status \in {"ACTIVE", "SUSPENDED"}, BeginUserStatus(a, u, c, status)
      PROVE  Checked' /\ Rows'
  <2> DEFINE req == [op |-> "USER_STATUS", user |-> u, to |-> status,
                     alone |-> TRUE, moved |-> {}]
  <2>1. PageHolds(req)
    BY <1>8 DEF BeginUserStatus, PageHolds, Holders
  <2>2. Begin(req)
    BY <1>8 DEF BeginUserStatus
  <2> QED BY <1>2, <2>1, <2>2
<1> QED BY <1>1, <1>3, <1>5, <1>6, <1>7, <1>8
-----------------------------------------------------------------------------
(* What the commit of a transaction of the console changes: only its user  *)
(* stops being an administrator, and only in a company it has looked at as *)
(* long as nobody of the pages came in between.                            *)
LEMMA CommitFacts ==
    ASSUME AccountsInv, NEW r \in Requests, CommitConsole(r)
    PROVE  /\ request[r].op \in ConsoleOps /\ request[r].user \in Users
           /\ \A v \in Users \ Written(r) : user'[v] = user[v] /\ member'[v] = member[v]
           /\ \A v \in Users, c \in Companies : member[v][c] # NotMember => member'[v][c] # NotMember
           /\ \A c \in Companies : \A w \in Admins(c) : w # request[r].user => w \in Admins(c)'
           /\ \A c \in Companies : request[r].user \in Admins(c) /\ request[r].user \notin Admins(c)'
                 /\ c \notin request[r].moved /\ company[c] = "ACTIVE" => c \in request[r].counted
<1> DEFINE req == request[r]
<1>0. TypeOK
  BY DEF AccountsInv
<1>1. /\ req.op \in ConsoleOps /\ req.user \in Users /\ req.last \subseteq Companies
      /\ req.counted \subseteq Companies /\ req.heirs \subseteq Users
  BY <1>0, RequestFacts DEF CommitConsole
<1>2. ConsoleHolds(req)
  BY <1>1 DEF AccountsInv, Checked, Holds
<1>3. /\ \A v \in Users : v # req.user => user'[v] = user[v]
      /\ req.op = "DEMOTE" => user' = user
  BY <1>0, <1>1 DEF CommitConsole, TypeOK
<1>4. \A v \in Users, c \in Companies : member'[v][c] =
         IF v \in req.heirs /\ c \in req.last THEN Active("ADMIN")
         ELSE IF req.op = "DEMOTE" /\ v = req.user /\ c \in req.counted THEN Active("STAFF")
         ELSE member[v][c]
  BY DEF CommitConsole
<1>5. ASSUME NEW v \in Users \ Written(r)
      PROVE  user'[v] = user[v] /\ member'[v] = member[v]
  <2>1. v # req.user /\ v \notin req.heirs
    BY <1>5 DEF Written
  <2>2. member'[v] = [c \in Companies |-> member[v][c]]
    BY <2>1 DEF CommitConsole
  <2>3. member[v] = [c \in Companies |-> member[v][c]]
    BY <1>0 DEF TypeOK
  <2> QED BY <1>3, <2>1, <2>2, <2>3
<1>6. ASSUME NEW c \in Companies, NEW w \in Admins(c), w # req.user
      PROVE  w \in Admins(c)'
  BY <1>3, <1>4, <1>6 DEF Admins
<1>7. ASSUME NEW c \in Companies, req.user \in Admins(c), req.user \notin Admins(c)',
             c \notin req.moved, company[c] = "ACTIVE"
      PROVE  c \in req.counted
  <2>1. CASE req.op = "DEMOTE"
    BY <1>1, <1>3, <1>4, <1>7, <2>1 DEF Admins
  <2>2. CASE req.op # "DEMOTE"
    BY <1>2, <1>7, <2>2 DEF ConsoleHolds, Admins, Holders
  <2> QED BY <2>1, <2>2
<1> QED BY <1>1, <1>4, <1>5, <1>6, <1>7

(* It leaves the transactions that go on what they have seen: of two that  *)
(* have looked at one company only one commits.                            *)
LEMMA CommitInv ==
    ASSUME AccountsInv, NEW r \in Requests, CommitConsole(r)
    PROVE  Checked' /\ Rows'
<1> DEFINE suspended == IF request[r].heirs = {} THEN request[r].last ELSE {}
           ended     == {r} \cup Dependent(r) \cup Overwritten(Written(r), suspended)
           ordered   == Companies \ request[r].moved
<1>1. Commits(ended, ordered)
  BY DEF CommitConsole
<1>2. ASSUME NEW q \in Requests \ ended, request[q].op \in ConsoleOps
      PROVE  /\ \A v \in Written(q) : user'[v] = user[v] /\ member'[v] = member[v]
             /\ \A c \in ordered \cap Companies :
                  company[c] = "ACTIVE" /\ c \notin request[q].moved =>
                     /\ request[q].user \in Holders(c)' => request[q].user \in Holders(c)
                     /\ c \in request[q].counted /\ OtherAdmin(request[q].user, c) =>
                          Admins(c)' \ {request[q].user} # {}
  <2>1. /\ Written(q) \cap Written(r) = {}
        /\ request[q].counted \cap request[r].counted = {}
    BY <1>2 DEF Overwritten, Dependent
  <2>2. \A v \in Written(q) : v \in Users \ Written(r)
    BY <1>2, <2>1, WrittenFacts
  <2>3. \A v \in Written(q) : user'[v] = user[v] /\ member'[v] = member[v]
    BY <2>2, CommitFacts
  <2>4. request[q].user \in Written(q)
    BY DEF Written
  <2>5. \A c \in Companies : request[q].user \in Holders(c)' => request[q].user \in Holders(c)
    <3>1. PICK u \in Users : u = request[q].user
      BY <2>2, <2>4
    <3>2. member'[u] = member[u]
      BY <2>3, <2>4, <3>1
    <3>3. \A c \in Companies : u \in Holders(c)' => u \in Holders(c)
      BY <3>2 DEF Holders
    <3> QED BY <3>1, <3>3
  <2>6. ASSUME NEW c \in Companies, c \notin request[r].moved, company[c] = "ACTIVE",
               c \in request[q].counted, OtherAdmin(request[q].user, c)
        PROVE  Admins(c)' \ {request[q].user} # {}
    <3>1. PICK w \in Admins(c) : w # request[q].user
      BY <2>6 DEF OtherAdmin
    <3>2. c \notin request[r].counted
      BY <2>1, <2>6
    <3>3. w \in Admins(c)'
      BY <2>6, <3>2, CommitFacts
    <3> QED BY <3>1, <3>3
  <2> QED BY <2>3, <2>5, <2>6
<1>3. \A q \in Requests : request[q].op \in {"MEMBER_ROLE", "MEMBER_STATUS"} =>
         member'[request[q].user][request[q].company] # NotMember
  BY CommitFacts, RowsSpared
<1> HIDE DEF ended, ordered
<1>4. Spares(ended, ordered)
  BY <1>2, <1>3 DEF Spares
<1> QED BY <1>1, <1>4, CommitsInv

(* A transaction of the console that nobody of the pages came in between   *)
(* takes no last administrator, and brings nobody back.                    *)
LEMMA CommitProtects ==
    ASSUME AccountsInv, NEW r \in Requests, CommitConsole(r)
    PROVE  /\ \A c \in Companies : LosesAdmin(c) => c \in request[r].moved
           /\ \A u \in Users : ~Returns(u)
<1> DEFINE req == request[r]
<1>0. TypeOK
  BY DEF AccountsInv
<1>1. /\ req.op \in ConsoleOps /\ req.user \in Users /\ req.last \subseteq Companies
      /\ req.heirs \subseteq Users
  BY <1>0, RequestFacts DEF CommitConsole
<1>2. ConsoleHolds(req) /\ OwnRows(req)
  BY <1>1 DEF AccountsInv, Checked, Holds
<1>3. ASSUME NEW c \in Companies, LosesAdmin(c), c \notin req.moved
      PROVE  FALSE
  <2>1. company[c] = "ACTIVE" /\ company'[c] = "ACTIVE" /\ Admins(c) # {} /\ Admins(c)' = {}
    BY <1>3 DEF LosesAdmin
  <2>2. Admins(c) = {req.user}
    BY <2>1, CommitFacts
  <2>3. c \in req.counted
    BY <1>3, <2>1, <2>2, CommitFacts
  <2>4. c \in req.last
    BY <1>2, <1>3, <2>1, <2>2, <2>3 DEF ConsoleHolds, OtherAdmin
  <2>5. CASE req.heirs = {}
    <3>1. company'[c] = "SUSPENDED"
      BY <2>4, <2>5 DEF CommitConsole
    <3> QED BY <2>1, <3>1
  <2>6. CASE req.heirs # {}
    <3>1. PICK v \in req.heirs : user[v] = "ACTIVE" /\ member[v][c] = Active("STAFF")
      BY <1>2, <2>4, <2>6 DEF OwnRows
    <3>2. v \in Users /\ v # req.user
      BY <1>1, <2>2, <3>1 DEF Admins
    <3>3. member'[v][c] = Active("ADMIN")
      BY <2>4, <3>2 DEF CommitConsole
    <3>4. user'[v] = "ACTIVE"
      BY <1>0, <1>1, <3>1, <3>2 DEF CommitConsole, TypeOK
    <3> QED BY <2>1, <3>2, <3>3, <3>4 DEF Admins
  <2> QED BY <2>5, <2>6
<1>4. ASSUME NEW u \in Users, Returns(u)
      PROVE  FALSE
  <2>1. u # req.user
    BY <1>2, <1>4 DEF OwnRows, Returns
  <2> QED BY <1>0, <1>1, <1>4, <2>1 DEF CommitConsole, Returns, TypeOK
<1> QED BY <1>3, <1>4
-----------------------------------------------------------------------------
(* The writes of the pages keep the state well formed: the row they change *)
(* is there.                                                               *)
LEMMA WriteType == ASSUME TypeOK, Rows, NEW r \in Requests, Write(r) PROVE TypeOK'
<1> DEFINE req == request[r]
<1>0. request' \in [Requests -> Pending \cup {NoRequest}] /\ session' \subseteq session
  BY CommitsType DEF Write, WriteMember, WriteUserStatus, WriteUserRole
<1>1. CASE WriteMember(r)
  <2>1. /\ req.user \in Users /\ req.company \in Companies
        /\ member[req.user][req.company] \in Memberships \ {NotMember}
    BY <1>1, RequestFacts DEF WriteMember, Rows, TypeOK
  <2>2. CASE req.op = "MEMBER_ROLE"
    <3>1. [member[req.user][req.company] EXCEPT !.role = req.to] \in Memberships
      BY <2>1, <2>2, RequestFacts DEF Memberships
    <3>2. member' \in [Users -> [Companies -> Memberships]]
      BY <1>1, <2>1, <2>2, <3>1 DEF WriteMember, TypeOK
    <3> QED BY <1>0, <1>1, <3>2 DEF WriteMember, TypeOK
  <2>3. CASE req.op = "MEMBER_STATUS"
    <3>1. [member[req.user][req.company] EXCEPT !.status = req.to] \in Memberships
      BY <2>1, <2>3, RequestFacts DEF Memberships
    <3>2. member' \in [Users -> [Companies -> Memberships]]
      BY <1>1, <2>1, <2>3, <3>1 DEF WriteMember, TypeOK
    <3> QED BY <1>0, <1>1, <3>2 DEF WriteMember, TypeOK
  <2> QED BY <1>1, <2>2, <2>3 DEF WriteMember
<1>2. CASE WriteUserStatus(r)
  <2>1. req.user \in Users /\ req.to \in {"ACTIVE", "SUSPENDED"}
    BY <1>2, RequestFacts DEF WriteUserStatus
  <2>2. \A u \in Users : u # req.user => user'[u] = user[u]
    BY <1>2, <2>1 DEF WriteUserStatus, TypeOK
  <2> QED BY <1>0, <1>2, <2>1, <2>2 DEF WriteUserStatus, TypeOK
<1>3. CASE WriteUserRole(r)
  <2>1. req.user \in Users /\ req.company \in Companies /\ req.to \in Roles
    BY <1>3, RequestFacts DEF WriteUserRole
  <2>2. Active(req.to) \in Memberships /\ NotMember \in Memberships
    BY <2>1 DEF Memberships
  <2>3. member' \in [Users -> [Companies -> Memberships]]
    BY <1>3, <2>1, <2>2 DEF WriteUserRole, TypeOK
  <2> QED BY <1>0, <1>3, <2>3 DEF WriteUserRole, TypeOK
<1> QED BY <1>1, <1>2, <1>3 DEF Write

(* A write leaves to the requests that go on the rows they are to change,  *)
(* and to the console what it has seen.                                    *)
LEMMA WriteInv == ASSUME AccountsInv, NEW r \in Requests, Write(r) PROVE Checked' /\ Rows'
<1> DEFINE req == request[r]
<1>0. /\ TypeOK /\ Rows /\ Commits(Ended(r), {})
      /\ req.op \in {"MEMBER_ROLE", "MEMBER_STATUS", "USER_STATUS", "USER_ROLE"}
  BY DEF AccountsInv, Write, WriteMember, WriteUserStatus, WriteUserRole
<1>1. req.user \in Users
  BY <1>0, RequestFacts
<1>2. \A v \in Users \ {req.user} : user'[v] = user[v] /\ member'[v] = member[v]
  BY <1>0, <1>1 DEF Write, WriteMember, WriteUserStatus, WriteUserRole, TypeOK
<1>3. ASSUME NEW q \in Requests \ Ended(r), request[q].op \in ConsoleOps
      PROVE  \A v \in Written(q) : user'[v] = user[v] /\ member'[v] = member[v]
  <2>1. req.user \notin Written(q)
    BY <1>3 DEF Ended, Overwritten
  <2> QED BY <1>2, <1>3, <2>1, WrittenFacts
<1>4. ASSUME NEW q \in Requests \ Ended(r), request[q].op \in {"MEMBER_ROLE", "MEMBER_STATUS"}
      PROVE  member'[request[q].user][request[q].company] # NotMember
  <2>1. PICK u \in Users, c \in Companies : u = request[q].user /\ c = request[q].company
    BY <1>0, <1>4, RequestFacts
  <2>2. member[u][c] # NotMember /\ member[u][c] \in Memberships
    BY <1>0, <1>4, <2>1 DEF Rows, TypeOK
  <2>3. CASE WriteMember(r)
    <3>1. member[u][c].role # "NONE" /\ member[u][c].status # "NONE"
      BY <2>2 DEF Memberships
    <3>2. \/ member'[u][c] = member[u][c]
          \/ member'[u][c].role = member[u][c].role
          \/ member'[u][c].status = member[u][c].status
      BY <1>0, <2>1, <2>2, <2>3 DEF WriteMember, TypeOK, Memberships
    <3>3. member'[u][c] # NotMember
      BY <3>1, <3>2
    <3> QED BY <2>1, <3>3
  <2>4. CASE WriteUserStatus(r)
    BY <2>1, <2>2, <2>4 DEF WriteUserStatus
  <2>5. CASE WriteUserRole(r)
    <3>1. u # req.user
      BY <1>4, <2>1, <2>5 DEF Ended, Rowless, WriteUserRole
    <3> QED BY <1>2, <2>1, <2>2, <3>1
  <2> QED BY <2>3, <2>4, <2>5 DEF Write
<1>5. Spares(Ended(r), {})
  BY <1>3, <1>4 DEF Spares
<1> QED BY <1>0, <1>5, CommitsInv

(* A page that takes the last administrator of a company does not see it:  *)
(* it was overtaken, or the administrator its check has counted is one who *)
(* is not active, or it has looked at another company.                     *)
LEMMA WriteProtects ==
    ASSUME AccountsInv, NEW r \in Requests, Write(r),
           NEW c \in Companies, LosesAdmin(c)
    PROVE  Unprotected(r, c)
<1> DEFINE req == request[r]
           u   == request[r].user
<1>0. TypeOK /\ Rows
  BY DEF AccountsInv
<1> SUFFICES ASSUME c \notin req.moved
             PROVE  Unprotected(r, c)
  BY DEF Unprotected
<1>1. req.op # "NONE" /\ u \in Users
  BY <1>0, RequestFacts DEF Write, WriteMember, WriteUserStatus, WriteUserRole
<1>2. PageHolds(req)
  <2>1. req.op \notin ConsoleOps
    BY DEF Write, WriteMember, WriteUserStatus, WriteUserRole
  <2> QED BY <1>1, <2>1 DEF AccountsInv, Checked, Holds
<1>3. \A v \in Users : v # u => user'[v] = user[v] /\ member'[v] = member[v]
  BY <1>0, <1>1 DEF Write, WriteMember, WriteUserStatus, WriteUserRole, TypeOK
(* The one administrator is the user of the request.                       *)
<1>4. u \in Admins(c) /\ ~OtherAdmin(u, c)
  <2>1. \A v \in Admins(c) : v = u
    BY <1>3 DEF LosesAdmin, Admins
  <2> QED BY <2>1 DEF LosesAdmin, OtherAdmin, Admins
<1>5. u \notin Admins(c)'
  BY DEF LosesAdmin
<1>6. member[u][c] = Active("ADMIN") /\ user[u] = "ACTIVE"
  BY <1>4 DEF Admins
<1>7. CASE WriteMember(r)
  <2>1. req.company \in Companies /\ req.op \in {"MEMBER_ROLE", "MEMBER_STATUS"}
    BY <1>0, <1>7, RequestFacts DEF WriteMember
  <2>2. c = req.company
    BY <1>0, <1>1, <1>5, <1>6, <1>7, <2>1 DEF WriteMember, TypeOK, Admins
  <2>3. \/ req.op = "MEMBER_ROLE" /\ req.to = "STAFF"
        \/ req.op = "MEMBER_STATUS" /\ req.to = "DISABLED"
    <3>1. member'[u][c] = IF req.op = "MEMBER_ROLE" THEN [member[u][c] EXCEPT !.role = req.to]
                                                    ELSE [member[u][c] EXCEPT !.status = req.to]
      BY <1>0, <1>1, <1>7, <2>2 DEF WriteMember, TypeOK
    <3>2. user'[u] = "ACTIVE"
      BY <1>6, <1>7 DEF WriteMember
    <3> QED BY <1>0, <1>1, <1>5, <1>6, <2>1, <3>1, <3>2, RequestFacts DEF Admins
  <2>4. \E v \in Users : v # u /\ member[v][c] = Active("ADMIN")
    <3>1. u \in Holders(c)
      BY <1>1, <1>6 DEF Holders
    <3>2. Holders(c) \ {u} # {}
      BY <1>2, <2>2, <2>3, <3>1 DEF PageHolds
    <3> QED BY <3>2 DEF Holders
  <2> QED BY <1>4, <2>1, <2>4 DEF Unprotected, OtherAdmin
<1>8. CASE WriteUserStatus(r)
  <2>1. user'[u] = req.to /\ member' = member /\ req.op = "USER_STATUS"
    BY <1>0, <1>1, <1>8 DEF WriteUserStatus, TypeOK
  <2>2. req.to = "SUSPENDED"
    BY <1>0, <1>1, <1>5, <1>6, <2>1, RequestFacts DEF Admins
  <2> QED BY <1>1, <1>2, <1>4, <1>6, <2>1, <2>2 DEF PageHolds, Holders
<1>9. CASE WriteUserRole(r)
  <2>1. req.op = "USER_ROLE" /\ req.company \in Companies /\ req.to \in Roles
    BY <1>0, <1>9, RequestFacts DEF WriteUserRole
  <2> SUFFICES ASSUME req.alone, c = req.company,
                      \A d \in Companies \ {c} : member[u][d] = NotMember
               PROVE  FALSE
    BY <2>1 DEF Unprotected
  <2>2. member'[u][c] = Active(req.to) /\ user' = user
    BY <1>0, <1>1, <1>9 DEF WriteUserRole, TypeOK
  <2>3. req.to = "STAFF"
    BY <1>1, <1>5, <1>6, <2>1, <2>2 DEF Admins
  <2>4. TargetRoles(u) = {"ADMIN"}
    <3>1. {member[u][d].role : d \in Companies} \ {"NONE"} = {"ADMIN"}
      BY <1>6
    <3> QED BY <3>1 DEF TargetRoles
  <2> QED BY <1>2, <1>4, <2>1, <2>3, <2>4 DEF PageHolds
<1> QED BY <1>7, <1>8, <1>9 DEF Write

(* A withdrawn account returns only by a request that the withdrawal       *)
(* overtook.                                                               *)
LEMMA WriteKeepsDeleted ==
    ASSUME AccountsInv, NEW r \in Requests, Write(r), NEW u \in Users, Returns(u)
    PROVE  WriteUserStatus(r) /\ ~request[r].alone
<1>0. TypeOK
  BY DEF AccountsInv
<1>1. WriteUserStatus(r)
  BY DEF Write, WriteMember, WriteUserRole, Returns
<1>2. u = request[r].user /\ request[r].op = "USER_STATUS"
  BY <1>0, <1>1 DEF WriteUserStatus, TypeOK, Returns
<1>3. PageHolds(request[r])
  BY <1>2 DEF AccountsInv, Checked, Holds
<1> QED BY <1>1, <1>2, <1>3 DEF PageHolds, Returns
-----------------------------------------------------------------------------
(* A step that leaves all the data alone, and of each request what it is   *)
(* or nothing, keeps the invariant.                                        *)
LEMMA IdleInv ==
    ASSUME AccountsInv, UNCHANGED <<user, company, member>>,
           \A q \in Requests : request'[q] = request[q] \/ request'[q].op = "NONE"
    PROVE  Checked' /\ Rows'
<1>1. ASSUME NEW q \in Requests, request'[q].op # "NONE"
      PROVE  Holds(request'[q])
  BY <1>1 DEF AccountsInv, Checked
<1>2. Checked'
  <2>1. ASSUME NEW q \in Requests, request'[q].op # "NONE"
        PROVE  Holds(request[q])'
    BY <1>1, <2>1 DEF Holds, PageHolds, ConsoleHolds, OwnRows, OtherAdmin, Admins, Holders,
       TargetRoles
  <2> QED BY <2>1 DEF Checked
<1>3. Rows'
  BY DEF AccountsInv, Rows
<1> QED BY <1>2, <1>3

(* Every step preserves the invariant.                                     *)
LEMMA InvStep == AccountsInv /\ [Next]_vars => AccountsInv'
<1> SUFFICES ASSUME AccountsInv, [Next]_vars
             PROVE  AccountsInv'
  OBVIOUS
<1>0. TypeOK /\ Rows
  BY DEF AccountsInv
<1>1. CASE Console
  BY <1>0, <1>1, ConsoleType, ConsoleHarmless DEF AccountsInv, Harmless
<1>2. CASE ConsoleCheck
  BY <1>0, <1>2, ConsoleCheckType, ConsoleCheckInv DEF AccountsInv
<1>3. CASE Check
  BY <1>0, <1>3, CheckType, CheckInv DEF AccountsInv
<1>4. CASE Arrive
  <2>1. Harmless => Checked' /\ Rows'
    BY DEF Harmless
  <2> QED BY <1>0, <1>4, <2>1, ArriveType, ArriveHarmless, IdleInv DEF AccountsInv
<1>5. ASSUME NEW r \in Requests, CommitConsole(r)
      PROVE  AccountsInv'
  BY <1>0, <1>5, CommitType, CommitInv DEF AccountsInv
<1>6. ASSUME NEW r \in Requests, Write(r)
      PROVE  AccountsInv'
  BY <1>0, <1>6, WriteType, WriteInv DEF AccountsInv
<1>7. ASSUME NEW r \in Requests, Abandon(r)
      PROVE  AccountsInv'
  <2>1. /\ UNCHANGED <<user, company, member, session>>
        /\ \A q \in Requests : request'[q] = request[q] \/ request'[q].op = "NONE"
        /\ request' \in [Requests -> Pending \cup {NoRequest}]
    BY <1>0, <1>7 DEF Abandon, NoRequest, TypeOK
  <2> QED BY <1>0, <2>1, IdleInv DEF AccountsInv, TypeOK
<1>8. CASE UNCHANGED vars
  BY <1>0, <1>8, IdleInv DEF vars, AccountsInv, TypeOK
<1> QED BY <1>1, <1>2, <1>3, <1>4, <1>5, <1>6, <1>7, <1>8 DEF Next

(* Every state is well formed, every request not yet overtaken still has   *)
(* what its check saw, and finds the membership it is to change.           *)
THEOREM AccountsInvariant == Spec => []AccountsInv
BY InvInit, InvStep, PTL DEF Spec

(* The well-formedness of accounts, memberships and requests, and that     *)
(* only active users have sessions, in every state.                        *)
THEOREM AccountsTypeCorrect == Spec => []TypeOK
<1>1. AccountsInv => TypeOK
  BY DEF AccountsInv
<1> QED BY <1>1, AccountsInvariant, PTL

(* The last administrator of an active company goes, and a withdrawn       *)
(* account returns, only by a write whose check cannot see it, of a page   *)
(* or of the console, and never by transactions of the console alone: in   *)
(* every behaviour, for any number of users, companies and requests in     *)
(* flight.                                                                 *)
THEOREM LastAdminProtected == Spec => ChecksProtect
<1> DEFINE Protects ==
      /\ \A c \in Companies : LosesAdmin(c) =>
           \E r \in Requests : (Write(r) \/ CommitConsole(r)) /\ Unprotected(r, c)
      /\ \A u \in Users : Returns(u) =>
           \E r \in Requests : WriteUserStatus(r) /\ ~request[r].alone
<1>1. AccountsInv /\ [Next]_vars => [Protects]_vars
  <2> SUFFICES ASSUME AccountsInv, Next
               PROVE  Protects
    OBVIOUS
  <2>0. TypeOK
    BY DEF AccountsInv
  <2>1. ASSUME UNCHANGED <<user, member>>
        PROVE  Protects
    BY <2>1 DEF LosesAdmin, Returns, Admins
  <2>2. CASE Console
    BY <2>2, ConsoleHarmless DEF Harmless
  <2>3. CASE ConsoleCheck \/ Check
    BY <2>1, <2>3, ConsoleCheckInv, CheckInv
  <2>4. CASE Arrive
    <3>1. Harmless => Protects
      BY DEF Harmless
    <3> QED BY <2>1, <2>4, <3>1, ArriveHarmless
  <2>5. ASSUME NEW r \in Requests, CommitConsole(r)
        PROVE  Protects
    BY <2>5, CommitProtects DEF Unprotected
  <2>6. ASSUME NEW r \in Requests, Write(r)
        PROVE  Protects
    BY <2>6, WriteProtects, WriteKeepsDeleted
  <2>7. ASSUME NEW r \in Requests, Abandon(r)
        PROVE  Protects
    BY <2>1, <2>7 DEF Abandon
  <2> QED BY <2>2, <2>3, <2>4, <2>5, <2>6, <2>7 DEF Next
<1>2. ChecksProtect <=> [][Protects]_vars
  BY PTL DEF ChecksProtect
<1> QED BY <1>1, <1>2, AccountsInvariant, PTL DEF Spec

(* Whoever a step gives or takes rights is logged out, unless he joins     *)
(* another company himself.                                                *)
Known == \A u \in session :
    \/ user'[u] = user[u] /\ member'[u] = member[u]
    \/ u \notin session'
    \/ \E c \in Companies, role \in Roles : Join(u, c, role)

(* The console logs out whoever it changes, in one step                    *)
LEMMA ConsoleKnown == TypeOK /\ Console => Known
<1> SUFFICES ASSUME TypeOK, Console
             PROVE  Known
  OBVIOUS
<1>1. ASSUME NEW u \in Users, RestoreUser(u) \/ ForceLogoutUser(u)
      PROVE  Known
  BY <1>1 DEF RestoreUser, ForceLogoutUser, Known, TypeOK
<1>2. ASSUME NEW u \in Users, NEW c \in Companies, PromoteUser(u, c) \/ TransferCompanyAdmin(c, u)
      PROVE  Known
  BY <1>2 DEF PromoteUser, TransferCompanyAdmin, Known, TypeOK
<1>3. ASSUME NEW c \in Companies, SuspendCompany(c) \/ RestoreCompany(c) \/ CreateCompany(c)
      PROVE  Known
  BY <1>3 DEF SuspendCompany, RestoreCompany, CreateCompany, Known
<1> QED BY <1>1, <1>2, <1>3 DEF Console

(* or in two.                                                              *)
LEMMA CommitKnown == ASSUME AccountsInv, NEW r \in Requests, CommitConsole(r) PROVE Known
<1>1. session' = session \ Written(r) /\ session \subseteq Users
  BY DEF CommitConsole, AccountsInv, TypeOK
<1> QED BY <1>1, CommitFacts DEF Known

(* Only who joins another company himself goes on.                         *)
LEMMA ArriveKnown == TypeOK /\ Arrive => Known
<1> SUFFICES ASSUME TypeOK, Arrive
             PROVE  Known
  OBVIOUS
<1>1. ASSUME NEW u \in Users, LogIn(u)
      PROVE  Known
  BY <1>1 DEF LogIn, Known
<1>2. ASSUME NEW u \in Users, NEW c \in Companies, SignUp(u, c)
      PROVE  Known
  BY <1>2 DEF SignUp, Known, TypeOK
<1>3. ASSUME NEW u \in Users, NEW c \in Companies, NEW role \in Roles, Join(u, c, role)
      PROVE  Known
  <2>1. \A v \in Users : v # u => user'[v] = user[v] /\ member'[v] = member[v]
    BY <1>3 DEF Join, TypeOK
  <2> QED BY <1>3, <2>1 DEF Known, TypeOK
<1>4. ASSUME NEW a, NEW u \in Users, NEW c \in Companies, NEW role \in Roles,
             NEW status, CreateManagedUser(a, u, c, role, status)
      PROVE  Known
  BY <1>4 DEF CreateManagedUser, Known, TypeOK
<1> QED BY <1>1, <1>2, <1>3, <1>4 DEF Arrive

(* The writes of the member page and the account page log their user out.  *)
LEMMA WriteKnown == ASSUME TypeOK, NEW r \in Requests, Write(r) PROVE Known
<1>1. \A v \in Users : v # request[r].user => user'[v] = user[v] /\ member'[v] = member[v]
  BY RequestFacts DEF Write, WriteMember, WriteUserStatus, WriteUserRole, TypeOK
<1>2. session' = session \ {request[r].user}
  BY DEF Write, WriteMember, WriteUserStatus, WriteUserRole
<1> QED BY <1>1, <1>2 DEF Known, TypeOK

(* No session goes on with rights its user had before: who is given, or    *)
(* loses, a role or his standing by somebody else has to log in again.     *)
THEOREM ChangeEndsSessions == Spec => ChangedIsLoggedOut
<1>1. AccountsInv /\ [Next]_vars => [Known]_vars
  <2> SUFFICES ASSUME AccountsInv, Next
               PROVE  Known
    OBVIOUS
  <2>0. TypeOK
    BY DEF AccountsInv
  <2>1. CASE Console
    BY <2>0, <2>1, ConsoleKnown
  <2>2. CASE ConsoleCheck \/ Check
    BY <2>2, ConsoleCheckInv, CheckInv DEF Known
  <2>3. CASE Arrive
    BY <2>0, <2>3, ArriveKnown
  <2>4. ASSUME NEW r \in Requests, CommitConsole(r)
        PROVE  Known
    BY <2>4, CommitKnown
  <2>5. ASSUME NEW r \in Requests, Write(r)
        PROVE  Known
    BY <2>0, <2>5, WriteKnown
  <2>6. ASSUME NEW r \in Requests, Abandon(r)
        PROVE  Known
    BY <2>6 DEF Abandon, Known
  <2> QED BY <2>1, <2>2, <2>3, <2>4, <2>5, <2>6 DEF Next
<1>2. ChangedIsLoggedOut <=> [][Known]_vars
  BY PTL DEF ChangedIsLoggedOut, Known
<1> QED BY <1>1, <1>2, AccountsInvariant, PTL DEF Spec
=============================================================================
