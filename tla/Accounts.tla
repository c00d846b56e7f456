------------------------------ MODULE Accounts ------------------------------
(***************************************************************************)
(* User accounts (routers/auths.py, routers/users.py, models/auths.py,     *)
(* models/users.py, the sign-up of utils/oauth.py): a row for the user and *)
(* one for the credential, each with the address.  Requests run as         *)
(* handlers, one transaction at a time.  The first account of an           *)
(* installation becomes its administrator; it is the primary one, which no *)
(* other may change.  Users are numbered in order of creation.  The role   *)
(* management of OAuth claims is off.                                      *)
(***************************************************************************)
EXTENDS Naturals, FiniteSets, FiniteSetsExt

CONSTANTS Requests,    \* requests that may run at once
          Emails,      \* addresses
          MaxUsers,    \* bound: accounts ever created
          MaxRequests  \* bound: requests ever made

VARIABLES users,         \* user -> [email, role]
          auths,         \* user -> address of the credential
          signup,        \* ui.enable_signup
          sharing,       \* DATABASE_ENABLE_SESSION_SHARING
          handler,       \* request -> what it is doing
          created,       \* users ever created
          made,          \* requests made
          disturbed,     \* did two requests overlap, or one die?
          bootstrapped   \* users that were made administrator for being alone

vars == <<users, auths, signup, sharing, handler, created, made, disturbed, bootstrapped>>

Idle == [kind |-> "none", at |-> "idle", id |-> 0, email |-> "none", seen |-> 0]
Busy == {h \in Requests : handler[h].at # "idle"}
Primary == Min(DOMAIN users)
Admins == {u \in DOMAIN users : users[u].role = "admin"}
Named(email) == {u \in DOMAIN users : users[u].email = email}

Init ==
    /\ users = <<>> /\ auths = <<>>
    /\ signup \in BOOLEAN /\ sharing \in BOOLEAN
    /\ handler = [h \in Requests |-> Idle]
    /\ created = 0 /\ made = 0
    /\ disturbed = FALSE /\ bootstrapped = {}

rows == <<users, auths>>

\* A request that has passed its first checks.
Start(h, kind, at, id, email) ==
    /\ h \notin Busy
    /\ made < MaxRequests
    /\ made' = made + 1
    /\ disturbed' = (disturbed \/ Busy # {})
    /\ handler' = [handler EXCEPT ![h] =
                     [kind |-> kind, at |-> at, id |-> id, email |-> email,
                      seen |-> Cardinality(DOMAIN users)]]
    /\ UNCHANGED <<rows, signup, sharing, created, bootstrapped>>

Goto(h, at) == handler' = [handler EXCEPT ![h].at = at]
End(h) == handler' = [handler EXCEPT ![h] = Idle]

-----------------------------------------------------------------------------
(* Requests. *)

\* Sign-up is open, or nobody is there yet, whatever the setting says.
SignUp(h, email) == (DOMAIN users = {} \/ signup) /\ Start(h, "signup", "lookup", 0, email)

\* Sign-in with an external identity (OAuth, LDAP), which signs up who is new.
ExternalSignIn(h, email) == Start(h, "external", "lookup", 0, email)

\* An administrator deletes somebody else, but not the primary one.
Delete(h, a, u) == u # Primary /\ u # a /\ Start(h, "delete", "deleteUser", u, "none")

\* Mutant: an administrator may change anybody.
MayChangeAny(a, u, role) == TRUE

\* The primary administrator is changed by nobody else, and keeps the role.
MayChange(a, u, role) == u = Primary => a = u /\ role \in {"same", "admin"}

SetRole(h, a, u, role) ==
    MayChange(a, u, role) /\ users[u].role # role /\ Start(h, role, "setRole", u, "none")

SetEmail(h, a, u, email) ==
    /\ MayChange(a, u, "same")
    /\ Named(email) = {}
    /\ Start(h, "edit", "editAuth", u, email)

\* An administrator opens or closes the sign-up.
SetSignup(value) == signup' = value /\ UNCHANGED <<rows, sharing, handler, created, made, disturbed, bootstrapped>>

-----------------------------------------------------------------------------
(* Steps of a handler; each is one transaction. *)

other == <<signup, sharing, created, made, disturbed, bootstrapped>>

\* Is the address known?  A sign-up ends then, an external sign-in goes on.
Lookup(h) ==
    LET known == Named(handler[h].email)
    IN /\ handler[h].at = "lookup"
       /\ IF known = {} THEN Goto(h, "insert")
          ELSE IF handler[h].kind = "external"
          THEN handler' = [handler EXCEPT ![h].at = "count", ![h].id = Min(known)]
          ELSE End(h)
       /\ UNCHANGED <<rows, other>>

\* The user is committed; with a session of its own, before the credential.
InsertUser(h) ==
    LET u == created + 1
    IN /\ handler[h].at = "insert"
       /\ created < MaxUsers
       /\ created' = u
       /\ users' = [x \in DOMAIN users \cup {u} |->
                     IF x = u THEN [email |-> handler[h].email, role |-> "user"] ELSE users[x]]
       /\ IF sharing
          THEN auths' = [x \in DOMAIN auths \cup {u} |-> IF x = u THEN handler[h].email ELSE auths[x]]
          ELSE UNCHANGED auths
       /\ handler' = [handler EXCEPT ![h].at = IF sharing THEN "count" ELSE "insertAuth",
                                     ![h].id = u]
       /\ UNCHANGED <<signup, sharing, made, disturbed, bootstrapped>>

InsertAuth(h) ==
    LET u == handler[h].id
    IN /\ handler[h].at = "insertAuth"
       /\ auths' = [x \in DOMAIN auths \cup {u} |-> IF x = u THEN handler[h].email ELSE auths[x]]
       /\ Goto(h, "count")
       /\ UNCHANGED <<users, other>>

\* The number of users, with the one just inserted.
Alone(h) == Cardinality(DOMAIN users) = 1

Count(h) ==
    /\ handler[h].at = "count"
    /\ IF Alone(h) THEN Goto(h, "promote") ELSE End(h)
    /\ UNCHANGED <<rows, other>>

\* The only user becomes administrator; a sign-up then closes the sign-up.
Promote(h) ==
    LET u == handler[h].id
    IN /\ handler[h].at = "promote"
       /\ users' = [x \in DOMAIN users |-> IF x = u THEN [users[x] EXCEPT !.role = "admin"] ELSE users[x]]
       /\ bootstrapped' = bootstrapped \cup ({u} \cap DOMAIN users)
       /\ IF handler[h].kind = "signup" THEN Goto(h, "close") ELSE End(h)
       /\ UNCHANGED <<auths, signup, sharing, created, made, disturbed>>

CloseSignup(h) ==
    /\ handler[h].at = "close"
    /\ signup' = FALSE
    /\ End(h)
    /\ UNCHANGED <<rows, sharing, created, made, disturbed, bootstrapped>>

WriteRole(h) ==
    /\ handler[h].at = "setRole"
    /\ users' = [x \in DOMAIN users |->
                   IF x = handler[h].id THEN [users[x] EXCEPT !.role = handler[h].kind] ELSE users[x]]
    /\ End(h)
    /\ UNCHANGED <<auths, other>>

\* The address goes to the credential first, if there is one, ...
EditAuth(h) ==
    /\ handler[h].at = "editAuth"
    /\ auths' = [x \in DOMAIN auths |-> IF x = handler[h].id THEN handler[h].email ELSE auths[x]]
    /\ Goto(h, "editUser")
    /\ UNCHANGED <<users, other>>

\* ... then to the user.
EditUser(h) ==
    /\ handler[h].at = "editUser"
    /\ users' = [x \in DOMAIN users |->
                   IF x = handler[h].id THEN [users[x] EXCEPT !.email = handler[h].email] ELSE users[x]]
    /\ End(h)
    /\ UNCHANGED <<auths, other>>

\* The chats and the user, then the credential.
DeleteUser(h) ==
    /\ handler[h].at = "deleteUser"
    /\ users' = [x \in DOMAIN users \ {handler[h].id} |-> users[x]]
    /\ Goto(h, "deleteAuth")
    /\ UNCHANGED <<auths, other>>

DeleteAuth(h) ==
    /\ handler[h].at = "deleteAuth"
    /\ auths' = [x \in DOMAIN auths \ {handler[h].id} |-> auths[x]]
    /\ End(h)
    /\ UNCHANGED <<users, other>>

\* The instance stops between two transactions.
Die(h) ==
    /\ h \in Busy
    /\ End(h)
    /\ disturbed' = TRUE
    /\ UNCHANGED <<rows, signup, sharing, created, made, bootstrapped>>

Next ==
    \/ \E value \in BOOLEAN : Admins # {} /\ SetSignup(value)
    \/ \E h \in Requests :
        \/ \E email \in Emails : SignUp(h, email) \/ ExternalSignIn(h, email)
        \/ \E a \in Admins, u \in DOMAIN users :
            \/ Delete(h, a, u)
            \/ \E role \in {"user", "admin"} : SetRole(h, a, u, role)
            \/ \E email \in Emails : SetEmail(h, a, u, email)
        \/ Lookup(h) \/ InsertUser(h) \/ InsertAuth(h) \/ Count(h) \/ Promote(h)
        \/ CloseSignup(h) \/ WriteRole(h) \/ EditAuth(h) \/ EditUser(h)
        \/ DeleteUser(h) \/ DeleteAuth(h) \/ Die(h)

Spec == Init /\ [][Next]_vars

-----------------------------------------------------------------------------
(* Properties. *)

TypeOK ==
    /\ DOMAIN users \subseteq 1 .. created /\ DOMAIN auths \subseteq 1 .. created
    /\ \A u \in DOMAIN users : users[u] \in [email : Emails, role : {"user", "admin"}]
    /\ \A u \in DOMAIN auths : auths[u] \in Emails
    /\ signup \in BOOLEAN /\ sharing \in BOOLEAN
    /\ created \in 0 .. MaxUsers /\ made \in 0 .. MaxRequests
    /\ \A h \in Requests : handler[h].id \in 0 .. created

\* However first sign-ups and sign-ins overlap, only the primary user is ever
\* made administrator for being alone (auths.py:792-795 and 808-813).
OneBootstrap == \A u \in bootstrapped : u = Primary

\* As long as requests run one after the other, an installation with users has
\* its primary administrator.
PrimaryExists == ~disturbed /\ Busy = {} /\ users # <<>> => users[Primary].role = "admin"

\* Whatever overlaps or dies, the primary administrator is neither deleted nor
\* loses the role (routers/users.py:601-618, 717-730).
PrimaryStays ==
    [][\A u \in Admins : u = Primary => u \in DOMAIN users' /\ users'[u].role = "admin"]_vars

\* As long as requests run one after the other, each user has a credential with
\* the same address, no credential is left over and no address is taken twice
\* (models/auths.py:103-137,
\* 193-208, 225-237).
RowsAgree ==
    ~disturbed /\ Busy = {} =>
        /\ DOMAIN auths = DOMAIN users
        /\ \A u \in DOMAIN users : auths[u] = users[u].email /\ Named(users[u].email) = {u}

\* One administrator for being first, and users and credentials that agree.
AccountsAgree == OneBootstrap /\ PrimaryExists /\ RowsAgree

\* What an installation needs of its accounts, and the step none may take.
AccountsServed == []AccountsAgree /\ PrimaryStays
=============================================================================
