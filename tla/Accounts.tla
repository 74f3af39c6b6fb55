------------------------------ MODULE Accounts -------------------------------
(***************************************************************************)
(* Users, and everything that writes them: the first-run setup, the three  *)
(* ways to sign in, the edits of one's own profile and password, and the   *)
(* roles and blocks that admins decide on.  A handler reads a user once,   *)
(* changes its copy and writes the whole document back (UpdateUser);       *)
(* nothing tells it that the document changed in between.                  *)
(***************************************************************************)
EXTENDS Integers, FiniteSets

CONSTANTS Persons,     \* who signs in; identities and addresses are theirs
          Veterans,    \* ids of users older than the behaviour
          Requests,
          RoleSets,    \* bound: the sets of roles that admins choose
          Deployments, \* what the behaviour may start on, see Init
          NoUser, NoPerson

Roles == {"admin", "editor"}
IDs == Veterans \cup Requests \* a new user's uuid stands for its request

\* An identity of a person.  Its own ID is the person's at that provider; "none"
\* means that the provider never told their address.
Account == [type : {"email", "custom", "google"}, person : Persons,
            email : {"none", "known"}]
User == [roles : SUBSET Roles, standing : {"active", "blocked"},
         accounts : SUBSET Account, password : IDs]

\* SetAccount leaves a user one account of each type.
OneOfEach(accounts) == \A a, b \in accounts : a.type = b.type => a = b

ASSUME ConstantsAssumption ==
    /\ Veterans \cap Requests = {}
    /\ NoUser \notin User /\ NoUser \notin IDs
    /\ NoPerson \notin Persons
    /\ RoleSets \subseteq SUBSET Roles
    /\ Deployments \subseteq [Veterans -> User]
    /\ \A d \in Deployments, v \in Veterans : OneOfEach(d[v].accounts)

VARIABLES settings, \* "absent" or "completed"
          users,    \* the collection "users"
          sessions, \* live sessions, <<the request that made it, user>>
          req,      \* what each request is doing
          stale,    \* requests that wrote on something that had changed
          crossed   \* persons who were signing in, or up, twice at a time

ghosts == <<stale, crossed>> \* no code reads them
vars == <<settings, users, sessions, req, ghosts>>

Fresh(pc, kind) ==
    [pc |-> pc, kind |-> kind, person |-> NoPerson, claim |-> "verified",
     caller |-> NoUser, target |-> NoUser, roles |-> {}, read |-> NoUser, doc |-> NoUser,
     counted |-> {}]

\* Either nobody ran the setup yet, or it is long done and Veterans are there,
\* with a session each.
Init == /\ \/ settings = "absent" /\ sessions = {}
              /\ users = [i \in IDs |-> NoUser]
           \/ settings = "completed" /\ sessions = {<<v, v>> : v \in Veterans}
              /\ \E d \in Deployments :
                    users = [i \in IDs |-> IF i \in Veterans THEN d[i]
                                           ELSE NoUser]
        /\ req = [r \in Requests |-> Fresh("new", "none")]
        /\ stale = {} /\ crossed = {}

-----------------------------------------------------------------------------
Existing == {i \in IDs : users[i] # NoUser}

\* CountActiveAdmins counts these.
ActiveAdmins == {i \in Existing : /\ "admin" \in users[i].roles
                                  /\ users[i].standing = "active"}

\* RebuildKeys: what a user is found by, ids at providers and addresses.
Keys(accounts) == {<<a.type, a.person>> : a \in accounts}
                  \cup {<<"email", a.person>> :
                           a \in {b \in accounts : b.email = "known"}}

\* FindUserByKey goes through QueryOne: a user if exactly one has the key.
FindUserByKey(key) ==
    LET found == {i \in Existing : key \in Keys(users[i].accounts)}
    IN  IF Cardinality(found) = 1 THEN found ELSE {}

AccountOf(accounts, type) == {a \in accounts : a.type = type}

\* SetAccount replaces the account of its type.
SetAccount(accounts, a) == (accounts \ AccountOf(accounts, a.type)) \cup {a}

\* A request has written what it had to.
Continue(r, pc) ==
    req' = [req EXCEPT ![r] = [@ EXCEPT !.pc = pc, !.caller = NoUser,
                                        !.read = NoUser, !.doc = NoUser,
                                        !.counted = {}]]

\* A request ends without a trace of its own.
End(r) == req' = [req EXCEPT ![r] = Fresh("over", "none")]

-----------------------------------------------------------------------------
(* The first run.                                                          *)

\* SetupHandler refuses when the settings are completed, ...
BeginSetup(r) ==
    /\ req[r].pc = "new" /\ settings = "absent"
    /\ \E p \in Persons :
          req' = [req EXCEPT ![r] = [Fresh("settings", "setup") EXCEPT
                                        !.person = p]]
    /\ UNCHANGED <<settings, users, sessions, stale>>

Bootstrap(r) ==
    [roles |-> {"admin"}, standing |-> "active", password |-> r,
     accounts |-> {[type |-> "email", person |-> req[r].person,
                    email |-> "known"]}]

\* Mutated: the settings are not a singleton.
InsertSettingsTwice(r) ==
    /\ req[r].pc = "settings"
    /\ settings' = "completed"
    /\ req' = [req EXCEPT ![r].pc = "insert", ![r].doc = Bootstrap(r)]
    /\ UNCHANGED <<users, sessions, stale>>

\* ... inserts them, which fails when they are there (a fixed _id), ...
InsertSettings(r) ==
    /\ req[r].pc = "settings"
    /\ IF settings = "completed"
       THEN End(r)
       ELSE req' = [req EXCEPT ![r].pc = "insert", ![r].doc = Bootstrap(r)]
    /\ settings' = "completed"
    /\ UNCHANGED <<users, sessions, stale>>

\* ... and inserts the first admin.  A login that found nobody inserts the same
\* way.
InsertUser(r) ==
    /\ req[r].pc = "insert"
    /\ users' = [users EXCEPT ![r] = req[r].doc]
    /\ req' = [req EXCEPT ![r] = [@ EXCEPT
                  !.pc = IF req[r].kind = "setup" THEN "over"
                         ELSE "session",
                  !.target = r, !.doc = NoUser]]
    /\ UNCHANGED <<settings, sessions, stale>>

-----------------------------------------------------------------------------
(* Signing in.                                                             *)

\* LoginHandler, with the right password: a user of the Console, not blocked.
SignIn(r) ==
    /\ req[r].pc = "new"
    /\ \E p \in Persons : \E i \in FindUserByKey(<<"email", p>>) :
          /\ users[i].standing = "active" /\ users[i].roles # {}
          /\ \E a \in AccountOf(users[i].accounts, "email") : a.person = p
          /\ req' = [req EXCEPT ![r] = [Fresh("session", "signin") EXCEPT
                                           !.person = p, !.target = i]]
    /\ UNCHANGED <<settings, users, sessions, stale>>

\* The user u with the account of a login: an address that the token lacks
\* keeps the one known before.
Attached(u, type, p, claim) ==
    LET known == {a \in AccountOf(u.accounts, type) : a.email = "known"}
    IN  [u EXCEPT !.accounts =
            SetAccount(@, [type |-> type, person |-> p,
                           email |-> IF claim = "none" /\ known = {}
                                     THEN "none" ELSE "known"])]

NewUser(r) == [roles |-> {}, standing |-> "active", accounts |-> {},
               password |-> r]

\* A login goes on with the user found, unless blocked, or with a new one.
Settle(r, login, found) ==
    LET doc(u) == Attached(u, login.kind, login.person, login.claim)
    IN  \/ /\ found = {}
           /\ req' = [req EXCEPT ![r] = [login EXCEPT
                                            !.pc = "insert",
                                            !.doc = doc(NewUser(r))]]
        \/ \E i \in found :
              req' = [req EXCEPT ![r] =
                         IF users[i].standing = "blocked"
                         THEN Fresh("over", "none")
                         ELSE [login EXCEPT !.pc = "write", !.target = i,
                                            !.read = users[i],
                                            !.doc = doc(users[i])]]

\* LoginGoogleHandler and LoginCustomHandler, with a valid token, look for the
\* provider's id; a token's address is unverified, or absent, or trusted.
FindById(r) ==
    /\ req[r].pc = "new" /\ settings = "completed"
    /\ \E type \in {"google", "custom"}, p \in Persons,
          claim \in {"none", "unverified", "verified"} :
          LET found == FindUserByKey(<<type, p>>)
              login == [Fresh("email", type) EXCEPT !.person = p,
                                                    !.claim = claim]
          IN  /\ type = "custom" => claim # "unverified"
              /\ IF found = {} /\ claim = "verified"
                 THEN req' = [req EXCEPT ![r] = login]
                 ELSE Settle(r, login, found)
    /\ UNCHANGED <<settings, users, sessions, stale>>

\* Mutated: nobody is looked for by address.
FindByEmailNever(r) ==
    /\ req[r].pc = "email"
    /\ Settle(r, req[r], {})
    /\ UNCHANGED <<settings, users, sessions, stale>>

\* ... then for a trusted address, to link the account to its user.
FindByEmail(r) ==
    /\ req[r].pc = "email"
    /\ Settle(r, req[r], FindUserByKey(<<"email", req[r].person>>))
    /\ UNCHANGED <<settings, users, sessions, stale>>

CreateSession(r) ==
    /\ req[r].pc = "session"
    /\ sessions' = sessions \cup {<<r, req[r].target>>}
    /\ IF req[r].kind = "signin" THEN End(r) ELSE Continue(r, "over")
    /\ UNCHANGED <<settings, users, stale>>

\* A session is logged out, or expires.
EndSession ==
    /\ \E s \in sessions : sessions' = sessions \ {s}
    /\ UNCHANGED <<settings, users, req, stale>>

-----------------------------------------------------------------------------
(* Requests of somebody with a session (AttachUserMiddleware).             *)

\* UpdateMyPasswordHandler and UpdateMyProfileHandler, for a user with access to
\* the Console, change the copy that the middleware read.
EditOwn(r) ==
    /\ req[r].pc = "new"
    /\ \E s \in sessions, kind \in {"password", "profile"} :
          LET u == users[s[2]] IN
          /\ u.roles # {}
          /\ AccountOf(u.accounts, "email")
             \cup (IF kind = "profile" THEN AccountOf(u.accounts, "custom")
                   ELSE {}) # {}
          /\ req' = [req EXCEPT ![r] = [Fresh("write", kind) EXCEPT
                        !.target = s[2], !.read = u,
                        !.doc = IF kind = "profile" THEN u
                                ELSE [u EXCEPT !.password = r]]]
    /\ UNCHANGED <<settings, users, sessions, stale>>

\* RequireAdminMiddleware lets the request of an admin pass.
Authorize(r) ==
    /\ req[r].pc = "new"
    /\ \E s \in sessions, kind \in {"roles", "block"} :
          /\ "admin" \in users[s[2]].roles
          /\ req' = [req EXCEPT ![r] = [Fresh("find", kind) EXCEPT
                                           !.caller = s[2]]]
    /\ UNCHANGED <<settings, users, sessions, stale>>

\* UpdateUserRolesHandler.
ChooseRoles(r) ==
    /\ req[r].pc = "find" /\ req[r].kind = "roles"
    /\ \E i \in Existing, roles \in RoleSets :
          req' = [req EXCEPT
             ![r].pc = IF i \in ActiveAdmins /\ "admin" \notin roles
                       THEN "count" ELSE "write",
             ![r].roles = roles, ![r].target = i, ![r].read = users[i],
             ![r].doc = [users[i] EXCEPT !.roles = roles]]
    /\ UNCHANGED <<settings, users, sessions, stale>>

\* UpdateUserBlockHandler: nobody blocks themselves, and a flag that is as
\* wanted already is left.
ChooseBlock(r) ==
    /\ req[r].pc = "find" /\ req[r].kind = "block"
    /\ \E i \in Existing, standing \in {"active", "blocked"} :
          /\ standing = "blocked" => i # req[r].caller
          /\ users[i].standing # standing
          /\ req' = [req EXCEPT
                ![r].pc = IF standing = "blocked" /\ i \in ActiveAdmins
                          THEN "count" ELSE "write",
                ![r].target = i, ![r].read = users[i],
                ![r].doc = [users[i] EXCEPT !.standing = standing]]
    /\ UNCHANGED <<settings, users, sessions, stale>>

\* Mutated: the count forgets that the target is among the counted.
CountActiveAdminsLeft(r) ==
    /\ req[r].pc = "count"
    /\ IF ActiveAdmins = {}
       THEN End(r)
       ELSE req' = [req EXCEPT ![r].pc = "write", ![r].counted = ActiveAdmins]
    /\ UNCHANGED <<settings, users, sessions, stale>>

\* The guard of both handlers.  They compare the number; the set of those who
\* were counted is kept for the ghost.
CountActiveAdmins(r) ==
    /\ req[r].pc = "count"
    /\ IF Cardinality(ActiveAdmins) <= 1
       THEN End(r)
       ELSE req' = [req EXCEPT ![r].pc = "write", ![r].counted = ActiveAdmins]
    /\ UNCHANGED <<settings, users, sessions, stale>>

Written(r) == CASE req[r].kind \in {"google", "custom"} -> Continue(r, "session")
                [] req[r].kind = "roles" -> Continue(r, "over")
                [] OTHER -> End(r)

\* Mutated: the copy is written to the caller.
UpdateUserOfCaller(r) ==
    LET i == IF req[r].caller = NoUser THEN req[r].target ELSE req[r].caller
    IN  /\ req[r].pc = "write"
        /\ users' = [users EXCEPT ![i] = req[r].doc]
        /\ Written(r)
        /\ UNCHANGED <<settings, sessions, stale>>

\* UpdateUser writes the whole copy, whatever happened to the user since it was
\* read, or to the other admins since they were counted.
UpdateUser(r) ==
    LET i == req[r].target IN
    /\ req[r].pc = "write"
    /\ users' = [users EXCEPT ![i] = req[r].doc]
    /\ stale' = IF \/ users[i] # req[r].read
                   \/ req[r].counted \notin {{}, ActiveAdmins}
                THEN stale \cup {r} ELSE stale
    /\ Written(r)
    /\ UNCHANGED <<settings, sessions>>

-----------------------------------------------------------------------------
Login(r) == \/ SignIn(r) \/ FindById(r) \/ FindByEmail(r) \/ CreateSession(r)

Administer(r) == \/ EditOwn(r) \/ Authorize(r) \/ ChooseRoles(r)
                 \/ ChooseBlock(r) \/ CountActiveAdmins(r)

\* A call fails, or the instance dies under the request.
Abort(r) ==
    /\ req[r].pc \notin {"new", "over"}
    /\ IF req[r].pc = "session" THEN Continue(r, "over") ELSE End(r)
    /\ UNCHANGED <<settings, users, sessions, stale>>

\* The requests by which a person is signing in or up.
SigningIn(p) ==
    {r \in Requests : /\ req[r].kind \in {"setup", "google", "custom"}
                      /\ req[r].person = p
                      /\ req[r].pc # "over"}

Observe == crossed' = crossed \cup {p \in Persons :
                                       Cardinality(SigningIn(p)') > 1}

Next == \/ \E r \in Requests :
              /\ \/ BeginSetup(r) \/ InsertSettings(r) \/ InsertUser(r)
                 \/ Login(r) \/ Administer(r) \/ UpdateUser(r)
                 \/ Abort(r)
              /\ Observe
        \/ EndSession /\ Observe

Spec == Init /\ [][Next]_vars
-----------------------------------------------------------------------------
(* Properties.                                                             *)

Kinds == {"none", "setup", "signin", "google", "custom", "password", "profile",
          "roles", "block"}

RequestType ==
    [pc : {"new", "settings", "insert", "email", "write", "find", "count",
           "session", "over"},
     kind : Kinds, person : Persons \cup {NoPerson},
     claim : {"none", "unverified", "verified"},
     caller : IDs \cup {NoUser}, target : IDs \cup {NoUser},
     roles : SUBSET Roles, read : User \cup {NoUser}, doc : User \cup {NoUser},
     counted : SUBSET IDs]

\* Every variable stays in its type; nobody has two accounts of one provider,
\* and a session is of somebody who exists.
TypeOK ==
    /\ settings \in {"absent", "completed"}
    /\ users \in [IDs -> User \cup {NoUser}]
    /\ \A i \in Existing : OneOfEach(users[i].accounts)
    /\ sessions \in SUBSET (IDs \X Existing)
    /\ req \in [Requests -> RequestType]
    /\ stale \in SUBSET Requests
    /\ crossed \in SUBSET Persons

\* The first admins that setups inserted.
Bootstrapped == {r \in Requests : req[r].kind = "setup" /\ req[r].pc = "over"}

\* However many setups race, at most one inserts an admin, and none does on a
\* deployment that was set up long ago (setup.go:63).
SetupOnce ==
    Cardinality(Bootstrapped) <= IF Veterans \cap Existing = {} THEN 1 ELSE 0

\* From the first admin on an active admin remains, as long as nobody wrote on
\* what had changed: roles, blocks, logins and edits that do not overlap never
\* lock the Console (update_user_roles.go:27-28, user.go:58-61).
AdminRemains ==
    Bootstrapped \cup (Veterans \cap Existing) # {} /\ stale = {}
    => ActiveAdmins # {}

\* Roles come from an admin's choice for that user, or the setup: whatever
\* overlaps, a login or an edit may bring back roles the user once had, never
\* any others.
RolesAreGranted ==
    \A i \in Existing :
        \/ users[i].roles = {}
        \/ i \in Bootstrapped /\ users[i].roles = {"admin"}
        \/ \E d \in Deployments : i \in Veterans /\ users[i].roles = d[i].roles
        \/ \E r \in Requests : /\ req[r].kind = "roles" /\ req[r].pc = "over"
                               /\ req[r].target = i
                               /\ req[r].roles = users[i].roles

\* A person whose tokens all carry a verified address, and who never signed in
\* twice at a time, is one user, whichever providers they come from and whatever
\* else is written (login_google.go:94-97).
OnePersonOneUser ==
    \A p \in Persons \ crossed :
        (\A r \in Requests : req[r].person = p => req[r].claim = "verified")
        => Cardinality({i \in Existing :
                           \E a \in users[i].accounts : a.person = p}) <= 1
=============================================================================
