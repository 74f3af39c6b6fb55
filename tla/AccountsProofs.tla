--------------------------- MODULE AccountsProofs ---------------------------
(***************************************************************************)
(* Proofs about Accounts, for every value of its constants: any numbers of *)
(* persons, users and requests, any deployments.                           *)
(***************************************************************************)
EXTENDS Accounts, FiniteSetTheorems, TLAPS

\* A set of one member at most, by its members and by its size.
LEMMA AtMostOne ==
    ASSUME NEW S PROVE (\A a, b \in S : a = b) => Cardinality(S) <= 1
<1> SUFFICES ASSUME \A a, b \in S : a = b PROVE Cardinality(S) <= 1
  OBVIOUS
<1>1. CASE S = {}
  BY <1>1, FS_EmptySet
<1>2. CASE S # {}
  <2>1. PICK a \in S : TRUE
    BY <1>2
  <2>2. S = {a}
    BY <2>1
  <2> QED
    BY <2>2, FS_Singleton
<1> QED
  BY <1>1, <1>2

\* Another member of a set with two.
LEMMA AnotherOne ==
    ASSUME NEW S, ~(Cardinality(S) <= 1), NEW a PROVE \E b \in S : b # a
<1> SUFFICES ASSUME \A b \in S : b = a PROVE FALSE
  OBVIOUS
<1> QED
  BY AtMostOne

\* A finite set that counts at most one.
LEMMA CountedOne ==
    ASSUME NEW S, IsFiniteSet(S), ~(Cardinality(S) > 1), NEW a \in S, NEW b \in S
    PROVE  a = b
<1> SUFFICES ASSUME a # b PROVE FALSE
  OBVIOUS
<1>1. {a, b} \subseteq S
  OBVIOUS
<1>2. IsFiniteSet({a}) /\ Cardinality({a}) = 1
  BY FS_Singleton
<1>3. {a, b} = {a} \cup {b} /\ b \notin {a}
  OBVIOUS
<1>4. IsFiniteSet({a, b}) /\ Cardinality({a, b}) = 2
  BY <1>2, <1>3, FS_AddElement
<1>5. Cardinality({a, b}) <= Cardinality(S)
  BY <1>1, <1>4, FS_Subset
<1>6. Cardinality(S) \in Nat
  BY FS_CardinalityType
<1> QED
  BY <1>4, <1>5, <1>6

-----------------------------------------------------------------------------
(* Typing.                                                                 *)

\* What a request carries where it stands.
Fits(x) ==
    /\ x.pc = "new" => x.kind = "none"
    /\ x.pc = "settings" => x.kind = "setup"
    /\ x.pc = "email" => x.kind \in {"google", "custom"} /\ x.claim = "verified"
    /\ x.pc = "insert" => x.kind \in {"setup", "google", "custom"} /\ x.doc \in User
    /\ x.pc \in {"write", "count"} =>
          /\ x.target \in IDs /\ x.read \in User /\ x.doc \in User
          /\ x.kind \in {"google", "custom", "password", "profile", "roles", "block"}
    /\ x.pc = "find" => x.kind \in {"roles", "block"} /\ x.person = NoPerson
    /\ x.pc = "count" => x.kind \in {"roles", "block"}
    /\ x.pc = "session" => /\ x.kind \in {"signin", "google", "custom"}
                           /\ x.target \in IDs
    /\ x.kind = "signin" => x.claim = "verified"
    /\ x.kind \in {"setup", "google", "custom"} => x.person \in Persons
    /\ x.pc # "write" => x.counted = {}
    /\ x.doc \in User => OneOfEach(x.doc.accounts)

\* A request that will write a user holds one that is still there; one that has
\* not made a user is the id of none.
Places == \A r \in Requests :
    /\ req[r].pc \in {"write", "count", "session"} => users[req[r].target] # NoUser
    /\ req[r].pc \notin {"session", "over"} => users[r] = NoUser

Begun == {r \in Requests : req[r].pc # "new"}

TypeInv == /\ TypeOK /\ (\A r \in Requests : Fits(req[r])) /\ Places
           /\ IsFiniteSet(Begun)

LEMMA Apart == /\ NoUser \notin User /\ NoUser \notin IDs /\ NoPerson \notin Persons
               /\ Requests \subseteq IDs /\ Veterans \subseteq IDs
               /\ \A v \in Veterans : v \notin Requests
               /\ RoleSets \subseteq SUBSET Roles
BY ConstantsAssumption DEF ConstantsAssumption, IDs

\* A request, and only it, is now x.
Becomes(r, x) == /\ req' = [req EXCEPT ![r] = x]
                 /\ x \in RequestType

LEMMA Become ==
    ASSUME TypeOK, NEW r \in Requests, NEW x, Becomes(r, x)
    PROVE  /\ req' \in [Requests -> RequestType] /\ req'[r] = x
           /\ \A q \in Requests : q # r => req'[q] = req[q]
BY DEF Becomes, TypeOK

\* What a fresh request is.
LEMMA FreshTyped ==
    ASSUME NEW pc \in {"new", "settings", "insert", "email", "write", "find", "count",
                       "session", "over"}, NEW kind \in Kinds
    PROVE  /\ Fresh(pc, kind) \in RequestType
           /\ Fresh(pc, kind).pc = pc /\ Fresh(pc, kind).kind = kind
           /\ Fresh(pc, kind).person = NoPerson /\ Fresh(pc, kind).claim = "verified"
           /\ Fresh(pc, kind).caller = NoUser /\ Fresh(pc, kind).target = NoUser
           /\ Fresh(pc, kind).roles = {} /\ Fresh(pc, kind).read = NoUser
           /\ Fresh(pc, kind).doc = NoUser /\ Fresh(pc, kind).counted = {}
BY DEF Fresh, RequestType, Roles

\* A request that ended without a trace.
Gone(x) == /\ x \in RequestType /\ x.pc = "over" /\ x.kind = "none"
           /\ x.person = NoPerson /\ x.claim = "verified" /\ x.roles = {}
           /\ x.doc = NoUser /\ x.counted = {}

LEMMA Ends ==
    ASSUME NEW r \in Requests, End(r)
    PROVE  \E x : Becomes(r, x) /\ Gone(x)
<1>1. "over" \in {"over"} /\ "none" \in Kinds
  BY DEF Kinds
<1>2. PICK x : x = Fresh("over", "none")
  OBVIOUS
<1>3. x \in RequestType /\ Gone(x)
  BY <1>1, <1>2, FreshTyped DEF Gone
<1> QED
  BY <1>2, <1>3 DEF End, Becomes

\* A request that has written what it had to, and keeps what it was about.
Kept(x, y) == /\ y \in RequestType /\ y.kind = x.kind /\ y.person = x.person
              /\ y.claim = x.claim /\ y.target = x.target /\ y.roles = x.roles
              /\ y.doc = NoUser /\ y.counted = {}

LEMMA Continues ==
    ASSUME TypeOK, NEW r \in Requests, NEW pc \in {"session", "over"}, Continue(r, pc)
    PROVE  \E x : Becomes(r, x) /\ Kept(req[r], x) /\ x.pc = pc
<1>0. req[r] \in RequestType
  BY DEF TypeOK
<1>1. PICK x : x = [req[r] EXCEPT !.pc = pc, !.caller = NoUser, !.read = NoUser,
                                  !.doc = NoUser, !.counted = {}]
  OBVIOUS
<1>2. req' = [req EXCEPT ![r] = x]
  BY <1>1 DEF Continue, TypeOK
<1>3. x \in RequestType /\ Kept(req[r], x) /\ x.pc = pc
  BY <1>0, <1>1 DEF RequestType, Kept
<1> QED
  BY <1>2, <1>3 DEF Becomes

\* The account of a login joins those of a user, in the place of the one of its type.
Joined(u, v, p, claim) ==
    /\ v.roles = u.roles /\ v.standing = u.standing
    /\ \E a \in v.accounts : a.person = p
    /\ \A a \in v.accounts :
          \/ a \in u.accounts
          \/ a.person = p /\ (a.email = "known" \/ claim = "none")

LEMMA AttachedIs ==
    ASSUME NEW u \in User, OneOfEach(u.accounts), NEW type \in {"google", "custom"},
           NEW p \in Persons, NEW claim \in {"none", "unverified", "verified"},
           NEW v, v = Attached(u, type, p, claim)
    PROVE  /\ v \in User /\ OneOfEach(v.accounts)
           /\ Joined(u, v, p, claim)
<1>1. PICK a : a = [type |-> type, person |-> p,
                    email |-> IF /\ claim = "none"
                                 /\ {b \in AccountOf(u.accounts, type) :
                                        b.email = "known"} = {}
                              THEN "none" ELSE "known"]
  OBVIOUS
<1>2. /\ a \in Account /\ a.type = type /\ a.person = p
      /\ a.email = "known" \/ claim = "none"
  BY <1>1 DEF Account
<1>3. PICK s : s = SetAccount(u.accounts, a)
  OBVIOUS
<1>4. /\ s \in SUBSET Account /\ a \in s /\ OneOfEach(s)
      /\ \A b \in s : b \in u.accounts \/ b = a
  BY <1>2, <1>3 DEF SetAccount, AccountOf, OneOfEach, User
<1>5. v = [u EXCEPT !.accounts = s]
  BY <1>1, <1>3 DEF Attached, User
<1>6. /\ v \in User /\ v.accounts = s /\ v.roles = u.roles /\ v.standing = u.standing
  BY <1>4, <1>5 DEF User
<1> QED
  BY <1>2, <1>4, <1>6 DEF Joined

LEMMA NewUserIs ==
    ASSUME NEW r \in Requests
    PROVE  /\ NewUser(r) \in User /\ NewUser(r).roles = {} /\ NewUser(r).accounts = {}
           /\ OneOfEach(NewUser(r).accounts)
BY Apart DEF NewUser, User, OneOfEach, Roles

\* What a login makes of the user u.
Logs(login, x, u) == x.doc = Attached(u, login.kind, login.person, login.claim)

\* A login that is refused, inserts a user or will write the one found.
Tried(r, login, found, x) ==
    /\ Becomes(r, x)
    /\ \/ Gone(x)
       \/ /\ x.kind = login.kind /\ x.person = login.person
          /\ x.claim = login.claim /\ x.counted = {} /\ x.doc \in User
          /\ OneOfEach(x.doc.accounts)
          /\ \/ /\ found = {} /\ x.pc = "insert" /\ Logs(login, x, NewUser(r))
             \/ /\ x.pc = "write" /\ x.target \in found
                /\ x.read = users[x.target] /\ Logs(login, x, users[x.target])

LEMMA Settles ==
    ASSUME TypeInv, NEW r \in Requests, NEW login \in RequestType,
           login.kind \in {"google", "custom"}, login.person \in Persons,
           login.counted = {}, NEW found \in SUBSET Existing, Settle(r, login, found)
    PROVE  \E x : Tried(r, login, found, x)
<1>1. login.claim \in {"none", "unverified", "verified"}
  BY DEF RequestType
<1>2. CASE /\ found = {}
           /\ req' = [req EXCEPT ![r] = [login EXCEPT !.pc = "insert",
                         !.doc = Attached(NewUser(r), login.kind, login.person,
                                          login.claim)]]
  <2>1. PICK d \in User : /\ d = Attached(NewUser(r), login.kind, login.person, login.claim)
                          /\ OneOfEach(d.accounts)
    <3>1. PICK u \in User, k \in {"google", "custom"}, p \in Persons,
               c \in {"none", "unverified", "verified"} :
             u = NewUser(r) /\ k = login.kind /\ p = login.person /\ c = login.claim
      BY <1>1, NewUserIs
    <3>2. OneOfEach(u.accounts)
      BY <3>1, NewUserIs
    <3>3. PICK d : d = Attached(u, k, p, c)
      OBVIOUS
    <3>4. d \in User /\ OneOfEach(d.accounts)
      BY <3>2, <3>3, AttachedIs
    <3> QED
      BY <3>1, <3>3, <3>4
  <2>2. PICK x : x = [login EXCEPT !.pc = "insert", !.doc = d]
    OBVIOUS
  <2>3. /\ x \in RequestType /\ x.kind = login.kind /\ x.person = login.person
        /\ x.claim = login.claim /\ x.counted = {} /\ x.doc = d /\ x.pc = "insert"
    BY <2>2 DEF RequestType
  <2> QED
    BY <1>2, <2>1, <2>2, <2>3 DEF Becomes, Logs, Tried
<1>3. ASSUME NEW i \in found,
             req' = [req EXCEPT ![r] =
                        IF users[i].standing = "blocked" THEN Fresh("over", "none")
                        ELSE [login EXCEPT !.pc = "write", !.target = i,
                                 !.read = users[i],
                                 !.doc = Attached(users[i], login.kind, login.person,
                                                  login.claim)]],
             users[i].standing # "blocked"
      PROVE  \E x : /\ Becomes(r, x)
                    /\ x.kind = login.kind /\ x.person = login.person
                    /\ x.claim = login.claim /\ x.counted = {} /\ x.doc \in User
                    /\ OneOfEach(x.doc.accounts) /\ x.pc = "write" /\ x.target = i
                    /\ x.read = users[i] /\ Logs(login, x, users[i])
  <2>0. i \in IDs /\ users[i] \in User /\ OneOfEach(users[i].accounts)
    BY <1>3 DEF TypeInv, TypeOK, Existing
  <2>1. PICK d \in User : /\ d = Attached(users[i], login.kind, login.person, login.claim)
                          /\ OneOfEach(d.accounts)
    <3>1. PICK u \in User, k \in {"google", "custom"}, p \in Persons,
               c \in {"none", "unverified", "verified"} :
             u = users[i] /\ k = login.kind /\ p = login.person /\ c = login.claim
      BY <1>1, <2>0
    <3>2. OneOfEach(u.accounts)
      BY <2>0, <3>1
    <3>3. PICK d : d = Attached(u, k, p, c)
      OBVIOUS
    <3>4. d \in User /\ OneOfEach(d.accounts)
      BY <3>2, <3>3, AttachedIs
    <3> QED
      BY <3>1, <3>3, <3>4
  <2>2. PICK u : u = users[i]
    OBVIOUS
  <2>3. PICK x : x = [login EXCEPT !.pc = "write", !.target = i, !.read = u, !.doc = d]
    OBVIOUS
  <2>4. /\ x \in RequestType /\ x.kind = login.kind /\ x.person = login.person
        /\ x.claim = login.claim /\ x.counted = {} /\ x.doc = d /\ x.pc = "write"
        /\ x.target = i /\ x.read = u
    BY <2>0, <2>2, <2>3 DEF RequestType
  <2>5. req' = [req EXCEPT ![r] = x]
    BY <1>3, <2>1, <2>2, <2>3
  <2> QED
    BY <2>1, <2>2, <2>4, <2>5 DEF Becomes, Logs
<1>4. ASSUME NEW i \in found,
             req' = [req EXCEPT ![r] =
                        IF users[i].standing = "blocked" THEN Fresh("over", "none")
                        ELSE [login EXCEPT !.pc = "write", !.target = i,
                                 !.read = users[i],
                                 !.doc = Attached(users[i], login.kind, login.person,
                                                  login.claim)]],
             users[i].standing = "blocked"
      PROVE  \E x : Becomes(r, x) /\ Gone(x)
  BY <1>4, Ends DEF End
<1>5. CASE \E i \in found :
              req' = [req EXCEPT ![r] =
                        IF users[i].standing = "blocked" THEN Fresh("over", "none")
                        ELSE [login EXCEPT !.pc = "write", !.target = i,
                                 !.read = users[i],
                                 !.doc = Attached(users[i], login.kind, login.person,
                                                  login.claim)]]
  <2>1. PICK i \in found :
              req' = [req EXCEPT ![r] =
                        IF users[i].standing = "blocked" THEN Fresh("over", "none")
                        ELSE [login EXCEPT !.pc = "write", !.target = i,
                                 !.read = users[i],
                                 !.doc = Attached(users[i], login.kind, login.person,
                                                  login.claim)]]
    BY <1>5
  <2>2. CASE users[i].standing = "blocked"
    <3>1. PICK x : Becomes(r, x) /\ Gone(x)
      BY <1>4, <2>1, <2>2
    <3> QED
      BY <3>1 DEF Tried
  <2>3. CASE users[i].standing # "blocked"
    <3>1. PICK x : /\ Becomes(r, x)
                   /\ x.kind = login.kind /\ x.person = login.person
                   /\ x.claim = login.claim /\ x.counted = {} /\ x.doc \in User
                   /\ OneOfEach(x.doc.accounts) /\ x.pc = "write" /\ x.target = i
                   /\ x.read = users[i] /\ Logs(login, x, users[i])
      BY <1>3, <2>1, <2>3
    <3> QED
      BY <3>1 DEF Tried
  <2> QED
    BY <2>2, <2>3
<1> QED
  BY <1>2, <1>5 DEF Settle

-----------------------------------------------------------------------------
(* What each action makes of its request.                                  *)

LEMMA FoundByKey ==
    ASSUME NEW key
    PROVE  /\ FindUserByKey(key) \in SUBSET Existing
           /\ \A i \in FindUserByKey(key) : key \in Keys(users[i].accounts)
           /\ \A i \in Existing : /\ key \in Keys(users[i].accounts)
                                  /\ \A j \in Existing :
                                        key \in Keys(users[j].accounts) => j = i
                                  => i \in FindUserByKey(key)
<1>1. PICK found : found = {i \in Existing : key \in Keys(users[i].accounts)}
  OBVIOUS
<1>2. FindUserByKey(key) = IF Cardinality(found) = 1 THEN found ELSE {}
  BY <1>1 DEF FindUserByKey
<1>3. ASSUME NEW i \in Existing, key \in Keys(users[i].accounts),
             \A j \in Existing : key \in Keys(users[j].accounts) => j = i
      PROVE  i \in FindUserByKey(key)
  <2>1. found = {i}
    BY <1>1, <1>3
  <2>2. Cardinality(found) = 1
    BY <2>1, FS_Singleton
  <2> QED
    BY <1>2, <2>1, <2>2
<1> QED
  BY <1>1, <1>2, <1>3

LEMMA BeganSetup ==
    ASSUME TypeInv, NEW r \in Requests, BeginSetup(r)
    PROVE  \E x : /\ Becomes(r, x) /\ x.pc = "settings" /\ x.kind = "setup"
                  /\ x.person \in Persons /\ x.claim = "verified"
                  /\ x.doc = NoUser /\ x.counted = {}
<1>1. PICK p \in Persons :
         req' = [req EXCEPT ![r] = [Fresh("settings", "setup") EXCEPT !.person = p]]
  BY DEF BeginSetup
<1>2. PICK y : y = Fresh("settings", "setup")
  OBVIOUS
<1>3. /\ y \in RequestType /\ y.pc = "settings" /\ y.kind = "setup"
      /\ y.claim = "verified" /\ y.doc = NoUser /\ y.counted = {}
  BY <1>2, FreshTyped DEF Kinds
<1>4. PICK x : x = [y EXCEPT !.person = p]
  OBVIOUS
<1>5. /\ x \in RequestType /\ x.pc = "settings" /\ x.kind = "setup"
      /\ x.person \in Persons /\ x.claim = "verified" /\ x.doc = NoUser
      /\ x.counted = {}
  BY <1>3, <1>4 DEF RequestType
<1>6. req' = [req EXCEPT ![r] = x]
  BY <1>1, <1>2, <1>4
<1> QED
  BY <1>5, <1>6 DEF Becomes

LEMMA InsertedSettings ==
    ASSUME TypeInv, NEW r \in Requests, InsertSettings(r)
    PROVE  \E x : /\ Becomes(r, x)
                  /\ \/ Gone(x) /\ settings = "completed"
                     \/ /\ settings # "completed" /\ x.pc = "insert" /\ x.kind = "setup"
                        /\ x.person = req[r].person /\ x.claim = req[r].claim
                        /\ x.doc \in User /\ x.counted = {} /\ x.doc.roles = {"admin"}
                        /\ x.doc.standing = "active" /\ x.doc.accounts # {}
                        /\ \A a \in x.doc.accounts : /\ a.person = req[r].person
                                                     /\ a.email = "known"
                        /\ OneOfEach(x.doc.accounts)
<1>0. /\ req[r] \in RequestType /\ req[r].pc = "settings" /\ req[r].kind = "setup"
      /\ req[r].person \in Persons /\ req[r].counted = {}
  BY DEF TypeInv, TypeOK, Fits, InsertSettings
<1>1. CASE settings = "completed"
  BY <1>1, Ends DEF InsertSettings
<1>2. CASE settings # "completed"
  <2>1. PICK b : b = Bootstrap(r)
    OBVIOUS
  <2>2. PICK a : a = [type |-> "email", person |-> req[r].person, email |-> "known"]
    OBVIOUS
  <2>a. a \in Account /\ a.person = req[r].person /\ a.email = "known"
    BY <1>0, <2>2 DEF Account
  <2>b. b = [roles |-> {"admin"}, standing |-> "active", password |-> r,
             accounts |-> {a}]
    BY <2>1, <2>2 DEF Bootstrap
  <2>c. b \in User /\ b.roles = {"admin"} /\ b.standing = "active" /\ b.accounts = {a}
    BY <2>a, <2>b, Apart DEF User, Roles
  <2>3. /\ b.accounts # {}
        /\ \A c \in b.accounts : c.person = req[r].person /\ c.email = "known"
    BY <2>a, <2>c
  <2>4. OneOfEach(b.accounts)
    BY <2>c DEF OneOfEach
  <2>5. req' = [req EXCEPT ![r].pc = "insert", ![r].doc = b]
    BY <1>2, <2>1 DEF InsertSettings
  <2>6. PICK x : x = [req[r] EXCEPT !.pc = "insert", !.doc = b]
    OBVIOUS
  <2>7. req' = [req EXCEPT ![r] = x]
    BY <2>5, <2>6 DEF TypeInv, TypeOK
  <2>8. /\ x \in RequestType /\ x.pc = "insert" /\ x.kind = "setup" /\ x.doc = b
        /\ x.person = req[r].person /\ x.claim = req[r].claim /\ x.counted = {}
    BY <1>0, <2>c, <2>6 DEF RequestType
  <2> QED
    BY <1>2, <2>c, <2>3, <2>4, <2>7, <2>8 DEF Becomes
<1> QED
  BY <1>1, <1>2

LEMMA InsertedUser ==
    ASSUME TypeInv, NEW r \in Requests, InsertUser(r)
    PROVE  \E x : /\ Becomes(r, x) /\ x.kind = req[r].kind /\ x.person = req[r].person
                  /\ x.claim = req[r].claim /\ x.target = r /\ x.roles = req[r].roles
                  /\ x.doc = NoUser /\ x.counted = {}
                  /\ x.pc = IF req[r].kind = "setup" THEN "over" ELSE "session"
<1>0. req[r] \in RequestType /\ req[r].counted = {} /\ r \in IDs
  BY Apart DEF TypeInv, TypeOK, Fits, InsertUser
<1>1. PICK pc \in {"over", "session"} :
         pc = IF req[r].kind = "setup" THEN "over" ELSE "session"
  OBVIOUS
<1>2. PICK x : x = [req[r] EXCEPT !.pc = pc, !.target = r, !.doc = NoUser]
  OBVIOUS
<1>3. req' = [req EXCEPT ![r] = x]
  BY <1>1, <1>2 DEF InsertUser, TypeInv, TypeOK
<1>4. /\ x \in RequestType /\ x.pc = pc /\ x.kind = req[r].kind
      /\ x.person = req[r].person /\ x.claim = req[r].claim /\ x.target = r
      /\ x.roles = req[r].roles /\ x.doc = NoUser /\ x.counted = {}
  BY <1>0, <1>2 DEF RequestType
<1> QED
  BY <1>1, <1>3, <1>4 DEF Becomes

LEMMA SignedIn ==
    ASSUME TypeInv, NEW r \in Requests, SignIn(r)
    PROVE  \E x : /\ Becomes(r, x) /\ x.pc = "session" /\ x.kind = "signin"
                  /\ x.target \in Existing /\ x.claim = "verified"
                  /\ x.doc = NoUser /\ x.counted = {}
<1>1. PICK p \in Persons, i \in IDs :
         /\ i \in FindUserByKey(<<"email", p>>)
         /\ req' = [req EXCEPT ![r] = [Fresh("session", "signin") EXCEPT
                                          !.person = p, !.target = i]]
  BY FoundByKey DEF SignIn, Existing
<1>2. i \in Existing
  BY <1>1, FoundByKey
<1>3. PICK y : y = Fresh("session", "signin")
  OBVIOUS
<1>4. /\ y \in RequestType /\ y.pc = "session" /\ y.kind = "signin"
      /\ y.claim = "verified" /\ y.doc = NoUser /\ y.counted = {}
  BY <1>3, FreshTyped DEF Kinds
<1>5. PICK x : x = [y EXCEPT !.person = p, !.target = i]
  OBVIOUS
<1>6. /\ x \in RequestType /\ x.pc = "session" /\ x.kind = "signin" /\ x.target = i
      /\ x.claim = "verified" /\ x.doc = NoUser /\ x.counted = {}
  BY <1>4, <1>5 DEF RequestType
<1>7. req' = [req EXCEPT ![r] = x]
  BY <1>1, <1>3, <1>5
<1> QED
  BY <1>2, <1>6, <1>7 DEF Becomes

LEMMA FoundById ==
    ASSUME TypeInv, NEW r \in Requests, FindById(r)
    PROVE  \E login \in RequestType :
              /\ login.kind \in {"google", "custom"} /\ login.person \in Persons
              /\ \/ /\ Becomes(r, login) /\ login.pc = "email"
                    /\ login.claim = "verified" /\ login.doc = NoUser
                    /\ login.counted = {}
                 \/ \E x : /\ Tried(r, login,
                                    FindUserByKey(<<login.kind, login.person>>), x)
                           /\ x.pc = "insert" => login.claim # "verified"
<1>1. PICK kind \in {"google", "custom"}, p \in Persons,
           claim \in {"none", "unverified", "verified"} :
         IF FindUserByKey(<<kind, p>>) = {} /\ claim = "verified"
         THEN req' = [req EXCEPT ![r] = [Fresh("email", kind) EXCEPT
                                            !.person = p, !.claim = claim]]
         ELSE Settle(r, [Fresh("email", kind) EXCEPT !.person = p, !.claim = claim],
                     FindUserByKey(<<kind, p>>))
  BY DEF FindById
<1>2. PICK y : y = Fresh("email", kind)
  OBVIOUS
<1>3. /\ y \in RequestType /\ y.pc = "email" /\ y.kind = kind
      /\ y.doc = NoUser /\ y.counted = {}
  BY <1>2, FreshTyped DEF Kinds
<1>4. PICK login : login = [y EXCEPT !.person = p, !.claim = claim]
  OBVIOUS
<1>5. /\ login \in RequestType /\ login.pc = "email" /\ login.kind = kind
      /\ login.doc = NoUser /\ login.counted = {} /\ login.person = p
      /\ login.claim = claim
  BY <1>3, <1>4 DEF RequestType
<1>6. PICK found \in SUBSET Existing : found = FindUserByKey(<<kind, p>>)
  BY FoundByKey
<1>7. CASE found = {} /\ claim = "verified"
  <2>1. Becomes(r, login)
    BY <1>1, <1>2, <1>4, <1>5, <1>6, <1>7 DEF Becomes
  <2> QED
    BY <1>5, <1>7, <2>1
<1>8. CASE ~(found = {} /\ claim = "verified")
  <2>1. /\ Settle(r, login, found) /\ login \in RequestType
        /\ login.kind \in {"google", "custom"} /\ login.person \in Persons
        /\ login.counted = {}
    BY <1>1, <1>2, <1>4, <1>5, <1>6, <1>8
  <2>2. PICK x : Tried(r, login, found, x)
    BY <2>1, Settles
  <2>4. x.pc = "insert" => claim # "verified"
    BY <1>5, <1>8, <2>2 DEF Gone, Tried
  <2> QED
    BY <1>5, <1>6, <2>2, <2>4
<1> QED
  BY <1>7, <1>8

LEMMA FoundByEmail ==
    ASSUME TypeInv, NEW r \in Requests, FindByEmail(r)
    PROVE  \E x : Tried(r, req[r], FindUserByKey(<<"email", req[r].person>>), x)
<1>1. PICK login : login = req[r]
  OBVIOUS
<1>2. /\ login \in RequestType /\ login.kind \in {"google", "custom"}
      /\ login.person \in Persons /\ login.counted = {}
  BY <1>1 DEF FindByEmail, TypeInv, TypeOK, Fits
<1>3. PICK found \in SUBSET Existing :
         found = FindUserByKey(<<"email", login.person>>)
  BY FoundByKey
<1>4. Settle(r, login, found)
  BY <1>1, <1>3 DEF FindByEmail
<1>5. PICK x : Tried(r, login, found, x)
  BY <1>2, <1>4, Settles
<1> QED
  BY <1>1, <1>3, <1>5

LEMMA CreatedSession ==
    ASSUME TypeInv, NEW r \in Requests, CreateSession(r)
    PROVE  \E x : /\ Becomes(r, x) /\ x.pc = "over"
                  /\ IF req[r].kind = "signin" THEN Gone(x) ELSE Kept(req[r], x)
<1>1. CASE req[r].kind = "signin"
  <2>1. End(r)
    BY <1>1 DEF CreateSession
  <2>2. PICK x : Becomes(r, x) /\ Gone(x)
    BY <2>1, Ends
  <2> QED
    BY <1>1, <2>2 DEF Gone
<1>2. CASE req[r].kind # "signin"
  <2>1. Continue(r, "over")
    BY <1>2 DEF CreateSession
  <2> QED
    BY <1>2, <2>1, Continues DEF TypeInv
<1> QED
  BY <1>1, <1>2

LEMMA EditedOwn ==
    ASSUME TypeInv, NEW r \in Requests, EditOwn(r)
    PROVE  \E x : /\ Becomes(r, x) /\ x.pc = "write" /\ x.kind \in {"password", "profile"}
                  /\ x.person = NoPerson /\ x.target \in Existing
                  /\ x.read = users[x.target] /\ x.counted = {} /\ x.doc \in User
                  /\ x.doc.roles = x.read.roles /\ x.doc.standing = x.read.standing
                  /\ x.doc.accounts = x.read.accounts
<1>1. PICK s \in sessions, kind \in {"password", "profile"} :
         req' = [req EXCEPT ![r] = [Fresh("write", kind) EXCEPT
                    !.target = s[2], !.read = users[s[2]],
                    !.doc = IF kind = "profile" THEN users[s[2]]
                            ELSE [users[s[2]] EXCEPT !.password = r]]]
  BY DEF EditOwn
<1>2. PICK i \in Existing : i = s[2]
  BY DEF TypeInv, TypeOK
<1>3. PICK u \in User : u = users[i]
  BY DEF TypeInv, TypeOK, Existing
<1>4. PICK d : d = IF kind = "profile" THEN u ELSE [u EXCEPT !.password = r]
  OBVIOUS
<1>5. /\ d \in User /\ d.roles = u.roles /\ d.standing = u.standing
      /\ d.accounts = u.accounts
  BY <1>4, Apart DEF User
<1>6. PICK y : y = Fresh("write", kind)
  OBVIOUS
<1>7. /\ y \in RequestType /\ y.pc = "write" /\ y.kind = kind
      /\ y.person = NoPerson /\ y.counted = {}
  BY <1>6, FreshTyped DEF Kinds
<1>8. PICK x : x = [y EXCEPT !.target = i, !.read = u, !.doc = d]
  OBVIOUS
<1>9. /\ x \in RequestType /\ x.pc = "write" /\ x.kind = kind /\ x.person = NoPerson
      /\ x.counted = {} /\ x.target = i /\ x.read = u /\ x.doc = d
  BY <1>5, <1>7, <1>8 DEF RequestType, Existing
<1>10. req' = [req EXCEPT ![r] = x]
  BY <1>1, <1>2, <1>3, <1>4, <1>6, <1>8
<1> QED
  BY <1>3, <1>5, <1>9, <1>10 DEF Becomes

LEMMA Authorized ==
    ASSUME TypeInv, NEW r \in Requests, Authorize(r)
    PROVE  \E x : /\ Becomes(r, x) /\ x.pc = "find" /\ x.kind \in {"roles", "block"}
                  /\ x.person = NoPerson /\ x.doc = NoUser /\ x.counted = {}
<1>1. PICK s \in sessions, kind \in {"roles", "block"} :
         req' = [req EXCEPT ![r] = [Fresh("find", kind) EXCEPT !.caller = s[2]]]
  BY DEF Authorize
<1>2. PICK i \in IDs : i = s[2]
  BY DEF TypeInv, TypeOK, Existing
<1>3. PICK y : y = Fresh("find", kind)
  OBVIOUS
<1>4. /\ y \in RequestType /\ y.pc = "find" /\ y.kind = kind
      /\ y.person = NoPerson /\ y.doc = NoUser /\ y.counted = {}
  BY <1>3, FreshTyped DEF Kinds
<1>5. PICK x : x = [y EXCEPT !.caller = i]
  OBVIOUS
<1>6. /\ x \in RequestType /\ x.pc = "find" /\ x.kind = kind
      /\ x.person = NoPerson /\ x.doc = NoUser /\ x.counted = {}
  BY <1>4, <1>5 DEF RequestType
<1>7. req' = [req EXCEPT ![r] = x]
  BY <1>1, <1>2, <1>3, <1>5
<1> QED
  BY <1>6, <1>7 DEF Becomes

\* Who counts for the last-admin guard.
ActiveAdmin(u) == "admin" \in u.roles /\ u.standing = "active"

LEMMA ActiveAdminsAre == ActiveAdmins = {i \in Existing : ActiveAdmin(users[i])}
BY DEF ActiveAdmins, ActiveAdmin

\* An admin's change of user i to d: it goes through the guard when i is an active
\* admin and would not be one.
Chose(r, x, kind) ==
    /\ Becomes(r, x) /\ x.kind = kind /\ x.person = NoPerson
    /\ x.target \in Existing /\ x.read = users[x.target] /\ x.counted = {}
    /\ x.doc \in User /\ x.doc.accounts = x.read.accounts
    /\ x.pc \in {"count", "write"}
    /\ x.pc = "write" => (ActiveAdmin(x.read) => ActiveAdmin(x.doc))

LEMMA ChoseRoles ==
    ASSUME TypeInv, NEW r \in Requests, ChooseRoles(r), req[r].person = NoPerson
    PROVE  \E x : Chose(r, x, "roles") /\ x.doc.roles = x.roles
<1>0. req[r] \in RequestType /\ req[r].counted = {} /\ req[r].kind = "roles"
  BY DEF TypeInv, TypeOK, Fits, ChooseRoles
<1>1. PICK i \in Existing, roles \in RoleSets :
         req' = [req EXCEPT
             ![r].pc = IF i \in ActiveAdmins /\ "admin" \notin roles
                       THEN "count" ELSE "write",
             ![r].roles = roles, ![r].target = i, ![r].read = users[i],
             ![r].doc = [users[i] EXCEPT !.roles = roles]]
  BY DEF ChooseRoles
<1>2. PICK u \in User : u = users[i]
  BY DEF TypeInv, TypeOK, Existing
<1>3. roles \in SUBSET Roles
  BY Apart
<1>4. PICK d : d = [u EXCEPT !.roles = roles]
  OBVIOUS
<1>5. /\ d \in User /\ d.roles = roles /\ d.standing = u.standing
      /\ d.accounts = u.accounts
  BY <1>3, <1>4 DEF User
<1>6. PICK pc \in {"count", "write"} :
         pc = IF i \in ActiveAdmins /\ "admin" \notin roles THEN "count" ELSE "write"
  OBVIOUS
<1>7. PICK x : x = [req[r] EXCEPT !.pc = pc, !.roles = roles, !.target = i,
                                  !.read = u, !.doc = d]
  OBVIOUS
<1>8. /\ x \in RequestType /\ x.pc = pc /\ x.kind = "roles" /\ x.person = NoPerson
      /\ x.counted = {} /\ x.roles = roles /\ x.target = i /\ x.read = u /\ x.doc = d
  BY <1>0, <1>3, <1>5, <1>7 DEF RequestType, Existing
<1>9. req' = [req EXCEPT ![r] = x]
  BY <1>1, <1>2, <1>4, <1>6, <1>7 DEF TypeInv, TypeOK
<1>10. pc = "write" => (ActiveAdmin(u) => ActiveAdmin(d))
  BY <1>2, <1>5, <1>6, ActiveAdminsAre DEF ActiveAdmin
<1> QED
  BY <1>2, <1>5, <1>8, <1>9, <1>10 DEF Becomes, Chose

LEMMA ChoseBlock ==
    ASSUME TypeInv, NEW r \in Requests, ChooseBlock(r), req[r].person = NoPerson
    PROVE  \E x : Chose(r, x, "block") /\ x.doc.roles = x.read.roles
<1>0. req[r] \in RequestType /\ req[r].counted = {} /\ req[r].kind = "block"
  BY DEF TypeInv, TypeOK, Fits, ChooseBlock
<1>1. PICK i \in Existing, standing \in {"active", "blocked"} :
         req' = [req EXCEPT
                ![r].pc = IF standing = "blocked" /\ i \in ActiveAdmins
                          THEN "count" ELSE "write",
                ![r].target = i, ![r].read = users[i],
                ![r].doc = [users[i] EXCEPT !.standing = standing]]
  BY DEF ChooseBlock
<1>2. PICK u \in User : u = users[i]
  BY DEF TypeInv, TypeOK, Existing
<1>4. PICK d : d = [u EXCEPT !.standing = standing]
  OBVIOUS
<1>5. /\ d \in User /\ d.roles = u.roles /\ d.standing = standing
      /\ d.accounts = u.accounts
  BY <1>4 DEF User
<1>6. PICK pc \in {"count", "write"} :
         pc = IF standing = "blocked" /\ i \in ActiveAdmins THEN "count" ELSE "write"
  OBVIOUS
<1>7. PICK x : x = [req[r] EXCEPT !.pc = pc, !.target = i, !.read = u, !.doc = d]
  OBVIOUS
<1>8. /\ x \in RequestType /\ x.pc = pc /\ x.kind = "block" /\ x.person = NoPerson
      /\ x.counted = {} /\ x.target = i /\ x.read = u /\ x.doc = d
  BY <1>0, <1>5, <1>7 DEF RequestType, Existing
<1>9. req' = [req EXCEPT ![r] = x]
  BY <1>1, <1>2, <1>4, <1>6, <1>7 DEF TypeInv, TypeOK
<1>10. pc = "write" => (ActiveAdmin(u) => ActiveAdmin(d))
  BY <1>2, <1>5, <1>6, ActiveAdminsAre DEF ActiveAdmin
<1> QED
  BY <1>2, <1>5, <1>8, <1>9, <1>10 DEF Becomes, Chose

LEMMA CountedAdmins ==
    ASSUME TypeInv, NEW r \in Requests, CountActiveAdmins(r)
    PROVE  \E x : /\ Becomes(r, x)
                  /\ \/ Gone(x)
                     \/ /\ x.pc = "write" /\ ~(Cardinality(x.counted) <= 1)
                        /\ x.kind = req[r].kind /\ x.person = req[r].person
                        /\ x.claim = req[r].claim /\ x.target = req[r].target
                        /\ x.roles = req[r].roles /\ x.read = req[r].read
                        /\ x.doc = req[r].doc
<1>0. req[r] \in RequestType
  BY DEF TypeInv, TypeOK
<1>1. CASE Cardinality(ActiveAdmins) <= 1
  BY <1>1, Ends DEF CountActiveAdmins
<1>2. CASE ~(Cardinality(ActiveAdmins) <= 1)
  <2>1. PICK s \in SUBSET IDs : s = ActiveAdmins
    BY DEF ActiveAdmins, Existing
  <2>2. PICK x : x = [req[r] EXCEPT !.pc = "write", !.counted = s]
    OBVIOUS
  <2>3. /\ x \in RequestType /\ x.pc = "write" /\ x.counted = s
        /\ x.kind = req[r].kind /\ x.person = req[r].person
        /\ x.claim = req[r].claim /\ x.target = req[r].target
        /\ x.roles = req[r].roles /\ x.read = req[r].read /\ x.doc = req[r].doc
    BY <1>0, <2>2 DEF RequestType
  <2>4. req' = [req EXCEPT ![r] = x]
    BY <1>2, <2>1, <2>2 DEF CountActiveAdmins, TypeInv, TypeOK
  <2> QED
    BY <1>2, <2>1, <2>3, <2>4 DEF Becomes
<1> QED
  BY <1>1, <1>2

LEMMA UpdatedUser ==
    ASSUME TypeInv, NEW r \in Requests, UpdateUser(r)
    PROVE  \E x : /\ Becomes(r, x)
                  /\ IF req[r].kind \in {"google", "custom"}
                     THEN Kept(req[r], x) /\ x.pc = "session"
                     ELSE IF req[r].kind = "roles" THEN Kept(req[r], x) /\ x.pc = "over"
                          ELSE Gone(x)
<1>1. Written(r)
  BY DEF UpdateUser
<1>2. CASE req[r].kind \in {"google", "custom"}
  <2>1. Continue(r, "session")
    BY <1>1, <1>2 DEF Written
  <2> QED
    BY <1>2, <2>1, Continues DEF TypeInv
<1>3. CASE req[r].kind = "roles"
  <2>1. Continue(r, "over")
    BY <1>1, <1>3 DEF Written
  <2> QED
    BY <1>3, <2>1, Continues DEF TypeInv
<1>4. CASE req[r].kind \notin {"google", "custom", "roles"}
  <2>1. End(r)
    BY <1>1, <1>4 DEF Written
  <2> QED
    BY <1>4, <2>1, Ends
<1> QED
  BY <1>2, <1>3, <1>4

LEMMA Aborted ==
    ASSUME TypeInv, NEW r \in Requests, Abort(r)
    PROVE  \E x : /\ Becomes(r, x) /\ x.pc = "over"
                  /\ IF req[r].pc = "session" THEN Kept(req[r], x) ELSE Gone(x)
<1>1. CASE req[r].pc = "session"
  <2>1. Continue(r, "over")
    BY <1>1 DEF Abort
  <2> QED
    BY <1>1, <2>1, Continues DEF TypeInv
<1>2. CASE req[r].pc # "session"
  <2>1. End(r)
    BY <1>2 DEF Abort
  <2>2. PICK x : Becomes(r, x) /\ Gone(x)
    BY <2>1, Ends
  <2> QED
    BY <1>2, <2>2 DEF Gone
<1> QED
  BY <1>1, <1>2

-----------------------------------------------------------------------------
(* Typing, from what the actions do.                                       *)

LEMMA InitTyped == Init => TypeInv
<1> SUFFICES ASSUME Init PROVE TypeInv
  OBVIOUS
<1>1. PICK x : x = Fresh("new", "none")
  OBVIOUS
<1>2. /\ x \in RequestType /\ x.pc = "new" /\ x.kind = "none" /\ x.doc = NoUser
      /\ x.counted = {}
  BY <1>1, FreshTyped DEF Kinds
<1>3. req = [r \in Requests |-> x]
  BY <1>1 DEF Init
<1>4. Fits(x)
  BY <1>2, Apart DEF Fits
<1>5. Begun = {}
  BY <1>2, <1>3 DEF Begun
<1>6. CASE /\ settings = "absent" /\ sessions = {}
           /\ users = [i \in IDs |-> NoUser]
  <2>1. Existing = {}
    BY <1>6 DEF Existing
  <2>2. Places
    BY <1>2, <1>3, <1>6, Apart DEF Places
  <2>3. TypeOK
    BY <1>2, <1>3, <1>6, <2>1 DEF TypeOK, Init, ghosts
  <2> QED
    BY <1>3, <1>4, <1>5, <2>2, <2>3, FS_EmptySet DEF TypeInv
<1>7. CASE /\ settings = "completed" /\ sessions = {<<v, v>> : v \in Veterans}
           /\ \E d \in Deployments :
                 users = [i \in IDs |-> IF i \in Veterans THEN d[i] ELSE NoUser]
  <2>1. PICK d \in Deployments :
           users = [i \in IDs |-> IF i \in Veterans THEN d[i] ELSE NoUser]
    BY <1>7
  <2>2. \A v \in Veterans : d[v] \in User /\ OneOfEach(d[v].accounts)
    BY ConstantsAssumption DEF ConstantsAssumption
  <2>3. /\ Existing = Veterans
        /\ users \in [IDs -> User \cup {NoUser}]
        /\ \A i \in Existing : OneOfEach(users[i].accounts)
    BY <2>1, <2>2, Apart DEF Existing
  <2>4. sessions \in SUBSET (IDs \X Existing)
    BY <1>7, <2>3, Apart
  <2>5. Places
    BY <1>2, <1>3, <2>1, Apart DEF Places
  <2>6. TypeOK
    BY <1>2, <1>3, <1>7, <2>3, <2>4 DEF TypeOK, Init
  <2> QED
    BY <1>3, <1>4, <1>5, <2>5, <2>6, FS_EmptySet DEF TypeInv
<1> QED
  BY <1>6, <1>7 DEF Init

\* A request moves on, users do not vanish and no other request's user appears.
LEMMA MovesOn ==
    ASSUME TypeInv, Observe, NEW r \in Requests, NEW x, Becomes(r, x), Fits(x),
           settings' \in {"absent", "completed"}, stale' \in SUBSET Requests,
           users' \in [IDs -> User \cup {NoUser}],
           \A i \in IDs : users'[i] \in User => OneOfEach(users'[i].accounts),
           \A i \in IDs : users[i] # NoUser => users'[i] # NoUser,
           \A i \in IDs \ {r} : users[i] = NoUser => users'[i] = NoUser,
           \A s \in sessions' : \/ s \in sessions
                                \/ s \in IDs \X IDs /\ users'[s[2]] # NoUser,
           x.pc \in {"write", "count", "session"} => users'[x.target] # NoUser,
           x.pc \notin {"session", "over"} => users'[r] = NoUser
    PROVE  TypeInv'
<1>0. TypeOK /\ Places /\ \A q \in Requests : Fits(req[q]) /\ q \in IDs
  BY Apart DEF TypeInv
<1>1. /\ req' \in [Requests -> RequestType] /\ req'[r] = x
      /\ \A q \in Requests : q # r => req'[q] = req[q]
  BY <1>0, Become
<1>2. \A q \in Requests : Fits(req'[q])
  BY <1>0, <1>1
<1>3. Places'
  <2>1. ASSUME NEW q \in Requests, q # r
        PROVE  /\ req[q].pc \in {"write", "count", "session"}
                     => users'[req[q].target] # NoUser
               /\ req[q].pc \notin {"session", "over"} => users'[q] = NoUser
    <3>1. req[q].pc \in {"write", "count", "session"} => req[q].target \in IDs
      BY <1>0 DEF Fits
    <3> QED
      BY <1>0, <2>1, <3>1 DEF Places
  <2> QED
    BY <1>1, <2>1 DEF Places
<1>4. Existing \subseteq Existing' /\ sessions' \in SUBSET (IDs \X Existing')
  BY <1>0 DEF Existing, TypeOK
<1>5. crossed' \in SUBSET Persons
  BY <1>0 DEF Observe, TypeOK
<1>6. \A i \in Existing' : OneOfEach(users'[i].accounts)
  BY DEF Existing
<1>7. IsFiniteSet(Begun')
  <2>1. Begun' \subseteq Begun \cup {r}
    BY <1>1 DEF Begun
  <2>2. IsFiniteSet(Begun \cup {r})
    BY FS_AddElement DEF TypeInv
  <2> QED
    BY <2>1, <2>2, FS_Subset
<1>8. TypeOK'
  BY <1>1, <1>4, <1>5, <1>6 DEF TypeOK
<1> QED
  BY <1>2, <1>3, <1>7, <1>8 DEF TypeInv

\* So it is when the step writes no user and makes no session.
LEMMA MovesOnly ==
    ASSUME TypeInv, Observe, NEW r \in Requests, NEW x, Becomes(r, x), Fits(x),
           UNCHANGED <<users, sessions, stale>>,
           settings' \in {"absent", "completed"},
           x.pc \in {"write", "count", "session"} => users[x.target] # NoUser,
           \/ x.pc \in {"session", "over"}
           \/ req[r].pc \notin {"session", "over"}
    PROVE  TypeInv'
<1>1. /\ users \in [IDs -> User \cup {NoUser}] /\ stale \in SUBSET Requests
      /\ \A i \in IDs : users[i] \in User => OneOfEach(users[i].accounts)
  BY Apart DEF TypeInv, TypeOK, Existing
<1>2. x.pc \notin {"session", "over"} => users[r] = NoUser
  BY DEF TypeInv, Places
<1> QED
  BY <1>1, <1>2, MovesOn

LEMMA GoneFits == ASSUME NEW x, Gone(x) PROVE Fits(x)
BY Apart DEF Gone, Fits

\* What a request does, but for writing a user and making a session.
Quiet(r) == \/ BeginSetup(r) \/ InsertSettings(r) \/ SignIn(r) \/ FindById(r)
            \/ FindByEmail(r) \/ EditOwn(r) \/ Authorize(r) \/ ChooseRoles(r)
            \/ ChooseBlock(r) \/ CountActiveAdmins(r) \/ Abort(r)

LEMMA QuietFrame ==
    ASSUME TypeInv, NEW r \in Requests, Quiet(r)
    PROVE  /\ UNCHANGED <<users, sessions, stale>>
           /\ settings' \in {"absent", "completed"}
           /\ settings = "completed" => settings' = "completed"
BY DEF Quiet, BeginSetup, InsertSettings, SignIn, FindById, FindByEmail, EditOwn,
       Authorize, ChooseRoles, ChooseBlock, CountActiveAdmins, Abort, TypeInv, TypeOK

LEMMA TriedFits ==
    ASSUME TypeInv, NEW r \in Requests, NEW login \in RequestType,
           login.kind \in {"google", "custom"}, login.person \in Persons,
           NEW found \in SUBSET Existing, NEW x, Tried(r, login, found, x)
    PROVE  /\ Fits(x)
           /\ x.pc \in {"write", "count", "session"} => users[x.target] # NoUser
           /\ x.pc \in {"over", "insert", "write"}
<1>1. CASE Gone(x)
  BY <1>1, GoneFits DEF Gone
<1>2. CASE ~Gone(x)
  BY <1>2 DEF Tried, Fits, Existing, TypeInv, TypeOK
<1> QED
  BY <1>1, <1>2

LEMMA QuietTyped ==
    ASSUME TypeInv, Observe, NEW r \in Requests, Quiet(r)
    PROVE  TypeInv'
<1>0. /\ UNCHANGED <<users, sessions, stale>>
      /\ settings' \in {"absent", "completed"}
      /\ req[r] \in RequestType /\ Fits(req[r])
      /\ \A i \in Existing : i \in IDs /\ users[i] \in User /\ users[i] # NoUser
                             /\ OneOfEach(users[i].accounts)
  BY QuietFrame, Apart DEF TypeInv, TypeOK, Existing
<1>1. ASSUME NEW x, Becomes(r, x), Fits(x),
             x.pc \in {"write", "count", "session"} => users[x.target] # NoUser,
             x.pc \in {"session", "over"} \/ req[r].pc \notin {"session", "over"}
      PROVE  TypeInv'
  BY <1>0, <1>1, MovesOnly
<1>2. CASE BeginSetup(r)
  <2>1. PICK x : /\ Becomes(r, x) /\ x.pc = "settings" /\ x.kind = "setup"
                 /\ x.person \in Persons /\ x.doc = NoUser /\ x.counted = {}
    BY <1>2, BeganSetup
  <2>2. Fits(x) /\ req[r].pc = "new"
    BY <1>2, <2>1, Apart DEF Fits, BeginSetup
  <2> QED
    BY <1>1, <2>1, <2>2
<1>3. CASE InsertSettings(r)
  <2>1. PICK x : /\ Becomes(r, x)
                 /\ \/ Gone(x)
                    \/ /\ x.pc = "insert" /\ x.kind = "setup"
                       /\ x.person = req[r].person /\ x.doc \in User
                       /\ x.counted = {} /\ OneOfEach(x.doc.accounts)
    BY <1>3, InsertedSettings
  <2>2. x.pc = "insert" => Fits(x)
    BY <1>0, <1>3, <2>1 DEF Fits, Gone, InsertSettings
  <2>3. Fits(x) /\ x.pc \in {"insert", "over"} /\ req[r].pc = "settings"
    BY <1>3, <2>1, <2>2, GoneFits DEF Gone, InsertSettings
  <2> QED
    BY <1>1, <2>1, <2>3
<1>4. CASE SignIn(r)
  <2>1. PICK x : /\ Becomes(r, x) /\ x.pc = "session" /\ x.kind = "signin"
                 /\ x.target \in Existing /\ x.doc = NoUser /\ x.counted = {}
                 /\ x.claim = "verified"
    BY <1>4, SignedIn
  <2>2. Fits(x)
    BY <1>0, <2>1, Apart DEF Fits
  <2> QED
    BY <1>0, <1>1, <2>1, <2>2
<1>5. CASE FindById(r)
  <2>1. PICK login \in RequestType :
              /\ login.kind \in {"google", "custom"} /\ login.person \in Persons
              /\ \/ /\ Becomes(r, login) /\ login.pc = "email"
                    /\ login.claim = "verified" /\ login.doc = NoUser
                    /\ login.counted = {}
                 \/ \E x : Tried(r, login,
                                 FindUserByKey(<<login.kind, login.person>>), x)
    BY <1>5, FoundById
  <2>2. req[r].pc = "new"
    BY <1>5 DEF FindById
  <2>3. ASSUME Becomes(r, login), login.pc = "email", login.claim = "verified",
               login.doc = NoUser, login.counted = {}
        PROVE  TypeInv'
    <3>1. Fits(login)
      BY <2>1, <2>3, Apart DEF Fits
    <3> QED
      BY <1>1, <2>2, <2>3, <3>1
  <2>4. ASSUME NEW x, Tried(r, login, FindUserByKey(<<login.kind, login.person>>), x)
        PROVE  TypeInv'
    <3>1. PICK found \in SUBSET Existing :
             found = FindUserByKey(<<login.kind, login.person>>)
      BY FoundByKey
    <3>2. /\ Fits(x) /\ x.pc \in {"over", "insert", "write"}
          /\ x.pc \in {"write", "count", "session"} => users[x.target] # NoUser
      BY <2>1, <2>4, <3>1, TriedFits
    <3>3. Becomes(r, x)
      BY <2>4 DEF Tried
    <3> QED
      BY <1>1, <2>2, <3>2, <3>3
  <2> QED
    BY <2>1, <2>3, <2>4
<1>6. CASE FindByEmail(r)
  <2>0. PICK login \in RequestType : login = req[r]
    BY <1>0
  <2>1. PICK found \in SUBSET Existing : found = FindUserByKey(<<"email", req[r].person>>)
    BY FoundByKey
  <2>2. PICK x : Tried(r, login, found, x)
    BY <1>6, <2>0, <2>1, FoundByEmail
  <2>3. /\ req[r].pc = "email" /\ login.kind \in {"google", "custom"}
        /\ login.person \in Persons
    BY <1>0, <1>6, <2>0 DEF FindByEmail, Fits
  <2>4. /\ Fits(x) /\ x.pc \in {"over", "insert", "write"}
        /\ x.pc \in {"write", "count", "session"} => users[x.target] # NoUser
    BY <2>2, <2>3, TriedFits
  <2>5. Becomes(r, x)
    BY <2>2 DEF Tried
  <2> QED
    BY <1>1, <2>3, <2>4, <2>5
<1>7. CASE EditOwn(r)
  <2>1. PICK x : /\ Becomes(r, x) /\ x.pc = "write" /\ x.kind \in {"password", "profile"}
                 /\ x.target \in Existing /\ x.read = users[x.target]
                 /\ x.counted = {} /\ x.doc \in User
                 /\ x.doc.accounts = x.read.accounts
    BY <1>7, EditedOwn
  <2>2. Fits(x) /\ req[r].pc = "new" /\ users[x.target] # NoUser
    BY <1>0, <1>7, <2>1 DEF Fits, EditOwn
  <2> QED
    BY <1>1, <2>1, <2>2
<1>8. CASE Authorize(r)
  <2>1. PICK x : /\ Becomes(r, x) /\ x.pc = "find" /\ x.kind \in {"roles", "block"}
                 /\ x.person = NoPerson /\ x.doc = NoUser /\ x.counted = {}
    BY <1>8, Authorized
  <2>2. Fits(x) /\ req[r].pc = "new"
    BY <1>8, <2>1, Apart DEF Fits, Authorize
  <2> QED
    BY <1>1, <2>1, <2>2
<1>9. CASE ChooseRoles(r) \/ ChooseBlock(r)
  <2>1. req[r].pc = "find" /\ req[r].person = NoPerson
    BY <1>0, <1>9 DEF ChooseRoles, ChooseBlock, Fits
  <2>2. PICK kind \in {"roles", "block"}, x \in RequestType : Chose(r, x, kind)
    BY <1>9, <2>1, ChoseRoles, ChoseBlock DEF Chose, Becomes
  <2>3. Fits(x) /\ users[x.target] # NoUser /\ Becomes(r, x)
    BY <1>0, <2>2 DEF Chose, Fits
  <2> QED
    BY <1>1, <2>1, <2>3
<1>10. CASE CountActiveAdmins(r)
  <2>1. PICK x : /\ Becomes(r, x)
                 /\ \/ Gone(x)
                    \/ /\ x.pc = "write" /\ x.kind = req[r].kind
                       /\ x.person = req[r].person /\ x.target = req[r].target
                       /\ x.read = req[r].read /\ x.doc = req[r].doc
    BY <1>10, CountedAdmins
  <2>2. req[r].pc = "count" /\ users[req[r].target] # NoUser
    BY <1>10 DEF CountActiveAdmins, TypeInv, Places
  <2>3. x.pc = "write" => Fits(x) /\ users[x.target] # NoUser
    BY <1>0, <2>1, <2>2 DEF Fits, Gone
  <2>4. x.pc = "over" \/ x.pc = "write"
    BY <2>1 DEF Gone
  <2>5. x.pc = "over" => Fits(x)
    BY <2>1, GoneFits
  <2> QED
    BY <1>1, <2>1, <2>2, <2>3, <2>4, <2>5
<1>11. CASE Abort(r)
  <2>1. PICK x : /\ Becomes(r, x) /\ x.pc = "over"
                 /\ IF req[r].pc = "session" THEN Kept(req[r], x) ELSE Gone(x)
    BY <1>11, Aborted
  <2>2. Fits(x)
    BY <1>0, <2>1, GoneFits, Apart DEF Kept, Fits
  <2> QED
    BY <1>1, <2>1, <2>2
<1> QED
  BY <1>2, <1>3, <1>4, <1>5, <1>6, <1>7, <1>8, <1>9, <1>10, <1>11 DEF Quiet

LEMMA NextTyped ==
    ASSUME TypeInv, [Next]_vars PROVE TypeInv'
<1>0. /\ users \in [IDs -> User \cup {NoUser}] /\ stale \in SUBSET Requests
      /\ settings \in {"absent", "completed"}
      /\ \A i \in IDs : users[i] \in User => OneOfEach(users[i].accounts)
      /\ \A r \in Requests : req[r] \in RequestType /\ Fits(req[r]) /\ r \in IDs
  BY Apart DEF TypeInv, TypeOK, Existing
<1>1. ASSUME Observe, NEW r \in Requests, InsertUser(r) PROVE TypeInv'
  <2>1. PICK x : /\ Becomes(r, x) /\ x.kind = req[r].kind /\ x.person = req[r].person
                 /\ x.target = r /\ x.doc = NoUser /\ x.counted = {}
                 /\ x.pc = IF req[r].kind = "setup" THEN "over" ELSE "session"
    BY <1>1, InsertedUser
  <2>2. /\ req[r].pc = "insert" /\ req[r].doc \in User
        /\ req[r].kind \in {"setup", "google", "custom"} /\ req[r].person \in Persons
        /\ OneOfEach(req[r].doc.accounts) /\ req[r].doc # NoUser
    BY <1>0, <1>1, Apart DEF InsertUser, Fits
  <2>3. Fits(x)
    BY <1>0, <2>1, <2>2, Apart DEF Fits
  <2>4. PICK d \in User : d = req[r].doc
    BY <2>2
  <2>5. /\ users' = [users EXCEPT ![r] = d]
        /\ UNCHANGED <<settings, sessions, stale>>
    BY <1>1, <2>4 DEF InsertUser
  <2>6. /\ users' \in [IDs -> User \cup {NoUser}] /\ users'[r] = d /\ d # NoUser
        /\ \A i \in IDs \ {r} : users'[i] = users[i]
    BY <1>0, <2>2, <2>4, <2>5
  <2>7. \A i \in IDs : users'[i] \in User => OneOfEach(users'[i].accounts)
    BY <1>0, <2>2, <2>4, <2>6
  <2> QED
    BY <1>0, <1>1, <2>1, <2>3, <2>5, <2>6, <2>7, MovesOn
<1>2. ASSUME Observe, NEW r \in Requests, UpdateUser(r) PROVE TypeInv'
  <2>1. PICK x : /\ Becomes(r, x)
                 /\ IF req[r].kind \in {"google", "custom"}
                    THEN Kept(req[r], x) /\ x.pc = "session"
                    ELSE IF req[r].kind = "roles" THEN Kept(req[r], x) /\ x.pc = "over"
                         ELSE Gone(x)
    BY <1>2, UpdatedUser
  <2>2. PICK i \in IDs, d \in User :
           /\ i = req[r].target /\ d = req[r].doc /\ OneOfEach(d.accounts)
           /\ users[i] # NoUser /\ req[r].pc = "write"
    BY <1>0, <1>2 DEF UpdateUser, Fits, TypeInv, Places
  <2>3. Fits(x)
    BY <1>0, <2>1, <2>2, GoneFits, Apart DEF Kept, Fits
  <2>4. /\ users' = [users EXCEPT ![i] = d] /\ stale' \in SUBSET Requests
        /\ UNCHANGED <<settings, sessions>>
    BY <1>0, <1>2, <2>2 DEF UpdateUser
  <2>5. /\ users' \in [IDs -> User \cup {NoUser}] /\ users'[i] = d /\ d # NoUser
        /\ \A j \in IDs \ {i} : users'[j] = users[j]
    BY <1>0, <2>2, <2>4, Apart
  <2>6. \A j \in IDs : /\ users'[j] \in User => OneOfEach(users'[j].accounts)
                       /\ users[j] # NoUser => users'[j] # NoUser
                       /\ users[j] = NoUser => users'[j] = NoUser
    BY <1>0, <2>2, <2>5
  <2>7. /\ x.pc \in {"session", "over"}
        /\ x.pc = "session" => x.target = i
    BY <2>1, <2>2 DEF Kept, Gone
  <2> QED
    BY <1>0, <1>2, <2>1, <2>3, <2>4, <2>5, <2>6, <2>7, MovesOn
<1>3. ASSUME Observe, NEW r \in Requests, CreateSession(r) PROVE TypeInv'
  <2>1. PICK x : /\ Becomes(r, x) /\ x.pc = "over"
                 /\ IF req[r].kind = "signin" THEN Gone(x) ELSE Kept(req[r], x)
    BY <1>3, CreatedSession
  <2>2. /\ sessions' = sessions \cup {<<r, req[r].target>>}
        /\ UNCHANGED <<settings, users, stale>>
        /\ req[r].target \in IDs /\ users[req[r].target] # NoUser
    BY <1>0, <1>3 DEF CreateSession, Fits, TypeInv, Places
  <2>3. Fits(x)
    BY <1>0, <2>1, GoneFits, Apart DEF Kept, Fits
  <2> QED
    BY <1>0, <1>3, <2>1, <2>2, <2>3, MovesOn
<1>4. ASSUME Observe, EndSession PROVE TypeInv'
  BY <1>4 DEF EndSession, Observe, TypeInv, TypeOK, Places, Begun, Existing
<1>5. CASE UNCHANGED vars
  BY <1>5 DEF vars, ghosts, TypeInv, TypeOK, Places, Begun, Existing
<1> QED
  BY <1>1, <1>2, <1>3, <1>4, <1>5, QuietTyped DEF Next, Login, Administer, Quiet

\* Every variable of the users' code stays in its type, no user has two accounts of
\* one provider and every session is of a user that exists, for any numbers of
\* persons, users and requests.
THEOREM AccountsTyped == Spec => []TypeOK
<1>1. TypeInv => TypeOK
  BY DEF TypeInv
<1> QED
  BY InitTyped, NextTyped, <1>1, PTL DEF Spec

-----------------------------------------------------------------------------
(* The first run.                                                          *)

\* Each step is a request's, the end of a session, or none.
Acts(r) == Quiet(r) \/ InsertUser(r) \/ UpdateUser(r) \/ CreateSession(r)

LEMMA NextIs ==
    ASSUME Next
    PROVE  /\ Observe
           /\ \/ \E r \in Requests : Acts(r)
              \/ EndSession
BY DEF Next, Login, Administer, Quiet, Acts

\* The setups that got past the settings: they were absent, so there is one, and it
\* inserts the admin unless it fails.  SetupOnce is about the one that did.
Setters == {r \in Requests : req[r].kind = "setup" /\ req[r].pc \in {"insert", "over"}}
SetupInv ==
    /\ \A q, r \in Setters : q = r
    /\ Setters # {} => settings = "completed"
    /\ Veterans \cap Existing # {} => settings = "completed" /\ Setters = {}

LEMMA InitSetup == Init => SetupInv
<1> SUFFICES ASSUME Init PROVE SetupInv
  OBVIOUS
<1>1. Setters = {}
  BY FreshTyped DEF Init, Setters, Kinds
<1>2. settings = "absent" => Existing = {}
  BY DEF Init, Existing
<1>3. settings \in {"absent", "completed"}
  BY DEF Init
<1> QED
  BY <1>1, <1>2, <1>3 DEF SetupInv

\* The veterans stay, and nobody joins them.
LEMMA VeteransStay ==
    ASSUME TypeInv, NEW r \in Requests, Acts(r)
    PROVE  /\ Veterans \cap Existing' = Veterans \cap Existing
           /\ settings = "completed" => settings' = "completed"
<1>1. CASE Quiet(r)
  BY <1>1, QuietFrame DEF Existing
<1>2. CASE InsertUser(r)
  BY <1>2, Apart DEF InsertUser, Existing, TypeInv, TypeOK
<1>3. CASE UpdateUser(r)
  <2>1. req[r].target \in IDs /\ users[req[r].target] # NoUser /\ req[r].doc # NoUser
    BY <1>3, Apart DEF UpdateUser, TypeInv, Places, Fits
  <2>2. users' = [users EXCEPT ![req[r].target] = req[r].doc] /\ settings' = settings
    BY <1>3 DEF UpdateUser
  <2> QED
    BY <2>1, <2>2 DEF Existing, TypeInv, TypeOK
<1>4. CASE CreateSession(r)
  BY <1>4 DEF CreateSession, Existing
<1> QED
  BY <1>1, <1>2, <1>3, <1>4 DEF Acts

\* A request gets past the settings only when they are absent, and stores them.
LEMMA SettersAre ==
    ASSUME TypeInv, NEW r \in Requests, Acts(r)
    PROVE  \/ Setters' \subseteq Setters
           \/ /\ Setters' \subseteq Setters \cup {r}
              /\ settings # "completed" /\ settings' = "completed"
<1>0. req[r] \in RequestType /\ Fits(req[r]) /\ TypeOK
  BY DEF TypeInv, TypeOK
<1>1. ASSUME NEW x, Becomes(r, x),
             \/ x.kind # "setup" \/ x.pc \notin {"insert", "over"}
             \/ req[r].kind = "setup" /\ req[r].pc \in {"insert", "over"}
      PROVE  Setters' \subseteq Setters
  <2>1. req'[r] = x /\ \A q \in Requests : q # r => req'[q] = req[q]
    BY <1>0, <1>1, Become
  <2> QED
    BY <1>1, <2>1 DEF Setters
<1>2. CASE BeginSetup(r)
  <2>1. PICK x : Becomes(r, x) /\ x.pc = "settings"
    BY <1>2, BeganSetup
  <2> QED
    BY <1>1, <2>1
<1>3. CASE InsertSettings(r)
  <2>1. PICK x : Becomes(r, x) /\ (Gone(x) \/ settings # "completed")
    BY <1>3, InsertedSettings
  <2>2. CASE Gone(x)
    BY <1>1, <2>1, <2>2 DEF Gone
  <2>3. CASE settings # "completed"
    <3>1. req'[r] = x /\ \A q \in Requests : q # r => req'[q] = req[q]
      BY <1>0, <2>1, Become
    <3> QED
      BY <1>3, <2>3, <3>1 DEF Setters, InsertSettings
  <2> QED
    BY <2>1, <2>2, <2>3
<1>4. CASE SignIn(r)
  <2>1. PICK x : Becomes(r, x) /\ x.kind = "signin"
    BY <1>4, SignedIn
  <2> QED
    BY <1>1, <2>1
<1>5. CASE FindById(r)
  <2>1. PICK login \in RequestType :
              /\ login.kind \in {"google", "custom"} /\ login.person \in Persons
              /\ \/ /\ Becomes(r, login) /\ login.pc = "email"
                 \/ \E x : Tried(r, login,
                                 FindUserByKey(<<login.kind, login.person>>), x)
    BY <1>5, FoundById
  <2>2. ASSUME NEW x, Tried(r, login, FindUserByKey(<<login.kind, login.person>>), x)
        PROVE  Setters' \subseteq Setters
    <3>1. Becomes(r, x) /\ x.kind # "setup"
      BY <2>1, <2>2 DEF Tried, Gone
    <3> QED
      BY <1>1, <3>1
  <2>3. Becomes(r, login) /\ login.pc = "email" => Setters' \subseteq Setters
    BY <1>1
  <2> QED
    BY <2>1, <2>2, <2>3
<1>6. CASE FindByEmail(r)
  <2>1. PICK x : Tried(r, req[r], FindUserByKey(<<"email", req[r].person>>), x)
    BY <1>6, FoundByEmail
  <2>2. Becomes(r, x) /\ x.kind # "setup"
    BY <1>0, <1>6, <2>1 DEF Tried, Gone, Fits, FindByEmail
  <2> QED
    BY <1>1, <2>2
<1>7. CASE EditOwn(r)
  <2>1. PICK x : Becomes(r, x) /\ x.pc = "write"
    BY <1>7, EditedOwn
  <2> QED
    BY <1>1, <2>1
<1>8. CASE Authorize(r)
  <2>1. PICK x : Becomes(r, x) /\ x.pc = "find"
    BY <1>8, Authorized
  <2> QED
    BY <1>1, <2>1
<1>9. CASE ChooseRoles(r) \/ ChooseBlock(r)
  <2>1. req[r].pc = "find" /\ req[r].person = NoPerson
    BY <1>0, <1>9 DEF ChooseRoles, ChooseBlock, Fits
  <2>2. PICK kind \in {"roles", "block"}, x \in RequestType : Chose(r, x, kind)
    BY <1>9, <2>1, ChoseRoles, ChoseBlock DEF Chose, Becomes
  <2>3. Becomes(r, x) /\ x.kind # "setup"
    BY <2>2 DEF Chose
  <2> QED
    BY <1>1, <2>3
<1>10. CASE CountActiveAdmins(r)
  <2>1. PICK x : Becomes(r, x) /\ (Gone(x) \/ x.pc = "write")
    BY <1>10, CountedAdmins
  <2> QED
    BY <1>1, <2>1 DEF Gone
<1>11. CASE Abort(r)
  <2>1. PICK x : /\ Becomes(r, x) /\ x.pc = "over"
                 /\ IF req[r].pc = "session" THEN Kept(req[r], x) ELSE Gone(x)
    BY <1>11, Aborted
  <2>2. x.kind # "setup"
    BY <1>0, <2>1 DEF Gone, Kept, Fits
  <2> QED
    BY <1>1, <2>1, <2>2
<1>12. CASE InsertUser(r)
  <2>1. PICK x : Becomes(r, x) /\ x.kind = req[r].kind
    BY <1>12, InsertedUser
  <2>2. req[r].pc = "insert"
    BY <1>12 DEF InsertUser
  <2> QED
    BY <1>1, <2>1, <2>2
<1>13. CASE UpdateUser(r)
  <2>1. PICK x : /\ Becomes(r, x)
                 /\ IF req[r].kind \in {"google", "custom"}
                    THEN Kept(req[r], x) /\ x.pc = "session"
                    ELSE IF req[r].kind = "roles" THEN Kept(req[r], x) /\ x.pc = "over"
                         ELSE Gone(x)
    BY <1>13, UpdatedUser
  <2>2. x.kind # "setup"
    BY <2>1 DEF Gone, Kept
  <2> QED
    BY <1>1, <2>1, <2>2
<1>14. CASE CreateSession(r)
  <2>1. PICK x : /\ Becomes(r, x) /\ x.pc = "over"
                 /\ IF req[r].kind = "signin" THEN Gone(x) ELSE Kept(req[r], x)
    BY <1>14, CreatedSession
  <2>2. x.kind # "setup"
    BY <1>0, <1>14, <2>1 DEF Gone, Kept, Fits, CreateSession
  <2> QED
    BY <1>1, <2>1, <2>2
<1> QED
  BY <1>2, <1>3, <1>4, <1>5, <1>6, <1>7, <1>8, <1>9, <1>10, <1>11, <1>12, <1>13,
     <1>14 DEF Acts, Quiet

LEMMA NextSetup ==
    ASSUME TypeInv, SetupInv, [Next]_vars PROVE SetupInv'
<1>1. ASSUME NEW r \in Requests, Acts(r) PROVE SetupInv'
  <2>1. /\ Veterans \cap Existing' = Veterans \cap Existing
        /\ settings = "completed" => settings' = "completed"
    BY <1>1, VeteransStay
  <2>2. CASE Setters' \subseteq Setters
    BY <2>1, <2>2 DEF SetupInv
  <2>3. CASE /\ Setters' \subseteq Setters \cup {r}
             /\ settings # "completed" /\ settings' = "completed"
    BY <2>1, <2>3 DEF SetupInv
  <2> QED
    BY <1>1, <2>2, <2>3, SettersAre
<1>2. CASE EndSession
  BY <1>2 DEF EndSession, SetupInv, Setters, Existing
<1>3. CASE UNCHANGED vars
  BY <1>3 DEF vars, SetupInv, Setters, Existing
<1> QED
  BY <1>1, <1>2, <1>3, NextIs

\* However many setups race and fail at any step, one inserts an admin at most, and
\* none does where veterans are.
THEOREM OneSetup == Spec => []SetupOnce
<1>1. SetupInv => SetupOnce
  <2> SUFFICES ASSUME SetupInv PROVE SetupOnce
    OBVIOUS
  <2>1. Bootstrapped \subseteq Setters
    BY DEF Bootstrapped, Setters
  <2>2. Cardinality(Bootstrapped) <= 1
    BY <2>1, AtMostOne DEF SetupInv
  <2>3. Veterans \cap Existing # {} => Cardinality(Bootstrapped) <= 0
    <3>1. Veterans \cap Existing # {} => Bootstrapped = {}
      BY <2>1 DEF SetupInv
    <3> QED
      BY <3>1, FS_EmptySet
  <2> QED
    BY <2>2, <2>3 DEF SetupOnce
<1> QED
  BY InitTyped, NextTyped, InitSetup, NextSetup, <1>1, PTL DEF Spec

-----------------------------------------------------------------------------
(* Roles and admins.                                                       *)

\* What a request has in hand once it has not written yet: a user to insert, a copy
\* just read, or the copy that the last-admin guard let pass.
Inserts(x) == /\ x.pc = "insert"
              /\ IF x.kind = "setup"
                 THEN x.doc.roles = {"admin"} /\ ActiveAdmin(x.doc)
                 ELSE x.doc.roles = {}
Copies(x) == /\ x.pc \in {"write", "count"} /\ x.target \in Existing
             /\ x.read = users[x.target] /\ x.counted = {}
             /\ IF x.kind = "roles" THEN x.doc.roles = x.roles
                ELSE x.doc.roles = x.read.roles
             /\ x.pc = "write" => (ActiveAdmin(x.read) => ActiveAdmin(x.doc))
Passes(r, x) == /\ req[r].pc = "count" /\ x.pc = "write"
                /\ ~(Cardinality(x.counted) <= 1)
                /\ x.kind = req[r].kind /\ x.target = req[r].target
                /\ x.roles = req[r].roles /\ x.doc = req[r].doc

LEMMA TriedMakes ==
    ASSUME TypeInv, NEW r \in Requests, NEW login \in RequestType,
           login.kind \in {"google", "custom"}, login.person \in Persons,
           NEW found \in SUBSET Existing, NEW x, Tried(r, login, found, x)
    PROVE  Gone(x) \/ Inserts(x) \/ Copies(x)
<1>1. PICK kind \in {"google", "custom"}, p \in Persons,
           claim \in {"none", "unverified", "verified"} :
         kind = login.kind /\ p = login.person /\ claim = login.claim
  BY DEF RequestType
<1>2. CASE /\ x.kind = kind /\ x.pc = "insert"
           /\ x.doc = Attached(NewUser(r), kind, p, claim)
  <2>1. PICK u \in User : u = NewUser(r) /\ u.roles = {} /\ OneOfEach(u.accounts)
    BY NewUserIs
  <2>2. OneOfEach(u.accounts)
    BY <2>1
  <2>3. PICK v : v = Attached(u, kind, p, claim)
    OBVIOUS
  <2>4. v.roles = u.roles /\ v.standing = u.standing
    BY <2>3 DEF Attached, User
  <2> QED
    BY <1>2, <2>1, <2>3, <2>4 DEF Inserts
<1>3. CASE /\ x.kind = kind /\ x.pc = "write" /\ x.target \in found
           /\ x.read = users[x.target] /\ x.counted = {}
           /\ x.doc = Attached(users[x.target], kind, p, claim)
  <2>1. PICK u \in User : u = users[x.target] /\ OneOfEach(u.accounts)
    BY <1>3 DEF TypeInv, TypeOK, Existing
  <2>2. OneOfEach(u.accounts)
    BY <2>1
  <2>3. PICK v : v = Attached(u, kind, p, claim)
    OBVIOUS
  <2>4. v.roles = u.roles /\ v.standing = u.standing
    BY <2>3 DEF Attached, User
  <2> QED
    BY <1>3, <2>1, <2>3, <2>4 DEF Copies, ActiveAdmin
<1> QED
  BY <1>1, <1>2, <1>3 DEF Tried, Logs

LEMMA QuietMakes ==
    ASSUME TypeInv, NEW r \in Requests, Quiet(r)
    PROVE  \E x : /\ Becomes(r, x)
                  /\ \/ /\ x.pc \notin {"insert", "write", "count"}
                        /\ x.pc = "over" => x.kind # "setup"
                     \/ Inserts(x) \/ Copies(x) \/ Passes(r, x)
<1>0. req[r] \in RequestType /\ Fits(req[r])
  BY DEF TypeInv, TypeOK
<1>2. CASE BeginSetup(r)
  BY <1>2, BeganSetup
<1>3. CASE InsertSettings(r)
  BY <1>3, InsertedSettings DEF Gone, Inserts, ActiveAdmin
<1>4. CASE SignIn(r)
  BY <1>4, SignedIn
<1>5. CASE FindById(r)
  <2>1. PICK login \in RequestType :
              /\ login.kind \in {"google", "custom"} /\ login.person \in Persons
              /\ \/ /\ Becomes(r, login) /\ login.pc = "email"
                 \/ \E x : Tried(r, login,
                                 FindUserByKey(<<login.kind, login.person>>), x)
    BY <1>5, FoundById
  <2>2. PICK found \in SUBSET Existing :
           found = FindUserByKey(<<login.kind, login.person>>)
    BY FoundByKey
  <2>3. ASSUME NEW x, Tried(r, login, found, x)
        PROVE  Becomes(r, x) /\ (Gone(x) \/ Inserts(x) \/ Copies(x))
    BY <2>1, <2>3, TriedMakes DEF Tried
  <2> QED
    BY <2>1, <2>2, <2>3 DEF Gone
<1>6. CASE FindByEmail(r)
  <2>0. PICK login \in RequestType : login = req[r]
    BY <1>0
  <2>1. PICK found \in SUBSET Existing : found = FindUserByKey(<<"email", req[r].person>>)
    BY FoundByKey
  <2>2. PICK x : Tried(r, login, found, x)
    BY <1>6, <2>0, <2>1, FoundByEmail
  <2>3. login.kind \in {"google", "custom"} /\ login.person \in Persons
    BY <1>0, <1>6, <2>0 DEF FindByEmail, Fits
  <2>4. Becomes(r, x) /\ (Gone(x) \/ Inserts(x) \/ Copies(x))
    BY <2>2, <2>3, TriedMakes DEF Tried
  <2> QED
    BY <2>4 DEF Gone
<1>7. CASE EditOwn(r)
  <2>1. PICK x : /\ Becomes(r, x) /\ x.pc = "write" /\ x.kind \in {"password", "profile"}
                 /\ x.target \in Existing /\ x.read = users[x.target] /\ x.counted = {}
                 /\ x.doc.roles = x.read.roles /\ x.doc.standing = x.read.standing
    BY <1>7, EditedOwn
  <2>2. Copies(x)
    BY <2>1 DEF Copies, ActiveAdmin
  <2> QED
    BY <2>1, <2>2
<1>8. CASE Authorize(r)
  BY <1>8, Authorized
<1>9. CASE ChooseRoles(r) \/ ChooseBlock(r)
  <2>1. req[r].pc = "find" /\ req[r].person = NoPerson
    BY <1>0, <1>9 DEF ChooseRoles, ChooseBlock, Fits
  <2>2. PICK kind, x :
           /\ Chose(r, x, kind)
           /\ \/ kind = "roles" /\ x.doc.roles = x.roles
              \/ kind = "block" /\ x.doc.roles = x.read.roles
    BY <1>9, <2>1, ChoseRoles, ChoseBlock
  <2>3. Becomes(r, x) /\ Copies(x)
    BY <2>2 DEF Chose, Copies
  <2> QED
    BY <2>3
<1>10. CASE CountActiveAdmins(r)
  <2>1. req[r].pc = "count"
    BY <1>10 DEF CountActiveAdmins
  <2> QED
    BY <1>10, <2>1, CountedAdmins DEF Gone, Passes
<1>11. CASE Abort(r)
  BY <1>0, <1>11, Aborted DEF Gone, Kept, Fits
<1> QED
  BY <1>2, <1>3, <1>4, <1>5, <1>6, <1>7, <1>8, <1>9, <1>10, <1>11 DEF Quiet

\* What makes the roles of user i granted ones stays.
Granted(i, roles) ==
    \/ roles = {}
    \/ i \in Bootstrapped /\ roles = {"admin"}
    \/ \E d \in Deployments : i \in Veterans /\ roles = d[i].roles
    \/ \E r \in Requests : /\ req[r].kind = "roles" /\ req[r].pc = "over"
                           /\ req[r].target = i /\ req[r].roles = roles
GrantInv ==
    /\ \A i \in Existing : Granted(i, users[i].roles)
    /\ \A r \in Requests :
          /\ req[r].pc = "insert" =>
                req[r].doc.roles = IF req[r].kind = "setup" THEN {"admin"} ELSE {}
          /\ req[r].pc \in {"write", "count"} =>
                IF req[r].kind = "roles" THEN req[r].doc.roles = req[r].roles
                ELSE Granted(req[r].target, req[r].doc.roles)

LEMMA InitGrant == Init => GrantInv
<1> SUFFICES ASSUME Init PROVE GrantInv
  OBVIOUS
<1>1. \A r \in Requests : req[r].pc = "new"
  BY FreshTyped DEF Init, Kinds
<1>2. \A i \in Existing : \E d \in Deployments : i \in Veterans /\ users[i] = d[i]
  BY DEF Init, Existing
<1> QED
  BY <1>1, <1>2 DEF GrantInv, Granted

LEMMA Unfinished ==
    ASSUME TypeInv, NEW r \in Requests, Acts(r) PROVE req[r].pc # "over"
BY DEF Acts, Quiet, BeginSetup, InsertSettings, SignIn, FindById, FindByEmail, EditOwn,
       Authorize, ChooseRoles, ChooseBlock, CountActiveAdmins, Abort, InsertUser,
       UpdateUser, CreateSession

LEMMA GrantedStays ==
    ASSUME TypeInv, NEW r \in Requests, Acts(r), NEW x, Becomes(r, x),
           NEW i, NEW roles, Granted(i, roles)
    PROVE  Granted(i, roles)'
<1>1. req[r].pc # "over" /\ \A q \in Requests : q # r => req'[q] = req[q]
  BY Unfinished, Become DEF TypeInv
<1>2. Bootstrapped \subseteq Bootstrapped'
  BY <1>1 DEF Bootstrapped
<1> QED
  BY <1>1, <1>2 DEF Granted

LEMMA NextGrant ==
    ASSUME TypeInv, GrantInv, [Next]_vars PROVE GrantInv'
<1>1. ASSUME NEW r \in Requests, Acts(r) PROVE GrantInv'
  <2>0. req[r] \in RequestType /\ Fits(req[r]) /\ TypeOK /\ r \in IDs
    BY Apart DEF TypeInv, TypeOK
  <2>1. ASSUME NEW x, Becomes(r, x),
               \A i \in Existing' : \/ i \in Existing /\ users'[i] = users[i]
                                    \/ \E roles : /\ roles = users'[i].roles
                                                   /\ Granted(i, roles)',
               x.pc = "insert" =>
                 x.doc.roles = IF x.kind = "setup" THEN {"admin"} ELSE {},
               x.pc \in {"write", "count"} =>
                 IF x.kind = "roles" THEN x.doc.roles = x.roles
                 ELSE Granted(x.target, x.doc.roles)
        PROVE  GrantInv'
    <3>1. req'[r] = x /\ \A q \in Requests : q # r => req'[q] = req[q]
      BY <2>0, <2>1, Become
    <3>2. \A i, roles : Granted(i, roles) => Granted(i, roles)'
      BY <1>1, <2>1, GrantedStays
    <3>3. \A i \in Existing' : \E roles : roles = users'[i].roles /\ Granted(i, roles)'
      <4> TAKE i \in Existing'
      <4>1. CASE i \in Existing /\ users'[i] = users[i]
        <5>1. PICK roles : roles = users[i].roles
          OBVIOUS
        <5>2. Granted(i, roles)
          BY <4>1, <5>1 DEF GrantInv
        <5> QED
          BY <3>2, <4>1, <5>1, <5>2
      <4> QED
        BY <2>1, <4>1
    <3>4. ASSUME NEW q \in Requests
          PROVE  /\ req'[q].pc = "insert" =>
                      req'[q].doc.roles = IF req'[q].kind = "setup" THEN {"admin"} ELSE {}
                 /\ req'[q].pc \in {"write", "count"} =>
                      \/ req'[q].kind = "roles" /\ req'[q].doc.roles = req'[q].roles
                      \/ /\ req'[q].kind # "roles"
                         /\ \E i, roles : /\ i = req'[q].target
                                          /\ roles = req'[q].doc.roles
                                          /\ Granted(i, roles)'
      <4>1. PICK y, i, roles : y = req'[q] /\ i = y.target /\ roles = y.doc.roles
        OBVIOUS
      <4>2. /\ y.pc = "insert" => y.doc.roles = IF y.kind = "setup" THEN {"admin"} ELSE {}
            /\ y.pc \in {"write", "count"} =>
                 IF y.kind = "roles" THEN y.doc.roles = y.roles ELSE Granted(i, roles)
        BY <2>1, <3>1, <4>1 DEF GrantInv
      <4> QED
        BY <3>2, <4>1, <4>2
    <3> QED
      <4>1. (\A i \in Existing : Granted(i, users[i].roles))'
        BY <3>3
      <4>2. (\A q \in Requests :
               /\ req[q].pc = "insert" =>
                     req[q].doc.roles = IF req[q].kind = "setup" THEN {"admin"} ELSE {}
               /\ req[q].pc \in {"write", "count"} =>
                     IF req[q].kind = "roles" THEN req[q].doc.roles = req[q].roles
                     ELSE Granted(req[q].target, req[q].doc.roles))'
        BY <3>4
      <4> QED
        BY <4>1, <4>2 DEF GrantInv
  <2>2. CASE Quiet(r)
    <3>1. users' = users /\ Existing' = Existing
      BY <2>2, QuietFrame DEF Existing
    <3>2. PICK x : /\ Becomes(r, x)
                   /\ \/ x.pc \notin {"insert", "write", "count"}
                      \/ Inserts(x) \/ Copies(x) \/ Passes(r, x)
      BY <2>2, QuietMakes
    <3>3. CASE x.pc \notin {"insert", "write", "count"}
      BY <2>1, <3>1, <3>2, <3>3
    <3>4. CASE Inserts(x)
      BY <2>1, <3>1, <3>2, <3>4 DEF Inserts
    <3>5. CASE Copies(x)
      <4>1. /\ x.pc # "insert" /\ x.target \in Existing
            /\ x.kind = "roles" => x.doc.roles = x.roles
            /\ x.kind # "roles" => x.doc.roles = users[x.target].roles
        BY <3>5 DEF Copies
      <4>2. x.kind # "roles" => Granted(x.target, x.doc.roles)
        BY <4>1 DEF GrantInv
      <4> QED
        BY <2>1, <3>1, <3>2, <4>1, <4>2
    <3>6. CASE Passes(r, x)
      <4>1. x.pc # "insert" /\ IF x.kind = "roles" THEN x.doc.roles = x.roles
                               ELSE Granted(x.target, x.doc.roles)
        BY <3>6 DEF Passes, GrantInv
      <4> QED
        BY <2>1, <3>1, <3>2, <4>1
    <3> QED
      BY <3>2, <3>3, <3>4, <3>5, <3>6
  <2>3. CASE InsertUser(r)
    <3>1. PICK x : /\ Becomes(r, x) /\ x.kind = req[r].kind
                   /\ x.pc = IF req[r].kind = "setup" THEN "over" ELSE "session"
      BY <2>3, InsertedUser
    <3>2. /\ users' = [users EXCEPT ![r] = req[r].doc] /\ req[r].pc = "insert"
          /\ users'[r] = req[r].doc /\ req'[r] = x
      BY <2>0, <2>3, <3>1, Become DEF InsertUser, TypeOK
    <3>3. req[r].doc.roles = IF req[r].kind = "setup" THEN {"admin"} ELSE {}
      BY <3>2 DEF GrantInv
    <3>4. req[r].kind = "setup" => r \in Bootstrapped'
      BY <3>1, <3>2 DEF Bootstrapped
    <3>5. PICK roles : roles = users'[r].roles
      OBVIOUS
    <3>6. Granted(r, roles)'
      BY <3>2, <3>3, <3>4, <3>5 DEF Granted
    <3>7. \A i \in Existing' \ {r} : i \in Existing /\ users'[i] = users[i]
      BY <2>0, <3>2 DEF Existing, TypeOK
    <3> QED
      BY <2>1, <3>1, <3>5, <3>6, <3>7
  <2>4. CASE UpdateUser(r)
    <3>1. PICK x : /\ Becomes(r, x)
                   /\ IF req[r].kind \in {"google", "custom"}
                      THEN Kept(req[r], x) /\ x.pc = "session"
                      ELSE IF req[r].kind = "roles" THEN Kept(req[r], x) /\ x.pc = "over"
                           ELSE Gone(x)
      BY <2>4, UpdatedUser
    <3>2. PICK i \in IDs, d \in User :
             i = req[r].target /\ d = req[r].doc /\ req[r].pc = "write"
      BY <2>0, <2>4 DEF UpdateUser, Fits
    <3>3. /\ users' = [users EXCEPT ![i] = d] /\ users'[i] = d /\ req'[r] = x
          /\ \A j \in IDs : j # i => users'[j] = users[j]
      BY <2>0, <2>4, <3>1, <3>2, Become DEF UpdateUser, TypeOK
    <3>4. PICK roles : roles = users'[i].roles
      OBVIOUS
    <3>5. Granted(i, roles)'
      <4>1. CASE req[r].kind = "roles"
        <5>1. /\ x.kind = "roles" /\ x.pc = "over" /\ x.target = i /\ x.roles = roles
          BY <3>1, <3>2, <3>3, <3>4, <4>1 DEF Kept, GrantInv
        <5> QED
          BY <3>3, <5>1 DEF Granted
      <4>2. CASE req[r].kind # "roles"
        <5>1. Granted(i, roles)
          BY <3>2, <3>3, <3>4, <4>2 DEF GrantInv
        <5> QED
          BY <1>1, <3>1, <5>1, GrantedStays
      <4> QED
        BY <4>1, <4>2
    <3>6. \A j \in Existing' \ {i} : j \in Existing /\ users'[j] = users[j]
      BY <3>3 DEF Existing
    <3>7. x.pc \in {"session", "over"}
      BY <3>1 DEF Gone
    <3> QED
      BY <2>1, <3>1, <3>4, <3>5, <3>6, <3>7
  <2>5. CASE CreateSession(r)
    <3>1. PICK x : Becomes(r, x) /\ x.pc = "over"
      BY <2>5, CreatedSession
    <3>2. users' = users /\ Existing' = Existing
      BY <2>5 DEF CreateSession, Existing
    <3> QED
      BY <2>1, <3>1, <3>2
  <2> QED
    BY <1>1, <2>2, <2>3, <2>4, <2>5 DEF Acts
<1>2. CASE UNCHANGED <<users, req>>
  <2>1. \A i, roles : Granted(i, roles)' <=> Granted(i, roles)
    BY <1>2 DEF Granted, Bootstrapped
  <2> QED
    BY <1>2, <2>1 DEF GrantInv, Existing
<1>3. EndSession \/ UNCHANGED vars => UNCHANGED <<users, req>>
  BY DEF EndSession, vars
<1> QED
  BY <1>1, <1>2, <1>3, NextIs

\* Whatever logins, edits, blocks and choices overlap, and write back copies they read
\* long before, nobody has roles that no admin chose for them, no setup gave and no
\* deployment had.
THEOREM OnlyGrantedRoles == Spec => []RolesAreGranted
<1>1. GrantInv => RolesAreGranted
  BY DEF GrantInv, Granted, RolesAreGranted
<1> QED
  BY InitTyped, NextTyped, InitGrant, NextGrant, <1>1, PTL DEF Spec

\* An admin to insert is active; a write leaves an admin an admin, or the last-admin
\* guard counted two.
AdminInv ==
    /\ AdminRemains
    /\ \A r \in Requests :
          /\ req[r].pc = "insert" /\ req[r].kind = "setup" => ActiveAdmin(req[r].doc)
          /\ req[r].pc = "write" =>
                \/ /\ req[r].counted = {}
                   /\ ActiveAdmin(req[r].read) => ActiveAdmin(req[r].doc)
                \/ ~(Cardinality(req[r].counted) <= 1)
          /\ req[r].pc = "count" => req[r].counted = {}

\* What a deployment has: a Console somebody can administer.
Administered == \A d \in Deployments :
                   Veterans # {} => \E v \in Veterans : ActiveAdmin(d[v])

LEMMA InitAdmin == ASSUME Administered PROVE Init => AdminInv
<1> SUFFICES ASSUME Init PROVE AdminInv
  OBVIOUS
<1>1. \A r \in Requests : req[r].pc = "new" /\ req[r].kind = "none"
  BY FreshTyped DEF Init, Kinds
<1>2. Bootstrapped = {}
  BY <1>1 DEF Bootstrapped
<1>3. ASSUME Veterans \cap Existing # {} PROVE ActiveAdmins # {}
  <2>1. PICK d \in Deployments :
           users = [i \in IDs |-> IF i \in Veterans THEN d[i] ELSE NoUser]
    BY <1>3 DEF Init, Existing
  <2>2. PICK v \in Veterans : ActiveAdmin(d[v])
    BY <1>3 DEF Administered
  <2>3. d[v] \in User
    BY ConstantsAssumption DEF ConstantsAssumption
  <2>4. v \in Existing /\ users[v] = d[v]
    BY <2>1, <2>3, Apart DEF Existing
  <2> QED
    BY <2>2, <2>4, ActiveAdminsAre
<1> QED
  BY <1>1, <1>2, <1>3 DEF AdminInv, AdminRemains

LEMMA NextAdmin ==
    ASSUME TypeInv, AdminInv, [Next]_vars PROVE AdminInv'
<1>1. ASSUME NEW r \in Requests, Acts(r) PROVE AdminInv'
  <2>0. req[r] \in RequestType /\ Fits(req[r]) /\ TypeOK /\ r \in IDs
    BY Apart DEF TypeInv, TypeOK
  <2>1. ASSUME NEW x, Becomes(r, x),
               x.pc = "insert" /\ x.kind = "setup" => ActiveAdmin(x.doc),
               x.pc = "write" =>
                  \/ x.counted = {} /\ (ActiveAdmin(x.read) => ActiveAdmin(x.doc))
                  \/ ~(Cardinality(x.counted) <= 1),
               x.pc = "count" => x.counted = {},
               stale' = {} => stale = {},
               stale' = {} =>
                  ((r \in Bootstrapped' \ Bootstrapped \/ ActiveAdmins # {})
                   => ActiveAdmins' # {})
        PROVE  AdminInv'
    <3>1. req'[r] = x /\ \A q \in Requests : q # r => req'[q] = req[q]
      BY <2>0, <2>1, Become
    <3>2. Bootstrapped' \subseteq Bootstrapped \cup {r}
      BY <3>1 DEF Bootstrapped
    <3>3. Veterans \cap Existing' = Veterans \cap Existing
      BY <1>1, VeteransStay
    <3>4. AdminRemains'
      BY <2>1, <3>2, <3>3 DEF AdminRemains, AdminInv
    <3>5. ASSUME NEW q \in Requests, NEW y, y = req'[q]
          PROVE  /\ y.pc = "insert" /\ y.kind = "setup" => ActiveAdmin(y.doc)
                 /\ y.pc = "write" =>
                       \/ y.counted = {} /\ (ActiveAdmin(y.read) => ActiveAdmin(y.doc))
                       \/ ~(Cardinality(y.counted) <= 1)
                 /\ y.pc = "count" => y.counted = {}
      BY <2>1, <3>1, <3>5 DEF AdminInv
    <3> QED
      BY <3>4, <3>5 DEF AdminInv, ActiveAdmin
  <2>2. CASE Quiet(r)
    <3>1. /\ UNCHANGED <<users, stale>> /\ ActiveAdmins' = ActiveAdmins
      BY <2>2, QuietFrame DEF ActiveAdmins, Existing
    <3>2. PICK x : /\ Becomes(r, x)
                   /\ \/ /\ x.pc \notin {"insert", "write", "count"}
                         /\ x.pc = "over" => x.kind # "setup"
                      \/ Inserts(x) \/ Copies(x) \/ Passes(r, x)
      BY <2>2, QuietMakes
    <3>3. x.pc = "over" => x.kind # "setup"
      BY <3>2 DEF Inserts, Copies, Passes
    <3>4. r \notin Bootstrapped' \ Bootstrapped
      BY <2>0, <3>2, <3>3, Become DEF Bootstrapped
    <3>5. /\ x.pc = "insert" /\ x.kind = "setup" => ActiveAdmin(x.doc)
          /\ x.pc = "write" =>
                \/ x.counted = {} /\ (ActiveAdmin(x.read) => ActiveAdmin(x.doc))
                \/ ~(Cardinality(x.counted) <= 1)
          /\ x.pc = "count" => x.counted = {}
      BY <3>2 DEF Inserts, Copies, Passes
    <3> QED
      BY <2>1, <3>1, <3>2, <3>4, <3>5
  <2>3. CASE InsertUser(r)
    <3>1. PICK x : /\ Becomes(r, x) /\ x.kind = req[r].kind
                   /\ x.pc = IF req[r].kind = "setup" THEN "over" ELSE "session"
      BY <2>3, InsertedUser
    <3>2. PICK d \in User : d = req[r].doc /\ req[r].pc = "insert" /\ users[r] = NoUser
      BY <2>0, <2>3 DEF InsertUser, Fits, TypeInv, Places
    <3>3. /\ users' = [users EXCEPT ![r] = d] /\ users'[r] = d /\ stale' = stale
          /\ \A i \in IDs : i # r => users'[i] = users[i]
      BY <2>0, <2>3, <3>2 DEF InsertUser, TypeOK
    <3>4. ActiveAdmins \subseteq ActiveAdmins'
      BY <3>2, <3>3 DEF ActiveAdmins, Existing
    <3>5. r \in Bootstrapped' => req[r].kind = "setup"
      BY <2>0, <3>1, Become DEF Bootstrapped
    <3>6. req[r].kind = "setup" => r \in ActiveAdmins'
      <4>1. req[r].kind = "setup" => ActiveAdmin(d)
        BY <3>2 DEF AdminInv
      <4> QED
        BY <2>0, <3>3, <4>1, Apart DEF ActiveAdmins, ActiveAdmin, Existing
    <3> QED
      BY <2>1, <3>1, <3>3, <3>4, <3>5, <3>6
  <2>4. CASE UpdateUser(r)
    <3>1. PICK x : /\ Becomes(r, x)
                   /\ IF req[r].kind \in {"google", "custom"}
                      THEN Kept(req[r], x) /\ x.pc = "session"
                      ELSE IF req[r].kind = "roles" THEN Kept(req[r], x) /\ x.pc = "over"
                           ELSE Gone(x)
      BY <2>4, UpdatedUser
    <3>2. PICK i \in IDs, d \in User :
             i = req[r].target /\ d = req[r].doc /\ req[r].pc = "write"
      BY <2>0, <2>4 DEF UpdateUser, Fits
    <3>3. /\ users' = [users EXCEPT ![i] = d] /\ users'[i] = d
          /\ \A j \in IDs : j # i => users'[j] = users[j]
      BY <2>0, <2>4, <3>2 DEF UpdateUser, TypeOK
    <3>4. stale' = {} => /\ stale = {} /\ users[i] = req[r].read
                         /\ req[r].counted \in {{}, ActiveAdmins}
      BY <2>4, <3>2 DEF UpdateUser
    <3>5. r \notin Bootstrapped'
      BY <2>0, <3>1, Become DEF Bootstrapped, Kept, Gone
    <3>6. ASSUME NEW j \in ActiveAdmins, j # i PROVE ActiveAdmins' # {}
      BY <3>3, <3>6 DEF ActiveAdmins, Existing
    <3>7. ASSUME stale' = {}, ActiveAdmins # {} PROVE ActiveAdmins' # {}
      <4>1. CASE \E j \in ActiveAdmins : j # i
        BY <3>6, <4>1
      <4>2. CASE \A j \in ActiveAdmins : j = i
        <5>1. ActiveAdmin(req[r].read)
          BY <3>4, <3>7, <4>2 DEF ActiveAdmins, ActiveAdmin
        <5>2. Cardinality(req[r].counted) <= 1
          BY <3>4, <3>7, <4>2, AtMostOne
        <5>3. ActiveAdmin(d)
          BY <3>2, <5>1, <5>2 DEF AdminInv
        <5> QED
          BY <3>2, <3>3, <5>3, Apart DEF ActiveAdmins, ActiveAdmin, Existing
      <4> QED
        BY <4>1, <4>2
    <3>8. x.pc \in {"session", "over"}
      BY <3>1 DEF Gone
    <3> QED
      BY <2>1, <3>1, <3>4, <3>5, <3>7, <3>8
  <2>5. CASE CreateSession(r)
    <3>1. PICK x : /\ Becomes(r, x) /\ x.pc = "over"
                   /\ IF req[r].kind = "signin" THEN Gone(x) ELSE Kept(req[r], x)
      BY <2>5, CreatedSession
    <3>2. UNCHANGED <<users, stale>> /\ ActiveAdmins' = ActiveAdmins
      BY <2>5 DEF CreateSession, ActiveAdmins, Existing
    <3>3. x.kind # "setup"
      BY <2>0, <2>5, <3>1 DEF Gone, Kept, Fits, CreateSession
    <3>4. r \notin Bootstrapped'
      BY <2>0, <3>1, <3>3, Become DEF Bootstrapped
    <3> QED
      BY <2>1, <3>1, <3>2, <3>4
  <2> QED
    BY <1>1, <2>2, <2>3, <2>4, <2>5 DEF Acts
<1>2. CASE UNCHANGED <<users, req, stale>>
  BY <1>2 DEF AdminInv, AdminRemains, Bootstrapped, ActiveAdmins, Existing
<1>3. EndSession \/ UNCHANGED vars => UNCHANGED <<users, req, stale>>
  BY DEF EndSession, vars, ghosts
<1> QED
  BY <1>1, <1>2, <1>3, NextIs

\* From the first admin on, and as long as no request wrote a copy over a change or on
\* a count that was no longer true, the Console keeps an active admin, for any numbers
\* of admins, and requests in flight or failing.
THEOREM AnAdminRemains ==
    ASSUME Administered PROVE Spec => []AdminRemains
<1>1. AdminInv => AdminRemains
  BY DEF AdminInv
<1> QED
  BY InitTyped, NextTyped, InitAdmin, NextAdmin, <1>1, PTL DEF Spec

-----------------------------------------------------------------------------
(* Persons.                                                                *)

\* A person's unverified tokens that left something behind.
Effected(p) == {r \in Requests : /\ req[r].person = p /\ req[r].claim # "verified"
                                 /\ req[r].pc \in {"session", "over"}}
\* Accounts of one person, of which there are some.
Sole(accounts, p) == accounts # {} /\ \A a \in accounts : a.person = p
\* An address is missing only where such a token was.
Vouched(a) == a.email = "known" \/ Effected(a.person) # {}
Holders(p) == {i \in Existing : \E a \in users[i].accounts : a.person = p}

UsersApart ==
    /\ \A i \in Existing : \E p \in Persons : Sole(users[i].accounts, p)
    /\ \A i \in Existing : \A a \in users[i].accounts : Vouched(a)
CopiesApart(y) ==
    /\ y.pc = "insert" => Sole(y.doc.accounts, y.person)
    /\ y.pc \in {"write", "count"} =>
          \E p \in Persons : /\ Sole(y.doc.accounts, p)
                             /\ Sole(users[y.target].accounts, p)
    /\ y.pc \in {"write", "count", "insert"} =>
          \A a \in y.doc.accounts :
             \/ Vouched(a)
             \/ y.claim # "verified" /\ a.person = y.person /\ y.kind \in {"google", "custom"}
OnePerson(p) ==
    /\ \A q, r \in SigningIn(p) : q = r
    /\ Effected(p) = {} =>
          /\ \A i, j \in Holders(p) : i = j
          /\ \A r \in SigningIn(p) :
                req[r].pc \in {"settings", "insert"} /\ req[r].claim = "verified"
                => Holders(p) = {}
PersonInv ==
    /\ Existing # {} => settings = "completed"
    /\ \A r \in Requests : req[r].pc \in {"email", "insert"} => settings = "completed"
    /\ UsersApart
    /\ \A r \in Requests : CopiesApart(req[r])
    /\ \A p \in Persons \ crossed : OnePerson(p)

\* The deployments that OnePersonOneUser starts from: a user is one person, known at
\* their address, and no two users are the same person.
PersonsApart ==
    \A d \in Deployments :
        /\ \A v \in Veterans : /\ \E p \in Persons : Sole(d[v].accounts, p)
                               /\ \A a \in d[v].accounts : a.email = "known"
        /\ \A v, w \in Veterans : \A a \in d[v].accounts, b \in d[w].accounts :
              a.person = b.person => v = w

LEMMA InitPersons == ASSUME PersonsApart PROVE Init => PersonInv
<1> SUFFICES ASSUME Init PROVE PersonInv
  OBVIOUS
<1>1. \A r \in Requests : req[r].pc = "new" /\ req[r].kind = "none"
  BY FreshTyped DEF Init, Kinds
<1>2. /\ \A r \in Requests : CopiesApart(req[r])
      /\ \A p \in Persons : SigningIn(p) = {}
  BY <1>1 DEF CopiesApart, SigningIn
<1>3. /\ Existing # {} => settings = "completed"
      /\ UsersApart
      /\ \A p \in Persons : \A i, j \in Holders(p) : i = j
  <2>1. CASE Existing = {}
    BY <2>1 DEF UsersApart, Holders
  <2>2. CASE Existing # {}
    <3>1. PICK d \in Deployments :
             users = [i \in IDs |-> IF i \in Veterans THEN d[i] ELSE NoUser]
      BY <2>2 DEF Init, Existing
    <3>2. \A i \in Existing : i \in Veterans /\ users[i] = d[i]
      BY <3>1 DEF Existing
    <3>3. settings = "completed"
      BY <2>2 DEF Init, Existing
    <3>4. UsersApart
      BY <3>2 DEF UsersApart, PersonsApart, Vouched
    <3>5. \A p \in Persons : \A i, j \in Holders(p) : i = j
      BY <3>2 DEF Holders, PersonsApart
    <3> QED
      BY <3>3, <3>4, <3>5
  <2> QED
    BY <2>1, <2>2
<1> QED
  BY <1>1, <1>2, <1>3 DEF PersonInv, OnePerson

\* A user is found by the accounts of the person.
LEMMA KeysAreOf ==
    ASSUME NEW accounts, NEW type, NEW p, <<type, p>> \in Keys(accounts)
    PROVE  \E a \in accounts : a.person = p
BY DEF Keys

LEMMA GoneApart == ASSUME NEW x, Gone(x) PROVE CopiesApart(x)
BY DEF Gone, CopiesApart

\* A login's account joins those of its person.
LEMMA AttachedApart ==
    ASSUME NEW u \in User, OneOfEach(u.accounts), NEW kind \in {"google", "custom"},
           NEW p \in Persons, NEW claim \in {"none", "unverified", "verified"},
           NEW v, v = Attached(u, kind, p, claim),
           \A a \in u.accounts : a.person = p /\ Vouched(a)
    PROVE  /\ Sole(v.accounts, p)
           /\ \A a \in v.accounts : Vouched(a) \/ claim # "verified"
<1>1. Joined(u, v, p, claim)
  BY AttachedIs
<1> QED
  BY <1>1 DEF Sole, Vouched, Joined

\* What a login makes of the accounts.
LEMMA TriedApart ==
    ASSUME TypeInv, PersonInv, NEW r \in Requests, NEW login \in RequestType,
           login.kind \in {"google", "custom"}, login.person \in Persons,
           NEW found \in SUBSET Existing, NEW x, Tried(r, login, found, x),
           \A i \in found : \E a \in users[i].accounts : a.person = login.person
    PROVE  CopiesApart(x)
<1>1. PICK kind \in {"google", "custom"}, p \in Persons,
           claim \in {"none", "unverified", "verified"} :
         kind = login.kind /\ p = login.person /\ claim = login.claim
  BY DEF RequestType
<1>3. CASE /\ x.kind = kind /\ x.person = p /\ x.claim = claim /\ x.pc = "insert"
           /\ x.doc = Attached(NewUser(r), kind, p, claim)
  <2>1. PICK u \in User : u = NewUser(r) /\ u.accounts = {} /\ OneOfEach(u.accounts)
    BY NewUserIs
  <2>2. OneOfEach(u.accounts) /\ \A a \in u.accounts : a.person = p /\ Vouched(a)
    BY <2>1
  <2>3. x.doc = Attached(u, kind, p, claim)
    BY <1>3, <2>1
  <2>4. /\ Sole(x.doc.accounts, p)
        /\ \A a \in x.doc.accounts : Vouched(a) \/ claim # "verified"
    BY <2>2, <2>3, AttachedApart
  <2> QED
    BY <1>3, <2>4 DEF CopiesApart, Sole
<1>4. CASE /\ x.kind = kind /\ x.person = p /\ x.claim = claim /\ x.pc = "write"
           /\ x.target \in found /\ x.doc = Attached(users[x.target], kind, p, claim)
  <2>1. PICK u \in User : u = users[x.target] /\ OneOfEach(u.accounts)
    BY <1>4 DEF TypeInv, TypeOK, Existing
  <2>2. Sole(u.accounts, p) /\ \A a \in u.accounts : Vouched(a)
    <3>1. x.target \in Existing /\ \E a \in u.accounts : a.person = p
      BY <1>1, <1>4, <2>1
    <3> QED
      BY <2>1, <3>1 DEF PersonInv, UsersApart, Sole
  <2>3. OneOfEach(u.accounts) /\ \A a \in u.accounts : a.person = p /\ Vouched(a)
    BY <2>1, <2>2 DEF Sole
  <2>4. x.doc = Attached(u, kind, p, claim)
    BY <1>4, <2>1
  <2>5. /\ Sole(x.doc.accounts, p)
        /\ \A a \in x.doc.accounts : Vouched(a) \/ claim # "verified"
    BY <2>3, <2>4, AttachedApart
  <2>6. Sole(users[x.target].accounts, p)
    BY <2>1, <2>2
  <2> QED
    BY <1>4, <2>5, <2>6 DEF CopiesApart, Sole
<1>5. CASE Gone(x)
  BY <1>5, GoneApart
<1> QED
  BY <1>1, <1>3, <1>4, <1>5 DEF Tried, Logs

\* Who is about to become a user is none yet.
Alone(x) == /\ x.pc \in {"settings", "insert"} /\ x.claim = "verified"
            /\ x.person \in Persons \ crossed /\ Effected(x.person) = {}
            => Holders(x.person) = {}

\* A person who is a user is found by a verified address.
LEMMA FoundWhoHolds ==
    ASSUME TypeInv, PersonInv, NEW p \in Persons \ crossed, Effected(p) = {},
           FindUserByKey(<<"email", p>>) = {}
    PROVE  Holders(p) = {}
<1> SUFFICES ASSUME NEW i \in Holders(p) PROVE FALSE
  OBVIOUS
<1>1. i \in Existing /\ \A j \in Holders(p) : j = i
  BY DEF PersonInv, OnePerson, Holders
<1>2. PICK a \in users[i].accounts : a.person = p
  BY DEF Holders
<1>3. a.email = "known"
  BY <1>1, <1>2 DEF PersonInv, UsersApart, Vouched
<1>4. PICK key : key = <<"email", p>>
  OBVIOUS
<1>5. key \in Keys(users[i].accounts)
  BY <1>2, <1>3, <1>4 DEF Keys
<1>6. ASSUME NEW j \in Existing, key \in Keys(users[j].accounts) PROVE j = i
  <2>1. \E b \in users[j].accounts : b.person = p
    BY <1>4, <1>6 DEF Keys
  <2> QED
    BY <1>1, <2>1 DEF Holders
<1>7. i \in FindUserByKey(key)
  BY <1>1, <1>5, <1>6, FoundByKey
<1> QED
  BY <1>4, <1>7

LEMMA QuietApart ==
    ASSUME TypeInv, PersonInv, NEW r \in Requests, Quiet(r)
    PROVE  \E x : /\ Becomes(r, x) /\ CopiesApart(x) /\ Alone(x)
                  /\ x.pc \in {"email", "insert"} => settings' = "completed"
<1>0. req[r] \in RequestType /\ Fits(req[r]) /\ TypeOK
  BY DEF TypeInv, TypeOK
<1>1. ASSUME NEW i \in Existing, NEW d, d.accounts = users[i].accounts
      PROVE  /\ \E p \in Persons : Sole(d.accounts, p) /\ Sole(users[i].accounts, p)
             /\ \A a \in d.accounts : Vouched(a)
  BY <1>1 DEF PersonInv, UsersApart
<1>2. CASE BeginSetup(r)
  <2>1. PICK x : Becomes(r, x) /\ x.pc = "settings" /\ x.kind = "setup"
    BY <1>2, BeganSetup
  <2>2. Existing = {}
    BY <1>2 DEF BeginSetup, PersonInv
  <2>3. CopiesApart(x) /\ Alone(x)
    BY <2>1, <2>2 DEF CopiesApart, Alone, Holders
  <2> QED
    BY <2>1, <2>3
<1>3. CASE InsertSettings(r)
  <2>1. PICK x : /\ Becomes(r, x)
                 /\ \/ Gone(x)
                    \/ /\ x.pc = "insert" /\ x.kind = "setup"
                       /\ x.person = req[r].person /\ x.claim = req[r].claim
                       /\ x.doc.accounts # {}
                       /\ \A a \in x.doc.accounts : /\ a.person = req[r].person
                                                    /\ a.email = "known"
    BY <1>3, InsertedSettings
  <2>2. CASE Gone(x)
    BY <2>1, <2>2, GoneApart DEF Gone, Alone
  <2>3. CASE /\ x.pc = "insert" /\ x.kind = "setup"
             /\ x.person = req[r].person /\ x.claim = req[r].claim
             /\ x.doc.accounts # {}
             /\ \A a \in x.doc.accounts : a.person = req[r].person /\ a.email = "known"
    <3>1. CopiesApart(x)
      BY <2>3 DEF CopiesApart, Sole, Vouched
    <3>2. /\ req[r].pc = "settings" /\ req[r].kind = "setup" /\ settings' = "completed"
          /\ r \in SigningIn(req[r].person)
      BY <1>0, <1>3 DEF InsertSettings, Fits, SigningIn
    <3>3. Alone(x)
      BY <2>3, <3>2 DEF Alone, PersonInv, OnePerson
    <3> QED
      BY <2>1, <3>1, <3>2, <3>3
  <2> QED
    BY <2>1, <2>2, <2>3
<1>4. CASE SignIn(r)
  BY <1>4, SignedIn DEF CopiesApart, Alone
<1>5. CASE FindById(r)
  <2>0. settings' = "completed"
    BY <1>5 DEF FindById
  <2>1. PICK login \in RequestType :
              /\ login.kind \in {"google", "custom"} /\ login.person \in Persons
              /\ \/ /\ Becomes(r, login) /\ login.pc = "email"
                 \/ \E x : /\ Tried(r, login,
                                    FindUserByKey(<<login.kind, login.person>>), x)
                           /\ x.pc = "insert" => login.claim # "verified"
    BY <1>5, FoundById
  <2>2. CASE Becomes(r, login) /\ login.pc = "email"
    BY <2>0, <2>2 DEF CopiesApart, Alone
  <2>3. CASE \E x : /\ Tried(r, login,
                             FindUserByKey(<<login.kind, login.person>>), x)
                    /\ x.pc = "insert" => login.claim # "verified"
    <3>1. PICK found \in SUBSET Existing :
             found = FindUserByKey(<<login.kind, login.person>>)
      BY FoundByKey
    <3>2. PICK x : Tried(r, login, found, x)
                   /\ (x.pc = "insert" => login.claim # "verified")
      BY <2>3, <3>1
    <3>3. PICK key : key = <<login.kind, login.person>>
      OBVIOUS
    <3>4. \A i \in found : key \in Keys(users[i].accounts)
      BY <3>1, <3>3, FoundByKey
    <3>5. \A i \in found : \E a \in users[i].accounts : a.person = login.person
      BY <3>3, <3>4, KeysAreOf
    <3>6. CopiesApart(x)
      BY <2>1, <3>2, <3>5, TriedApart
    <3>7. Alone(x) /\ Becomes(r, x)
      BY <3>2 DEF Alone, Tried, Gone
    <3> QED
      BY <2>0, <3>6, <3>7
  <2> QED
    BY <2>1, <2>2, <2>3
<1>6. CASE FindByEmail(r)
  <2>0. PICK login \in RequestType : login = req[r]
    BY <1>0
  <2>1. PICK found \in SUBSET Existing : found = FindUserByKey(<<"email", login.person>>)
    BY FoundByKey
  <2>2. PICK x : Tried(r, login, found, x)
    BY <1>6, <2>0, <2>1, FoundByEmail
  <2>3. /\ login.kind \in {"google", "custom"} /\ login.person \in Persons
        /\ req[r].pc = "email"
    BY <1>0, <1>6, <2>0 DEF FindByEmail, Fits
  <2>4. PICK key : key = <<"email", login.person>>
    OBVIOUS
  <2>5. \A i \in found : key \in Keys(users[i].accounts)
    BY <2>1, <2>4, FoundByKey
  <2>6. \A i \in found : \E a \in users[i].accounts : a.person = login.person
    BY <2>4, <2>5, KeysAreOf
  <2>7. CopiesApart(x)
    BY <2>2, <2>3, <2>6, TriedApart
  <2>8. Alone(x)
    <3>1. x.pc = "insert" => found = {} /\ x.person = login.person
      BY <2>2 DEF Tried, Gone
    <3>2. x.pc # "settings"
      BY <2>2 DEF Tried, Gone
    <3>3. SUFFICES ASSUME x.pc = "insert", x.person \in Persons \ crossed,
                          Effected(x.person) = {}
                   PROVE  Holders(x.person) = {}
      BY <3>2 DEF Alone
    <3>4. PICK p \in Persons \ crossed : p = login.person
      BY <3>1, <3>3
    <3>5. Effected(p) = {} /\ FindUserByKey(<<"email", p>>) = {}
      BY <2>1, <3>1, <3>3, <3>4
    <3> QED
      BY <3>1, <3>3, <3>4, <3>5, FoundWhoHolds
  <2>9. settings' = "completed" /\ Becomes(r, x)
    BY <1>6, <2>2, <2>3 DEF FindByEmail, PersonInv, Tried
  <2> QED
    BY <2>7, <2>8, <2>9
<1>7. CASE EditOwn(r)
  <2>1. PICK x : /\ Becomes(r, x) /\ x.pc = "write"
                 /\ x.target \in Existing /\ x.read = users[x.target]
                 /\ x.doc.accounts = x.read.accounts
    BY <1>7, EditedOwn
  <2>2. CopiesApart(x) /\ Alone(x)
    BY <1>1, <2>1 DEF CopiesApart, Alone
  <2> QED
    BY <2>1, <2>2
<1>8. CASE Authorize(r)
  BY <1>8, Authorized DEF CopiesApart, Alone
<1>9. CASE ChooseRoles(r) \/ ChooseBlock(r)
  <2>1. req[r].pc = "find" /\ req[r].person = NoPerson
    BY <1>0, <1>9 DEF ChooseRoles, ChooseBlock, Fits
  <2>2. PICK kind, x : Chose(r, x, kind)
    BY <1>9, <2>1, ChoseRoles, ChoseBlock
  <2>3. /\ Becomes(r, x) /\ x.pc \in {"count", "write"} /\ x.target \in Existing
        /\ x.doc.accounts = users[x.target].accounts
    BY <2>2 DEF Chose
  <2>4. CopiesApart(x) /\ Alone(x)
    BY <1>1, <2>3 DEF CopiesApart, Alone
  <2> QED
    BY <2>3, <2>4
<1>10. CASE CountActiveAdmins(r)
  <2>1. PICK x : /\ Becomes(r, x)
                 /\ \/ Gone(x)
                    \/ /\ x.pc = "write"
                       /\ x.kind = req[r].kind /\ x.person = req[r].person
                       /\ x.claim = req[r].claim /\ x.target = req[r].target
                       /\ x.doc = req[r].doc
    BY <1>10, CountedAdmins
  <2>2. req[r].pc = "count"
    BY <1>10 DEF CountActiveAdmins
  <2>3. CopiesApart(x) /\ Alone(x) /\ x.pc \notin {"email", "insert"}
    BY <2>1, <2>2, GoneApart DEF CopiesApart, Alone, PersonInv, Gone
  <2> QED
    BY <2>1, <2>3
<1>11. CASE Abort(r)
  BY <1>11, Aborted DEF CopiesApart, Alone
<1> QED
  BY <1>2, <1>3, <1>4, <1>5, <1>6, <1>7, <1>8, <1>9, <1>10, <1>11 DEF Quiet

\* What an unverified token left stays.
LEMMA EffectedStay ==
    ASSUME TypeInv, NEW r \in Requests, Acts(r), NEW p
    PROVE  Effected(p) \subseteq Effected(p)'
<1>0. /\ req[r] \in RequestType /\ Fits(req[r]) /\ TypeOK
      /\ \A q \in Requests : q # r => req'[q] = req[q]
  <2>1. \E x : Becomes(r, x)
    BY QuietMakes, InsertedUser, UpdatedUser, CreatedSession DEF Acts
  <2> QED
    BY <2>1, Become DEF TypeInv, TypeOK
<1>1. r \in Effected(p) => r \in Effected(p)'
  <2> SUFFICES ASSUME r \in Effected(p) PROVE r \in Effected(p)'
    OBVIOUS
  <2>1. /\ req[r].pc = "session" /\ req[r].person = p /\ req[r].claim # "verified"
        /\ req[r].kind # "signin"
    BY <1>0, Unfinished DEF Effected, Fits
  <2>2. Abort(r) \/ CreateSession(r)
    BY <2>1 DEF Acts, Quiet, BeginSetup, InsertSettings, SignIn, FindById, FindByEmail,
                EditOwn, Authorize, ChooseRoles, ChooseBlock, CountActiveAdmins,
                InsertUser, UpdateUser
  <2>3. PICK x : Becomes(r, x) /\ x.pc = "over" /\ Kept(req[r], x)
    BY <2>1, <2>2, Aborted, CreatedSession
  <2>4. req'[r] = x
    BY <1>0, <2>3, Become
  <2> QED
    BY <2>1, <2>3, <2>4 DEF Effected, Kept
<1> QED
  BY <1>0, <1>1 DEF Effected

\* The shape of every step's proof: what the step does to users keeps whose they are.
LEMMA ApartStays ==
    ASSUME TypeInv, TypeInv', PersonInv, Observe, NEW r \in Requests, Acts(r),
           NEW x, Becomes(r, x), CopiesApart(x)', UsersApart',
           x.pc \in {"email", "insert"} \/ Existing' # {} => settings' = "completed",
           \A i \in Existing, p \in Persons :
              Sole(users[i].accounts, p) => Sole(users'[i].accounts, p),
           \A p \in Persons \ crossed : (Effected(p)' = {} /\ OnePerson(p)) =>
              /\ \A i, j \in Holders(p)' : i = j
              /\ x.pc \in {"settings", "insert"} /\ x.claim = "verified" /\ x.person = p
                 => Holders(p)' = {}
              /\ \A q \in SigningIn(p) : q # r /\ Holders(p) = {} => Holders(p)' = {}
    PROVE  PersonInv'
<1>0. /\ req'[r] = x /\ \A q \in Requests : q # r => req'[q] = req[q]
      /\ settings = "completed" => settings' = "completed"
      /\ \A p : Effected(p) \subseteq Effected(p)'
      /\ \A q \in Requests : Fits(req[q]) /\ Fits(req'[q])
  BY Become, VeteransStay, EffectedStay DEF TypeInv
<1>1. ASSUME NEW q \in Requests, NEW y, y = req'[q] PROVE CopiesApart(y)'
  <2>1. CASE q = r
    BY <1>0, <1>1, <2>1
  <2>2. CASE q # r
    <3>1. y = req[q] /\ CopiesApart(y)
      BY <1>0, <1>1, <2>2 DEF PersonInv
    <3>2. y.pc \in {"write", "count"} => y.target \in Existing
      BY <1>0, <3>1 DEF TypeInv, Places, Existing, Fits
    <3>3. \A a : Vouched(a) => Vouched(a)'
      BY <1>0 DEF Vouched
    <3>4. CopiesApart(y)'
      BY <3>1, <3>2, <3>3 DEF CopiesApart
    <3> QED
      BY <3>1, <3>4
  <2> QED
    BY <2>1, <2>2
<1>2. ASSUME NEW p \in Persons \ crossed'
      PROVE  p \notin crossed /\ \A q, s \in SigningIn(p)' : q = s
  <2>1. ~(Cardinality(SigningIn(p)') > 1) /\ p \notin crossed
    BY <1>2 DEF Observe
  <2>2. SigningIn(p)' \subseteq Begun'
    BY <1>0 DEF SigningIn, Begun, Fits
  <2>3. IsFiniteSet(SigningIn(p)')
    BY <2>2, FS_Subset DEF TypeInv
  <2> QED
    BY <2>1, <2>3, CountedOne
<1>3. ASSUME NEW p \in Persons \ crossed', Effected(p)' = {}
      PROVE  /\ \A i, j \in Holders(p)' : i = j
             /\ \A q \in SigningIn(p)' :
                   req'[q].pc \in {"settings", "insert"} /\ req'[q].claim = "verified"
                   => Holders(p)' = {}
  <2>1. p \in Persons \ crossed /\ Effected(p) = {} /\ OnePerson(p)
    BY <1>0, <1>2, <1>3 DEF PersonInv
  <2>2. /\ \A i, j \in Holders(p)' : i = j
        /\ x.pc \in {"settings", "insert"} /\ x.claim = "verified" /\ x.person = p
           => Holders(p)' = {}
        /\ \A q \in SigningIn(p) : q # r /\ Holders(p) = {} => Holders(p)' = {}
    BY <1>3, <2>1
  <2>3. ASSUME NEW q \in SigningIn(p)', req'[q].pc \in {"settings", "insert"},
               req'[q].claim = "verified"
        PROVE  Holders(p)' = {}
    <3>1. q \in Requests /\ req'[q].person = p
      BY <2>3 DEF SigningIn
    <3>2. CASE q = r
      BY <1>0, <2>2, <2>3, <3>1, <3>2
    <3>3. CASE q # r
      <4>1. q \in SigningIn(p)
        BY <1>0, <2>3, <3>1, <3>3 DEF SigningIn
      <4>2. Holders(p) = {}
        BY <1>0, <2>1, <2>3, <3>1, <3>3, <4>1 DEF OnePerson
      <4> QED
        BY <2>2, <3>3, <4>1, <4>2
    <3> QED
      BY <3>2, <3>3
  <2> QED
    BY <2>2, <2>3
<1>4. \A p \in Persons \ crossed' : OnePerson(p)'
  BY <1>2, <1>3 DEF OnePerson
<1>5. \A q \in Requests : req'[q].pc \in {"email", "insert"} => settings' = "completed"
  BY <1>0 DEF PersonInv
<1>6. (\A q \in Requests : CopiesApart(req[q]))'
  BY <1>1
<1> QED
  BY <1>4, <1>5, <1>6 DEF PersonInv

LEMMA NextPersons ==
    ASSUME TypeInv, TypeInv', PersonInv, [Next]_vars PROVE PersonInv'
<1>1. ASSUME Observe, NEW r \in Requests, Acts(r), UNCHANGED users,
             NEW x, Becomes(r, x), CopiesApart(x), Alone(x),
             x.pc \in {"email", "insert"} => settings' = "completed"
      PROVE  PersonInv'
  <2>1. /\ Existing' = Existing /\ \A p : Holders(p)' = Holders(p)
        /\ settings = "completed" => settings' = "completed"
        /\ \A p : Effected(p) \subseteq Effected(p)'
    BY <1>1, VeteransStay, EffectedStay DEF Existing, Holders
  <2>2. \A a : Vouched(a) => Vouched(a)'
    BY <2>1 DEF Vouched
  <2>3. CopiesApart(x)' /\ UsersApart'
    BY <1>1, <2>1, <2>2 DEF CopiesApart, UsersApart, PersonInv
  <2>4. Existing' # {} => settings' = "completed"
    BY <2>1 DEF PersonInv
  <2>5. ASSUME NEW p \in Persons \ crossed, Effected(p)' = {}, OnePerson(p)
        PROVE  /\ \A i, j \in Holders(p)' : i = j
               /\ x.pc \in {"settings", "insert"} /\ x.claim = "verified" /\ x.person = p
                  => Holders(p)' = {}
               /\ \A q \in SigningIn(p) : q # r /\ Holders(p) = {} => Holders(p)' = {}
    BY <1>1, <2>1, <2>5 DEF OnePerson, Alone
  <2> QED
    BY <1>1, <2>3, <2>4, <2>5, ApartStays
<1>2. ASSUME Observe, NEW r \in Requests, Quiet(r) PROVE PersonInv'
  <2>1. PICK x : /\ Becomes(r, x) /\ CopiesApart(x) /\ Alone(x)
                 /\ x.pc \in {"email", "insert"} => settings' = "completed"
    BY <1>2, QuietApart
  <2>2. UNCHANGED users /\ Acts(r)
    BY <1>2, QuietFrame DEF Acts
  <2> QED
    BY <1>1, <1>2, <2>1, <2>2
<1>3. ASSUME Observe, NEW r \in Requests, CreateSession(r) PROVE PersonInv'
  <2>1. PICK x : Becomes(r, x) /\ x.pc = "over"
    BY <1>3, CreatedSession
  <2>2. CopiesApart(x) /\ Alone(x) /\ UNCHANGED users /\ Acts(r)
    BY <1>3, <2>1 DEF CopiesApart, Alone, CreateSession, Acts
  <2> QED
    BY <1>1, <1>3, <2>1, <2>2
<1>4. ASSUME Observe, NEW r \in Requests, InsertUser(r) PROVE PersonInv'
  <2>0. /\ req[r] \in RequestType /\ Fits(req[r]) /\ TypeOK /\ r \in IDs /\ Acts(r)
        /\ req[r].pc = "insert" /\ users[r] = NoUser /\ CopiesApart(req[r])
        /\ settings = "completed" /\ settings' = settings
    BY <1>4, Apart DEF TypeInv, TypeOK, InsertUser, Places, Acts, PersonInv
  <2>1. PICK x : /\ Becomes(r, x) /\ x.kind = req[r].kind /\ x.person = req[r].person
                 /\ x.claim = req[r].claim /\ x.pc \in {"over", "session"}
    BY <1>4, InsertedUser
  <2>2. PICK d \in User, p \in Persons :
           /\ d = req[r].doc /\ p = req[r].person /\ r \in SigningIn(p)
           /\ Sole(d.accounts, p)
    BY <2>0 DEF Fits, CopiesApart, SigningIn
  <2>3. /\ users' = [users EXCEPT ![r] = d] /\ users'[r] = d /\ req'[r] = x
        /\ \A i \in IDs : i # r => users'[i] = users[i]
        /\ d # NoUser
    BY <1>4, <2>0, <2>1, <2>2, Become, Apart DEF InsertUser, TypeOK
  <2>4. Existing' = Existing \cup {r} /\ r \notin Existing
    BY <2>0, <2>3 DEF Existing
  <2>5. /\ \A q : Effected(q) \subseteq Effected(q)'
        /\ req[r].claim # "verified" => r \in Effected(p)'
    BY <2>0, <2>1, <2>2, <2>3, EffectedStay DEF Effected
  <2>6. \A a : Vouched(a) => Vouched(a)'
    BY <2>5 DEF Vouched
  <2>7. UsersApart'
    <3>1. \A a \in d.accounts : Vouched(a)'
      BY <2>0, <2>2, <2>5, <2>6 DEF CopiesApart, Vouched
    <3> QED
      BY <2>2, <2>3, <2>4, <2>6, <3>1 DEF UsersApart, PersonInv, Existing
  <2>8. ASSUME NEW q \in Persons
        PROVE  Holders(q)' = IF q = p THEN Holders(q) \cup {r} ELSE Holders(q)
    BY <2>2, <2>3, <2>4 DEF Holders, Sole, Existing
  <2>9. ASSUME NEW q \in Persons \ crossed, Effected(q)' = {}, OnePerson(q)
        PROVE  /\ \A i, j \in Holders(q)' : i = j
               /\ \A s \in SigningIn(q) : s # r /\ Holders(q) = {} => Holders(q)' = {}
    <3>1. CASE q # p
      BY <2>5, <2>8, <2>9, <3>1 DEF OnePerson
    <3>2. CASE q = p
      <4>1. Effected(q) = {} /\ req[r].claim = "verified"
        BY <2>5, <2>9, <3>2
      <4>2. Holders(q) = {} /\ \A s \in SigningIn(q) : s = r
        BY <2>0, <2>2, <2>9, <3>2, <4>1 DEF OnePerson
      <4> QED
        BY <2>8, <3>2, <4>2
    <3> QED
      BY <3>1, <3>2
  <2>10. CopiesApart(x)' /\ x.pc \notin {"email", "insert", "settings"}
    BY <2>1 DEF CopiesApart
  <2>11. \A i \in Existing, q \in Persons :
            Sole(users[i].accounts, q) => Sole(users'[i].accounts, q)
    BY <2>3, <2>4 DEF Existing
  <2> QED
    BY <1>4, <2>0, <2>1, <2>7, <2>9, <2>10, <2>11, ApartStays
<1>5. ASSUME Observe, NEW r \in Requests, UpdateUser(r) PROVE PersonInv'
  <2>0. /\ req[r] \in RequestType /\ Fits(req[r]) /\ TypeOK /\ Acts(r)
        /\ req[r].pc = "write" /\ CopiesApart(req[r]) /\ settings' = settings
    BY <1>5 DEF TypeInv, TypeOK, UpdateUser, Acts, PersonInv
  <2>1. PICK x : /\ Becomes(r, x)
                 /\ IF req[r].kind \in {"google", "custom"}
                    THEN Kept(req[r], x) /\ x.pc = "session"
                    ELSE IF req[r].kind = "roles" THEN Kept(req[r], x) /\ x.pc = "over"
                         ELSE Gone(x)
    BY <1>5, UpdatedUser
  <2>2. PICK i \in Existing, d \in User, p \in Persons :
           /\ i = req[r].target /\ d = req[r].doc
           /\ Sole(d.accounts, p) /\ Sole(users[i].accounts, p)
    <3>1. req[r].target \in Existing /\ req[r].doc \in User
      BY <2>0 DEF Fits, TypeInv, Places, Existing
    <3> QED
      BY <2>0, <3>1 DEF CopiesApart
  <2>3. /\ users' = [users EXCEPT ![i] = d] /\ users'[i] = d /\ req'[r] = x
        /\ \A j \in IDs : j # i => users'[j] = users[j]
        /\ d # NoUser /\ i \in IDs
    BY <1>5, <2>0, <2>1, <2>2, Become, Apart DEF UpdateUser, TypeOK, Existing
  <2>4. Existing' = Existing
    BY <2>2, <2>3 DEF Existing
  <2>5. /\ \A q : Effected(q) \subseteq Effected(q)'
        /\ \A w : /\ req[r].claim # "verified" /\ req[r].kind \in {"google", "custom"}
                 /\ w = req[r].person
                 => r \in Effected(w)'
    BY <2>0, <2>1, <2>3, EffectedStay DEF Effected, Kept
  <2>6. \A a : Vouched(a) => Vouched(a)'
    BY <2>5 DEF Vouched
  <2>7. ASSUME NEW a \in d.accounts PROVE Vouched(a)'
    <3>1. PICK w : w = req[r].person
      OBVIOUS
    <3>2. \/ Vouched(a)
          \/ /\ req[r].claim # "verified" /\ a.person = w
             /\ req[r].kind \in {"google", "custom"}
      BY <2>0, <2>2, <3>1 DEF CopiesApart
    <3>3. /\ req[r].claim # "verified" /\ req[r].kind \in {"google", "custom"}
             => r \in Effected(w)'
      BY <2>5, <3>1
    <3> QED
      BY <2>6, <3>2, <3>3 DEF Vouched
  <2>8. \A j \in Existing, q \in Persons :
            Sole(users[j].accounts, q) <=> Sole(users'[j].accounts, q)
    <3>1. \A q \in Persons : Sole(d.accounts, q) <=> Sole(users[i].accounts, q)
      BY <2>2 DEF Sole
    <3> QED
      BY <2>3, <3>1 DEF Existing
  <2>9. UsersApart'
    BY <2>2, <2>3, <2>4, <2>6, <2>7, <2>8 DEF UsersApart, PersonInv, Existing
  <2>10. ASSUME NEW q \in Persons PROVE Holders(q)' = Holders(q)
    <3>1. \A a \in d.accounts, b \in users[i].accounts : a.person = b.person
      BY <2>2 DEF Sole
    <3>2. d.accounts # {} /\ users[i].accounts # {}
      BY <2>2 DEF Sole
    <3>3. \A j \in Existing : (\E a \in users'[j].accounts : a.person = q)
                              <=> (\E a \in users[j].accounts : a.person = q)
      BY <2>3, <3>1, <3>2 DEF Existing
    <3> QED
      BY <2>4, <3>3 DEF Holders
  <2>11. CopiesApart(x)' /\ x.pc \in {"session", "over"}
    BY <2>1 DEF CopiesApart, Gone
  <2>12. Existing' # {} => settings' = "completed"
    BY <2>0, <2>4 DEF PersonInv
  <2>13. ASSUME NEW q \in Persons \ crossed, Effected(q)' = {}, OnePerson(q)
         PROVE  /\ \A j, k \in Holders(q)' : j = k
                /\ \A s \in SigningIn(q) : s # r /\ Holders(q) = {} => Holders(q)' = {}
    BY <2>5, <2>10, <2>13 DEF OnePerson
  <2> QED
    BY <1>5, <2>0, <2>1, <2>8, <2>9, <2>11, <2>12, <2>13, ApartStays
<1>6. ASSUME Observe, EndSession PROVE PersonInv'
  <2>1. UNCHANGED <<settings, users, req>> /\ crossed \subseteq crossed'
    BY <1>6 DEF EndSession, Observe
  <2> QED
    BY <2>1 DEF PersonInv, UsersApart, CopiesApart, OnePerson, Holders, SigningIn,
                Effected, Vouched, Existing
<1>7. CASE UNCHANGED vars
  <2>1. UNCHANGED <<settings, users, req, crossed>>
    BY <1>7 DEF vars, ghosts
  <2> QED
    BY <2>1 DEF PersonInv, UsersApart, CopiesApart, OnePerson, Holders, SigningIn,
                Effected, Vouched, Existing
<1> QED
  BY <1>2, <1>3, <1>4, <1>5, <1>6, <1>7, NextIs DEF Acts

\* Where deployed users are persons apart, a person whose tokens are all verified and
\* who never signs in twice at a time is one user, whatever providers they come from
\* and whatever old copies are written back meanwhile.
THEOREM OneUserEach ==
    ASSUME PersonsApart PROVE Spec => []OnePersonOneUser
<1>1. PersonInv => OnePersonOneUser
  <2> SUFFICES ASSUME PersonInv, NEW p \in Persons \ crossed,
                      \A r \in Requests : req[r].person = p => req[r].claim = "verified"
               PROVE  Cardinality(Holders(p)) <= 1
    BY DEF OnePersonOneUser, Holders
  <2>1. Effected(p) = {}
    BY DEF Effected
  <2>2. \A i, j \in Holders(p) : i = j
    BY <2>1 DEF PersonInv, OnePerson
  <2> QED
    BY <2>2, AtMostOne
<1> QED
  BY InitTyped, NextTyped, InitPersons, NextPersons, <1>1, PTL DEF Spec
=============================================================================
