--------------------------- MODULE WebStackProofs ---------------------------
(***************************************************************************)
(* Proofs about WebStack and Accounts, for any accounts, grants, requests, *)
(* stores and bounds.                                                      *)
(*                                                                         *)
(* AccountsInv says where an account comes from and what a permission      *)
(* check has seen.  WebInv follows a session from the cookie through a     *)
(* request to the cookie again: what a request has loaded is what it means *)
(* to leave until it is written, a request that nothing disturbs finds the *)
(* cookie and the row it began with, and while all is calm the session     *)
(* holds the token of the page.                                            *)
(***************************************************************************)
EXTENDS WebStack, TLAPS

-----------------------------------------------------------------------------
(* Where the accounts come from. *)

(* A call whose name was free when it looked. *)
Named(c) == creating[c].stage \in {"insert", "created", "exists", "unique"}

(* A name that is neither in use at the start nor created twice. *)
CreatedOK(c) ==
    LET k == creating[c] IN
    /\ k.name \in DOMAIN accounts \ DOMAIN FirstAccounts
    /\ accounts[k.name].password = k.password
    /\ accounts[k.name].super = k.super
    /\ \A d \in Caller \ {c} : ~(creating[d].stage = "created" /\ creating[d].name = k.name)

(* Every account was there from the start or is reported by one call. *)
AccountsInv ==
    /\ DOMAIN FirstAccounts \subseteq DOMAIN accounts
    /\ \A n \in DOMAIN accounts \ DOMAIN FirstAccounts :
          \E c \in Caller : creating[c].stage = "created" /\ creating[c].name = n
    /\ \A c \in Caller :
          /\ Named(c) =>
                /\ creating[c].name # "" /\ creating[c].password \in Password
                /\ creating[c].super => creating[c].password # ""
          /\ creating[c].stage = "created" => CreatedOK(c)
          /\ creating[c].stage \in {"exists", "unique"} => creating[c].name \in DOMAIN accounts
          /\ creating[c].stage \in {"insert", "unique"} =>
                creating[c].name \notin DOMAIN FirstAccounts

-----------------------------------------------------------------------------
(* What a permission check has seen. *)

(* The grants are between those all the time and those at some time. *)
Between(k) ==
    /\ k.always[1] \subseteq direct /\ direct \subseteq k.ever[1]
    /\ k.always[2] \subseteq member /\ member \subseteq k.ever[2]
    /\ k.always[3] \subseteq granted /\ granted \subseteq k.ever[3]

(* No permission was there directly all the time. *)
NotDirect(k) == \A p \in Wanted : <<k.user.name, p>> \notin k.always[1]

(* The groups that were read bracket the memberships. *)
GroupsOK(k) ==
    /\ \A g \in k.groups : <<k.user.name, g>> \in k.ever[2]
    /\ \A g \in Group : <<k.user.name, g>> \in k.always[2] => g \in k.groups

Justified(k) ==
    k.user.active /\ ~k.user.super =>
        /\ k.answer => Holds(k.user.name, k.ever)
        /\ ~k.answer => ~Holds(k.user.name, k.always)

(* What each stage of a check knows. *)
CheckOK(k) ==
    /\ k.stage # "idle" => Between(k) /\ k.user \in User
    /\ k.stage # "done" => k.answer = None
    /\ k.stage \in {"groups", "grant"} => NotDirect(k)
    /\ k.stage = "grant" => GroupsOK(k)
    /\ k.stage = "done" => Justified(k)

ChecksInv == \A c \in Checker : CheckOK(check[c])

-----------------------------------------------------------------------------
(* What a request carries. *)

(* Nothing is answered before the view, no cookie goes out before the save, *)
(* and only a row is looked for before it is written.                      *)
StageOK(q) ==
    /\ q.pc \in {"idle", "decode", "user", "handle", "perm"} => q.status = 0 /\ q.shown = None
    /\ q.pc \notin {"after", "respond"} => q.out = None
    /\ q.pc = "perm" => q.kind = "guarded"
    /\ q.pc = "write" => store = "db" /\ q.sess.key # None
    /\ q.shown # None => q.shown = q.meant.token

StagesInv == \A r \in Checker : StageOK(req[r])

Carrying(q) == q.pc \in {"user", "handle", "perm", "save", "write"}

(* Every session in a cookie, a row or a request is one that was meant. *)
MeantInv ==
    /\ Empty \in values
    /\ \A k \in DOMAIN rows : rows[k] \in values
    /\ store = "cookie" =>
          /\ jar \in values \cup {None}
          /\ \A r \in Checker : {req[r].cookie, req[r].out} \subseteq values \cup {None}
    /\ \A r \in Checker :
          Carrying(req[r]) => req[r].sess.data = req[r].meant /\ req[r].meant \in values

(* A user in a session has logged in; the requests note the staff they meet. *)
StaffInv ==
    /\ \A v \in values : v.user \in loggedIn \cup {None}
    /\ \A r \in Checker :
          /\ Open(r) => StaffNow \subseteq req[r].could
          /\ req[r].user # None =>
                /\ req[r].user.name \in loggedIn
                /\ req[r].user.staff => req[r].user.name \in req[r].could
          /\ req[r].kind = "admin" /\ req[r].status = 200 => Passes(req[r].user)

-----------------------------------------------------------------------------
(* A request that nothing disturbs. *)

Alone(r) == Open(r) /\ req[r].alone

(* What it will leave is settled, whichever cookie it answers with. *)
Settled(q) ==
    /\ q.out = None => Kept(q.cookie) = q.meant
    /\ q.out # None => Kept(q.out) = q.meant

AloneOK(r) ==
    LET q == req[r] IN
    /\ \A o \in Checker \ {r} : ~Open(o)
    /\ jar = q.cookie
    /\ q.pc \in {"user", "handle", "perm", "save"} /\ ~q.sess.modified =>
          q.sess.data = Kept(q.cookie)
    /\ q.pc = "write" => (q.found <=> q.sess.key \in DOMAIN rows)
    /\ q.pc \in {"after", "respond"} => Settled(q)

AloneInv == \A r \in Checker : Alone(r) => AloneOK(r)

(* While all is calm the session holds the token of the page, unless the   *)
(* request that is open is going to take the page away.                    *)
CalmInv ==
    calm =>
        /\ \A r \in Checker : Open(r) =>
              /\ req[r].alone
              /\ req[r].pc = "decode" =>
                    /\ page # None => Kept(jar).token = page
                    /\ req[r].kind \in Posts => page # None /\ req[r].submitted = page
              /\ req[r].pc # "decode" /\ req[r].status # 302 /\ page # None =>
                    req[r].meant.token = page
              /\ req[r].kind \in Posts => req[r].status # 403
        /\ (\A r \in Checker : ~Open(r)) /\ page # None => Kept(jar).token = page

-----------------------------------------------------------------------------
(* The types of the tables and of the calls on them. *)

(* A tuple of three sets is what its components are. *)
LEMMA GrantSetsFacts ==
    ASSUME NEW s \in GrantSets
    PROVE  /\ s[1] \subseteq Name \X Perm /\ s[2] \subseteq Name \X Group
           /\ s[3] \subseteq Group \X Perm
BY DEF GrantSets

(* A call that starts changes itself only. *)
LEMMA CreatesType ==
    ASSUME AccountsTypeOK, NEW c \in Caller,
           NEW stage \in {"insert", "exists", "empty", "refused"},
           NEW name \in Name \cup {""}, NEW password \in Password \cup {""},
           NEW super \in BOOLEAN, Creates(c, stage, name, password, super)
    PROVE  creating' \in [Caller -> Creation]
BY DEF Creates, AccountsTypeOK, Creation

(* CreateUser and CreateSuperuser are a Look for some name and password, or *)
(* the command refuses what it has collected.                              *)
LEMMA CreateStages ==
    ASSUME NEW c \in Caller, CreateUser(c) \/ CreateSuperuser(c)
    PROVE  /\ UNCHANGED <<accounts, grants, check, changes>>
           /\ creating[c].stage = "idle"
           /\ \E stage \in {"insert", "exists", "empty", "refused"}, name \in Name \cup {""},
                 password \in Password \cup {""}, super \in BOOLEAN :
                /\ Creates(c, stage, name, password, super)
                /\ stage \in {"insert", "exists"} =>
                      /\ name # "" /\ password \in Password
                      /\ super => password # ""
                /\ stage = "exists" => name \in DOMAIN accounts
                /\ stage = "insert" => name \notin DOMAIN accounts
<1>1. CASE CreateUser(c)
  <2>1. PICK name \in Name \cup {""}, password \in Password : Look(c, name, password, FALSE)
    BY <1>1 DEF CreateUser
  <2>2. PICK stage \in {"insert", "exists", "empty"} :
              /\ Creates(c, stage, name, password, FALSE)
              /\ stage # "empty" => name # ""
              /\ stage = "exists" => name \in DOMAIN accounts
              /\ stage = "insert" => name \notin DOMAIN accounts
    BY <2>1 DEF Look
  <2> QED BY <1>1, <2>1, <2>2 DEF CreateUser
<1>2. CASE CreateSuperuser(c)
  <2>1. PICK noInput \in BOOLEAN, flag \in Name \cup {""}, other \in Name \cup {""},
             first \in Password \cup {""}, second \in Password \cup {""} :
               IF Collect(noInput, flag, other, first, second).ok
               THEN Look(c, Collect(noInput, flag, other, first, second).name,
                         Collect(noInput, flag, other, first, second).password, TRUE)
               ELSE Creates(c, "refused", "", "", TRUE)
    BY <1>2 DEF CreateSuperuser
  <2> DEFINE in == Collect(noInput, flag, other, first, second)
  <2>2. /\ in.name \in Name \cup {""} /\ in.password = first
        /\ in.ok => first # ""
    BY DEF Collect
  <2>3. CASE in.ok
    <3>1. PICK stage \in {"insert", "exists", "empty"} :
                /\ Creates(c, stage, in.name, in.password, TRUE)
                /\ stage # "empty" => in.name # ""
                /\ stage = "exists" => in.name \in DOMAIN accounts
                /\ stage = "insert" => in.name \notin DOMAIN accounts
      BY <2>1, <2>3 DEF Look
    <3> QED BY <1>2, <2>2, <2>3, <3>1 DEF CreateSuperuser
  <2>4. CASE ~in.ok
    BY <1>2, <2>1, <2>4 DEF CreateSuperuser
  <2> QED BY <2>3, <2>4
<1> QED BY <1>1, <1>2

(* What InsertUser does: the name is taken by now, or the row is added. *)
LEMMA InsertEffect ==
    ASSUME AccountsTypeOK, NEW c \in Caller, InsertUser(c)
    PROVE  /\ UNCHANGED <<grants, check, changes>>
           /\ creating[c].stage = "insert"
           /\ \A d \in Caller :
                 /\ creating'[d].name = creating[d].name
                 /\ creating'[d].password = creating[d].password
                 /\ creating'[d].super = creating[d].super
                 /\ d # c => creating'[d].stage = creating[d].stage
           /\ \/ /\ creating[c].name \in DOMAIN accounts
                 /\ creating'[c].stage = "unique" /\ UNCHANGED accounts
              \/ /\ creating[c].name \notin DOMAIN accounts
                 /\ creating'[c].stage = "created"
                 /\ DOMAIN accounts' = DOMAIN accounts \cup {creating[c].name}
                 /\ accounts'[creating[c].name] =
                      Account(TRUE, creating[c].super, creating[c].super, creating[c].password)
                 /\ \A n \in DOMAIN accounts : accounts'[n] = accounts[n]
           /\ creating' \in [Caller -> Creation]
           /\ accounts' = [n \in DOMAIN accounts' |-> accounts'[n]]
<1> DEFINE call == creating[c]
           row == Account(TRUE, call.super, call.super, call.password)
<1>1. /\ UNCHANGED <<grants, check, changes>> /\ call.stage = "insert"
      /\ IF call.name \in DOMAIN accounts
         THEN /\ creating' = [creating EXCEPT ![c].stage = "unique"]
              /\ UNCHANGED accounts
         ELSE /\ creating' = [creating EXCEPT ![c].stage = "created"]
              /\ accounts' = With(accounts, call.name, row)
  BY DEF InsertUser, Taken
<1>2. creating \in [Caller -> Creation] /\ accounts \in [DOMAIN accounts -> AccountRow]
  BY DEF AccountsTypeOK
<1>3. /\ creating' \in [Caller -> Creation]
      /\ \A d \in Caller :
            /\ creating'[d].name = creating[d].name
            /\ creating'[d].password = creating[d].password
            /\ creating'[d].super = creating[d].super
            /\ d # c => creating'[d].stage = creating[d].stage
      /\ creating'[c].stage = IF call.name \in DOMAIN accounts THEN "unique" ELSE "created"
  <2>1. CASE call.name \in DOMAIN accounts
    <3>1. creating' = [creating EXCEPT ![c].stage = "unique"]
      BY <1>1, <2>1
    <3> QED BY <1>2, <2>1, <3>1 DEF Creation
  <2>2. CASE call.name \notin DOMAIN accounts
    <3>1. creating' = [creating EXCEPT ![c].stage = "created"]
      BY <1>1, <2>2
    <3> QED BY <1>2, <2>2, <3>1 DEF Creation
  <2> QED BY <2>1, <2>2
<1>4. CASE call.name \in DOMAIN accounts
  BY <1>1, <1>2, <1>3, <1>4
<1>5. CASE call.name \notin DOMAIN accounts
  <2>1. accounts' = With(accounts, call.name, row)
    BY <1>1, <1>5
  <2> HIDE DEF row
  <2>2. accounts' = [n \in DOMAIN accounts \cup {call.name} |->
                       IF n = call.name THEN row ELSE accounts[n]]
    BY <2>1 DEF With
  <2>3. /\ DOMAIN accounts' = DOMAIN accounts \cup {call.name} /\ accounts'[call.name] = row
        /\ \A n \in DOMAIN accounts : accounts'[n] = accounts[n]
        /\ accounts' = [n \in DOMAIN accounts' |-> accounts'[n]]
    BY <2>2, <1>5
  <2>4. row = Account(TRUE, call.super, call.super, call.password)
    BY DEF row
  <2> QED BY <1>1, <1>3, <1>5, <2>3, <2>4
<1> QED BY <1>4, <1>5

-----------------------------------------------------------------------------
(* The steps of a permission check. *)

(* A step of a check changes its stage and, at the end, its answer; the    *)
(* groups it has read; and no other check.                                 *)
CheckMoves(c) ==
    /\ UNCHANGED <<accounts, grants, creating, changes>>
    /\ check' \in [Checker -> Check]
    /\ \A d \in Checker \ {c} : check'[d] = check[d]
    /\ check'[c].user = check[c].user /\ check'[c].ever = check[c].ever
    /\ check'[c].always = check[c].always

(* An answer is the last thing that a check changes. *)
LEMMA AnsweredEffect ==
    ASSUME check \in [Checker -> Check], NEW c \in Checker,
           NEW answer \in BOOLEAN, Answered(c, answer)
    PROVE  /\ check' \in [Checker -> Check]
           /\ \A d \in Checker \ {c} : check'[d] = check[d]
           /\ check'[c].user = check[c].user /\ check'[c].ever = check[c].ever
           /\ check'[c].always = check[c].always
           /\ check'[c].stage = "done" /\ check'[c].answer = answer
BY DEF Answered, Check

(* CheckDirect with the outcomes it can have. *)
LEMMA DirectEffect ==
    ASSUME AccountsTypeOK, NEW c \in Checker, CheckDirect(c),
           UNCHANGED <<accounts, grants, creating, changes>>
    PROVE  /\ CheckMoves(c) /\ check[c].stage = "direct"
           /\ \/ /\ check'[c].stage = "done" /\ check'[c].answer = FALSE /\ Wanted = {}
              \/ /\ check'[c].stage = "done" /\ check'[c].answer = TRUE
                 /\ \E p \in Wanted : <<check[c].user.name, p>> \in direct
              \/ /\ check'[c].stage = "groups" /\ check'[c].answer = check[c].answer
                 /\ \A p \in Wanted : <<check[c].user.name, p>> \notin direct
<1>1. check \in [Checker -> Check] /\ check[c].stage = "direct"
  BY DEF AccountsTypeOK, CheckDirect
<1>2. CASE Wanted = {}
  <2>1. Answered(c, FALSE)
    BY <1>2 DEF CheckDirect
  <2> QED BY <1>1, <1>2, <2>1, AnsweredEffect DEF CheckMoves
<1>3. CASE Wanted # {} /\ \E p \in Wanted : <<check[c].user.name, p>> \in direct
  <2>1. Answered(c, TRUE)
    BY <1>3 DEF CheckDirect
  <2> QED BY <1>1, <1>3, <2>1, AnsweredEffect DEF CheckMoves
<1>4. CASE Wanted # {} /\ ~ \E p \in Wanted : <<check[c].user.name, p>> \in direct
  <2>1. check' = [check EXCEPT ![c].stage = "groups"]
    BY <1>4 DEF CheckDirect
  <2> QED BY <1>1, <1>4, <2>1 DEF CheckMoves, Check
<1> QED BY <1>2, <1>3, <1>4

(* CheckGroups with the outcomes it can have. *)
LEMMA GroupsEffect ==
    ASSUME AccountsTypeOK, NEW c \in Checker, CheckGroups(c),
           UNCHANGED <<accounts, grants, creating, changes>>
    PROVE  /\ CheckMoves(c) /\ check[c].stage = "groups"
           /\ \/ /\ check'[c].stage = "done" /\ check'[c].answer = FALSE
                 /\ \A g \in Group : <<check[c].user.name, g>> \notin member
              \/ /\ check'[c].stage = "grant" /\ check'[c].answer = check[c].answer
                 /\ check'[c].groups = {g \in Group : <<check[c].user.name, g>> \in member}
<1> DEFINE groups == {g \in Group : <<check[c].user.name, g>> \in member}
<1>1. check \in [Checker -> Check] /\ check[c].stage = "groups" /\ groups \subseteq Group
  BY DEF AccountsTypeOK, CheckGroups
<1>2. CASE groups = {}
  <2>1. Answered(c, FALSE)
    BY <1>2 DEF CheckGroups
  <2> QED BY <1>1, <1>2, <2>1, AnsweredEffect DEF CheckMoves
<1>3. CASE groups # {}
  <2>1. check' = [check EXCEPT ![c].stage = "grant", ![c].groups = groups]
    BY <1>3 DEF CheckGroups
  <2> HIDE DEF groups
  <2>2. /\ CheckMoves(c) /\ check'[c].stage = "grant"
        /\ check'[c].answer = check[c].answer /\ check'[c].groups = groups
    BY <1>1, <2>1 DEF CheckMoves, Check
  <2> QED BY <1>1, <2>2 DEF groups
<1> QED BY <1>2, <1>3

(* CheckGrant answers. *)
LEMMA GrantEffect ==
    ASSUME AccountsTypeOK, NEW c \in Checker, CheckGrant(c),
           UNCHANGED <<accounts, grants, creating, changes>>
    PROVE  /\ CheckMoves(c) /\ check[c].stage = "grant" /\ check'[c].stage = "done"
           /\ check'[c].answer = (Grants(c) # {})
BY AnsweredEffect DEF AccountsTypeOK, CheckGrant, CheckMoves

(* The steps of a check keep the invariant of the checks. *)
LEMMA CheckStepOK ==
    ASSUME AccountsTypeOK, ChecksInv, NEW c \in Checker, CheckStep(c)
    PROVE  CheckMoves(c) /\ ChecksInv'
<1>1. UNCHANGED <<accounts, grants, creating, changes>>
  BY DEF CheckStep
<1>2. UNCHANGED <<direct, member, granted>>
  BY <1>1 DEF grants
<1>3. ASSUME CheckMoves(c), CheckOK(check[c])'
      PROVE  ChecksInv'
  <2>1. ASSUME NEW d \in Checker \ {c} PROVE CheckOK(check[d])'
    BY <1>2, <1>3, <2>1, ZenonT(60) DEF ChecksInv, CheckOK, Between, NotDirect, GroupsOK, Justified,
          CheckMoves, Holds
  <2> QED BY <1>3, <2>1 DEF ChecksInv
<1> DEFINE k == check[c]
<1>4. CheckOK(k) /\ k \in Check
  BY DEF ChecksInv, AccountsTypeOK
<1>5. CASE CheckDirect(c)
  <2>1. /\ CheckMoves(c) /\ k.stage = "direct"
        /\ \/ /\ k'.stage = "done" /\ k'.answer = FALSE /\ Wanted = {}
           \/ /\ k'.stage = "done" /\ k'.answer = TRUE
              /\ \E p \in Wanted : <<k.user.name, p>> \in direct
           \/ /\ k'.stage = "groups" /\ k'.answer = k.answer
              /\ \A p \in Wanted : <<k.user.name, p>> \notin direct
    BY <1>1, <1>5, DirectEffect
  <2>2. Between(k)' /\ k'.user \in User
    BY <1>2, <1>4, <2>1 DEF CheckOK, Between, CheckMoves
  <2>3. CASE k'.stage = "done" /\ k'.answer = FALSE /\ Wanted = {}
    BY <2>1, <2>2, <2>3, <1>3 DEF CheckOK, Justified, Holds
  <2>4. CASE k'.stage = "done" /\ k'.answer = TRUE
              /\ \E p \in Wanted : <<k.user.name, p>> \in direct
    BY <1>2, <2>1, <2>2, <2>4, <1>3 DEF CheckOK, Justified, Holds, Between, CheckMoves
  <2>5. CASE k'.stage = "groups" /\ k'.answer = k.answer
              /\ \A p \in Wanted : <<k.user.name, p>> \notin direct
    <3>1. NotDirect(k)' /\ k'.answer = None
      BY <1>2, <1>4, <2>1, <2>2, <2>5 DEF NotDirect, Between, CheckMoves, CheckOK
    <3> QED BY <2>1, <2>2, <2>5, <3>1, <1>3 DEF CheckOK
  <2> QED BY <2>1, <2>3, <2>4, <2>5
<1>6. CASE CheckGroups(c)
  <2>1. /\ CheckMoves(c) /\ k.stage = "groups"
        /\ \/ /\ k'.stage = "done" /\ k'.answer = FALSE
              /\ \A g \in Group : <<k.user.name, g>> \notin member
           \/ /\ k'.stage = "grant" /\ k'.answer = k.answer
              /\ k'.groups = {g \in Group : <<k.user.name, g>> \in member}
    BY <1>1, <1>6, GroupsEffect
  <2>2. Between(k)' /\ k'.user \in User /\ NotDirect(k)' /\ k.answer = None
    BY <1>2, <1>4, <2>1 DEF CheckOK, Between, CheckMoves, NotDirect
  <2>3. CASE k'.stage = "done" /\ k'.answer = FALSE
              /\ \A g \in Group : <<k.user.name, g>> \notin member
    <3>1. ~Holds(k.user.name, k.always)'
      BY <1>2, <2>1, <2>2, <2>3 DEF Holds, NotDirect, Between, CheckMoves
    <3> QED BY <2>1, <2>2, <2>3, <3>1, <1>3 DEF CheckOK, Justified
  <2>4. CASE k'.stage = "grant" /\ k'.answer = k.answer
              /\ k'.groups = {g \in Group : <<k.user.name, g>> \in member}
    <3>1. GroupsOK(k)'
      BY <1>2, <2>1, <2>2, <2>4 DEF GroupsOK, Between, CheckMoves
    <3> QED BY <2>1, <2>2, <2>4, <3>1, <1>3 DEF CheckOK
  <2> QED BY <2>1, <2>3, <2>4
<1>7. CASE CheckGrant(c)
  <2>1. /\ CheckMoves(c) /\ k.stage = "grant" /\ k'.stage = "done"
        /\ k'.answer = (Grants(c) # {})
    BY <1>1, <1>7, GrantEffect
  <2>2. Between(k) /\ Between(k)' /\ k'.user \in User /\ NotDirect(k) /\ GroupsOK(k)
    BY <1>2, <1>4, <2>1 DEF CheckOK, Between, CheckMoves
  <2>3. CASE Grants(c) # {}
    <3>1. PICK gp \in granted : gp[1] \in k.groups /\ gp[2] \in Wanted
      BY <2>3 DEF Grants
    <3>2. gp = <<gp[1], gp[2]>> /\ gp[1] \in Group
      BY <3>1 DEF AccountsTypeOK
    <3>3. <<k.user.name, gp[1]>> \in k.ever[2] /\ <<gp[1], gp[2]>> \in k.ever[3]
      BY <2>2, <3>1, <3>2 DEF GroupsOK, Between
    <3>4. Holds(k.user.name, k.ever)
      BY <3>1, <3>2, <3>3 DEF Holds
    <3>5. k'.answer = TRUE
      BY <2>1, <2>3
    <3> QED BY <2>1, <2>2, <3>4, <3>5, <1>3 DEF CheckOK, Justified, CheckMoves
  <2>4. CASE Grants(c) = {}
    <3>1. ASSUME NEW p \in Wanted, NEW g \in Group, <<k.user.name, g>> \in k.always[2],
                 <<g, p>> \in k.always[3]
          PROVE  FALSE
      <4>1. g \in k.groups /\ <<g, p>> \in granted
        BY <2>2, <3>1 DEF GroupsOK, Between
      <4> QED BY <2>4, <4>1, <3>1 DEF Grants
    <3>2. ~Holds(k.user.name, k.always)
      BY <2>2, <3>1 DEF Holds, NotDirect
    <3>3. k'.answer = FALSE
      BY <2>1, <2>4
    <3> QED BY <2>1, <2>2, <3>2, <3>3, <1>3 DEF CheckOK, Justified, CheckMoves
  <2> QED BY <2>3, <2>4
<1> QED BY <1>5, <1>6, <1>7 DEF CheckStep

-----------------------------------------------------------------------------
(* The site changes an account or a grant. *)

(* Whatever grant changes, each check widens what has been there at some   *)
(* time and narrows what has been there all the time.                      *)
LEMMA RegrantEffect ==
    ASSUME AccountsTypeOK, Regrant
    PROVE  /\ UNCHANGED <<accounts, creating>> /\ changes' \in Nat
           /\ direct' \subseteq Name \X Perm /\ member' \subseteq Name \X Group
           /\ granted' \subseteq Group \X Perm
           /\ check' \in [Checker -> Check]
           /\ \A c \in Checker :
                 LET k == check[c] m == check'[c] IN
                 /\ m.stage = k.stage /\ m.user = k.user /\ m.groups = k.groups
                 /\ m.answer = k.answer
                 /\ m.ever[1] = k.ever[1] \cup direct' /\ m.always[1] = k.always[1] \cap direct'
                 /\ m.ever[2] = k.ever[2] \cup member' /\ m.always[2] = k.always[2] \cap member'
                 /\ m.ever[3] = k.ever[3] \cup granted'
                 /\ m.always[3] = k.always[3] \cap granted'
<1>1. UNCHANGED <<accounts, creating>> /\ changes' \in Nat
  <2>1. changes' = changes + 1 /\ UNCHANGED <<accounts, creating>>
    BY DEF Regrant, Change
  <2> QED BY <2>1 DEF AccountsTypeOK
<1>2. /\ direct' \subseteq Name \X Perm /\ member' \subseteq Name \X Group
      /\ granted' \subseteq Group \X Perm
  <2>1. \/ /\ \E n \in DOMAIN accounts, p \in Perm : direct' = Toggle(direct, <<n, p>>)
           /\ UNCHANGED <<member, granted>>
        \/ /\ \E n \in DOMAIN accounts, g \in Group : member' = Toggle(member, <<n, g>>)
           /\ UNCHANGED <<direct, granted>>
        \/ /\ \E g \in Group, p \in Perm : granted' = Toggle(granted, <<g, p>>)
           /\ UNCHANGED <<direct, member>>
    BY DEF Regrant
  <2>2. CASE /\ \E n \in DOMAIN accounts, p \in Perm : direct' = Toggle(direct, <<n, p>>)
            /\ UNCHANGED <<member, granted>>
    <3>1. PICK n \in DOMAIN accounts, p \in Perm : direct' = Toggle(direct, <<n, p>>)
      BY <2>2
    <3>2. direct' \subseteq Name \X Perm
      BY <3>1 DEF Toggle, AccountsTypeOK
    <3> QED BY <3>2, <2>2 DEF AccountsTypeOK
  <2>3. CASE /\ \E n \in DOMAIN accounts, g \in Group : member' = Toggle(member, <<n, g>>)
            /\ UNCHANGED <<direct, granted>>
    <3>1. PICK n \in DOMAIN accounts, g \in Group : member' = Toggle(member, <<n, g>>)
      BY <2>3
    <3>2. member' \subseteq Name \X Group
      BY <3>1 DEF Toggle, AccountsTypeOK
    <3> QED BY <3>2, <2>3 DEF AccountsTypeOK
  <2>4. CASE /\ \E g \in Group, p \in Perm : granted' = Toggle(granted, <<g, p>>)
            /\ UNCHANGED <<direct, member>>
    <3>1. PICK g \in Group, p \in Perm : granted' = Toggle(granted, <<g, p>>)
      BY <2>4
    <3>2. granted' \subseteq Group \X Perm
      BY <3>1 DEF Toggle, AccountsTypeOK
    <3> QED BY <3>2, <2>4 DEF AccountsTypeOK
  <2> QED BY <2>1, <2>2, <2>3, <2>4
<1>3. check' = [c \in Checker |->
          [check[c] EXCEPT
              !.ever = <<@[1] \cup direct', @[2] \cup member', @[3] \cup granted'>>,
              !.always = <<@[1] \cap direct', @[2] \cap member', @[3] \cap granted'>>]]
  BY DEF Regrant
<1>4. ASSUME NEW c \in Checker
      PROVE  LET k == check[c] m == check'[c] IN
             /\ m \in Check
             /\ m.stage = k.stage /\ m.user = k.user /\ m.groups = k.groups
             /\ m.answer = k.answer
             /\ m.ever[1] = k.ever[1] \cup direct' /\ m.always[1] = k.always[1] \cap direct'
             /\ m.ever[2] = k.ever[2] \cup member' /\ m.always[2] = k.always[2] \cap member'
             /\ m.ever[3] = k.ever[3] \cup granted'
             /\ m.always[3] = k.always[3] \cap granted'
  <2> DEFINE k == check[c]
             ever == <<k.ever[1] \cup direct', k.ever[2] \cup member', k.ever[3] \cup granted'>>
             always == <<k.always[1] \cap direct', k.always[2] \cap member',
                         k.always[3] \cap granted'>>
  <2>1. k \in Check
    BY DEF AccountsTypeOK
  <2>2. k.ever \in GrantSets /\ k.always \in GrantSets
    BY <2>1 DEF Check
  <2>3. ever \in GrantSets /\ always \in GrantSets
    BY <1>2, <2>2, GrantSetsFacts DEF GrantSets
  <2>4. /\ ever[1] = k.ever[1] \cup direct' /\ always[1] = k.always[1] \cap direct'
        /\ ever[2] = k.ever[2] \cup member' /\ always[2] = k.always[2] \cap member'
        /\ ever[3] = k.ever[3] \cup granted' /\ always[3] = k.always[3] \cap granted'
    OBVIOUS
  <2>5. check'[c] = [k EXCEPT !.ever = ever, !.always = always]
    BY <1>3
  <2> HIDE DEF ever, always
  <2>6. /\ check'[c] \in Check /\ check'[c].ever = ever /\ check'[c].always = always
        /\ check'[c].stage = k.stage /\ check'[c].user = k.user
        /\ check'[c].groups = k.groups /\ check'[c].answer = k.answer
    BY <2>1, <2>3, <2>5 DEF Check
  <2> QED BY <2>4, <2>6
<1>5. check' \in [Checker -> Check]
  BY <1>3, <1>4
<1> QED BY <1>1, <1>2, <1>4, <1>5

(* A permission that every grant kept supports stays so with fewer grants, *)
(* and one that some grant supported stays so with more.                   *)
LEMMA HoldsMonotone ==
    ASSUME NEW name, NEW s, NEW t, s[1] \subseteq t[1], s[2] \subseteq t[2], s[3] \subseteq t[3],
           Holds(name, s)
    PROVE  Holds(name, t)
BY DEF Holds

(* A change of a grant keeps the invariant of the checks. *)
LEMMA RegrantOK ==
    ASSUME AccountsTypeOK, ChecksInv, Regrant
    PROVE  ChecksInv'
<1> SUFFICES ASSUME NEW c \in Checker PROVE CheckOK(check[c])'
  BY DEF ChecksInv
<1> DEFINE k == check[c]
<1>1. /\ k'.stage = k.stage /\ k'.user = k.user /\ k'.groups = k.groups
      /\ k'.answer = k.answer
      /\ k'.ever[1] = k.ever[1] \cup direct' /\ k'.always[1] = k.always[1] \cap direct'
      /\ k'.ever[2] = k.ever[2] \cup member' /\ k'.always[2] = k.always[2] \cap member'
      /\ k'.ever[3] = k.ever[3] \cup granted' /\ k'.always[3] = k.always[3] \cap granted'
  BY RegrantEffect
<1>2. CheckOK(k)
  BY DEF ChecksInv
<1>3. k.stage # "idle" => Between(k)' /\ k'.user \in User
  BY <1>1, <1>2 DEF CheckOK, Between
<1>4. NotDirect(k) => NotDirect(k)'
  BY <1>1 DEF NotDirect
<1>5. GroupsOK(k) => GroupsOK(k)'
  BY <1>1 DEF GroupsOK
<1>6. Justified(k) => Justified(k)'
  <2>1. Holds(k.user.name, k.ever) => Holds(k.user.name, k'.ever)
    BY <1>1, HoldsMonotone
  <2>2. Holds(k.user.name, k'.always) => Holds(k.user.name, k.always)
    BY <1>1, HoldsMonotone
  <2> QED BY <1>1, <2>1, <2>2 DEF Justified, Holds
<1> QED BY <1>1, <1>2, <1>3, <1>4, <1>5, <1>6 DEF CheckOK

(* SetActive changes nothing but whether the account is active. *)
LEMMA SetActiveEffect ==
    ASSUME AccountsTypeOK, NEW n \in DOMAIN accounts, NEW active \in BOOLEAN,
           SetActive(n, active)
    PROVE  /\ UNCHANGED <<grants, creating, check>> /\ changes' \in Nat
           /\ DOMAIN accounts' = DOMAIN accounts
           /\ accounts' \in [DOMAIN accounts' -> AccountRow]
           /\ \A m \in DOMAIN accounts :
                 /\ accounts'[m].password = accounts[m].password
                 /\ accounts'[m].super = accounts[m].super
                 /\ accounts'[m].staff = accounts[m].staff
<1>1. /\ accounts \in [DOMAIN accounts -> AccountRow] /\ changes \in Nat
      /\ accounts' = [accounts EXCEPT ![n].active = active]
      /\ UNCHANGED <<grants, creating, check>> /\ changes' = changes + 1
  BY DEF AccountsTypeOK, SetActive, Change
<1> QED BY <1>1 DEF AccountRow

-----------------------------------------------------------------------------
(* The accounts. *)

(* A call that looks for its name keeps AccountsInv. *)
LEMMA CreateOK ==
    ASSUME AccountsTypeOK, AccountsInv, NEW c \in Caller, CreateUser(c) \/ CreateSuperuser(c)
    PROVE  AccountsInv' /\ creating' \in [Caller -> Creation]
<1>1. /\ UNCHANGED accounts /\ creating[c].stage = "idle"
  BY CreateStages
<1>2. PICK stage \in {"insert", "exists", "empty", "refused"}, name \in Name \cup {""},
           password \in Password \cup {""}, super \in BOOLEAN :
                /\ Creates(c, stage, name, password, super)
                /\ stage \in {"insert", "exists"} =>
                      /\ name # "" /\ password \in Password
                      /\ super => password # ""
                /\ stage = "exists" => name \in DOMAIN accounts
                /\ stage = "insert" => name \notin DOMAIN accounts
  BY CreateStages
<1>3. creating' \in [Caller -> Creation]
  <2>1. Creates(c, stage, name, password, super)
    BY <1>2
  <2> QED BY <2>1, CreatesType, Zenon
<1>4. /\ creating'[c].stage = stage /\ creating'[c].name = name
      /\ creating'[c].password = password /\ creating'[c].super = super
      /\ \A d \in Caller \ {c} : creating'[d] = creating[d]
  BY <1>2 DEF Creates, AccountsTypeOK
<1>5. \A d \in Caller : creating'[d].stage = "created" => d # c /\ creating[d].stage = "created"
  BY <1>4
<1>6. ASSUME NEW d \in Caller, creating'[d].stage = "created"
      PROVE  CreatedOK(d)'
  <2>1. d # c /\ CreatedOK(d) /\ creating'[d] = creating[d]
    BY <1>4, <1>5, <1>6 DEF AccountsInv
  <2> QED BY <1>1, <1>4, <1>5, <2>1 DEF CreatedOK
<1>7. ASSUME NEW n \in DOMAIN accounts \ DOMAIN FirstAccounts
      PROVE  \E d \in Caller : creating'[d].stage = "created" /\ creating'[d].name = n
  <2>1. PICK d \in Caller : creating[d].stage = "created" /\ creating[d].name = n
    BY <1>7 DEF AccountsInv
  <2> QED BY <1>1, <1>4, <2>1
<1>8. ASSUME NEW d \in Caller
      PROVE  /\ Named(d)' =>
                   /\ creating'[d].name # "" /\ creating'[d].password \in Password
                   /\ creating'[d].super => creating'[d].password # ""
             /\ creating'[d].stage \in {"exists", "unique"} =>
                   creating'[d].name \in DOMAIN accounts
             /\ creating'[d].stage \in {"insert", "unique"} =>
                   creating'[d].name \notin DOMAIN FirstAccounts
  <2>1. CASE d = c
    BY <1>2, <1>4, <2>1 DEF Named, AccountsInv
  <2>2. CASE d # c
    BY <1>4, <2>2 DEF AccountsInv, Named
  <2> QED BY <2>1, <2>2
<1> QED BY <1>1, <1>3, <1>6, <1>7, <1>8 DEF AccountsInv

(* The insert is where two calls for one name meet: the second finds the   *)
(* row of the first.                                                       *)
LEMMA InsertOK ==
    ASSUME AccountsTypeOK, AccountsInv, NEW c \in Caller, InsertUser(c)
    PROVE  AccountsInv' /\ accounts' \in [DOMAIN accounts' -> AccountRow]
           /\ DOMAIN accounts' \subseteq Name
<1> DEFINE name == creating[c].name
<1>1. /\ creating[c].stage = "insert"
      /\ \A d \in Caller :
            /\ creating'[d].name = creating[d].name
            /\ creating'[d].password = creating[d].password
            /\ creating'[d].super = creating[d].super
            /\ d # c => creating'[d].stage = creating[d].stage
  BY InsertEffect
<1>2. name # "" /\ creating[c].password \in Password
      /\ (creating[c].super => creating[c].password # "")
      /\ name \in Name /\ creating[c].super \in BOOLEAN
  BY <1>1 DEF AccountsInv, Named, AccountsTypeOK, Creation
<1>3. CASE name \in DOMAIN accounts /\ creating'[c].stage = "unique" /\ UNCHANGED accounts
  <2>1. ASSUME NEW d \in Caller, creating'[d].stage = "created"
        PROVE  CreatedOK(d)'
    <3>1. d # c /\ creating[d].stage = "created"
      BY <1>1, <1>3, <2>1
    <3>2. CreatedOK(d)
      BY <3>1 DEF AccountsInv
    <3>3. \A e \in Caller : creating'[e].stage = "created" => creating[e].stage = "created"
      BY <1>1, <1>3
    <3> QED BY <1>1, <1>3, <3>1, <3>2, <3>3 DEF CreatedOK
  <2>2. ASSUME NEW n \in DOMAIN accounts \ DOMAIN FirstAccounts
        PROVE  \E d \in Caller : creating'[d].stage = "created" /\ creating'[d].name = n
    <3>1. PICK d \in Caller : creating[d].stage = "created" /\ creating[d].name = n
      BY <2>2 DEF AccountsInv
    <3> QED BY <1>1, <1>3, <3>1
  <2>3. ASSUME NEW d \in Caller
        PROVE  /\ Named(d)' =>
                     /\ creating'[d].name # "" /\ creating'[d].password \in Password
                     /\ creating'[d].super => creating'[d].password # ""
               /\ creating'[d].stage \in {"exists", "unique"} =>
                     creating'[d].name \in DOMAIN accounts
               /\ creating'[d].stage \in {"insert", "unique"} =>
                     creating'[d].name \notin DOMAIN FirstAccounts
    BY <1>1, <1>3, ZenonT(60) DEF AccountsInv, Named
  <2> QED BY <1>3, <2>1, <2>2, <2>3 DEF AccountsInv, AccountsTypeOK
<1>4. CASE /\ name \notin DOMAIN accounts /\ creating'[c].stage = "created"
           /\ DOMAIN accounts' = DOMAIN accounts \cup {name}
           /\ accounts'[name] =
                Account(TRUE, creating[c].super, creating[c].super, creating[c].password)
           /\ \A n \in DOMAIN accounts : accounts'[n] = accounts[n]
           /\ accounts' = [n \in DOMAIN accounts' |-> accounts'[n]]
  <2>1. /\ accounts'[name] \in AccountRow /\ accounts'[name].super = creating[c].super
        /\ accounts'[name].password = creating[c].password
    <3> DEFINE super == creating[c].super
               password == creating[c].password
    <3>1. super \in BOOLEAN /\ password \in Password
      BY <1>2
    <3>2. accounts'[name] = [active |-> TRUE, staff |-> super, super |-> super,
                             password |-> password]
      BY <1>4 DEF Account
    <3> HIDE DEF super, password
    <3>3. /\ accounts'[name] \in AccountRow /\ accounts'[name].super = super
          /\ accounts'[name].password = password
      BY <3>1, <3>2 DEF AccountRow
    <3> QED BY <3>3 DEF super, password
  <2>2. accounts' \in [DOMAIN accounts' -> AccountRow] /\ DOMAIN accounts' \subseteq Name
    BY <1>2, <1>4, <2>1 DEF AccountsTypeOK
  <2>3. ASSUME NEW d \in Caller, creating'[d].stage = "created"
        PROVE  CreatedOK(d)'
    <3>1. CASE d = c
      <4>1. ASSUME NEW e \in Caller \ {c}, creating'[e].stage = "created",
                   creating'[e].name = name
            PROVE  FALSE
        <5>1. creating[e].stage = "created" /\ creating[e].name = name
          BY <1>1, <4>1
        <5> QED BY <1>4, <5>1 DEF AccountsInv, CreatedOK
      <4> QED BY <1>1, <1>4, <2>1, <3>1, <4>1, ZenonT(60) DEF CreatedOK, AccountsInv
    <3>2. CASE d # c
      <4>1. creating[d].stage = "created" /\ CreatedOK(d)
        BY <1>1, <2>3, <3>2 DEF AccountsInv
      <4>2. creating[d].name # name
        BY <1>4, <4>1 DEF CreatedOK
      <4> QED BY <1>1, <1>4, <4>1, <4>2, <3>2 DEF CreatedOK
    <3> QED BY <3>1, <3>2
  <2>4. ASSUME NEW n \in DOMAIN accounts' \ DOMAIN FirstAccounts
        PROVE  \E d \in Caller : creating'[d].stage = "created" /\ creating'[d].name = n
    <3>1. CASE n = name
      BY <1>1, <1>4, <3>1
    <3>2. CASE n # name
      <4>1. PICK d \in Caller : creating[d].stage = "created" /\ creating[d].name = n
        BY <1>4, <2>4, <3>2 DEF AccountsInv
      <4> QED BY <1>1, <4>1
    <3> QED BY <3>1, <3>2
  <2>5. ASSUME NEW d \in Caller
        PROVE  /\ Named(d)' =>
                     /\ creating'[d].name # "" /\ creating'[d].password \in Password
                     /\ creating'[d].super => creating'[d].password # ""
               /\ creating'[d].stage \in {"exists", "unique"} =>
                     creating'[d].name \in DOMAIN accounts'
               /\ creating'[d].stage \in {"insert", "unique"} =>
                     creating'[d].name \notin DOMAIN FirstAccounts
    <3>1. CASE d = c
      BY <1>1, <1>2, <1>4, <3>1
    <3>2. CASE d # c
      <4>1. Named(d)' => Named(d)
        BY <1>1, <3>2 DEF Named
      <4>2. Named(d) =>
                /\ creating[d].name # "" /\ creating[d].password \in Password
                /\ creating[d].super => creating[d].password # ""
        BY DEF AccountsInv
      <4>3. creating[d].stage \in {"exists", "unique"} => creating[d].name \in DOMAIN accounts
        BY DEF AccountsInv
      <4>5. creating[d].stage \in {"insert", "unique"} =>
              creating[d].name \notin DOMAIN FirstAccounts
        BY DEF AccountsInv
      <4>4. /\ creating'[d].name = creating[d].name
            /\ creating'[d].password = creating[d].password
            /\ creating'[d].super = creating[d].super
            /\ creating'[d].stage = creating[d].stage
        BY <1>1, <3>2
      <4> QED BY <1>4, <4>1, <4>2, <4>3, <4>4, <4>5
    <3> QED BY <3>1, <3>2
  <2>6. DOMAIN FirstAccounts \subseteq DOMAIN accounts'
    BY <1>4 DEF AccountsInv
  <2> QED BY <2>2, <2>3, <2>4, <2>5, <2>6 DEF AccountsInv
<1>5. \/ name \in DOMAIN accounts /\ creating'[c].stage = "unique" /\ UNCHANGED accounts
      \/ /\ name \notin DOMAIN accounts /\ creating'[c].stage = "created"
         /\ DOMAIN accounts' = DOMAIN accounts \cup {name}
         /\ accounts'[name] =
              Account(TRUE, creating[c].super, creating[c].super, creating[c].password)
         /\ \A n \in DOMAIN accounts : accounts'[n] = accounts[n]
         /\ accounts' = [n \in DOMAIN accounts' |-> accounts'[n]]
  BY InsertEffect
<1> QED BY <1>3, <1>4, <1>5

(* Neither a change of an account nor a step that leaves the accounts      *)
(* alone disturbs AccountsInv.                                             *)
LEMMA AccountsKept ==
    ASSUME AccountsInv, UNCHANGED creating, DOMAIN accounts' = DOMAIN accounts,
           \A m \in DOMAIN accounts :
                 /\ accounts'[m].password = accounts[m].password
                 /\ accounts'[m].super = accounts[m].super
    PROVE  AccountsInv'
<1>1. ASSUME NEW d \in Caller, creating[d].stage = "created"
      PROVE  CreatedOK(d)'
  BY <1>1 DEF AccountsInv, CreatedOK
<1> QED BY <1>1 DEF AccountsInv, Named

-----------------------------------------------------------------------------
(* The types of the sessions and the requests. *)

RequestsOK ==
    /\ req \in [Checker -> RequestState]
    /\ \A r \in Checker : req[r].wrote <=> req[r].pc \in {"write", "after", "respond"}

(* More numbers are handed out as time goes on, and the store stays. *)
Later == fresh \in Nat /\ fresh' \in Nat /\ fresh <= fresh' /\ store' = store

(* The other requests stay as they are. *)
Others(r) == \A o \in Checker \ {r} : req'[o] = req[o]

(* What held before the next number was handed out holds after. *)
LEMMA TypesGrow ==
    ASSUME Later
    PROVE  /\ Number \subseteq Number' /\ SessionData \subseteq SessionData'
           /\ Session \subseteq Session' /\ Cookie \subseteq Cookie'
           /\ RequestState \subseteq RequestState'
<1>1. Number \subseteq Number'
  BY DEF Later, Number
<1>2. SessionData \subseteq SessionData'
  BY <1>1 DEF SessionData
<1>3. Session \subseteq Session'
  BY <1>1, <1>2 DEF Session
<1>4. Cookie \subseteq Cookie'
  BY <1>1, <1>2 DEF Later, Cookie
<1>5. RequestState \subseteq RequestState'
  BY <1>1, <1>2, <1>3, <1>4 DEF RequestState
<1> QED BY <1>1, <1>2, <1>3, <1>4, <1>5

(* A step of one request is its new state and the others as they were. *)
LEMMA GoesEffect ==
    ASSUME RequestsOK, Later, NEW r \in Checker, NEW to \in RequestState',
           to.wrote <=> to.pc \in {"write", "after", "respond"}, Goes(r, to)
    PROVE  RequestsOK' /\ req'[r] = to /\ Others(r)
<1>1. req' = [req EXCEPT ![r] = to] /\ req \in [Checker -> RequestState']
  BY TypesGrow DEF Goes, RequestsOK
<1>2. req' \in [Checker -> RequestState'] /\ req'[r] = to /\ Others(r)
  BY <1>1 DEF Others
<1> QED BY <1>2 DEF RequestsOK, Others

(* The fields of the data of a session. *)
LEMMA DataFields ==
    ASSUME NEW d \in SessionData
    PROVE  /\ d \in Data /\ d.token \in Number /\ d.user \in Name \cup {None}
           /\ d.a \in Value \cup {None} /\ d.b \in Value \cup {None}
BY DEF SessionData, Data

(* Changing the user or a value leaves the token as it is. *)
LEMMA DataWithUser ==
    ASSUME NEW d \in SessionData, NEW n \in Name \cup {None}
    PROVE  /\ [d EXCEPT !["user"] = n] \in SessionData
           /\ [d EXCEPT !["user"] = n].token = d.token
           /\ [d EXCEPT !["user"] = n].user = n
BY DEF Data, SessionData

LEMMA DataWithValue ==
    ASSUME NEW d \in SessionData, NEW f \in {"a", "b"}, NEW v \in Value
    PROVE  /\ [d EXCEPT ![f] = v] \in SessionData
           /\ [d EXCEPT ![f] = v].token = d.token
           /\ [d EXCEPT ![f] = v].user = d.user
<1>1. CASE f = "a"
  BY <1>1 DEF Data, SessionData
<1>2. CASE f = "b"
  BY <1>2 DEF Data, SessionData
<1> QED BY <1>1, <1>2

(* The empty session has no token and no user. *)
LEMMA EmptyData ==
    /\ Empty \in SessionData /\ Empty.token = None /\ Empty.user = None
BY DEF Empty, SessionData, Data, Number

(* Rotate and Clear with all their fields. *)
LEMMA RotateIs ==
    ASSUME NEW s \in Session, NEW key
    PROVE  Rotate(s, key) = [key |-> key, data |-> s.data, modified |-> TRUE]
<1> DEFINE mid == [s EXCEPT !.key = key]
<1>1. Rotate(s, key) = [mid EXCEPT !.modified = TRUE]
  BY DEF Rotate
<1>2. mid = [key |-> key, data |-> s.data, modified |-> s.modified]
  BY DEF Session
<1> HIDE DEF mid
<1> QED BY <1>1, <1>2

LEMMA ClearIs ==
    ASSUME NEW s \in Session
    PROVE  Clear(s) = [key |-> s.key, data |-> Empty, modified |-> TRUE]
<1> DEFINE mid == [s EXCEPT !.data = Empty]
<1>1. Clear(s) = [mid EXCEPT !.modified = TRUE]
  BY DEF Clear
<1>2. mid = [key |-> s.key, data |-> Empty, modified |-> s.modified]
  BY DEF Session
<1> HIDE DEF mid
<1> QED BY <1>1, <1>2

(* What Decode of either store returns is a session, unmodified. *)
LEMMA DecodedType ==
    ASSUME TypeOK, NEW cookie \in Cookie
    PROVE  Decoded(cookie) \in Session /\ ~Decoded(cookie).modified
<1>1. None \in Number /\ NewSession \in Session /\ ~NewSession.modified
  BY EmptyData DEF Number, NewSession, Session
<1>2. CASE store = "db"
  <2>1. CASE cookie \in DOMAIN rows
    <3>1. rows[cookie] \in SessionData /\ cookie \in Number
      BY <2>1 DEF TypeOK, Number
    <3> QED BY <1>2, <2>1, <3>1 DEF Decoded, DecodedRow, Session
  <2>2. CASE cookie \notin DOMAIN rows
    BY <1>1, <1>2, <2>2 DEF Decoded, DecodedRow
  <2> QED BY <2>1, <2>2
<1>3. CASE store # "db"
  <2>1. CASE cookie = None
    BY <1>1, <1>3, <2>1 DEF Decoded, DecodedCookie
  <2>2. CASE cookie # None
    <3>1. cookie \in SessionData
      BY <1>3, <2>2 DEF Cookie
    <3> QED BY <1>1, <1>3, <2>2, <3>1 DEF Decoded, DecodedCookie, Session
  <2> QED BY <2>1, <2>2
<1> QED BY <1>2, <1>3

(* A session that has no token gets the next number; no other field        *)
(* changes, and one that has a token stays as it is.                       *)
LEMMA SeededEffect ==
    ASSUME fresh \in Nat, NEW s \in Session, ~s.modified
    PROVE  /\ s.data.token # None => Seeded(s) = s
           /\ s.data.token = None => /\ Seeded(s).modified
                                     /\ Seeded(s).data.token = fresh + 1
           /\ Seeded(s).data.token # None /\ Seeded(s).data.user = s.data.user
           /\ Seeded(s).key = s.key /\ Seeded(s).data \in Data
           /\ Seeded(s).modified \in BOOLEAN
           /\ Seeded(s) = [key |-> s.key, data |-> Seeded(s).data,
                           modified |-> Seeded(s).modified]
<1>1. s.data \in Data /\ s.data.token \in Number /\ s.key \in Number
  BY DataFields DEF Session
<1>2. CASE s.data.token # None
  BY <1>1, <1>2 DEF Seeded, Session
<1>3. CASE s.data.token = None
  <2> DEFINE d == [s.data EXCEPT !["token"] = fresh + 1]
  <2>1. d \in Data /\ d.token = fresh + 1 /\ d.user = s.data.user
    BY <1>1 DEF Data
  <2>2. Seeded(s) = [s EXCEPT !.data = d, !.modified = TRUE]
    BY <1>3 DEF Seeded, Set
  <2> HIDE DEF d
  <2>3. /\ Seeded(s).data = d /\ Seeded(s).modified = TRUE /\ Seeded(s).key = s.key
        /\ Seeded(s) = [key |-> s.key, data |-> d, modified |-> TRUE]
    BY <2>2 DEF Session
  <2> QED BY <1>3, <2>1, <2>3, NoneAssumption
<1> QED BY <1>2, <1>3

-----------------------------------------------------------------------------
(* What the steps change of a request. *)

SameRequest(q, t) ==
    /\ t.kind = q.kind /\ t.cookie = q.cookie /\ t.submitted = q.submitted
    /\ t.could = q.could
SameSession(q, t) == t.sess = q.sess /\ t.meant = q.meant
SameAnswer(q, t) == t.status = q.status /\ t.shown = q.shown
SameSave(q, t) == t.out = q.out /\ t.found = q.found

(* What a view may do: all that it makes of the session and of the answer. *)
ServedAs(q, t) ==
    /\ q.pc \in {"handle", "perm"} /\ t.pc \in {"save", "perm"}
    /\ SameRequest(q, t) /\ SameSave(q, t) /\ t.alone = q.alone /\ t.user = q.user
    /\ t.pc = "perm" => t.kind = "guarded" /\ SameAnswer(q, t)
    /\ t.pc = "save" =>
          /\ t.shown = None \/ t.shown = t.meant.token
          /\ t.status = 403 => t.kind = "guarded"
          /\ t.kind = "admin" /\ t.status = 200 => Passes(t.user)
    /\ q.sess.data = q.meant => t.sess.data = t.meant
    /\ ~t.sess.modified => SameSession(q, t)
    /\ t.status # 302 => t.meant.token = q.meant.token

Served(r) ==
    /\ ServedAs(req[r], req'[r]) /\ Others(r)
    /\ values \subseteq values' /\ values' \subseteq values \cup {req'[r].meant}
    /\ req'[r].meant \in values' \cup {req[r].meant}
    /\ loggedIn \subseteq loggedIn'
    /\ req'[r].meant.user \in loggedIn' \cup {req[r].meant.user, None}
    /\ UNCHANGED <<accounts, rows, jar, page, calm, store, header, setting, sent, faults>>

(* The types of what a view changes. *)
ServedTypes ==
    Later /\ RequestsOK' /\ values' \subseteq SessionData' /\ loggedIn' \subseteq Name

(* A request with one field changed. *)
WithPC(q, x) == [q EXCEPT !.pc = x]
WithKind(q, x) == [q EXCEPT !.kind = x]
WithCookie(q, x) == [q EXCEPT !.cookie = x]
WithSubmitted(q, x) == [q EXCEPT !.submitted = x]
WithSess(q, x) == [q EXCEPT !.sess = x]
WithMeant(q, x) == [q EXCEPT !.meant = x]
WithUser(q, x) == [q EXCEPT !.user = x]
WithStatus(q, x) == [q EXCEPT !.status = x]
WithShown(q, x) == [q EXCEPT !.shown = x]
WithWrote(q, x) == [q EXCEPT !.wrote = x]
WithOut(q, x) == [q EXCEPT !.out = x]
WithFound(q, x) == [q EXCEPT !.found = x]
WithAlone(q, x) == [q EXCEPT !.alone = x]
WithCould(q, x) == [q EXCEPT !.could = x]

Stage == {"idle", "decode", "user", "handle", "perm", "save", "write", "after", "respond"}

(* A request stays one as its fields change, each within its type. *)
LEMMA WithTypes ==
    ASSUME NEW q \in RequestState'
    PROVE  /\ \A x \in Stage : WithPC(q, x) \in RequestState'
           /\ \A x \in Session' : WithSess(q, x) \in RequestState'
           /\ \A x \in SessionData' : WithMeant(q, x) \in RequestState'
           /\ \A x \in User \cup {None} : WithUser(q, x) \in RequestState'
           /\ \A x \in {0, 200, 302, 403} : WithStatus(q, x) \in RequestState'
           /\ \A x \in Number' : WithShown(q, x) \in RequestState'
           /\ \A x \in BOOLEAN : WithWrote(q, x) \in RequestState'
           /\ \A x \in Cookie' : WithOut(q, x) \in RequestState'
           /\ \A x \in BOOLEAN : WithFound(q, x) \in RequestState'
           /\ \A x \in BOOLEAN : WithAlone(q, x) \in RequestState'
           /\ \A x \in SUBSET Name : WithCould(q, x) \in RequestState'
           /\ \A x \in Kind : WithKind(q, x) \in RequestState'
           /\ \A x \in Cookie' : WithCookie(q, x) \in RequestState'
           /\ \A x \in Number' : WithSubmitted(q, x) \in RequestState'
<1>1. \A x \in Stage : WithPC(q, x) \in RequestState'
  BY DEF WithPC, Stage, RequestState
<1>2. \A x \in Session' : WithSess(q, x) \in RequestState'
  BY DEF WithSess, RequestState
<1>3. \A x \in SessionData' : WithMeant(q, x) \in RequestState'
  BY DEF WithMeant, RequestState
<1>4. \A x \in User \cup {None} : WithUser(q, x) \in RequestState'
  BY DEF WithUser, RequestState
<1>5. \A x \in {0, 200, 302, 403} : WithStatus(q, x) \in RequestState'
  BY DEF WithStatus, RequestState
<1>6. \A x \in Number' : WithShown(q, x) \in RequestState'
  BY DEF WithShown, RequestState
<1>7. \A x \in BOOLEAN : WithWrote(q, x) \in RequestState'
  BY DEF WithWrote, RequestState
<1>8. \A x \in Cookie' : WithOut(q, x) \in RequestState'
  BY DEF WithOut, RequestState
<1>9. \A x \in BOOLEAN : WithFound(q, x) \in RequestState'
  BY DEF WithFound, RequestState
<1>10. \A x \in BOOLEAN : WithAlone(q, x) \in RequestState'
  BY DEF WithAlone, RequestState
<1>11. \A x \in SUBSET Name : WithCould(q, x) \in RequestState'
  BY DEF WithCould, RequestState
<1>12. \A x \in Kind : WithKind(q, x) \in RequestState'
  BY DEF WithKind, RequestState
<1>13. \A x \in Cookie' : WithCookie(q, x) \in RequestState'
  BY DEF WithCookie, RequestState
<1>14. \A x \in Number' : WithSubmitted(q, x) \in RequestState'
  BY DEF WithSubmitted, RequestState
<1> QED
  BY <1>1, <1>2, <1>3, <1>4, <1>5, <1>6, <1>7, <1>8, <1>9, <1>10, <1>11, <1>12, <1>13, <1>14

(* Answering leaves the session and the request alone. *)
LEMMA AnswersEffect ==
    ASSUME NEW q \in RequestState', NEW status \in {200, 302, 403}
    PROVE  LET t == Answers(q, status) IN
           /\ t \in RequestState' /\ t.pc = "save" /\ t.status = status
           /\ SameRequest(q, t) /\ SameSession(q, t) /\ SameSave(q, t)
           /\ t.alone = q.alone /\ t.user = q.user /\ t.shown = q.shown
           /\ t.wrote = q.wrote
<1> DEFINE t == Answers(q, status)
<1>1. t = [q EXCEPT !.pc = "save", !.status = status]
  BY DEF Answers
<1>2. t = WithStatus(WithPC(q, "save"), status)
  BY <1>1 DEF WithStatus, WithPC
<1> HIDE DEF t
<1>3. WithPC(q, "save") \in RequestState' /\ status \in {0, 200, 302, 403}
  BY WithTypes DEF Stage
<1>4. t \in RequestState'
  BY <1>2, <1>3, WithTypes
<1>5. /\ t.pc = "save" /\ t.status = status
      /\ SameRequest(q, t) /\ SameSession(q, t) /\ SameSave(q, t)
      /\ t.alone = q.alone /\ t.user = q.user /\ t.shown = q.shown
      /\ t.wrote = q.wrote
  BY <1>1 DEF RequestState, SameRequest, SameSession, SameSave
<1> QED BY <1>4, <1>5 DEF t

(* Showing a page shows the token of the session. *)
LEMMA ShowsPageEffect ==
    ASSUME NEW q \in RequestState'
    PROVE  LET t == ShowsPage(q) IN
           /\ t \in RequestState' /\ t.pc = "save" /\ t.status = 200
           /\ SameRequest(q, t) /\ SameSession(q, t) /\ SameSave(q, t)
           /\ t.alone = q.alone /\ t.user = q.user /\ t.shown = q.meant.token
           /\ t.wrote = q.wrote
<1> DEFINE mid == Answers(q, 200)
           t == ShowsPage(q)
<1>1. q.meant.token \in Number'
  BY DEF RequestState, SessionData
<1>2. t = WithShown(mid, q.meant.token)
  BY DEF ShowsPage, WithShown
<1>3. /\ mid \in RequestState' /\ mid.pc = "save" /\ mid.status = 200
      /\ SameRequest(q, mid) /\ SameSession(q, mid) /\ SameSave(q, mid)
      /\ mid.alone = q.alone /\ mid.user = q.user /\ mid.wrote = q.wrote
  BY AnswersEffect
<1> HIDE DEF mid, t
<1>4. t \in RequestState'
  <2>1. \A x \in Number' : WithShown(mid, x) \in RequestState'
    BY <1>3, WithTypes
  <2> QED BY <1>1, <1>2, <2>1
<1>5. /\ t.pc = mid.pc /\ t.status = mid.status
      /\ SameRequest(mid, t) /\ SameSession(mid, t) /\ SameSave(mid, t)
      /\ t.alone = mid.alone /\ t.user = mid.user /\ t.wrote = mid.wrote
      /\ t.shown = q.meant.token
  BY <1>2, <1>3 DEF WithShown, RequestState, SameRequest, SameSession, SameSave
<1>6. SameRequest(q, t) /\ SameSession(q, t) /\ SameSave(q, t)
  BY <1>3, <1>5 DEF SameRequest, SameSession, SameSave
<1> QED BY <1>3, <1>4, <1>5, <1>6 DEF t

-----------------------------------------------------------------------------
(* Each view is one that Served describes. *)

(* A view that shows a page and changes nothing. *)
LEMMA ShowsOnly ==
    ASSUME TypeOK, NEW r \in Checker, req[r].pc \in {"handle", "perm"},
           Goes(r, ShowsPage(req[r])), req[r].kind # "admin" \/ Passes(req[r].user),
           UNCHANGED <<fresh, values, loggedIn>>,
           UNCHANGED <<accounts, rows, jar, page, calm, store, header, setting, sent, faults>>
    PROVE  Served(r) /\ ServedTypes
<1> DEFINE t == ShowsPage(req[r])
<1>1. RequestsOK /\ Later /\ req[r] \in RequestState' /\ ~req[r].wrote
  BY TypesGrow DEF TypeOK, RequestsOK, Later
<1>2. /\ t \in RequestState' /\ t.pc = "save" /\ t.status = 200
      /\ SameRequest(req[r], t) /\ SameSession(req[r], t) /\ SameSave(req[r], t)
      /\ t.alone = req[r].alone /\ t.user = req[r].user /\ t.shown = req[r].meant.token
      /\ t.wrote = req[r].wrote
  BY <1>1, ShowsPageEffect
<1> HIDE DEF t
<1>4. Goes(r, t)
  BY DEF t
<1>5. RequestsOK' /\ req'[r] = t /\ Others(r)
  BY <1>1, <1>2, <1>4, GoesEffect
<1>6. ServedAs(req[r], t)
  BY <1>1, <1>2 DEF ServedAs, SameRequest, SameSession
<1>8. values \subseteq SessionData' /\ loggedIn \subseteq Name
  BY <1>1, TypesGrow DEF TypeOK
<1>9. t.meant = req[r].meant
  BY <1>2 DEF SameSession
<1>10. ServedTypes
  BY <1>1, <1>5, <1>8 DEF ServedTypes
<1> QED BY <1>5, <1>6, <1>9, <1>10 DEF Served

(* A view that answers without a page and changes nothing. *)
LEMMA AnswersOnly ==
    ASSUME TypeOK, NEW r \in Checker, req[r].pc \in {"handle", "perm"},
           NEW status \in {302, 403}, Goes(r, Answers(req[r], status)),
           StageOK(req[r]), status = 403 => req[r].kind = "guarded",
           UNCHANGED <<fresh, values, loggedIn>>,
           UNCHANGED <<accounts, rows, jar, page, calm, store, header, setting, sent, faults>>
    PROVE  Served(r) /\ ServedTypes
<1> DEFINE t == Answers(req[r], status)
<1>1. RequestsOK /\ Later /\ req[r] \in RequestState' /\ ~req[r].wrote
  BY TypesGrow DEF TypeOK, RequestsOK, Later
<1>2. /\ t \in RequestState' /\ t.pc = "save" /\ t.status = status
      /\ SameRequest(req[r], t) /\ SameSession(req[r], t) /\ SameSave(req[r], t)
      /\ t.alone = req[r].alone /\ t.user = req[r].user /\ t.shown = req[r].shown
      /\ t.wrote = req[r].wrote
  BY <1>1, AnswersEffect
<1> HIDE DEF t
<1>4. Goes(r, t)
  BY DEF t
<1>5. RequestsOK' /\ req'[r] = t /\ Others(r)
  BY <1>1, <1>2, <1>4, GoesEffect
<1>6. ServedAs(req[r], t)
  BY <1>1, <1>2 DEF ServedAs, SameRequest, SameSession, StageOK
<1>8. values \subseteq SessionData' /\ loggedIn \subseteq Name
  BY <1>1, TypesGrow DEF TypeOK
<1>9. t.meant = req[r].meant
  BY <1>2 DEF SameSession
<1>10. ServedTypes
  BY <1>1, <1>5, <1>8 DEF ServedTypes
<1> QED BY <1>5, <1>6, <1>9, <1>10 DEF Served

(* A value that is kept changes one entry of the session, in the session   *)
(* and in what is meant alike.                                             *)
LEMMA SetValueServed ==
    ASSUME TypeOK, NEW r \in Checker, SetValue(r)
    PROVE  Served(r) /\ ServedTypes
<1> DEFINE q == req[r]
<1>1. RequestsOK /\ Later /\ q \in RequestState /\ q \in RequestState' /\ ~q.wrote /\ q.pc = "handle"
      /\ q.kind = "set"
  BY TypesGrow DEF TypeOK, RequestsOK, Later, SetValue, Handled
<1>2. PICK f \in {"a", "b"}, v \in Value :
        /\ Goes(r, ShowsPage([q EXCEPT !.sess = Set(@, f, v),
                                       !.meant = [q.meant EXCEPT ![f] = v]]))
        /\ values' = values \cup {[q.meant EXCEPT ![f] = v]}
  BY DEF SetValue
<1> DEFINE meant == [q.meant EXCEPT ![f] = v]
           data == [q.sess.data EXCEPT ![f] = v]
           mid == [q EXCEPT !.sess = Set(@, f, v), !.meant = meant]
           t == ShowsPage(mid)
<1>3. q.sess \in Session /\ q.sess.data \in SessionData /\ q.meant \in SessionData
  BY <1>1 DEF RequestState, Session
<1>4. /\ meant \in SessionData /\ meant.token = q.meant.token /\ meant.user = q.meant.user
      /\ data \in SessionData
  BY <1>3, DataWithValue
<1>5. q.sess.data = q.meant => data = meant
  OBVIOUS
<1>6. Set(q.sess, f, v) = [key |-> q.sess.key, data |-> data, modified |-> TRUE]
  <2>1. Set(q.sess, f, v) = [q.sess EXCEPT !.data = data, !.modified = TRUE]
    BY DEF Set
  <2> HIDE DEF data
  <2> QED BY <1>3, <2>1 DEF Session
<1> DEFINE sess == Set(q.sess, f, v)
<1>7. sess \in Session /\ sess.data = data /\ sess.modified
  BY <1>3, <1>4, <1>6 DEF Session
<1>8. mid = WithMeant(WithSess(q, sess), meant)
  BY DEF WithMeant, WithSess
<1> HIDE DEF meant, data, sess, mid
<1>9. /\ mid \in RequestState' /\ SameRequest(q, mid) /\ SameSave(q, mid)
      /\ mid.sess = sess /\ mid.meant = meant /\ mid.alone = q.alone /\ mid.user = q.user
      /\ mid.wrote = q.wrote
  <2>1. WithSess(q, sess) \in RequestState' /\ meant \in SessionData'
    BY <1>1, <1>4, <1>7, TypesGrow, WithTypes
  <2>2. mid \in RequestState'
    BY <1>8, <2>1, WithTypes
  <2> QED BY <1>1, <1>8, <2>2 DEF WithMeant, WithSess, RequestState, SameRequest, SameSave
<1>10. /\ t \in RequestState' /\ t.pc = "save" /\ t.status = 200
       /\ SameRequest(mid, t) /\ SameSession(mid, t) /\ SameSave(mid, t)
       /\ t.alone = mid.alone /\ t.user = mid.user /\ t.shown = mid.meant.token
       /\ t.wrote = mid.wrote
  BY <1>9, ShowsPageEffect
<1>11. Goes(r, t)
  BY <1>2 DEF mid, meant
<1> HIDE DEF t
<1>13. RequestsOK' /\ req'[r] = t /\ Others(r)
  BY <1>1, <1>9, <1>10, <1>11, GoesEffect
<1>14. ServedAs(q, t)
  BY <1>1, <1>4, <1>5, <1>7, <1>9, <1>10 DEF ServedAs, SameRequest, SameSession, SameSave
<1>15. UNCHANGED <<accounts, rows, jar, page, calm, store, header, setting, sent, faults>>
       /\ UNCHANGED <<fresh, loggedIn>>
  BY DEF Handled, SetValue
<1>16. values' = values \cup {meant} /\ t.meant = meant
  BY <1>2, <1>9, <1>10 DEF SameSession, meant
<1>17. ServedTypes
  BY <1>1, <1>4, <1>13, <1>15, <1>16, TypesGrow DEF ServedTypes, TypeOK
<1> QED BY <1>4, <1>13, <1>14, <1>15, <1>16, <1>17 DEF Served

(* A view that gives the session a new key: login and logout. *)
LEMMA RekeyServed ==
    ASSUME TypeOK, NEW r \in Checker, StageOK(req[r]), Handled(r),
           req[r].kind \in {"login", "logout"},
           NEW sess \in Session', NEW meant \in SessionData', sess.modified,
           req[r].sess.data = req[r].meant => sess.data = meant,
           Goes(r, Answers(WithMeant(WithSess(req[r], sess), meant), 302)),
           fresh' = fresh + 1, values' = values \cup {meant},
           loggedIn \subseteq loggedIn', loggedIn' \subseteq Name,
           meant.user \in loggedIn' \cup {None}
    PROVE  Served(r) /\ ServedTypes
<1> DEFINE q == req[r]
           mid == WithMeant(WithSess(q, sess), meant)
           t == Answers(mid, 302)
<1>1. RequestsOK /\ Later
  BY DEF TypeOK, RequestsOK, Later, Handled
<1>2. q \in RequestState /\ q \in RequestState' /\ ~q.wrote /\ q.pc = "handle"
      /\ q.shown = None
  BY <1>1, TypesGrow DEF RequestsOK, Handled, StageOK
<1>3. /\ mid \in RequestState' /\ SameRequest(q, mid) /\ SameSave(q, mid)
      /\ mid.sess = sess /\ mid.meant = meant /\ mid.alone = q.alone /\ mid.user = q.user
      /\ mid.wrote = q.wrote /\ mid.shown = q.shown
  <2>1. WithSess(q, sess) \in RequestState'
    BY <1>2, WithTypes, ZenonT(60)
  <2>2. mid \in RequestState'
    BY <2>1, WithTypes
  <2> QED BY <1>2, <2>2 DEF WithMeant, WithSess, RequestState, SameRequest, SameSave
<1>4. Goes(r, t)
  OBVIOUS
<1> HIDE DEF mid
<1>5. /\ t \in RequestState' /\ t.pc = "save" /\ t.status = 302
      /\ SameRequest(mid, t) /\ SameSession(mid, t) /\ SameSave(mid, t)
      /\ t.alone = mid.alone /\ t.user = mid.user /\ t.shown = mid.shown
      /\ t.wrote = mid.wrote
  BY <1>3, AnswersEffect
<1> HIDE DEF t
<1>6. RequestsOK' /\ req'[r] = t /\ Others(r)
  BY <1>1, <1>2, <1>3, <1>4, <1>5, GoesEffect
<1>7. ServedAs(q, t)
  BY <1>2, <1>3, <1>5 DEF ServedAs, SameRequest, SameSession, SameSave
<1>8. UNCHANGED <<accounts, rows, jar, page, calm, store, header, setting, sent, faults>>
  BY DEF Handled
<1>9. t.meant = meant
  BY <1>3, <1>5 DEF SameSession
<1>10. values' \subseteq SessionData'
  BY <1>1, TypesGrow DEF TypeOK
<1>11. ServedTypes
  BY <1>1, <1>6, <1>10 DEF ServedTypes
<1> QED BY <1>6, <1>7, <1>8, <1>9, <1>11 DEF Served

(* Login leaves the data of the session but for the user. *)
LEMMA LoginServed ==
    ASSUME TypeOK, NEW r \in Checker, StageOK(req[r]), Login(r)
    PROVE  Served(r) /\ ServedTypes
<1> DEFINE q == req[r]
<1>1. Handled(r) /\ q.kind = "login" /\ q \in RequestState /\ fresh \in Nat
  BY DEF Login, TypeOK
<1>2. PICK n \in Name, password \in Password :
         IF Authenticates(n, password)
         THEN /\ Goes(r, Answers([q EXCEPT !.meant = [q.meant EXCEPT !.user = n],
                        !.sess = Set(Rotate(@, fresh + 1), "user", n)], 302))
              /\ fresh' = fresh + 1
              /\ values' = values \cup {[q.meant EXCEPT !.user = n]}
              /\ loggedIn' = loggedIn \cup {n}
         ELSE /\ Goes(r, ShowsPage(q))
              /\ UNCHANGED <<fresh, values, loggedIn>>
  BY DEF Login
<1>3. CASE Authenticates(n, password)
  <2> DEFINE meant == [q.meant EXCEPT !["user"] = n]
             data == [q.sess.data EXCEPT !["user"] = n]
             sess == Set(Rotate(q.sess, fresh + 1), "user", n)
  <2>1. q.sess \in Session /\ q.sess.data \in SessionData /\ q.meant \in SessionData
    BY <1>1 DEF RequestState, Session
  <2>2. meant \in SessionData /\ meant.user = n /\ data \in SessionData
    BY <2>1, DataWithUser
  <2>3. fresh' = fresh + 1 /\ store' = store /\ Later
    BY <1>1, <1>2, <1>3 DEF Handled, Later
  <2>4. sess = [key |-> fresh + 1, data |-> data, modified |-> TRUE]
    <3>1. Rotate(q.sess, fresh + 1) = [key |-> fresh + 1, data |-> q.sess.data,
                                       modified |-> TRUE]
      BY <2>1, RotateIs
    <3>2. sess = [Rotate(q.sess, fresh + 1) EXCEPT
                     !.data = [Rotate(q.sess, fresh + 1).data EXCEPT !["user"] = n],
                     !.modified = TRUE]
      BY DEF Set
    <3>3. Rotate(q.sess, fresh + 1).data = q.sess.data
      BY <3>1
    <3> HIDE DEF sess
    <3>4. sess = [Rotate(q.sess, fresh + 1) EXCEPT !.data = data, !.modified = TRUE]
      BY <3>2, <3>3
    <3> DEFINE rot == Rotate(q.sess, fresh + 1)
               k == fresh + 1
    <3>5. rot.key = k /\ rot = [key |-> k, data |-> q.sess.data, modified |-> TRUE]
      BY <3>1
    <3> HIDE DEF data, rot, k
    <3>6. sess = [key |-> k, data |-> data, modified |-> TRUE]
      BY <3>4, <3>5 DEF rot
    <3> QED BY <3>6 DEF k
  <2>5. q.sess.data = q.meant => data = meant
    OBVIOUS
  <2>6. Goes(r, Answers(WithMeant(WithSess(q, sess), meant), 302))
    <3>1. [q EXCEPT !.meant = [q.meant EXCEPT !.user = n],
                    !.sess = Set(Rotate(@, fresh + 1), "user", n)] =
          WithMeant(WithSess(q, sess), meant)
      <4> HIDE DEF meant
      <4>1. [q.meant EXCEPT !.user = n] = meant
        BY DEF meant
      <4>2. [q EXCEPT !.meant = [q.meant EXCEPT !.user = n],
                      !.sess = Set(Rotate(@, fresh + 1), "user", n)] =
            [q EXCEPT !.meant = meant, !.sess = sess]
        BY <4>1
      <4> HIDE DEF sess
      <4>3. [q EXCEPT !.meant = meant, !.sess = sess] = WithMeant(WithSess(q, sess), meant)
        BY <1>1, Zenon DEF WithMeant, WithSess, RequestState
      <4> QED BY <4>2, <4>3
    <3> QED BY <1>2, <1>3, <3>1
  <2>7. values' = values \cup {meant} /\ loggedIn' = loggedIn \cup {n}
    BY <1>2, <1>3
  <2>8. fresh + 1 \in Number'
    BY <1>1, <2>3 DEF Number
  <2> HIDE DEF meant, data, sess
  <2>9. sess \in Session' /\ meant \in SessionData' /\ sess.modified /\ sess.data = data
    BY <2>2, <2>3, <2>4, <2>8, TypesGrow DEF Session
  <2>10. loggedIn' \subseteq Name /\ loggedIn \subseteq loggedIn' /\ meant.user \in loggedIn'
    BY <2>2, <2>7 DEF TypeOK
  <2> QED BY <1>1, <2>3, <2>5, <2>6, <2>7, <2>9, <2>10, RekeyServed
<1>4. CASE ~Authenticates(n, password)
  BY <1>1, <1>2, <1>4, ShowsOnly DEF Handled
<1> QED BY <1>3, <1>4

(* Logout leaves nothing. *)
LEMMA LogoutServed ==
    ASSUME TypeOK, NEW r \in Checker, StageOK(req[r]), Logout(r)
    PROVE  Served(r) /\ ServedTypes
<1> DEFINE q == req[r]
           sess == Rotate(Clear(q.sess), fresh + 1)
<1>1. /\ Handled(r) /\ q.kind = "logout" /\ q \in RequestState /\ fresh \in Nat
      /\ q.sess \in Session
  BY DEF Logout, TypeOK, RequestState
<1>2. /\ Goes(r, Answers([q EXCEPT !.meant = Empty,
                           !.sess = Rotate(Clear(@), fresh + 1)], 302))
      /\ fresh' = fresh + 1 /\ values' = values \cup {Empty} /\ UNCHANGED loggedIn
  BY DEF Logout
<1>3. Later
  BY <1>1, <1>2 DEF Later, Handled
<1>4. sess = [key |-> fresh + 1, data |-> Empty, modified |-> TRUE]
  <2>1. Clear(q.sess) = [key |-> q.sess.key, data |-> Empty, modified |-> TRUE]
    BY <1>1, ClearIs
  <2>2. Clear(q.sess) \in Session
    BY <1>1, <2>1, EmptyData DEF Session
  <2> QED BY <2>1, <2>2, RotateIs
<1>5. Goes(r, Answers(WithMeant(WithSess(q, sess), Empty), 302))
  <2>1. [q EXCEPT !.meant = Empty, !.sess = Rotate(Clear(@), fresh + 1)] =
        [q EXCEPT !.meant = Empty, !.sess = sess]
    OBVIOUS
  <2> HIDE DEF sess
  <2>2. [q EXCEPT !.meant = Empty, !.sess = sess] = WithMeant(WithSess(q, sess), Empty)
    BY <1>1, Zenon DEF WithMeant, WithSess, RequestState
  <2> QED BY <1>2, <2>1, <2>2
<1>6. fresh + 1 \in Number'
  BY <1>1, <1>2 DEF Number
<1> HIDE DEF sess
<1>7. /\ sess \in Session' /\ Empty \in SessionData' /\ sess.modified /\ sess.data = Empty
      /\ Empty.user = None
  BY <1>3, <1>4, <1>6, EmptyData, TypesGrow DEF Session
<1>8. loggedIn' \subseteq Name /\ loggedIn \subseteq loggedIn'
  BY <1>2 DEF TypeOK
<1> QED BY <1>1, <1>2, <1>5, <1>7, <1>8, RekeyServed

(* The guard lets the request wait for its check. *)
LEMMA GuardedServed ==
    ASSUME TypeOK, NEW r \in Checker, StageOK(req[r]), Guarded(r)
    PROVE  /\ Served(r) /\ ServedTypes
           /\ UNCHANGED check \/ /\ req[r].user # None
                                 /\ check' = [check EXCEPT ![r] = StartCheck(req[r].user)]
<1> DEFINE q == req[r]
           t == WithPC(q, "perm")
<1>1. Handled(r) /\ q.kind = "guarded" /\ UNCHANGED <<fresh, values, loggedIn>>
  BY DEF Guarded
<1>2. CASE q.user = None
  <2>1. Goes(r, Answers(q, 302)) /\ UNCHANGED check
    BY <1>2 DEF Guarded
  <2>2. UNCHANGED <<accounts, rows, jar, page, calm, store, header, setting, sent, faults>>
        /\ q.pc = "handle"
    BY <1>1 DEF Handled
  <2>3. Served(r) /\ ServedTypes
    BY <1>1, <2>1, <2>2, AnswersOnly
  <2> QED BY <2>1, <2>3
<1>3. CASE q.user # None
  <2>1. Goes(r, t) /\ check' = [check EXCEPT ![r] = StartCheck(q.user)]
    BY <1>3 DEF Guarded, WithPC
  <2>2. RequestsOK /\ Later
    BY <1>1 DEF TypeOK, RequestsOK, Later, Handled
  <2>3. q \in RequestState /\ q \in RequestState' /\ ~q.wrote /\ q.pc = "handle"
    BY <1>1, <2>2, TypesGrow DEF RequestsOK, Handled
  <2>4. t \in RequestState'
    BY <2>3, WithTypes DEF Stage
  <2>5. /\ t.pc = "perm" /\ SameRequest(q, t) /\ SameSession(q, t) /\ SameSave(q, t)
        /\ SameAnswer(q, t) /\ t.alone = q.alone /\ t.user = q.user /\ t.wrote = q.wrote
    BY <2>3 DEF WithPC, RequestState, SameRequest, SameSession, SameAnswer, SameSave
  <2> HIDE DEF t
  <2>6. RequestsOK' /\ req'[r] = t /\ Others(r)
    BY <2>1, <2>2, <2>3, <2>4, <2>5, GoesEffect
  <2>7. ServedAs(q, t) /\ t.meant = q.meant
    BY <1>1, <2>3, <2>5 DEF ServedAs, SameRequest, SameSession
  <2>8. UNCHANGED <<accounts, rows, jar, page, calm, store, header, setting, sent, faults>>
    BY <1>1 DEF Handled
  <2>9. values' \subseteq SessionData' /\ loggedIn' \subseteq Name
    BY <1>1, <2>2, TypesGrow DEF TypeOK
  <2>10. ServedTypes
    BY <2>2, <2>6, <2>9 DEF ServedTypes
  <2>11. Served(r)
    BY <1>1, <2>6, <2>7, <2>8 DEF Served
  <2> QED BY <1>3, <2>1, <2>10, <2>11
<1> QED BY <1>2, <1>3

(* A step of a view, whichever it is. *)
View(r) ==
    \/ Page(r) \/ SetValue(r) \/ SetLate(r) \/ Login(r) \/ Logout(r) \/ Admin(r)
    \/ Guarded(r) \/ GuardAnswers(r)

LEMMA ViewServed ==
    ASSUME TypeOK, StagesInv, NEW r \in Checker, View(r)
    PROVE  Served(r) /\ ServedTypes
<1>0. StageOK(req[r])
  BY DEF StagesInv
<1>1. CASE Page(r)
  BY <1>1, ShowsOnly DEF Page, Handled
<1>2. CASE SetValue(r)
  BY <1>2, SetValueServed
<1>3. CASE SetLate(r)
  BY <1>3, ShowsOnly DEF SetLate, Handled
<1>4. CASE Login(r)
  BY <1>0, <1>4, LoginServed
<1>5. CASE Logout(r)
  BY <1>0, <1>5, LogoutServed
<1>6. CASE Admin(r)
  <2>1. Handled(r) /\ UNCHANGED <<fresh, values, loggedIn>>
    BY <1>6 DEF Admin
  <2>2. CASE Passes(req[r].user)
    BY <1>6, <2>1, <2>2, ShowsOnly DEF Admin, Handled
  <2>3. CASE ~Passes(req[r].user)
    <3>1. Goes(r, Answers(req[r], 302))
      BY <1>6, <2>3 DEF Admin
    <3>2. UNCHANGED <<accounts, rows, jar, page, calm, store, header, setting, sent, faults>>
          /\ req[r].pc = "handle"
      BY <2>1 DEF Handled
    <3> QED BY <1>0, <2>1, <3>1, <3>2, AnswersOnly
  <2> QED BY <2>2, <2>3
<1>7. CASE Guarded(r)
  BY <1>0, <1>7, GuardedServed
<1>8. CASE GuardAnswers(r)
  <2>1. /\ req[r].pc = "perm" /\ req[r].kind = "guarded"
        /\ UNCHANGED <<fresh, values, loggedIn>>
        /\ UNCHANGED <<accounts, rows, jar, page, calm, store, header, setting, sent, faults>>
    BY <1>0, <1>8 DEF GuardAnswers, StageOK, webVars
  <2>2. CASE check[r].answer
    <3>1. Goes(r, ShowsPage(req[r]))
      BY <1>8, <2>2 DEF GuardAnswers
    <3> QED BY <2>1, <3>1, ShowsOnly
  <2>3. CASE ~check[r].answer
    <3>1. Goes(r, Answers(req[r], 403))
      BY <1>8, <2>3 DEF GuardAnswers
    <3> QED BY <1>0, <2>1, <3>1, AnswersOnly
  <2> QED BY <2>2, <2>3
<1> QED BY <1>1, <1>2, <1>3, <1>4, <1>5, <1>6, <1>7, <1>8 DEF View

-----------------------------------------------------------------------------
(* The other steps of a request. *)

(* A request that is sent finds the cookie and the page of the browser, and *)
(* none of those that it overlaps with is alone any more.                  *)
SentAs(r) ==
    LET q == req[r] t == req'[r]
        others == {o \in Checker \ {r} : Open(o)}
    IN /\ ~Open(r) /\ t.pc = "decode" /\ t.kind \in Kind /\ t.cookie = jar
       /\ t.kind \in Posts => page # None /\ t.submitted = page
       /\ t.user = None /\ t.status = 0 /\ t.shown = None /\ t.out = None
       /\ t.could = StaffNow /\ (t.alone <=> others = {}) /\ calm' = (calm /\ others = {})
       /\ \A o \in Checker \ {r} :
             LET p == req[o] u == req'[o] IN
             /\ u.pc = p.pc /\ SameRequest(p, u) /\ SameSession(p, u) /\ SameAnswer(p, u)
             /\ SameSave(p, u) /\ u.user = p.user /\ (Open(o) => ~u.alone)
             /\ (~Open(o) => u = p)
       /\ UNCHANGED <<accountVars, setting, store, header, rows, jar, page, fresh, faults,
                      values, loggedIn>>

(* The request that every other starts as. *)
LEMMA IdleType ==
    ASSUME fresh \in Nat
    PROVE  Idle \in RequestState
<1>1. None \in Number /\ None \in Cookie /\ NewSession \in Session
  BY EmptyData DEF Number, Cookie, NewSession, Session
<1> QED BY <1>1, EmptyData DEF Idle, RequestState, Kind, Posts

(* Send in the words of SentAs. *)
LEMMA SendEffect ==
    ASSUME TypeOK, NEW r \in Checker, Send(r)
    PROVE  SentAs(r) /\ Later /\ RequestsOK' /\ sent' \in Nat /\ calm' \in BOOLEAN
<1> DEFINE others == {o \in Checker \ {r} : Open(o)}
<1>1. PICK kind \in setting.kinds :
         LET new == [Idle EXCEPT !.pc = "decode", !.kind = kind, !.cookie = jar,
                        !.submitted = IF kind \in Posts THEN page ELSE None,
                        !.alone = others = {},
                        !.could = StaffNow]
         IN /\ kind \in Posts => page # None
            /\ req' = [o \in Checker |->
                  IF o = r THEN new
                  ELSE IF Open(o) THEN [req[o] EXCEPT !.alone = FALSE] ELSE req[o]]
            /\ calm' = (calm /\ others = {})
  BY DEF Send
<1> DEFINE submitted == IF kind \in Posts THEN page ELSE None
           lone == others = {}
           new1 == WithCookie(WithKind(WithPC(Idle, "decode"), kind), jar)
           new == WithCould(WithAlone(WithSubmitted(new1, submitted), lone), StaffNow)
<1>2. /\ UNCHANGED <<accountVars, setting, store, header, rows, jar, page, fresh, faults,
                     values, loggedIn>>
      /\ ~Open(r) /\ sent' = sent + 1
  BY DEF Send
<1>3. Later /\ sent' \in Nat /\ kind \in Kind /\ submitted \in Number /\ jar \in Cookie
      /\ StaffNow \subseteq Name /\ RequestsOK
      /\ Idle \in RequestState'
  BY <1>2, SettingsAssumption, IdleType, TypesGrow
     DEF TypeOK, AccountsTypeOK, Later, StaffNow, Number, RequestsOK
<1>4. req'[r] = new /\ (kind \in Posts => page # None) /\ calm' = (calm /\ others = {})
  <2>1. new = [Idle EXCEPT !.pc = "decode", !.kind = kind, !.cookie = jar,
                           !.submitted = submitted, !.alone = lone, !.could = StaffNow]
    BY DEF WithCould, WithAlone, WithSubmitted, WithCookie, WithKind, WithPC
  <2> QED BY <1>1, <2>1
<1> HIDE DEF submitted, lone
<1>5. /\ new1 \in RequestState' /\ new1.pc = "decode" /\ new1.kind = kind
      /\ new1.cookie = jar /\ new1.user = None /\ new1.status = 0
      /\ new1.shown = None /\ new1.out = None /\ ~new1.wrote
  <2> DEFINE a == WithPC(Idle, "decode")
             b == WithKind(a, kind)
  <2>1. a \in RequestState'
    BY <1>3, WithTypes DEF Stage
  <2>2. b \in RequestState'
    BY <1>3, <2>1, WithTypes
  <2>3. new1 \in RequestState'
    BY <1>3, <2>2, TypesGrow, WithTypes
  <2>4. /\ a.pc = "decode" /\ a.user = None /\ a.status = 0
        /\ a.shown = None /\ a.out = None /\ ~a.wrote
    BY DEF WithPC, Idle
  <2>5. new1 = WithCookie(WithKind(a, kind), jar)
    OBVIOUS
  <2> HIDE DEF a, new1
  <2> QED BY <2>1, <2>3, <2>4, <2>5 DEF WithKind, WithCookie, RequestState
<1> HIDE DEF new1
<1>7. new \in RequestState'
  <2>1. WithSubmitted(new1, submitted) \in RequestState'
    BY <1>3, <1>5, TypesGrow, WithTypes, ZenonT(60)
  <2>2. WithAlone(WithSubmitted(new1, submitted), lone) \in RequestState'
    BY <1>3, <2>1, WithTypes DEF lone
  <2> QED BY <1>3, <2>2, WithTypes
<1>71. /\ new.pc = "decode" /\ new.kind = kind /\ new.cookie = jar
       /\ new.submitted = submitted /\ new.user = None /\ new.status = 0
       /\ new.shown = None /\ new.out = None /\ new.could = StaffNow /\ ~new.wrote
       /\ new.alone = lone
  BY <1>5 DEF WithSubmitted, WithAlone, WithCould, RequestState
<1>72. new.alone <=> others = {}
  BY <1>71 DEF lone
<1> HIDE DEF new
<1>8. ASSUME NEW o \in Checker \ {r}
      PROVE  LET p == req[o] u == req'[o] IN
             /\ u \in RequestState' /\ u.wrote = p.wrote
             /\ u.pc = p.pc /\ SameRequest(p, u) /\ SameSession(p, u) /\ SameAnswer(p, u)
             /\ SameSave(p, u) /\ u.user = p.user /\ (Open(o) => ~u.alone)
             /\ (~Open(o) => u = p)
  <2>1. req[o] \in RequestState'
    BY <1>3, TypesGrow DEF RequestsOK
  <2>2. CASE Open(o)
    <3>1. req'[o] = WithAlone(req[o], FALSE)
      BY <1>1, <2>2 DEF WithAlone
    <3>2. req'[o] \in RequestState'
      BY <2>1, <3>1, WithTypes, ZenonT(60)
    <3> QED BY <2>1, <2>2, <3>1, <3>2
            DEF WithAlone, RequestState, SameRequest, SameSession, SameAnswer, SameSave
  <2>3. CASE ~Open(o)
    <3>1. req'[o] = req[o]
      BY <1>1, <2>3
    <3> QED BY <2>1, <2>3, <3>1 DEF SameRequest, SameSession, SameAnswer, SameSave
  <2> QED BY <2>2, <2>3
<1>9. RequestsOK'
  <2>1. \A o \in Checker : req'[o] \in RequestState'
    BY <1>3, <1>4, <1>7, <1>8, TypesGrow
  <2>2. req' = [o \in Checker |-> req'[o]]
    BY <1>1
  <2>3. ASSUME NEW o \in Checker
        PROVE  req'[o].wrote <=> req'[o].pc \in {"write", "after", "respond"}
    <3>1. CASE o = r
      BY <1>4, <1>71, <3>1
    <3>2. CASE o # r
      BY <1>3, <1>8, <3>2 DEF RequestsOK
    <3> QED BY <3>1, <3>2
  <2> QED BY <2>1, <2>2, <2>3 DEF RequestsOK
<1>10. /\ req'[r].kind \in Posts => page # None /\ req'[r].submitted = page
       /\ req'[r].kind \in Kind
  BY <1>3, <1>4, <1>71 DEF submitted
<1>11. calm' \in BOOLEAN
  BY <1>4
<1> QED BY <1>2, <1>3, <1>4, <1>71, <1>72, <1>8, <1>9, <1>10, <1>11 DEF SentAs

(* Decode loads the session of the cookie, gives it a token if it has none, *)
(* and turns down a form whose token is another one.                       *)
DecodedAs(r) ==
    LET q == req[r] t == req'[r] kept == Kept(q.cookie)
    IN /\ q.pc = "decode" /\ t.pc \in {"user", "save"}
       /\ SameRequest(q, t) /\ SameSave(q, t) /\ t.alone = q.alone /\ t.user = q.user
       /\ t.shown = q.shown /\ t.sess.data = t.meant
       /\ ~t.sess.modified => t.meant = kept
       /\ t.meant.user = kept.user
       /\ kept.token # None => t.meant.token = kept.token
       /\ t.pc = "user" => t.status = q.status
       /\ t.pc = "save" =>
             /\ t.status = 403 /\ q.kind \in Posts
             /\ ~(OriginOrRefererOK(header) /\ ValidToken(q.submitted, t.meant.token))
       /\ values' = values \cup {t.meant}
       /\ Others(r)
       /\ UNCHANGED <<accountVars, setting, store, header, rows, jar, page, sent, faults,
                      loggedIn, calm>>

LEMMA DecodeEffect ==
    ASSUME TypeOK, NEW r \in Checker, Decode(r)
    PROVE  DecodedAs(r) /\ Later /\ RequestsOK' /\ req'[r].meant \in SessionData'
<1> DEFINE q == req[r]
           d == Decoded(q.cookie)
           s == Seeded(d)
           ok == \/ q.kind \notin Posts
                 \/ OriginOrRefererOK(header) /\ ValidToken(q.submitted, s.data.token)
           now == [q EXCEPT !.sess = s, !.meant = s.data]
           t == IF ok THEN [now EXCEPT !.pc = "user"]
                ELSE [now EXCEPT !.pc = "save", !.status = 403]
<1>1. /\ q.pc = "decode" /\ Goes(r, t) /\ values' = values \cup {s.data}
      /\ fresh' = IF s.modified THEN fresh + 1 ELSE fresh
      /\ UNCHANGED <<accountVars, setting, store, header, rows, jar, page, sent, faults,
                     loggedIn, calm>>
  BY DEF Decode
<1>2. q \in RequestState /\ q.cookie \in Cookie /\ fresh \in Nat /\ ~q.wrote /\ RequestsOK
  BY <1>1 DEF TypeOK, RequestState, RequestsOK
<1>3. d \in Session /\ ~d.modified /\ d.data = Kept(q.cookie)
  BY <1>2, DecodedType DEF Kept
<1> HIDE DEF d
<1>4. /\ d.data.token # None => s = d
      /\ d.data.token = None => s.modified /\ s.data.token = fresh + 1
      /\ s.data.token # None /\ s.data.user = d.data.user
      /\ s.key = d.key /\ s.data \in Data /\ s.modified \in BOOLEAN
      /\ s = [key |-> s.key, data |-> s.data, modified |-> s.modified]
  BY <1>2, <1>3, SeededEffect
<1> HIDE DEF s
<1>5. Later /\ (s.modified => fresh' = fresh + 1)
  BY <1>1, <1>2, <1>4 DEF Later
<1>6. s \in Session' /\ s.data \in SessionData'
  <2>1. CASE d.data.token # None
    <3>1. s \in Session
      BY <1>3, <1>4, <2>1
    <3>2. s.data \in SessionData
      BY <3>1 DEF Session
    <3> QED BY <1>5, <3>1, <3>2, TypesGrow
  <2>2. CASE d.data.token = None
    <3>1. s.data.token \in Number'
      BY <1>2, <1>4, <1>5, <2>2 DEF Number
    <3>2. s.data \in SessionData'
      BY <1>4, <3>1 DEF SessionData
    <3>3. s.key \in Number'
      BY <1>3, <1>4, <1>5, TypesGrow DEF Session
    <3> QED BY <1>4, <3>2, <3>3 DEF Session
  <2> QED BY <2>1, <2>2
<1>7. q \in RequestState'
  BY <1>2, <1>5, TypesGrow
<1>8. now = WithMeant(WithSess(q, s), s.data)
  BY DEF WithMeant, WithSess
<1> HIDE DEF now
<1>9. /\ now \in RequestState' /\ now.pc = q.pc /\ now.sess = s /\ now.meant = s.data
      /\ SameRequest(q, now) /\ SameSave(q, now) /\ now.alone = q.alone
      /\ now.user = q.user /\ SameAnswer(q, now) /\ now.wrote = q.wrote
  <2>1. WithSess(q, s) \in RequestState'
    BY <1>6, <1>7, WithTypes
  <2>2. now \in RequestState'
    BY <1>6, <1>8, <2>1, WithTypes
  <2> QED BY <1>2, <1>8, <2>2
          DEF WithMeant, WithSess, RequestState, SameRequest, SameSave, SameAnswer
<1>10. /\ t \in RequestState' /\ t.sess = s /\ t.meant = s.data
       /\ SameRequest(q, t) /\ SameSave(q, t) /\ t.alone = q.alone
       /\ t.user = q.user /\ t.shown = q.shown /\ t.wrote = q.wrote
       /\ ok => t.pc = "user" /\ t.status = q.status
       /\ ~ok => t.pc = "save" /\ t.status = 403
  <2>1. CASE ok
    <3>1. t = WithPC(now, "user")
      BY <2>1 DEF WithPC
    <3>2. t \in RequestState'
      BY <1>9, <3>1, WithTypes DEF Stage
    <3> HIDE DEF t, ok
    <3> QED BY <1>9, <2>1, <3>1, <3>2
            DEF WithPC, RequestState, SameRequest, SameSave, SameAnswer
  <2>2. CASE ~ok
    <3>1. t = WithStatus(WithPC(now, "save"), 403)
      BY <2>2 DEF WithStatus, WithPC
    <3>2. WithPC(now, "save") \in RequestState'
      BY <1>9, WithTypes DEF Stage
    <3>3. \A x \in {0, 200, 302, 403} : WithStatus(WithPC(now, "save"), x) \in RequestState'
      BY <3>2, WithTypes
    <3>4. t \in RequestState'
      BY <3>1, <3>3
    <3> HIDE DEF t, ok
    <3> QED BY <1>9, <2>2, <3>1, <3>4
            DEF WithStatus, WithPC, RequestState, SameRequest, SameSave, SameAnswer
  <2> QED BY <2>1, <2>2
<1> HIDE DEF t
<1>11. RequestsOK' /\ req'[r] = t /\ Others(r)
  <2>1. t.wrote <=> t.pc \in {"write", "after", "respond"}
    BY <1>2, <1>10
  <2> QED BY <1>1, <1>2, <1>5, <1>10, <2>1, GoesEffect
<1>12. ~s.modified => s.data = d.data
  BY <1>4
<1>13. d.data.token # None => s.data.token = d.data.token
  BY <1>4
<1>14. DecodedAs(r)
  BY <1>1, <1>3, <1>4, <1>10, <1>11, <1>12, <1>13 DEF DecodedAs
<1> QED BY <1>5, <1>6, <1>10, <1>11, <1>14

(* LoadUser takes the user of the session, if the account is active. *)
LoadedAs(r) ==
    LET q == req[r] t == req'[r] n == q.sess.data.user
    IN /\ q.pc = "user" /\ t.pc = "handle"
       /\ SameRequest(q, t) /\ SameSession(q, t) /\ SameAnswer(q, t) /\ SameSave(q, t)
       /\ t.alone = q.alone
       /\ t.user # None => /\ Current(n) /\ t.user.name = n
                           /\ t.user.staff = accounts[n].staff
       /\ Others(r)
       /\ UNCHANGED <<accountVars, setting, store, header, webVars>>

LEMMA LoadUserEffect ==
    ASSUME TypeOK, NEW r \in Checker, LoadUser(r)
    PROVE  LoadedAs(r) /\ Later /\ RequestsOK'
<1> DEFINE q == req[r]
           n == q.sess.data.user
           user == IF Current(n) THEN Loaded(n) ELSE None
           t == WithUser(WithPC(q, "handle"), user)
<1>1. /\ q.pc = "user" /\ Goes(r, [q EXCEPT !.pc = "handle", !.user = user])
      /\ UNCHANGED <<accountVars, setting, store, header, webVars>>
  BY DEF LoadUser
<1>2. Later /\ RequestsOK /\ q \in RequestState /\ q \in RequestState' /\ ~q.wrote
  BY <1>1, TypesGrow DEF TypeOK, Later, RequestsOK, webVars
<1>3. Goes(r, t)
  BY <1>1 DEF WithUser, WithPC
<1>4. Current(n) => Loaded(n) \in User
  BY DEF Current, Loaded, User, TypeOK, AccountsTypeOK, AccountRow
<1>5. user \in User \cup {None}
  BY <1>4
<1>6. user # None => /\ Current(n) /\ user.name = n /\ user.staff = accounts[n].staff
  BY DEF Loaded
<1> HIDE DEF user
<1>7. WithPC(q, "handle") \in RequestState'
  BY <1>2, WithTypes DEF Stage
<1>8. t \in RequestState'
  BY <1>5, <1>7, WithTypes
<1>9. /\ t.pc = "handle" /\ t.user = user /\ t.alone = q.alone /\ t.wrote = q.wrote
      /\ SameRequest(q, t) /\ SameSession(q, t) /\ SameAnswer(q, t) /\ SameSave(q, t)
  BY <1>2, <1>8
     DEF WithUser, WithPC, RequestState, SameRequest, SameSession, SameAnswer, SameSave
<1> HIDE DEF t
<1>10. RequestsOK' /\ req'[r] = t /\ Others(r)
  BY <1>2, <1>3, <1>8, <1>9, GoesEffect
<1> QED BY <1>1, <1>2, <1>6, <1>9, <1>10 DEF LoadedAs

(* Save sends no cookie if nothing changed, or the data, or it looks for   *)
(* the row that Write is going to write.                                   *)
SavedAs(r) ==
    LET q == req[r] t == req'[r]
    IN /\ q.pc = "save" /\ t.pc \in {"write", "after", "respond"}
       /\ SameRequest(q, t) /\ t.meant = q.meant /\ t.sess.data = q.sess.data
       /\ SameAnswer(q, t) /\ t.alone = q.alone /\ t.user = q.user
       /\ t.pc # "write" =>
             \/ ~q.sess.modified /\ t.out = q.out
             \/ store = "cookie" /\ t.out = q.sess.data
       /\ t.pc = "write" =>
             t.out = q.out /\ t.sess.key # None /\ (t.found <=> t.sess.key \in DOMAIN rows)
             /\ store = "db"
       /\ Others(r)
       /\ UNCHANGED <<accountVars, setting, store, header, rows, jar, page, sent, faults,
                      values, loggedIn, calm>>

(* After a save the request goes on to answer. *)
LEMMA AfterSaveEffect ==
    ASSUME NEW q \in RequestState', q.wrote
    PROVE  LET t == AfterSave(q) IN
           /\ t \in RequestState' /\ t.pc \in {"after", "respond"} /\ t.wrote
           /\ SameRequest(q, t) /\ SameSession(q, t) /\ SameAnswer(q, t) /\ SameSave(q, t)
           /\ t.alone = q.alone /\ t.user = q.user
<1> DEFINE pc == IF q.kind = "late" /\ q.status = 200 THEN "after" ELSE "respond"
           t == WithPC(q, pc)
<1>1. AfterSave(q) = t
  BY DEF AfterSave, WithPC
<1>2. pc \in {"after", "respond"} /\ pc \in Stage
  BY DEF Stage
<1> HIDE DEF pc
<1>3. t \in RequestState'
  BY <1>2, WithTypes
<1>4. /\ t.pc = pc /\ t.wrote = q.wrote
      /\ SameRequest(q, t) /\ SameSession(q, t) /\ SameAnswer(q, t) /\ SameSave(q, t)
      /\ t.alone = q.alone /\ t.user = q.user
  BY DEF WithPC, RequestState, SameRequest, SameSession, SameAnswer, SameSave
<1> QED BY <1>1, <1>2, <1>3, <1>4

LEMMA SaveEffect ==
    ASSUME TypeOK, NEW r \in Checker, Save(r)
    PROVE  SavedAs(r) /\ Later /\ RequestsOK'
<1> DEFINE q == req[r]
           s == Keyed(q.sess)
           now == WithWrote(q, TRUE)
           found == s.key \in DOMAIN rows
<1>1. /\ q.pc = "save"
      /\ IF ~q.sess.modified
         THEN Goes(r, AfterSave(now)) /\ UNCHANGED fresh
         ELSE IF store = "cookie"
         THEN Goes(r, AfterSave([now EXCEPT !.out = s.data])) /\ UNCHANGED fresh
         ELSE /\ Goes(r, [now EXCEPT !.pc = "write", !.sess = s, !.found = found])
              /\ fresh' = IF s.key = q.sess.key THEN fresh ELSE fresh + 1
      /\ UNCHANGED <<accountVars, setting, store, header, rows, jar, page, sent, faults,
                     values, loggedIn, calm>>
  BY DEF Save, WithWrote
<1>2. RequestsOK /\ q \in RequestState /\ q.sess \in Session /\ fresh \in Nat /\ store' = store
      /\ store \in {"db", "cookie"}
  BY <1>1, SettingsAssumption DEF TypeOK, RequestsOK, RequestState
<1>3. Later
  <2>1. fresh' = fresh \/ fresh' = fresh + 1
    BY <1>1
  <2> QED BY <1>2, <2>1 DEF Later
<1>4. q \in RequestState' /\ q.sess.data \in SessionData /\ q.sess.key \in Number
  BY <1>2, <1>3, TypesGrow DEF Session
<1>5. /\ s.data = q.sess.data
      /\ s = [key |-> s.key, data |-> s.data, modified |-> s.modified]
      /\ s.modified \in BOOLEAN
      /\ store = "db" => s.key # None
      /\ s.key = q.sess.key \/ (s.key = fresh + 1 /\ q.sess.key = None)
  <2>1. CASE store = "db" /\ q.sess.key = None
    <3> DEFINE k == fresh + 1
    <3>1. s = [key |-> k, data |-> q.sess.data, modified |-> TRUE]
      BY <1>2, <2>1, RotateIs DEF Keyed
    <3>2. k # None
      BY <1>2, NoneAssumption
    <3> HIDE DEF s, k
    <3>3. s.key = k /\ s.data = q.sess.data /\ s.modified = TRUE
      BY <3>1
    <3> QED BY <3>1, <3>2, <3>3, <2>1 DEF k
  <2>2. CASE ~(store = "db" /\ q.sess.key = None)
    <3>1. s = q.sess
      BY <2>2 DEF Keyed
    <3> QED BY <1>2, <2>2, <3>1 DEF Session
  <2> QED BY <2>1, <2>2
<1> HIDE DEF s
<1>6. /\ now \in RequestState' /\ now.wrote /\ now.pc = q.pc
      /\ SameRequest(q, now) /\ SameSession(q, now) /\ SameAnswer(q, now) /\ SameSave(q, now)
      /\ now.alone = q.alone /\ now.user = q.user
  <2>1. now \in RequestState'
    BY <1>4, WithTypes
  <2> QED BY <1>2, <2>1
      DEF WithWrote, RequestState, SameRequest, SameSession, SameAnswer, SameSave
<1> HIDE DEF now
<1>7. CASE ~q.sess.modified
  <2> DEFINE t == AfterSave(now)
  <2>1. Goes(r, t)
    BY <1>1, <1>7
  <2>2. /\ t \in RequestState' /\ t.pc \in {"after", "respond"} /\ t.wrote
        /\ SameRequest(now, t) /\ SameSession(now, t) /\ SameAnswer(now, t)
        /\ SameSave(now, t) /\ t.alone = now.alone /\ t.user = now.user
    BY <1>6, AfterSaveEffect
  <2> HIDE DEF t
  <2>3. RequestsOK' /\ req'[r] = t /\ Others(r)
    BY <1>2, <1>3, <2>1, <2>2, GoesEffect
  <2> QED BY <1>1, <1>3, <1>6, <1>7, <2>2, <2>3
          DEF SavedAs, SameRequest, SameSession, SameAnswer, SameSave
<1>8. CASE q.sess.modified /\ store = "cookie"
  <2> DEFINE mid == WithOut(now, s.data)
             t == AfterSave(mid)
  <2>1. Goes(r, t)
    BY <1>1, <1>8 DEF WithOut
  <2>2. s.data \in Cookie'
    BY <1>2, <1>3, <1>4, <1>5, <1>8, TypesGrow DEF Cookie
  <2>3. mid \in RequestState'
    BY <1>6, <2>2, WithTypes
  <2>4. /\ mid.wrote /\ mid.out = s.data
        /\ SameRequest(now, mid) /\ SameSession(now, mid) /\ SameAnswer(now, mid)
        /\ mid.alone = now.alone /\ mid.user = now.user
    BY <1>6, <2>3 DEF WithOut, RequestState, SameRequest, SameSession, SameAnswer
  <2> HIDE DEF mid
  <2>5. /\ t \in RequestState' /\ t.pc \in {"after", "respond"} /\ t.wrote
        /\ SameRequest(mid, t) /\ SameSession(mid, t) /\ SameAnswer(mid, t)
        /\ SameSave(mid, t) /\ t.alone = mid.alone /\ t.user = mid.user
    BY <2>3, <2>4, AfterSaveEffect
  <2> HIDE DEF t
  <2>6. RequestsOK' /\ req'[r] = t /\ Others(r)
    BY <1>2, <1>3, <2>1, <2>5, GoesEffect
  <2> QED BY <1>1, <1>3, <1>5, <1>6, <1>8, <2>4, <2>5, <2>6
          DEF SavedAs, SameRequest, SameSession, SameAnswer, SameSave
<1>9. CASE q.sess.modified /\ store # "cookie"
  <2> DEFINE t == WithFound(WithSess(WithPC(now, "write"), s), found)
  <2>1. Goes(r, t) /\ fresh' = IF s.key = q.sess.key THEN fresh ELSE fresh + 1
    <3>1. t = [now EXCEPT !.pc = "write", !.sess = s, !.found = found]
      BY DEF WithFound, WithSess, WithPC
    <3> QED BY <1>1, <1>9, <3>1
  <2>2. s.key \in Number'
    <3>1. CASE s.key = q.sess.key
      BY <1>3, <1>4, <3>1, TypesGrow
    <3>2. CASE s.key # q.sess.key
      <4>1. fresh' = fresh + 1 /\ s.key = fresh + 1
        BY <1>5, <2>1, <3>2
      <4> QED BY <1>2, <4>1 DEF Number
    <3> QED BY <3>1, <3>2
  <2>3. s \in Session'
    BY <1>3, <1>4, <1>5, <2>2, TypesGrow DEF Session
  <2>4. WithPC(now, "write") \in RequestState'
    BY <1>6, WithTypes DEF Stage
  <2>5. WithSess(WithPC(now, "write"), s) \in RequestState'
    BY <2>3, <2>4, WithTypes
  <2>6. t \in RequestState'
    <3>1. found \in BOOLEAN
      OBVIOUS
    <3> HIDE DEF found
    <3> QED BY <2>5, <3>1, WithTypes
  <2> HIDE DEF found
  <2>7. /\ t.pc = "write" /\ t.sess = s /\ t.found = found /\ t.out = now.out /\ t.wrote
        /\ t.meant = now.meant /\ SameRequest(now, t) /\ SameAnswer(now, t)
        /\ t.alone = now.alone /\ t.user = now.user
    BY <1>6 DEF WithFound, WithSess, WithPC, RequestState, SameRequest, SameAnswer
  <2> HIDE DEF t
  <2>8. RequestsOK' /\ req'[r] = t /\ Others(r)
    BY <1>2, <1>3, <2>1, <2>6, <2>7, GoesEffect
  <2>9. t.found <=> t.sess.key \in DOMAIN rows
    BY <2>7 DEF found
  <2> QED BY <1>1, <1>2, <1>3, <1>5, <1>6, <1>9, <2>7, <2>8, <2>9
          DEF SavedAs, SameRequest, SameSession, SameAnswer, SameSave
<1> QED BY <1>7, <1>8, <1>9

(* Write stores the data, unless the row it found is gone by then. *)
WrittenAs(r) ==
    LET q == req[r] t == req'[r]
    IN /\ q.pc = "write" /\ t.pc \in {"after", "respond"}
       /\ SameRequest(q, t) /\ SameSession(q, t) /\ SameAnswer(q, t)
       /\ t.out = q.sess.key /\ t.alone = q.alone /\ t.user = q.user
       /\ rows' = Stored(q.sess, q.found)
       /\ Others(r)
       /\ UNCHANGED <<accountVars, setting, store, header, jar, page, fresh, sent, faults,
                      values, loggedIn, calm>>

LEMMA WriteEffect ==
    ASSUME TypeOK, NEW r \in Checker, Write(r), store = "db", req[r].sess.key # None
    PROVE  /\ WrittenAs(r) /\ Later /\ RequestsOK'
           /\ DOMAIN rows' \subseteq 1 .. fresh /\ rows' \in [DOMAIN rows' -> SessionData]
<1> DEFINE q == req[r]
           mid == WithOut(q, q.sess.key)
           t == AfterSave(mid)
<1>1. /\ q.pc = "write" /\ rows' = Stored(q.sess, q.found) /\ Goes(r, t)
      /\ UNCHANGED <<accountVars, setting, store, header, jar, page, fresh, sent, faults,
                     values, loggedIn, calm>>
  BY DEF Write, WithOut
<1>2. /\ RequestsOK /\ Later /\ q \in RequestState /\ q \in RequestState' /\ q.wrote
      /\ q.sess.key \in 1 .. fresh /\ q.sess.data \in SessionData
  BY <1>1, TypesGrow DEF TypeOK, Later, RequestsOK, RequestState, Session, Number
<1>3. q.sess.key \in Cookie'
  BY <1>1, <1>2 DEF Cookie, Number, Later
<1>4. mid \in RequestState'
  BY <1>2, <1>3, WithTypes, Zenon
<1>5. /\ mid.wrote /\ mid.out = q.sess.key
      /\ SameRequest(q, mid) /\ SameSession(q, mid) /\ SameAnswer(q, mid)
      /\ mid.alone = q.alone /\ mid.user = q.user
  BY <1>2, <1>4 DEF WithOut, RequestState, SameRequest, SameSession, SameAnswer
<1> HIDE DEF mid
<1>6. /\ t \in RequestState' /\ t.pc \in {"after", "respond"} /\ t.wrote
      /\ SameRequest(mid, t) /\ SameSession(mid, t) /\ SameAnswer(mid, t)
      /\ SameSave(mid, t) /\ t.alone = mid.alone /\ t.user = mid.user
  BY <1>4, <1>5, AfterSaveEffect
<1> HIDE DEF t
<1>7. RequestsOK' /\ req'[r] = t /\ Others(r)
  BY <1>1, <1>2, <1>6, GoesEffect
<1>8. DOMAIN rows' \subseteq 1 .. fresh /\ rows' \in [DOMAIN rows' -> SessionData]
  <2>1. CASE q.found /\ q.sess.key \notin DOMAIN rows
    BY <1>1, <2>1 DEF Stored, TypeOK
  <2>2. CASE ~(q.found /\ q.sess.key \notin DOMAIN rows)
    <3>1. rows' = [k \in DOMAIN rows \cup {q.sess.key} |->
                      IF k = q.sess.key THEN q.sess.data ELSE rows[k]]
      BY <1>1, <2>2 DEF Stored, With
    <3> QED BY <1>2, <3>1 DEF TypeOK
  <2> QED BY <2>1, <2>2
<1> QED BY <1>1, <1>2, <1>5, <1>6, <1>7, <1>8
        DEF WrittenAs, SameRequest, SameSession, SameAnswer, SameSave

(* What is kept after the first write changes the session in memory. *)
KeptLateAs(r) ==
    LET q == req[r] t == req'[r]
    IN /\ q.pc = "after" /\ t.pc = "respond"
       /\ SameRequest(q, t) /\ t.meant = q.meant /\ SameAnswer(q, t) /\ SameSave(q, t)
       /\ t.alone = q.alone /\ t.user = q.user
       /\ Others(r)
       /\ UNCHANGED <<accountVars, setting, store, header, webVars>>

LEMMA KeepLateEffect ==
    ASSUME TypeOK, NEW r \in Checker, KeepLate(r)
    PROVE  KeptLateAs(r) /\ Later /\ RequestsOK'
<1> DEFINE q == req[r]
<1>1. PICK v \in Value : Goes(r, SavedOnce([q EXCEPT !.sess = Set(@, "a", v)]))
  BY DEF KeepLate
<1> DEFINE data == [q.sess.data EXCEPT !["a"] = v]
           sess == Set(q.sess, "a", v)
           mid == WithSess(q, sess)
           t == WithPC(mid, "respond")
<1>2. /\ RequestsOK /\ Later /\ q \in RequestState /\ q \in RequestState' /\ q.wrote
      /\ q.pc = "after" /\ q.sess \in Session /\ q.sess.data \in SessionData
      /\ UNCHANGED <<accountVars, setting, store, header, webVars>>
  BY TypesGrow DEF KeepLate, TypeOK, Later, RequestsOK, RequestState, Session, webVars
<1>3. sess \in Session'
  <2>1. data \in SessionData
    BY <1>2, DataWithValue
  <2>2. sess = [q.sess EXCEPT !.data = data, !.modified = TRUE]
    BY DEF Set
  <2> DEFINE half == [q.sess EXCEPT !.data = data]
  <2>3. sess = [half EXCEPT !.modified = TRUE]
    BY <2>2
  <2> HIDE DEF data
  <2>4. half \in Session
    BY <1>2, <2>1 DEF Session
  <2> HIDE DEF half, sess
  <2>5. sess \in Session
    BY <2>3, <2>4 DEF Session
  <2> QED BY <1>2, <2>5, TypesGrow
<1>4. Goes(r, t)
  BY <1>1 DEF SavedOnce, WithSess, WithPC
<1> HIDE DEF sess
<1>5. mid \in RequestState'
  BY <1>2, <1>3, WithTypes, ZenonT(60)
<1>6. t \in RequestState'
  BY <1>5, WithTypes DEF Stage
<1>7. /\ t.pc = "respond" /\ SameRequest(q, t) /\ t.meant = q.meant /\ SameAnswer(q, t)
      /\ SameSave(q, t) /\ t.alone = q.alone /\ t.user = q.user /\ t.wrote = q.wrote
  BY <1>2, <1>6, ZenonT(60) DEF WithSess, WithPC, RequestState, SameRequest, SameAnswer, SameSave
<1> HIDE DEF t
<1>8. RequestsOK' /\ req'[r] = t /\ Others(r)
  BY <1>2, <1>4, <1>6, <1>7, GoesEffect
<1> QED BY <1>2, <1>7, <1>8 DEF KeptLateAs

(* Respond, and an answer that is lost, leave the request idle. *)
LEMMA IdleEffect ==
    ASSUME TypeOK, NEW r \in Checker, Goes(r, Idle), UNCHANGED <<store, fresh>>
    PROVE  Later /\ RequestsOK' /\ req'[r] = Idle /\ Others(r)
<1>1. Later /\ RequestsOK
  BY DEF TypeOK, Later, RequestsOK
<1>2. Idle \in RequestState'
  BY <1>1, IdleType, TypesGrow DEF Later
<1>3. Idle.wrote <=> Idle.pc \in {"write", "after", "respond"}
  BY DEF Idle
<1> QED BY <1>1, <1>2, <1>3, GoesEffect

(* A request whose session could not be saved answers without a cookie. *)
UnsavedAs(r) ==
    LET q == req[r] t == req'[r]
    IN /\ q.pc = "write" /\ t.pc \in {"after", "respond"}
       /\ SameRequest(q, t) /\ SameSession(q, t) /\ SameAnswer(q, t) /\ SameSave(q, t)
       /\ ~t.alone /\ t.user = q.user
       /\ Others(r) /\ ~calm' /\ faults' \in {faults, faults + 1}
       /\ UNCHANGED <<accountVars, setting, store, header, rows, jar, page, fresh, sent,
                      values, loggedIn>>

LEMMA EncodeFailsEffect ==
    ASSUME TypeOK, NEW r \in Checker, EncodeFails(r)
    PROVE  UnsavedAs(r) /\ Later /\ RequestsOK' /\ calm' = FALSE
<1> DEFINE q == req[r]
           mid == AfterSave(q)
           t == WithAlone(mid, FALSE)
<1>1. /\ q.pc = "write" /\ Goes(r, t) /\ calm' = FALSE /\ faults' \in {faults, faults + 1}
      /\ UNCHANGED <<accountVars, setting, store, header, rows, jar, page, fresh, sent,
                     values, loggedIn>>
  BY DEF EncodeFails, Fault, WithAlone
<1>2. RequestsOK /\ Later /\ q \in RequestState' /\ q.wrote
  BY <1>1, TypesGrow DEF TypeOK, Later, RequestsOK
<1>3. /\ mid \in RequestState' /\ mid.pc \in {"after", "respond"} /\ mid.wrote
      /\ SameRequest(q, mid) /\ SameSession(q, mid) /\ SameAnswer(q, mid)
      /\ SameSave(q, mid) /\ mid.user = q.user
  BY <1>2, AfterSaveEffect
<1> HIDE DEF mid
<1>4. t \in RequestState'
  BY <1>3, WithTypes
<1>5. /\ t.pc = mid.pc /\ t.wrote = mid.wrote /\ t.alone = FALSE /\ t.user = mid.user
      /\ SameRequest(mid, t) /\ SameSession(mid, t) /\ SameAnswer(mid, t) /\ SameSave(mid, t)
  BY <1>3, <1>4, Zenon DEF WithAlone, RequestState, SameRequest, SameSession, SameAnswer, SameSave
<1> HIDE DEF t
<1>6. RequestsOK' /\ req'[r] = t /\ Others(r)
  BY <1>1, <1>2, <1>3, <1>4, <1>5, GoesEffect
<1> QED BY <1>1, <1>2, <1>3, <1>5, <1>6
        DEF UnsavedAs, SameRequest, SameSession, SameAnswer, SameSave

(* A purge disturbs every request; the tables tell the open ones who is of *)
(* the staff.                                                              *)
NotedAs(q, t) ==
    /\ t.pc = q.pc /\ t.kind = q.kind /\ t.cookie = q.cookie /\ t.submitted = q.submitted
    /\ q.could \subseteq t.could /\ SameSession(q, t) /\ SameAnswer(q, t) /\ SameSave(q, t)
    /\ t.user = q.user

LEMMA PurgeEffect ==
    ASSUME TypeOK, NEW key \in DOMAIN rows, Purge(key)
    PROVE  /\ \A r \in Checker : NotedAs(req[r], req'[r]) /\ ~req'[r].alone
                                 /\ req'[r].could = req[r].could
           /\ Later /\ RequestsOK' /\ calm' = FALSE /\ faults' = faults + 1
           /\ DOMAIN rows' = DOMAIN rows \ {key} /\ \A k \in DOMAIN rows' : rows'[k] = rows[k]
           /\ rows' \in [DOMAIN rows' -> SessionData]
           /\ UNCHANGED <<accountVars, setting, store, header, jar, page, fresh, sent, values,
                          loggedIn>>
<1>1. /\ calm' = FALSE /\ faults' = faults + 1
      /\ rows' = [k \in DOMAIN rows \ {key} |-> rows[k]]
      /\ req' = [r \in Checker |-> [req[r] EXCEPT !.alone = FALSE]]
      /\ UNCHANGED <<accountVars, setting, store, header, jar, page, fresh, sent, values,
                     loggedIn>>
  BY DEF Purge, Fault
<1>2. Later /\ RequestsOK
  BY <1>1 DEF TypeOK, Later, RequestsOK
<1>3. ASSUME NEW r \in Checker
      PROVE  /\ req'[r] \in RequestState' /\ req'[r].wrote = req[r].wrote
             /\ req'[r].alone = FALSE /\ NotedAs(req[r], req'[r])
             /\ req'[r].could = req[r].could
  <2> DEFINE q == req[r]
  <2>1. q \in RequestState'
    BY <1>2, TypesGrow DEF RequestsOK
  <2>2. req'[r] = WithAlone(q, FALSE)
    BY <1>1 DEF WithAlone
  <2>3. req'[r] \in RequestState'
    BY <2>1, <2>2, WithTypes, ZenonT(60)
  <2> HIDE DEF q
  <2>4. /\ WithAlone(q, FALSE).wrote = q.wrote /\ WithAlone(q, FALSE).alone = FALSE
        /\ NotedAs(q, WithAlone(q, FALSE)) /\ WithAlone(q, FALSE).could = q.could
    BY <2>1 DEF WithAlone, RequestState, NotedAs, SameSession, SameAnswer, SameSave
  <2> QED BY <2>2, <2>3, <2>4 DEF q
<1>4. RequestsOK'
  <2>1. req' \in [Checker -> RequestState']
    <3>1. req' = [r \in Checker |-> req'[r]]
      BY <1>1
    <3> QED BY <1>3, <3>1
  <2>2. ASSUME NEW r \in Checker
        PROVE  req'[r].wrote <=> req'[r].pc \in {"write", "after", "respond"}
    BY <1>2, <1>3 DEF RequestsOK, NotedAs
  <2> QED BY <2>1, <2>2 DEF RequestsOK
<1>5. rows' \in [DOMAIN rows' -> SessionData] /\ DOMAIN rows' = DOMAIN rows \ {key}
      /\ \A k \in DOMAIN rows' : rows'[k] = rows[k]
  BY <1>1 DEF TypeOK
<1> QED BY <1>1, <1>2, <1>3, <1>4, <1>5

LEMMA TablesEffect ==
    ASSUME TypeOK, Tables, DOMAIN accounts' \subseteq Name
    PROVE  /\ \A r \in Checker : /\ NotedAs(req[r], req'[r]) /\ req'[r].alone = req[r].alone
                                 /\ Open(r) => StaffNow' \subseteq req'[r].could
           /\ Later /\ RequestsOK'
           /\ UNCHANGED <<setting, store, header, webVars>>
<1>1. /\ UNCHANGED <<setting, store, header, webVars>>
      /\ req' = [r \in Checker |->
            IF Open(r) THEN [req[r] EXCEPT !.could = @ \cup StaffNow'] ELSE req[r]]
  BY DEF Tables
<1>2. Later /\ RequestsOK /\ StaffNow' \subseteq Name
  BY <1>1 DEF TypeOK, Later, RequestsOK, webVars, StaffNow
<1>3. ASSUME NEW r \in Checker
      PROVE  /\ req'[r] \in RequestState' /\ req'[r].wrote = req[r].wrote
             /\ req'[r].alone = req[r].alone /\ NotedAs(req[r], req'[r])
             /\ Open(r) => StaffNow' \subseteq req'[r].could
  <2> DEFINE q == req[r]
             could == q.could \cup StaffNow'
  <2>1. q \in RequestState' /\ could \subseteq Name
    BY <1>2, TypesGrow DEF RequestsOK, RequestState
  <2>2. CASE Open(r)
    <3>1. req'[r] = WithCould(q, could)
      BY <1>1, <2>2 DEF WithCould
    <3>2. q.could \subseteq could /\ StaffNow' \subseteq could
      OBVIOUS
    <3> HIDE DEF could, q
    <3>3. WithCould(q, could) \in RequestState'
      BY <2>1, WithTypes
    <3>4. /\ WithCould(q, could).wrote = q.wrote /\ WithCould(q, could).alone = q.alone
          /\ WithCould(q, could).could = could /\ NotedAs(q, WithCould(q, could))
      BY <2>1, <3>2 DEF WithCould, RequestState, NotedAs, SameSession, SameAnswer, SameSave
    <3> QED BY <3>1, <3>2, <3>3, <3>4 DEF q
  <2>3. CASE ~Open(r)
    <3>1. req'[r] = q
      BY <1>1, <2>3
    <3> QED BY <2>1, <2>3, <3>1 DEF NotedAs, SameSession, SameAnswer, SameSave
  <2> QED BY <2>2, <2>3
<1>4. RequestsOK'
  <2>1. req' \in [Checker -> RequestState']
    <3>1. req' = [r \in Checker |-> req'[r]]
      BY <1>1
    <3> QED BY <1>3, <3>1
  <2>2. ASSUME NEW r \in Checker
        PROVE  req'[r].wrote <=> req'[r].pc \in {"write", "after", "respond"}
    BY <1>2, <1>3 DEF RequestsOK, NotedAs
  <2> QED BY <2>1, <2>2 DEF RequestsOK
<1> QED BY <1>1, <1>2, <1>3, <1>4

-----------------------------------------------------------------------------
(* The kinds of steps. *)

RespondedAs(r) ==
    LET q == req[r]
    IN /\ q.pc = "respond" /\ req'[r] = Idle /\ Others(r)
       /\ jar' = IF q.out = None THEN jar ELSE q.out
       /\ page' = IF q.status = 302 THEN None ELSE IF q.shown = None THEN page ELSE q.shown
       /\ calm' = (calm \/ (q.alone /\ q.shown # None))
       /\ UNCHANGED <<accountVars, setting, store, header, rows, fresh, sent, faults, values,
                      loggedIn>>

LostAs(r) ==
    /\ req[r].pc \in {"handle", "respond"} /\ req'[r] = Idle /\ Others(r)
    /\ ~calm' /\ faults' = faults + 1
    /\ UNCHANGED <<accountVars, setting, store, header, rows, jar, page, fresh, sent, values,
                   loggedIn>>

PurgedAs ==
    /\ \A r \in Checker : NotedAs(req[r], req'[r]) /\ ~req'[r].alone
                          /\ req'[r].could = req[r].could
    /\ DOMAIN rows' \subseteq DOMAIN rows /\ \A k \in DOMAIN rows' : rows'[k] = rows[k]
    /\ ~calm' /\ faults' = faults + 1
    /\ UNCHANGED <<accountVars, setting, store, header, jar, page, fresh, sent, values,
                   loggedIn>>

TablesAs ==
    /\ \A r \in Checker : /\ NotedAs(req[r], req'[r]) /\ req'[r].alone = req[r].alone
                          /\ Open(r) => StaffNow' \subseteq req'[r].could
    /\ UNCHANGED <<setting, store, header, webVars>>

RequestAs(r) ==
    \/ SentAs(r) \/ DecodedAs(r) \/ LoadedAs(r) \/ Served(r) \/ SavedAs(r)
    \/ WrittenAs(r) \/ KeptLateAs(r) \/ RespondedAs(r) \/ UnsavedAs(r) \/ LostAs(r)

StepAs == (\E r \in Checker : RequestAs(r)) \/ PurgedAs \/ TablesAs

(* The types that a step of the requests does not touch. *)
LEMMA OtherTypes ==
    ASSUME TypeOK, Later, RequestsOK', AccountsTypeOK',
           UNCHANGED <<setting, header>>, sent' \in Nat, faults' \in Nat, calm' \in BOOLEAN,
           DOMAIN rows' \subseteq 1 .. fresh' /\ rows' \in [DOMAIN rows' -> SessionData'],
           jar' \in Cookie', page' \in Number',
           values' \subseteq SessionData', loggedIn' \subseteq Name
    PROVE  TypeOK'
BY DEF TypeOK, RequestsOK, Later

(* The tables of the accounts keep their types. *)
LEMMA AccountTables ==
    ASSUME AccountsTypeOK, AccountsInv, ChecksInv,
           \/ \E c \in Caller : CreateUser(c) \/ CreateSuperuser(c) \/ InsertUser(c)
           \/ \E r \in Checker : CheckStep(r)
           \/ Regrant
           \/ \E n \in DOMAIN accounts, active \in BOOLEAN : SetActive(n, active)
    PROVE  AccountsTypeOK' /\ AccountsInv' /\ ChecksInv'
<1>1. CASE \E c \in Caller : CreateUser(c) \/ CreateSuperuser(c)
  <2>1. PICK c \in Caller : CreateUser(c) \/ CreateSuperuser(c)
    BY <1>1
  <2>2. UNCHANGED <<accounts, direct, member, granted, check, changes>>
    BY <2>1, CreateStages DEF grants
  <2>3. AccountsInv' /\ creating' \in [Caller -> Creation]
    BY <2>1, CreateOK
  <2>4. ChecksInv'
    BY <2>2 DEF ChecksInv, CheckOK, Between, NotDirect, GroupsOK, Justified, Holds
  <2> QED BY <2>2, <2>3, <2>4 DEF AccountsTypeOK
<1>2. CASE \E c \in Caller : InsertUser(c)
  <2>1. PICK c \in Caller : InsertUser(c)
    BY <1>2
  <2>2. UNCHANGED <<direct, member, granted, check, changes>>
        /\ creating' \in [Caller -> Creation]
    BY <2>1, InsertEffect DEF grants
  <2>3. /\ AccountsInv' /\ accounts' \in [DOMAIN accounts' -> AccountRow]
        /\ DOMAIN accounts' \subseteq Name
    BY <2>1, InsertOK
  <2>4. ChecksInv'
    BY <2>2 DEF ChecksInv, CheckOK, Between, NotDirect, GroupsOK, Justified, Holds
  <2> QED BY <2>2, <2>3, <2>4 DEF AccountsTypeOK
<1>3. CASE \E r \in Checker : CheckStep(r)
  <2>1. PICK r \in Checker : CheckStep(r)
    BY <1>3
  <2>2. CheckMoves(r) /\ ChecksInv'
    BY <2>1, CheckStepOK
  <2>3. UNCHANGED <<accounts, direct, member, granted, creating, changes>>
        /\ check' \in [Checker -> Check]
    BY <2>2 DEF CheckMoves, grants
  <2>4. AccountsInv'
    BY <2>3, AccountsKept
  <2> QED BY <2>2, <2>3, <2>4 DEF AccountsTypeOK
<1>4. CASE Regrant
  <2>1. /\ UNCHANGED <<accounts, creating>> /\ changes' \in Nat
        /\ direct' \subseteq Name \X Perm /\ member' \subseteq Name \X Group
        /\ granted' \subseteq Group \X Perm
        /\ check' \in [Checker -> Check]
    BY <1>4, RegrantEffect
  <2>2. ChecksInv'
    BY <1>4, RegrantOK
  <2>3. AccountsInv'
    BY <2>1, AccountsKept
  <2> QED BY <2>1, <2>2, <2>3 DEF AccountsTypeOK
<1>5. CASE \E n \in DOMAIN accounts, active \in BOOLEAN : SetActive(n, active)
  <2>1. PICK n \in DOMAIN accounts, active \in BOOLEAN : SetActive(n, active)
    BY <1>5
  <2>2. /\ UNCHANGED <<direct, member, granted, creating, check>> /\ changes' \in Nat
        /\ DOMAIN accounts' = DOMAIN accounts
        /\ accounts' \in [DOMAIN accounts' -> AccountRow]
        /\ \A m \in DOMAIN accounts :
              /\ accounts'[m].password = accounts[m].password
              /\ accounts'[m].super = accounts[m].super
    BY <2>1, SetActiveEffect DEF grants
  <2>3. AccountsInv'
    BY <2>2, AccountsKept
  <2>4. ChecksInv'
    BY <2>2, ZenonT(60) DEF ChecksInv, CheckOK, Between, NotDirect, GroupsOK, Justified, Holds
  <2> QED BY <2>2, <2>3, <2>4 DEF AccountsTypeOK
<1> QED BY <1>1, <1>2, <1>3, <1>4, <1>5

(* A guard starts a check or forgets one; nothing else of the accounts     *)
(* changes with a request.                                                 *)
LEMMA AccountRequests ==
    ASSUME AccountsTypeOK, AccountsInv, ChecksInv, NEW r \in Checker,
           UNCHANGED <<accounts, grants, creating, changes>>,
           \/ UNCHANGED check
           \/ check' = [check EXCEPT ![r] = NotChecking]
           \/ \E user \in User : check' = [check EXCEPT ![r] = StartCheck(user)]
    PROVE  AccountsTypeOK' /\ AccountsInv' /\ ChecksInv'
<1>1. UNCHANGED <<accounts, direct, member, granted, creating, changes>>
  BY DEF grants
<1>2. AccountsInv'
  BY <1>1, AccountsKept
<1>3. ASSUME NEW d \in Checker, check'[d] = check[d]
      PROVE  CheckOK(check[d])'
  BY <1>1, <1>3 DEF ChecksInv, CheckOK, Between, NotDirect, GroupsOK, Justified, Holds
<1>4. CASE UNCHANGED check
  BY <1>1, <1>2, <1>3, <1>4 DEF AccountsTypeOK, ChecksInv
<1>5. CASE check' = [check EXCEPT ![r] = NotChecking]
  <2>1. NotChecking \in Check /\ NotChecking.stage = "idle" /\ NotChecking.answer = None
    BY DEF NotChecking, Check, GrantSets
  <2>2. check' \in [Checker -> Check] /\ check'[r] = NotChecking
        /\ \A d \in Checker \ {r} : check'[d] = check[d]
    BY <1>5, <2>1 DEF AccountsTypeOK
  <2>3. CheckOK(check[r])'
    BY <2>1, <2>2 DEF CheckOK
  <2>4. ChecksInv'
    BY <1>3, <2>2, <2>3 DEF ChecksInv
  <2> QED BY <1>1, <1>2, <2>2, <2>4 DEF AccountsTypeOK
<1>6. CASE \E user \in User : check' = [check EXCEPT ![r] = StartCheck(user)]
  <2>1. PICK user \in User : check' = [check EXCEPT ![r] = StartCheck(user)]
    BY <1>6
  <2> DEFINE stage == IF user.super \/ ~user.active THEN "done" ELSE "direct"
             answer == IF ~user.active THEN FALSE ELSE IF user.super THEN TRUE ELSE None
             k1 == [NotChecking EXCEPT !.user = user]
             k2 == [k1 EXCEPT !.stage = stage]
             k3 == [k2 EXCEPT !.answer = answer]
             k4 == [k3 EXCEPT !.ever = grants]
             k == [k4 EXCEPT !.always = grants]
  <2>2. StartCheck(user) = k
    BY DEF StartCheck
  <2>3. user.super \in BOOLEAN /\ user.active \in BOOLEAN
    BY DEF User
  <2>4. stage \in {"done", "direct"} /\ answer \in BOOLEAN \cup {None}
        /\ (stage = "direct" => answer = None) /\ (stage = "done" => user.super \/ ~user.active)
    BY <2>3
  <2>5. grants \in GrantSets
    BY DEF grants, AccountsTypeOK, GrantSets
  <2> HIDE DEF stage, answer
  <2>21. k1 \in Check /\ k1.user = user
    BY DEF NotChecking, Check, GrantSets
  <2> HIDE DEF k1
  <2>22. k2 \in Check /\ k2.user = user /\ k2.stage = stage
    BY <2>21, <2>4 DEF Check
  <2> HIDE DEF k2
  <2>23. k3 \in Check /\ k3.user = user /\ k3.stage = stage /\ k3.answer = answer
    BY <2>22, <2>4 DEF Check
  <2> HIDE DEF k3
  <2>24. k4 \in Check /\ k4.user = user /\ k4.stage = stage /\ k4.answer = answer
         /\ k4.ever = grants
    BY <2>23, <2>5 DEF Check
  <2> HIDE DEF k4
  <2>25. k \in Check /\ k.user = user /\ k.stage = stage /\ k.answer = answer
         /\ k.ever = grants /\ k.always = grants
    BY <2>24, <2>5 DEF Check
  <2>7. /\ check' \in [Checker -> Check]
        /\ \A d \in Checker \ {r} : check'[d] = check[d]
        /\ check'[r] \in Check /\ check'[r].user = user /\ check'[r].stage = stage
        /\ check'[r].answer = answer /\ check'[r].ever = grants /\ check'[r].always = grants
    <3> HIDE DEF k
    <3>1. check' = [check EXCEPT ![r] = k]
      BY <2>1, <2>2
    <3> QED BY <3>1, <2>25 DEF AccountsTypeOK
  <2>8. Between(check[r])'
    BY <1>1, <2>7 DEF Between, grants
  <2>9. stage = "done" => Justified(check[r])'
    BY <2>3, <2>4, <2>7 DEF Justified, answer
  <2>10. CheckOK(check[r])'
    BY <2>1, <2>4, <2>7, <2>8, <2>9 DEF CheckOK
  <2>11. ChecksInv'
    BY <1>3, <2>7, <2>10 DEF ChecksInv
  <2> QED BY <1>1, <1>2, <2>7, <2>11 DEF AccountsTypeOK
<1> QED BY <1>4, <1>5, <1>6

-----------------------------------------------------------------------------
(* What a step leaves alone keeps its type. *)
KeptTypesOf ==
    /\ UNCHANGED sent => sent' \in Nat
    /\ UNCHANGED faults => faults' \in Nat
    /\ UNCHANGED calm => calm' \in BOOLEAN
    /\ UNCHANGED rows =>
          DOMAIN rows' \subseteq 1 .. fresh' /\ rows' \in [DOMAIN rows' -> SessionData']
    /\ UNCHANGED jar => jar' \in Cookie'
    /\ UNCHANGED page => page' \in Number'
    /\ UNCHANGED values => values' \subseteq SessionData'
    /\ UNCHANGED loggedIn => loggedIn' \subseteq Name

LEMMA KeptTypes ==
    ASSUME TypeOK, Later
    PROVE  KeptTypesOf
<1>1. /\ Number \subseteq Number' /\ SessionData \subseteq SessionData'
      /\ Cookie \subseteq Cookie'
  BY TypesGrow
<1>2. 1 .. fresh \subseteq 1 .. fresh'
  BY DEF Later
<1>3. UNCHANGED rows => DOMAIN rows' \subseteq 1 .. fresh' /\ rows' \in [DOMAIN rows' -> SessionData']
  <2> HAVE UNCHANGED rows
  <2>1. DOMAIN rows \subseteq 1 .. fresh /\ rows \in [DOMAIN rows -> SessionData]
    BY DEF TypeOK
  <2> QED BY <1>1, <1>2, <2>1
<1>4. /\ sent \in Nat /\ faults \in Nat /\ calm \in BOOLEAN /\ jar \in Cookie
      /\ page \in Number /\ values \subseteq SessionData /\ loggedIn \subseteq Name
  BY DEF TypeOK
<1> QED BY <1>1, <1>3, <1>4 DEF KeptTypesOf

(* The accounts and the checks as they are. *)
AccountsOK == AccountsTypeOK /\ AccountsInv /\ ChecksInv

LEMMA UntouchedAccounts ==
    ASSUME AccountsOK, UNCHANGED accountVars
    PROVE  AccountsOK'
<1>1. UNCHANGED <<accounts, direct, member, granted, creating, changes, check>>
  BY DEF accountVars, grants
<1>2. AccountsInv'
  BY <1>1, AccountsKept DEF AccountsOK
<1>3. AccountsTypeOK'
  BY <1>1 DEF AccountsTypeOK, AccountsOK
<1>4. ChecksInv'
  BY <1>1 DEF AccountsOK, ChecksInv, CheckOK, Between, NotDirect, GroupsOK, Justified, Holds
<1> QED BY <1>2, <1>3, <1>4 DEF AccountsOK

(* A view starts a check, or ends one, or does without. *)
LEMMA ViewAccounts ==
    ASSUME TypeOK, AccountsOK, StagesInv, NEW r \in Checker, View(r)
    PROVE  AccountsOK'
<1>1. UNCHANGED <<accounts, grants, creating, changes>>
  BY DEF View, Page, SetValue, SetLate, Login, Logout, Admin, Guarded, GuardAnswers, Handled
<1>2. \/ UNCHANGED check
      \/ check' = [check EXCEPT ![r] = NotChecking]
      \/ \E user \in User : check' = [check EXCEPT ![r] = StartCheck(user)]
  <2>1. CASE Guarded(r)
    <3>1. req[r] \in RequestState
      BY DEF TypeOK
    <3>2. req[r].user # None => req[r].user \in User
      BY <3>1 DEF RequestState
    <3> QED BY <2>1, <3>2 DEF Guarded
  <2>2. CASE ~Guarded(r)
    BY <2>2 DEF View, Page, SetValue, SetLate, Login, Logout, Admin, GuardAnswers
  <2> QED BY <2>1, <2>2
<1> QED BY <1>1, <1>2, AccountRequests DEF AccountsOK

(* Every step of a request is of a kind above, and keeps the types. *)
LEMMA RequestKinds ==
    ASSUME TypeOK, AccountsOK, StagesInv, NEW r \in Checker, Request(r)
    PROVE  RequestAs(r) /\ TypeOK' /\ AccountsOK'
<1>0. /\ sent \in Nat /\ faults \in Nat /\ calm \in BOOLEAN /\ fresh \in Nat
      /\ values \subseteq SessionData
      /\ req[r] \in RequestState
  BY DEF TypeOK
<1> DEFINE Rest == UNCHANGED <<setting, header, rows, jar, page, values, loggedIn>>
<1>1. CASE Send(r)
  <2>1. SentAs(r) /\ Later /\ RequestsOK' /\ sent' \in Nat /\ calm' \in BOOLEAN
    BY <1>1, SendEffect
  <2>2. UNCHANGED accountVars /\ UNCHANGED faults /\ Rest
    BY <2>1 DEF SentAs
  <2>3. AccountsOK'
    BY <2>2, UntouchedAccounts
  <2>4. TypeOK'
    BY <2>1, <2>2, <2>3, KeptTypes, OtherTypes DEF KeptTypesOf, AccountsOK
  <2> QED BY <2>1, <2>3, <2>4 DEF RequestAs
<1>2. CASE Decode(r)
  <2>1. DecodedAs(r) /\ Later /\ RequestsOK' /\ req'[r].meant \in SessionData'
    BY <1>2, DecodeEffect
  <2>2. /\ UNCHANGED accountVars
        /\ UNCHANGED <<setting, header, rows, jar, page, sent, faults, loggedIn, calm>>
        /\ values' = values \cup {req'[r].meant}
    BY <2>1 DEF DecodedAs
  <2>3. AccountsOK'
    BY <2>2, UntouchedAccounts
  <2>4. values' \subseteq SessionData'
    BY <1>0, <2>1, <2>2, TypesGrow
  <2>5. TypeOK'
    BY <2>1, <2>2, <2>3, <2>4, KeptTypes, OtherTypes DEF KeptTypesOf, AccountsOK
  <2> QED BY <2>1, <2>3, <2>5 DEF RequestAs
<1>3. CASE LoadUser(r)
  <2>1. LoadedAs(r) /\ Later /\ RequestsOK'
    BY <1>3, LoadUserEffect
  <2>2. UNCHANGED accountVars /\ UNCHANGED <<sent, faults, calm>> /\ Rest
    BY <2>1 DEF LoadedAs, webVars
  <2>3. AccountsOK'
    BY <2>2, UntouchedAccounts
  <2>4. TypeOK'
    BY <2>1, <2>2, <2>3, KeptTypes, OtherTypes DEF KeptTypesOf, AccountsOK
  <2> QED BY <2>1, <2>3, <2>4 DEF RequestAs
<1>4. CASE View(r)
  <2>1. Served(r) /\ Later /\ RequestsOK' /\ values' \subseteq SessionData'
        /\ loggedIn' \subseteq Name
    BY <1>4, ViewServed DEF ServedTypes
  <2>2. AccountsOK'
    BY <1>4, ViewAccounts
  <2>3. UNCHANGED <<setting, header, rows, jar, page, calm, sent, faults>>
    BY <2>1 DEF Served
  <2>4. TypeOK'
    BY <2>1, <2>2, <2>3, KeptTypes, OtherTypes DEF KeptTypesOf, AccountsOK
  <2> QED BY <2>1, <2>2, <2>4 DEF RequestAs
<1>5. CASE Save(r)
  <2>1. SavedAs(r) /\ Later /\ RequestsOK'
    BY <1>5, SaveEffect
  <2>2. UNCHANGED accountVars /\ UNCHANGED <<sent, faults, calm>> /\ Rest
    BY <2>1 DEF SavedAs
  <2>3. AccountsOK'
    BY <2>2, UntouchedAccounts
  <2>4. TypeOK'
    BY <2>1, <2>2, <2>3, KeptTypes, OtherTypes DEF KeptTypesOf, AccountsOK
  <2> QED BY <2>1, <2>3, <2>4 DEF RequestAs
<1>6. CASE Write(r)
  <2>0. store = "db" /\ req[r].sess.key # None
    BY <1>6 DEF Write, StagesInv, StageOK
  <2>1. WrittenAs(r) /\ Later /\ RequestsOK'
        /\ DOMAIN rows' \subseteq 1 .. fresh /\ rows' \in [DOMAIN rows' -> SessionData]
    BY <1>6, <2>0, WriteEffect
  <2>2. /\ UNCHANGED accountVars /\ UNCHANGED fresh
        /\ UNCHANGED <<setting, header, jar, page, values, loggedIn, sent, faults, calm>>
    BY <2>1 DEF WrittenAs
  <2>3. AccountsOK'
    BY <2>2, UntouchedAccounts
  <2>4. DOMAIN rows' \subseteq 1 .. fresh' /\ rows' \in [DOMAIN rows' -> SessionData']
    BY <2>1, <2>2, TypesGrow
  <2>5. TypeOK'
    BY <2>1, <2>2, <2>3, <2>4, KeptTypes, OtherTypes DEF KeptTypesOf, AccountsOK
  <2> QED BY <2>1, <2>3, <2>5 DEF RequestAs
<1>7. CASE KeepLate(r)
  <2>1. KeptLateAs(r) /\ Later /\ RequestsOK'
    BY <1>7, KeepLateEffect
  <2>2. UNCHANGED accountVars /\ UNCHANGED <<sent, faults, calm>> /\ Rest
    BY <2>1 DEF KeptLateAs, webVars
  <2>3. AccountsOK'
    BY <2>2, UntouchedAccounts
  <2>4. TypeOK'
    BY <2>1, <2>2, <2>3, KeptTypes, OtherTypes DEF KeptTypesOf, AccountsOK
  <2> QED BY <2>1, <2>3, <2>4 DEF RequestAs
<1>8. CASE Respond(r)
  <2>1. /\ Goes(r, Idle) /\ UNCHANGED <<accountVars, setting, store, header, rows, fresh,
                                        sent, faults, values, loggedIn>>
    BY <1>8 DEF Respond
  <2>2. Later /\ RequestsOK' /\ req'[r] = Idle /\ Others(r)
    BY <2>1, IdleEffect
  <2>3. RespondedAs(r)
    BY <1>8, <2>1, <2>2 DEF Respond, RespondedAs
  <2>4. AccountsOK'
    BY <2>1, UntouchedAccounts
  <2>5. jar' \in Cookie' /\ page' \in Number'
    <3>1. req[r].out \in Cookie /\ req[r].shown \in Number /\ jar \in Cookie
          /\ page \in Number /\ None \in Number
      BY <1>0 DEF RequestState, TypeOK, Number
    <3>2. jar' \in Cookie /\ page' \in Number
      BY <1>8, <3>1 DEF Respond
    <3> QED BY <2>2, <3>2, TypesGrow
  <2>6. calm' \in BOOLEAN
    BY <1>8 DEF Respond
  <2>7. TypeOK'
    BY <2>1, <2>2, <2>4, <2>5, <2>6, KeptTypes, OtherTypes DEF KeptTypesOf, AccountsOK
  <2> QED BY <2>3, <2>4, <2>7 DEF RequestAs
<1>9. CASE EncodeFails(r)
  <2>1. UnsavedAs(r) /\ Later /\ RequestsOK' /\ calm' = FALSE
    BY <1>9, EncodeFailsEffect
  <2>2. UNCHANGED accountVars /\ UNCHANGED sent /\ Rest /\ faults' \in {faults, faults + 1}
    BY <2>1 DEF UnsavedAs
  <2>3. AccountsOK'
    BY <2>2, UntouchedAccounts
  <2>32. faults' \in Nat
    BY <1>0, <2>2
  <2>31. calm' \in BOOLEAN
    BY ONLY <2>1
  <2>4. TypeOK'
    BY <2>1, <2>2, <2>3, <2>31, <2>32, KeptTypes, OtherTypes DEF KeptTypesOf, AccountsOK
  <2> QED BY <2>1, <2>3, <2>4 DEF RequestAs
<1>10. CASE Lose(r)
  <2>1. /\ Goes(r, Idle) /\ UNCHANGED <<accountVars, setting, store, header, rows, jar, page,
                                        fresh, sent, values, loggedIn>>
        /\ faults' = faults + 1 /\ calm' = FALSE
    BY <1>10 DEF Lose, Fault
  <2>2. Later /\ RequestsOK' /\ req'[r] = Idle /\ Others(r)
    BY <2>1, IdleEffect
  <2>3. LostAs(r)
    BY <1>10, <2>1, <2>2 DEF Lose, LostAs
  <2>4. AccountsOK'
    BY <2>1, UntouchedAccounts
  <2>5. faults' \in Nat
    BY <1>0, <2>1
  <2>51. calm' \in BOOLEAN
    BY ONLY <2>1
  <2>6. TypeOK'
    BY <2>1, <2>2, <2>4, <2>5, <2>51, KeptTypes, OtherTypes DEF KeptTypesOf, AccountsOK
  <2> QED BY <2>3, <2>4, <2>6 DEF RequestAs
<1> QED BY <1>1, <1>2, <1>3, <1>4, <1>5, <1>6, <1>7, <1>8, <1>9, <1>10 DEF Request, View

(* Every step is of a kind above, and keeps the types. *)
LEMMA StepKinds ==
    ASSUME TypeOK, AccountsOK, StagesInv, Next
    PROVE  StepAs /\ TypeOK' /\ AccountsOK'
<1>1. CASE \E r \in Checker : Request(r)
  BY <1>1, RequestKinds DEF StepAs
<1>2. CASE \E key \in DOMAIN rows : Purge(key)
  <2>1. PICK key \in DOMAIN rows : Purge(key)
    BY <1>2
  <2>2. /\ \A r \in Checker : NotedAs(req[r], req'[r]) /\ ~req'[r].alone
                               /\ req'[r].could = req[r].could
        /\ Later /\ RequestsOK' /\ calm' = FALSE /\ faults' = faults + 1
        /\ DOMAIN rows' = DOMAIN rows \ {key} /\ \A k \in DOMAIN rows' : rows'[k] = rows[k]
        /\ rows' \in [DOMAIN rows' -> SessionData]
        /\ UNCHANGED <<accountVars, setting, store, header, jar, page, fresh, sent, values,
                       loggedIn>>
    BY <2>1, PurgeEffect
  <2>3. PurgedAs
    BY <2>2 DEF PurgedAs
  <2>4. AccountsOK'
    BY <2>2, UntouchedAccounts
  <2>5. DOMAIN rows' \subseteq 1 .. fresh' /\ rows' \in [DOMAIN rows' -> SessionData']
    BY <2>2, TypesGrow DEF TypeOK
  <2>6. faults' \in Nat
    BY <2>2 DEF TypeOK
  <2>61. calm' \in BOOLEAN
    BY ONLY <2>2
  <2>7. TypeOK'
    BY <2>2, <2>4, <2>5, <2>6, <2>61, KeptTypes, OtherTypes DEF KeptTypesOf, AccountsOK
  <2> QED BY <2>3, <2>4, <2>7 DEF StepAs
<1>3. CASE Tables
  <2>1. setting.create \subseteq Caller
    BY SettingsAssumption DEF TypeOK
  <2>2. AccountsOK'
    BY <1>3, <2>1, AccountTables DEF Tables, AccountsOK
  <2>3. /\ \A r \in Checker : /\ NotedAs(req[r], req'[r]) /\ req'[r].alone = req[r].alone
                              /\ Open(r) => StaffNow' \subseteq req'[r].could
        /\ Later /\ RequestsOK'
        /\ UNCHANGED <<setting, store, header, webVars>>
    BY <1>3, <2>2, TablesEffect DEF AccountsOK, AccountsTypeOK
  <2>4. TablesAs
    BY <2>3 DEF TablesAs
  <2>5. UNCHANGED <<setting, header, rows, jar, page, sent, faults, calm, values, loggedIn>>
    BY <2>3 DEF webVars
  <2>6. TypeOK'
    BY <2>2, <2>3, <2>5, KeptTypes, OtherTypes DEF KeptTypesOf, AccountsOK
  <2> QED BY <2>2, <2>4, <2>6 DEF StepAs
<1> QED BY <1>1, <1>2, <1>3 DEF Next

-----------------------------------------------------------------------------
(* Between the steps of a request. *)

LEMMA IdleFields ==
    /\ Idle.pc = "idle" /\ Idle.status = 0 /\ Idle.shown = None /\ Idle.out = None
    /\ Idle.kind = "page" /\ Idle.user = None
    /\ Idle.cookie = None /\ Idle.meant = Empty
BY DEF Idle

LEMMA StagesKept ==
    ASSUME StagesInv, StepAs
    PROVE  StagesInv'
<1> SUFFICES ASSUME NEW o \in Checker PROVE StageOK(req[o])'
  BY DEF StagesInv
<1>0. StageOK(req[o])
  BY DEF StagesInv
<1>1. ASSUME UNCHANGED store, req'[o] = req[o] PROVE StageOK(req[o])'
  BY <1>0, <1>1 DEF StageOK
<1>2. ASSUME UNCHANGED store, req'[o] = Idle PROVE StageOK(req[o])'
  BY <1>2, IdleFields DEF StageOK
<1>3. ASSUME UNCHANGED store, req'[o].pc = req[o].pc, req'[o].kind = req[o].kind,
             SameSession(req[o], req'[o]), SameAnswer(req[o], req'[o]),
             SameSave(req[o], req'[o])
      PROVE  StageOK(req[o])'
  BY <1>0, <1>3 DEF StageOK, SameSession, SameAnswer, SameSave
<1>4. CASE PurgedAs \/ TablesAs
  <2>1. NotedAs(req[o], req'[o]) /\ UNCHANGED store
    BY <1>4 DEF PurgedAs, TablesAs
  <2> QED BY <1>3, <2>1 DEF NotedAs
<1>5. ASSUME NEW r \in Checker, RequestAs(r) PROVE StageOK(req[o])'
  <2>1. CASE SentAs(r)
    <3>1. CASE o = r
      <4>1. /\ req'[r].pc = "decode" /\ req'[r].status = 0 /\ req'[r].shown = None
            /\ req'[r].out = None
        BY <2>1 DEF SentAs
      <4> QED BY <3>1, <4>1 DEF StageOK
    <3>2. CASE o # r
      <4>1. /\ req'[o].pc = req[o].pc /\ SameRequest(req[o], req'[o]) /\ UNCHANGED store
            /\ SameSession(req[o], req'[o]) /\ SameAnswer(req[o], req'[o])
            /\ SameSave(req[o], req'[o])
        BY <2>1, <3>2 DEF SentAs
      <4> QED BY <1>3, <4>1 DEF SameRequest
    <3> QED BY <3>1, <3>2
  <2>2. CASE ~SentAs(r)
    <3>1. UNCHANGED store
      BY <1>5, <2>2 DEF RequestAs, DecodedAs, LoadedAs, Served, SavedAs, WrittenAs,
            KeptLateAs, RespondedAs, UnsavedAs, LostAs
    <3>2. CASE o # r
      <4>1. Others(r)
        BY <1>5, <2>2 DEF RequestAs, DecodedAs, LoadedAs, Served, SavedAs, WrittenAs,
              KeptLateAs, RespondedAs, UnsavedAs, LostAs
      <4> QED BY <1>1, <3>1, <3>2, <4>1 DEF Others
    <3>3. CASE o = r
      <4>1. CASE DecodedAs(r)
        BY <1>0, <3>3, <4>1 DEF DecodedAs, StageOK, SameSave
      <4>2. CASE LoadedAs(r)
        BY <1>0, <3>3, <4>2 DEF LoadedAs, StageOK, SameSave, SameAnswer, SameSession
      <4>3. CASE Served(r)
        <5>1. ServedAs(req[r], req'[r])
          BY <4>3 DEF Served
        <5>2. StageOK(req[r]) /\ req[r].pc \in {"handle", "perm"}
          BY <1>0, <3>3, <5>1 DEF ServedAs
        <5>3. CASE req'[r].pc = "perm"
          BY <3>3, <5>1, <5>2, <5>3 DEF ServedAs, StageOK, SameSave, SameAnswer
        <5>4. CASE req'[r].pc = "save"
          BY <3>3, <5>1, <5>2, <5>4 DEF ServedAs, StageOK, SameSave
        <5> QED BY <5>1, <5>3, <5>4 DEF ServedAs
      <4>4. CASE SavedAs(r)
        BY <1>0, <3>1, <3>3, <4>4 DEF SavedAs, StageOK, SameAnswer
      <4>5. CASE WrittenAs(r) \/ KeptLateAs(r) \/ UnsavedAs(r)
        <5>1. /\ req'[r].pc \in {"after", "respond"} /\ req'[r].meant = req[r].meant
              /\ SameAnswer(req[r], req'[r])
          BY <4>5 DEF WrittenAs, KeptLateAs, UnsavedAs, SameSession
        <5> QED BY <1>0, <3>3, <5>1 DEF StageOK, SameAnswer
      <4>6. CASE RespondedAs(r) \/ LostAs(r)
        BY <1>2, <3>1, <3>3, <4>6 DEF RespondedAs, LostAs
      <4> QED BY <1>5, <2>2, <4>1, <4>2, <4>3, <4>4, <4>5, <4>6 DEF RequestAs
    <3> QED BY <3>2, <3>3
  <2> QED BY <2>1, <2>2
<1> QED BY <1>4, <1>5 DEF StepAs

-----------------------------------------------------------------------------
(* The session that a cookie stands for. *)

(* Nobody's cookie stands for another session while the rows stay. *)
LEMMA KeptStays ==
    ASSUME UNCHANGED <<rows, store>>, NEW cookie
    PROVE  Kept(cookie)' = Kept(cookie)
BY DEF Kept, Decoded, DecodedRow, DecodedCookie

LEMMA KeptIs ==
    ASSUME NEW cookie
    PROVE  /\ store = "db" => Kept(cookie) = IF cookie \in DOMAIN rows THEN rows[cookie] ELSE Empty
           /\ store # "db" => Kept(cookie) = IF cookie = None THEN Empty ELSE cookie
BY DEF Kept, Decoded, DecodedRow, DecodedCookie, NewSession

(* Whatever cookie that an answer set stands for was meant. *)
LEMMA KeptMeant ==
    ASSUME TypeOK, MeantInv, NEW cookie, store = "cookie" => cookie \in values \cup {None}
    PROVE  Kept(cookie) \in values
<1>1. store \in {"db", "cookie"}
  BY SettingsAssumption DEF TypeOK
<1>2. CASE store = "db"
  BY <1>2, KeptIs DEF MeantInv
<1>3. CASE store = "cookie"
  BY <1>3, KeptIs DEF MeantInv
<1> QED BY <1>1, <1>2, <1>3

(* What is written is the session of the request, in its row. *)
LEMMA StoredIs ==
    ASSUME NEW s, NEW found
    PROVE  LET stored == Stored(s, found) IN
           \A k \in DOMAIN stored :
              \/ k = s.key /\ stored[k] = s.data
              \/ k \in DOMAIN rows /\ stored[k] = rows[k]
<1>1. CASE found /\ s.key \notin DOMAIN rows
  BY <1>1 DEF Stored
<1>2. CASE ~(found /\ s.key \notin DOMAIN rows)
  BY <1>2 DEF Stored, With
<1> QED BY <1>1, <1>2

(* MeantInv says of a request what it carries and what its cookies are. *)
MeantOK(q) ==
    /\ store = "cookie" => {q.cookie, q.out} \subseteq values \cup {None}
    /\ Carrying(q) => q.sess.data = q.meant /\ q.meant \in values

MeantRest ==
    /\ Empty \in values
    /\ \A k \in DOMAIN rows : rows[k] \in values
    /\ store = "cookie" => jar \in values \cup {None}

LEMMA MeantParts ==
    MeantInv <=> MeantRest /\ \A r \in Checker : MeantOK(req[r])
BY DEF MeantInv, MeantRest, MeantOK

LEMMA MeantKept ==
    ASSUME TypeOK, StagesInv, MeantInv, StepAs
    PROVE  MeantInv'
<1>0. MeantRest /\ \A r \in Checker : MeantOK(req[r])
  BY MeantParts
<1> SUFFICES MeantRest' /\ \A o \in Checker : MeantOK(req[o])'
  BY DEF MeantInv, MeantRest, MeantOK
<1>1. ASSUME NEW o \in Checker, UNCHANGED store, values \subseteq values',
             req'[o].pc = req[o].pc \/ ~Carrying(req'[o]),
             req'[o].cookie = req[o].cookie, req'[o].out = req[o].out,
             SameSession(req[o], req'[o])
      PROVE  MeantOK(req[o])'
  BY <1>0, <1>1 DEF MeantOK, Carrying, SameSession
<1>2. ASSUME NEW o \in Checker, UNCHANGED store, values \subseteq values', req'[o] = req[o]
      PROVE  MeantOK(req[o])'
  BY <1>1, <1>2 DEF SameSession
<1>3. CASE PurgedAs
  <2>1. /\ UNCHANGED <<store, jar, values>> /\ \A o \in Checker : NotedAs(req[o], req'[o])
        /\ DOMAIN rows' \subseteq DOMAIN rows /\ \A k \in DOMAIN rows' : rows'[k] = rows[k]
    BY <1>3 DEF PurgedAs
  <2>2. \A o \in Checker : MeantOK(req[o])'
    BY <1>1, <2>1 DEF NotedAs, SameSave
  <2> QED BY <1>0, <2>1, <2>2 DEF MeantRest
<1>4. CASE TablesAs
  <2>1. UNCHANGED <<store, jar, values, rows>> /\ \A o \in Checker : NotedAs(req[o], req'[o])
    BY <1>4 DEF TablesAs, webVars
  <2>2. \A o \in Checker : MeantOK(req[o])'
    BY <1>1, <2>1 DEF NotedAs, SameSave
  <2> QED BY <1>0, <2>1, <2>2 DEF MeantRest
<1>5. ASSUME NEW r \in Checker, RequestAs(r)
      PROVE  MeantRest' /\ \A o \in Checker : MeantOK(req[o])'
  <2>1. CASE SentAs(r)
    <3>1. UNCHANGED <<rows, jar, values, store>>
      BY <2>1 DEF SentAs
    <3>2. MeantRest'
      BY <1>0, <3>1 DEF MeantRest
    <3>3. MeantOK(req[r])'
      <4>1. req'[r].pc = "decode" /\ req'[r].cookie = jar /\ req'[r].out = None
        BY <2>1 DEF SentAs
      <4> QED BY <1>0, <3>1, <4>1 DEF MeantOK, MeantRest, Carrying
    <3>4. ASSUME NEW o \in Checker, o # r PROVE MeantOK(req[o])'
      <4>1. /\ req'[o].pc = req[o].pc /\ SameRequest(req[o], req'[o])
            /\ SameSession(req[o], req'[o]) /\ SameSave(req[o], req'[o])
        BY <2>1, <3>4 DEF SentAs
      <4> QED BY <1>1, <3>1, <4>1 DEF SameRequest, SameSave
    <3> QED BY <3>2, <3>3, <3>4
  <2>2. CASE DecodedAs(r)
    <3>1. /\ UNCHANGED <<rows, jar, store>> /\ values' = values \cup {req'[r].meant}
          /\ Others(r)
      BY <2>2 DEF DecodedAs
    <3>2. MeantRest'
      BY <1>0, <3>1 DEF MeantRest
    <3>3. MeantOK(req[r])'
      <4>1. /\ req'[r].cookie = req[r].cookie /\ req'[r].out = req[r].out
            /\ req'[r].sess.data = req'[r].meant
        BY <2>2 DEF DecodedAs, SameRequest, SameSave
      <4> QED BY <1>0, <3>1, <4>1 DEF MeantOK
    <3> QED BY <1>2, <3>1, <3>2, <3>3 DEF Others
  <2>3. CASE LoadedAs(r)
    <3>1. UNCHANGED <<rows, jar, values, store>> /\ Others(r)
      BY <2>3 DEF LoadedAs, webVars
    <3>2. /\ req[r].pc = "user" /\ req'[r].cookie = req[r].cookie /\ req'[r].out = req[r].out
          /\ SameSession(req[r], req'[r])
      BY <2>3 DEF LoadedAs, SameRequest, SameSave
    <3>3. MeantOK(req[r])'
      BY <1>0, <3>1, <3>2 DEF MeantOK, Carrying, SameSession
    <3> QED BY <1>0, <1>2, <3>1, <3>3 DEF Others, MeantRest
  <2>4. CASE Served(r)
    <3>1. /\ UNCHANGED <<rows, jar, store>> /\ values \subseteq values' /\ Others(r)
          /\ ServedAs(req[r], req'[r]) /\ req'[r].meant \in values' \cup {req[r].meant}
      BY <2>4 DEF Served
    <3>2. /\ req[r].pc \in {"handle", "perm"}
          /\ req'[r].cookie = req[r].cookie /\ req'[r].out = req[r].out
          /\ req[r].sess.data = req[r].meant => req'[r].sess.data = req'[r].meant
      BY <3>1 DEF ServedAs, SameRequest, SameSave
    <3>3. MeantOK(req[r])'
      BY <1>0, <3>1, <3>2 DEF MeantOK, Carrying
    <3> QED BY <1>0, <1>2, <3>1, <3>3 DEF Others, MeantRest
  <2>5. CASE SavedAs(r)
    <3>1. UNCHANGED <<rows, jar, values, store>> /\ Others(r)
      BY <2>5 DEF SavedAs
    <3>2. /\ req[r].pc = "save" /\ req'[r].cookie = req[r].cookie
          /\ req'[r].meant = req[r].meant /\ req'[r].sess.data = req[r].sess.data
          /\ req'[r].out \in {req[r].out, req[r].sess.data}
      BY <2>5 DEF SavedAs, SameRequest
    <3>3. MeantOK(req[r])'
      BY <1>0, <3>1, <3>2 DEF MeantOK, Carrying
    <3> QED BY <1>0, <1>2, <3>1, <3>3 DEF Others, MeantRest
  <2>6. CASE WrittenAs(r)
    <3>1. /\ UNCHANGED <<jar, values, store>> /\ Others(r)
          /\ rows' = Stored(req[r].sess, req[r].found)
      BY <2>6 DEF WrittenAs
    <3>2. /\ req[r].pc = "write" /\ req'[r].pc \in {"after", "respond"}
          /\ req'[r].cookie = req[r].cookie
      BY <2>6 DEF WrittenAs, SameRequest
    <3>3. store = "db" /\ req[r].sess.data \in values
      BY <1>0, <3>2 DEF StagesInv, StageOK, MeantOK, Carrying
    <3>4. MeantOK(req[r])'
      BY <3>1, <3>2, <3>3 DEF MeantOK, Carrying
    <3>5. MeantRest'
      BY <1>0, <3>1, <3>3, StoredIs DEF MeantRest
    <3> QED BY <1>2, <3>1, <3>4, <3>5 DEF Others
  <2>7. CASE KeptLateAs(r) \/ UnsavedAs(r)
    <3>1. UNCHANGED <<rows, jar, values, store>> /\ Others(r)
      BY <2>7 DEF KeptLateAs, UnsavedAs, webVars
    <3>2. /\ req'[r].pc \in {"after", "respond"} /\ req'[r].cookie = req[r].cookie
          /\ req'[r].out = req[r].out
      BY <2>7 DEF KeptLateAs, UnsavedAs, SameRequest, SameSave
    <3>3. MeantOK(req[r])'
      BY <1>0, <3>1, <3>2 DEF MeantOK, Carrying
    <3> QED BY <1>0, <1>2, <3>1, <3>3 DEF Others, MeantRest
  <2>8. CASE RespondedAs(r) \/ LostAs(r)
    <3>1. /\ UNCHANGED <<rows, values, store>> /\ Others(r) /\ req'[r] = Idle
          /\ jar' \in {jar, req[r].out}
      BY <2>8 DEF RespondedAs, LostAs
    <3>2. MeantOK(req[r])'
      BY <3>1, IdleFields DEF MeantOK, Carrying
    <3> QED BY <1>0, <1>2, <3>1, <3>2 DEF Others, MeantRest, MeantOK
  <2> QED BY <1>5, <2>1, <2>2, <2>3, <2>4, <2>5, <2>6, <2>7, <2>8 DEF RequestAs
<1> QED BY <1>3, <1>4, <1>5 DEF StepAs

-----------------------------------------------------------------------------
(* The users of the sessions and of the requests. *)
StaffOK(r) ==
    /\ Open(r) => StaffNow \subseteq req[r].could
    /\ req[r].user # None =>
          /\ req[r].user.name \in loggedIn
          /\ req[r].user.staff => req[r].user.name \in req[r].could
    /\ req[r].kind = "admin" /\ req[r].status = 200 => Passes(req[r].user)

UsersOK == \A v \in values : v.user \in loggedIn \cup {None}

LEMMA StaffKept ==
    ASSUME TypeOK, StagesInv, MeantInv, StaffInv, StepAs
    PROVE  StaffInv'
<1>0. UsersOK /\ \A r \in Checker : StaffOK(r)
  BY DEF StaffInv, StaffOK, UsersOK
<1> SUFFICES UsersOK' /\ \A o \in Checker : StaffOK(o)'
  BY DEF StaffInv, StaffOK, UsersOK
<1>1. ASSUME NEW o \in Checker, loggedIn \subseteq loggedIn',
             Open(o)' => Open(o), StaffNow' \subseteq StaffNow \/ StaffNow' \subseteq req'[o].could,
             req'[o].user = req[o].user, req'[o].kind = req[o].kind,
             req[o].could \subseteq req'[o].could,
             req'[o].kind = "admin" /\ req'[o].status = 200 =>
                req'[o].status = req[o].status \/ Passes(req'[o].user)
      PROVE  StaffOK(o)'
  BY <1>0, <1>1 DEF StaffOK, Passes
<1>2. ASSUME UNCHANGED accounts PROVE StaffNow' = StaffNow
  BY <1>2 DEF StaffNow
<1>3. ASSUME NEW o \in Checker, UNCHANGED accounts, loggedIn \subseteq loggedIn',
             req'[o] = req[o]
      PROVE  StaffOK(o)'
  BY <1>1, <1>2, <1>3 DEF Open
<1>4. ASSUME NEW o \in Checker, UNCHANGED accounts, loggedIn \subseteq loggedIn',
             req'[o].user = req[o].user, SameRequest(req[o], req'[o]), Open(o)' => Open(o),
             SameAnswer(req[o], req'[o])
      PROVE  StaffOK(o)'
  BY <1>1, <1>2, <1>4 DEF SameRequest, SameAnswer
<1>5. UNCHANGED <<values, loggedIn>> => UsersOK'
  BY <1>0 DEF UsersOK
<1>6. CASE PurgedAs
  <2>1. UNCHANGED <<accounts, values, loggedIn>>
    BY <1>6 DEF PurgedAs, accountVars
  <2>2. \A o \in Checker : NotedAs(req[o], req'[o]) /\ req'[o].could = req[o].could
    BY <1>6 DEF PurgedAs
  <2>3. \A o \in Checker : StaffOK(o)'
    BY <1>4, <2>1, <2>2 DEF NotedAs, SameRequest, Open
  <2> QED BY <1>5, <2>1, <2>3
<1>7. CASE TablesAs
  <2>1. UNCHANGED <<values, loggedIn>>
    BY <1>7 DEF TablesAs, webVars
  <2>2. \A o \in Checker : NotedAs(req[o], req'[o]) /\ (Open(o) => StaffNow' \subseteq req'[o].could)
    BY <1>7 DEF TablesAs
  <2>3. ASSUME NEW o \in Checker PROVE StaffOK(o)'
    <3>1. /\ req'[o].pc = req[o].pc /\ req'[o].user = req[o].user
          /\ req'[o].kind = req[o].kind /\ req[o].could \subseteq req'[o].could
          /\ req'[o].status = req[o].status
      BY <2>2 DEF NotedAs, SameAnswer
    <3>2. CASE Open(o)
      BY <1>1, <2>1, <2>2, <3>1, <3>2
    <3>3. CASE ~Open(o)
      BY <1>0, <2>1, <3>1, <3>3 DEF StaffOK, Open, Passes
    <3> QED BY <3>2, <3>3
  <2> QED BY <1>5, <2>1, <2>3
<1>8. ASSUME NEW r \in Checker, RequestAs(r)
      PROVE  UsersOK' /\ \A o \in Checker : StaffOK(o)'
  <2>1. CASE SentAs(r)
    <3>1. UNCHANGED <<accounts, values, loggedIn>>
      BY <2>1 DEF SentAs, accountVars
    <3>2. StaffOK(r)'
      <4>1. req'[r].could = StaffNow /\ req'[r].user = None /\ req'[r].status = 0
        BY <2>1 DEF SentAs
      <4> QED BY <1>2, <3>1, <4>1 DEF StaffOK
    <3>3. ASSUME NEW o \in Checker, o # r PROVE StaffOK(o)'
      <4>1. /\ req'[o].pc = req[o].pc /\ SameRequest(req[o], req'[o])
            /\ SameAnswer(req[o], req'[o]) /\ req'[o].user = req[o].user
        BY <2>1, <3>3 DEF SentAs
      <4> QED BY <1>4, <3>1, <4>1 DEF Open
    <3> QED BY <1>5, <3>1, <3>2, <3>3
  <2>2. CASE DecodedAs(r)
    <3>1. /\ UNCHANGED <<accounts, loggedIn>> /\ values' = values \cup {req'[r].meant}
          /\ Others(r) /\ req[r].pc = "decode" /\ SameRequest(req[r], req'[r])
          /\ req'[r].user = req[r].user /\ req'[r].meant.user = Kept(req[r].cookie).user
          /\ req'[r].status # 200
      <4>1. StageOK(req[r])
        BY DEF StagesInv
      <4> QED BY <2>2, <4>1 DEF DecodedAs, accountVars, StageOK
    <3>2. Kept(req[r].cookie) \in values
      BY KeptMeant DEF MeantInv
    <3>3. UsersOK'
      BY <1>0, <3>1, <3>2 DEF UsersOK
    <3>4. StaffOK(r)'
      BY <1>1, <1>2, <3>1 DEF SameRequest, Open
    <3> QED BY <1>3, <3>1, <3>3, <3>4 DEF Others
  <2>3. CASE LoadedAs(r)
    <3>1. /\ UNCHANGED <<accounts, loggedIn, values>> /\ Others(r)
          /\ req[r].pc = "user" /\ SameRequest(req[r], req'[r])
          /\ SameAnswer(req[r], req'[r])
      BY <2>3 DEF LoadedAs, accountVars, webVars
    <3>2. req'[r].user # None =>
             /\ Current(req[r].sess.data.user) /\ req'[r].user.name = req[r].sess.data.user
             /\ req'[r].user.staff = accounts[req[r].sess.data.user].staff
      BY <2>3 DEF LoadedAs
    <3>3. req[r].sess.data \in values
      BY <3>1 DEF MeantInv, Carrying
    <3>4. req'[r].user # None =>
             /\ req'[r].user.name \in loggedIn
             /\ req'[r].user.staff => req'[r].user.name \in StaffNow
      BY <1>0, <3>2, <3>3 DEF UsersOK, Current, StaffNow
    <3>5. req[r].status = 0
      BY <3>1 DEF StagesInv, StageOK
    <3>6. StaffNow \subseteq req[r].could
      BY <1>0, <3>1 DEF StaffOK, Open
    <3>7. StaffOK(r)'
      BY <1>2, <3>1, <3>4, <3>5, <3>6 DEF StaffOK, SameRequest, SameAnswer
    <3> QED BY <1>3, <1>5, <3>1, <3>7 DEF Others
  <2>4. CASE Served(r)
    <3>1. /\ UNCHANGED accounts /\ loggedIn \subseteq loggedIn' /\ Others(r)
          /\ ServedAs(req[r], req'[r])
          /\ values' \subseteq values \cup {req'[r].meant}
          /\ req'[r].meant.user \in loggedIn' \cup {req[r].meant.user, None}
      BY <2>4 DEF Served
    <3>2. /\ req[r].pc \in {"handle", "perm"} /\ SameRequest(req[r], req'[r])
          /\ req'[r].user = req[r].user
          /\ req'[r].pc \in {"save", "perm"}
          /\ req'[r].pc = "perm" => req'[r].kind = "guarded"
          /\ req'[r].pc = "save" =>
                (req'[r].kind = "admin" /\ req'[r].status = 200 => Passes(req'[r].user))
      BY <3>1 DEF ServedAs
    <3>3. req[r].meant.user \in loggedIn \cup {None}
      BY <1>0, <3>2 DEF MeantInv, Carrying, UsersOK
    <3>4. UsersOK'
      BY <1>0, <3>1, <3>3 DEF UsersOK
    <3>5. StaffOK(r)'
      BY <1>1, <1>2, <3>1, <3>2 DEF SameRequest, Open
    <3> QED BY <1>3, <3>1, <3>4, <3>5 DEF Others
  <2>5. CASE SavedAs(r) \/ WrittenAs(r) \/ KeptLateAs(r) \/ UnsavedAs(r)
    <3>1. /\ UNCHANGED <<accounts, values, loggedIn>> /\ Others(r)
          /\ req'[r].user = req[r].user /\ req[r].pc # "idle"
          /\ SameRequest(req[r], req'[r]) /\ SameAnswer(req[r], req'[r])
      BY <2>5 DEF SavedAs, WrittenAs, KeptLateAs, UnsavedAs, accountVars, webVars
    <3>2. StaffOK(r)'
      BY <1>4, <3>1 DEF Open
    <3> QED BY <1>3, <1>5, <3>1, <3>2 DEF Others
  <2>6. CASE RespondedAs(r) \/ LostAs(r)
    <3>1. /\ UNCHANGED <<accounts, values, loggedIn>> /\ Others(r) /\ req'[r] = Idle
      BY <2>6 DEF RespondedAs, LostAs, accountVars
    <3>2. StaffOK(r)'
      BY <3>1, IdleFields DEF StaffOK, Open
    <3> QED BY <1>3, <1>5, <3>1, <3>2 DEF Others
  <2> QED BY <1>8, <2>1, <2>2, <2>3, <2>4, <2>5, <2>6 DEF RequestAs
<1> QED BY <1>6, <1>7, <1>8 DEF StepAs

-----------------------------------------------------------------------------
(* The request that nothing disturbs. *)

(* The session that a cookie stands for with these rows. *)
KeptIn(c, table, s) ==
    IF s = "db" THEN IF c \in DOMAIN table THEN table[c] ELSE Empty
    ELSE IF c = None THEN Empty ELSE c

SettledIn(q, table, s) ==
    /\ q.out = None => KeptIn(q.cookie, table, s) = q.meant
    /\ q.out # None => KeptIn(q.out, table, s) = q.meant

AloneIn(q, table, s, cookie) ==
    /\ cookie = q.cookie
    /\ q.pc \in {"user", "handle", "perm", "save"} /\ ~q.sess.modified =>
          q.sess.data = KeptIn(q.cookie, table, s)
    /\ q.pc = "write" => (q.found <=> q.sess.key \in DOMAIN table)
    /\ q.pc \in {"after", "respond"} => SettledIn(q, table, s)

LEMMA AloneParts ==
    ASSUME NEW r \in Checker
    PROVE  AloneOK(r) <=> /\ \A o \in Checker \ {r} : ~Open(o)
                          /\ AloneIn(req[r], rows, store, jar)
BY DEF AloneOK, AloneIn, Settled, SettledIn, KeptIn, Kept, Decoded, DecodedRow, DecodedCookie,
       NewSession

LEMMA AloneKept ==
    ASSUME TypeOK, StagesInv, MeantInv, AloneInv, StepAs
    PROVE  AloneInv'
<1> SUFFICES ASSUME NEW o \in Checker, Alone(o)'
             PROVE  /\ \A d \in Checker \ {o} : ~Open(d)'
                    /\ AloneIn(req'[o], rows', store', jar')
  <2>1. ASSUME NEW o \in Checker,
               \A d \in Checker \ {o} : ~Open(d)',
               AloneIn(req'[o], rows', store', jar')
        PROVE  AloneOK(o)'
    BY <2>1 DEF AloneOK, AloneIn, Settled, SettledIn, KeptIn, Kept, Decoded, DecodedRow,
          DecodedCookie, NewSession
  <2> QED BY <2>1 DEF AloneInv
<1>0. Alone(o) => /\ \A d \in Checker \ {o} : ~Open(d)
                  /\ AloneIn(req[o], rows, store, jar)
  BY AloneParts DEF AloneInv
<1>1. req'[o].pc # "idle" /\ req'[o].alone
  BY DEF Alone, Open
<1>2. CASE PurgedAs
  BY <1>1, <1>2 DEF PurgedAs
<1>3. CASE TablesAs
  <2>1. /\ NotedAs(req[o], req'[o]) /\ req'[o].alone = req[o].alone
        /\ UNCHANGED <<rows, store, jar>> /\ \A d \in Checker : req'[d].pc = req[d].pc
    BY <1>3 DEF TablesAs, webVars, NotedAs
  <2>2. Alone(o)
    BY <1>1, <2>1 DEF Alone, Open
  <2>3. AloneIn(req'[o], rows, store, jar)
    BY <1>0, <2>1, <2>2 DEF AloneIn, SettledIn, NotedAs, SameSession, SameSave
  <2> QED BY <1>0, <2>1, <2>2, <2>3 DEF Open
<1>4. ASSUME NEW r \in Checker, RequestAs(r), ~SentAs(r)
      PROVE  Others(r) /\ Open(r) /\ UNCHANGED store
  BY <1>4 DEF RequestAs, DecodedAs, LoadedAs, Served, SavedAs, WrittenAs, KeptLateAs,
        RespondedAs, UnsavedAs, LostAs, ServedAs, Open
<1>5. ASSUME NEW r \in Checker, SentAs(r)
      PROVE  /\ \A d \in Checker \ {o} : ~Open(d)'
             /\ AloneIn(req'[o], rows', store', jar')
  <2>1. \A d \in Checker \ {r} : req'[d].pc = req[d].pc /\ (Open(d) => ~req'[d].alone)
    BY <1>5 DEF SentAs
  <2>2. o = r
    BY <1>1, <2>1 DEF Open
  <2>3. /\ req'[r].pc = "decode" /\ req'[r].cookie = jar
        /\ req'[r].alone <=> {d \in Checker \ {r} : Open(d)} = {}
        /\ UNCHANGED jar
    BY <1>5 DEF SentAs
  <2>4. \A d \in Checker \ {r} : ~Open(d)
    BY <1>1, <2>2, <2>3
  <2>5. AloneIn(req'[o], rows', store', jar')
    BY <2>2, <2>3 DEF AloneIn
  <2> QED BY <2>1, <2>2, <2>4, <2>5 DEF Open
<1>6. ASSUME NEW r \in Checker, RequestAs(r), ~SentAs(r)
      PROVE  /\ \A d \in Checker \ {o} : ~Open(d)'
             /\ AloneIn(req'[o], rows', store', jar')
  <2>1. o = r
    <3> SUFFICES ASSUME o # r PROVE FALSE
      OBVIOUS
    <3>1. Alone(o) /\ Open(r)
      BY <1>1, <1>4, <1>6 DEF Others, Alone, Open
    <3> QED BY <1>0, <3>1
  <2>2. ASSUME Alone(o) PROVE \A d \in Checker \ {o} : ~Open(d)'
    BY <1>0, <1>4, <1>6, <2>1, <2>2 DEF Others, Open
  <2> DEFINE q == req[o]
             t == req'[o]
  <2>3. StageOK(q) /\ MeantOK(q) /\ Open(o)
    BY <1>4, <1>6, <2>1, MeantParts DEF StagesInv
  <2>4. CASE DecodedAs(r)
    <3>1. /\ t.alone = q.alone /\ UNCHANGED <<rows, store, jar>> /\ t.pc \in {"user", "save"}
          /\ t.cookie = q.cookie /\ t.sess.data = t.meant
          /\ ~t.sess.modified => t.meant = Kept(q.cookie)
      BY <2>1, <2>4 DEF DecodedAs, SameRequest
    <3>2. Alone(o)
      BY <1>1, <2>3, <3>1 DEF Alone
    <3>3. Kept(q.cookie) = KeptIn(q.cookie, rows, store)
      BY DEF KeptIn, Kept, Decoded, DecodedRow, DecodedCookie, NewSession
    <3>4. AloneIn(t, rows, store, jar)
      BY <1>0, <3>1, <3>2, <3>3 DEF AloneIn
    <3> QED BY <2>2, <3>1, <3>2, <3>4
  <2>5. CASE LoadedAs(r)
    <3>1. /\ t.alone = q.alone /\ UNCHANGED <<rows, store, jar>>
          /\ q.pc = "user" /\ t.pc = "handle" /\ t.cookie = q.cookie /\ t.sess = q.sess
      BY <2>1, <2>5 DEF LoadedAs, SameRequest, SameSession, webVars
    <3>2. Alone(o)
      BY <1>1, <2>3, <3>1 DEF Alone
    <3>3. AloneIn(t, rows, store, jar)
      BY <1>0, <3>1, <3>2 DEF AloneIn
    <3> QED BY <2>2, <3>1, <3>2, <3>3
  <2>6. CASE Served(r)
    <3>1. /\ t.alone = q.alone /\ UNCHANGED <<rows, store, jar>>
          /\ q.pc \in {"handle", "perm"} /\ t.pc \in {"save", "perm"} /\ t.cookie = q.cookie
          /\ ~t.sess.modified => t.sess = q.sess
      BY <2>1, <2>6 DEF Served, ServedAs, SameRequest, SameSession
    <3>2. Alone(o)
      BY <1>1, <2>3, <3>1 DEF Alone
    <3>3. AloneIn(t, rows, store, jar)
      BY <1>0, <3>1, <3>2 DEF AloneIn
    <3> QED BY <2>2, <3>1, <3>2, <3>3
  <2>7. CASE SavedAs(r)
    <3>1. /\ t.alone = q.alone /\ UNCHANGED <<rows, store, jar>>
          /\ q.pc = "save" /\ t.pc \in {"write", "after", "respond"}
          /\ t.cookie = q.cookie /\ t.meant = q.meant
          /\ t.pc # "write" => \/ ~q.sess.modified /\ t.out = q.out
                               \/ store = "cookie" /\ t.out = q.sess.data
          /\ t.pc = "write" => (t.found <=> t.sess.key \in DOMAIN rows)
      BY <2>1, <2>7 DEF SavedAs, SameRequest
    <3>2. Alone(o)
      BY <1>1, <2>3, <3>1 DEF Alone
    <3>3. q.out = None /\ q.sess.data = q.meant
      BY <2>3, <3>1 DEF StageOK, MeantOK, Carrying
    <3>4. q.sess.data # None
      <4>1. q \in RequestState
        BY DEF TypeOK
      <4>2. q.sess.data \in Data
        BY <4>1 DEF RequestState, Session, SessionData
      <4> QED BY <4>2, NoneAssumption
    <3>5. t.pc # "write" => SettledIn(t, rows, store)
      <4>1. CASE ~q.sess.modified /\ t.out = q.out
        BY <1>0, <3>1, <3>2, <3>3, <4>1 DEF AloneIn, SettledIn
      <4>2. CASE store = "cookie" /\ t.out = q.sess.data
        BY <3>1, <3>3, <3>4, <4>2 DEF SettledIn, KeptIn
      <4> QED BY <3>1, <4>1, <4>2
    <3>6. AloneIn(t, rows, store, jar)
      BY <1>0, <3>1, <3>2, <3>5 DEF AloneIn
    <3> QED BY <2>2, <3>1, <3>2, <3>6
  <2>8. CASE WrittenAs(r)
    <3>1. /\ t.alone = q.alone /\ UNCHANGED <<store, jar>>
          /\ q.pc = "write" /\ t.pc \in {"after", "respond"}
          /\ t.cookie = q.cookie /\ t.meant = q.meant /\ t.out = q.sess.key
          /\ rows' = Stored(q.sess, q.found)
      BY <2>1, <2>8 DEF WrittenAs, SameRequest, SameSession
    <3>2. Alone(o)
      BY <1>1, <2>3, <3>1 DEF Alone
    <3>3. store = "db" /\ q.sess.key # None /\ q.sess.data = q.meant
      BY <2>3, <3>1 DEF StageOK, MeantOK, Carrying
    <3>4. q.found <=> q.sess.key \in DOMAIN rows
      BY <1>0, <3>1, <3>2 DEF AloneIn
    <3>5. rows' = With(rows, q.sess.key, q.sess.data)
      BY <3>1, <3>4 DEF Stored
    <3>6. q.sess.key \in DOMAIN rows' /\ rows'[q.sess.key] = q.sess.data
      BY <3>5 DEF With
    <3>7. SettledIn(t, rows', store)
      BY <3>1, <3>3, <3>6 DEF SettledIn, KeptIn
    <3>8. AloneIn(t, rows', store, jar)
      BY <1>0, <3>1, <3>2, <3>7 DEF AloneIn
    <3> QED BY <2>2, <3>1, <3>2, <3>8
  <2>9. CASE KeptLateAs(r)
    <3>1. /\ t.alone = q.alone /\ UNCHANGED <<rows, store, jar>>
          /\ q.pc = "after" /\ t.pc = "respond"
          /\ t.cookie = q.cookie /\ t.meant = q.meant /\ t.out = q.out
      BY <2>1, <2>9 DEF KeptLateAs, SameRequest, SameSave, webVars
    <3>2. Alone(o)
      BY <1>1, <2>3, <3>1 DEF Alone
    <3>3. AloneIn(t, rows, store, jar)
      BY <1>0, <3>1, <3>2 DEF AloneIn, SettledIn
    <3> QED BY <2>2, <3>1, <3>2, <3>3
  <2>10. CASE UnsavedAs(r)
    BY <1>1, <2>1, <2>10 DEF UnsavedAs
  <2>11. CASE RespondedAs(r) \/ LostAs(r)
    BY <1>1, <2>1, <2>11, IdleFields DEF RespondedAs, LostAs
  <2> QED BY <1>6, <2>4, <2>5, <2>6, <2>7, <2>8, <2>9, <2>10, <2>11 DEF RequestAs
<1> QED BY <1>2, <1>3, <1>5, <1>6 DEF StepAs

-----------------------------------------------------------------------------
(* While all is calm. *)

CalmRequest(q, shows, kept) ==
    /\ q.alone
    /\ q.pc = "decode" =>
          /\ shows # None => kept.token = shows
          /\ q.kind \in Posts => shows # None /\ q.submitted = shows
    /\ q.pc # "decode" /\ q.status # 302 /\ shows # None => q.meant.token = shows
    /\ q.kind \in Posts => q.status # 403

CalmRest(shows, kept) == shows # None => kept.token = shows

LEMMA CalmParts ==
    ASSUME CalmInv, calm
    PROVE  /\ \A r \in Checker : Open(r) => CalmRequest(req[r], page, KeptIn(jar, rows, store))
           /\ (\A r \in Checker : ~Open(r)) => CalmRest(page, KeptIn(jar, rows, store))
BY DEF CalmInv, CalmRequest, CalmRest, KeptIn, Kept, Decoded, DecodedRow, DecodedCookie,
       NewSession

(* A browser of the site itself passes the check of the origin. *)
LEMMA OwnOrigin ==
    ASSUME TypeOK
    PROVE  OriginOrRefererOK(header)
<1>1. /\ header.origin # None => Own(header.origin, header)
      /\ header.referer # None => Own(header.referer, header)
      /\ header.tls /\ header.origin = None => header.referer # None
  BY HeadersAssumption DEF TypeOK
<1> QED BY <1>1 DEF OriginOrRefererOK, SameSite, Own

LEMMA CalmKept ==
    ASSUME TypeOK, StagesInv, AloneInv, CalmInv, StepAs
    PROVE  CalmInv'
<1> DEFINE kept == KeptIn(jar', rows', store')
<1> SUFFICES ASSUME calm'
             PROVE  /\ \A o \in Checker : Open(o)' => CalmRequest(req'[o], page', kept)
                    /\ (\A o \in Checker : ~Open(o)') => CalmRest(page', kept)
  BY DEF CalmInv, CalmRequest, CalmRest, KeptIn, Kept, Decoded, DecodedRow, DecodedCookie,
         NewSession
<1>1. CASE PurgedAs
  BY <1>1 DEF PurgedAs
<1>2. CASE TablesAs
  <2>1. /\ UNCHANGED <<rows, store, jar, page, calm>>
        /\ \A o \in Checker : NotedAs(req[o], req'[o]) /\ req'[o].alone = req[o].alone
    BY <1>2 DEF TablesAs, webVars
  <2>2. \A o \in Checker : Open(o)' <=> Open(o)
    BY <2>1 DEF NotedAs, Open
  <2>3. ASSUME NEW o \in Checker, Open(o)' PROVE CalmRequest(req'[o], page', kept)
    <3>1. CalmRequest(req[o], page, KeptIn(jar, rows, store))
      BY <2>1, <2>2, <2>3, CalmParts
    <3>2. NotedAs(req[o], req'[o]) /\ req'[o].alone = req[o].alone
      BY <2>1
    <3> QED BY <2>1, <3>1, <3>2 DEF CalmRequest, NotedAs, SameSession, SameAnswer
  <2> QED BY <2>1, <2>2, <2>3, CalmParts DEF CalmRest
<1>3. ASSUME NEW r \in Checker, SentAs(r)
      PROVE  /\ \A o \in Checker : Open(o)' => CalmRequest(req'[o], page', kept)
             /\ (\A o \in Checker : ~Open(o)') => CalmRest(page', kept)
  <2>1. /\ UNCHANGED <<rows, store, jar, page>> /\ calm
        /\ {o \in Checker \ {r} : Open(o)} = {} /\ ~Open(r)
        /\ \A o \in Checker \ {r} : req'[o].pc = req[o].pc
    BY <1>3 DEF SentAs
  <2>2. \A o \in Checker : ~Open(o)
    BY <2>1
  <2>3. CalmRest(page, KeptIn(jar, rows, store))
    BY <2>1, <2>2, CalmParts
  <2>4. /\ req'[r].pc = "decode" /\ req'[r].alone /\ req'[r].status = 0
        /\ req'[r].kind \in Posts => page # None /\ req'[r].submitted = page
    BY <1>3, <2>1 DEF SentAs
  <2>5. CalmRequest(req'[r], page', kept)
    BY <2>1, <2>3, <2>4 DEF CalmRequest, CalmRest
  <2> QED BY <2>1, <2>2, <2>4, <2>5 DEF Open
<1>4. ASSUME NEW r \in Checker, RespondedAs(r)
      PROVE  /\ \A o \in Checker : Open(o)' => CalmRequest(req'[o], page', kept)
             /\ (\A o \in Checker : ~Open(o)') => CalmRest(page', kept)
  <2> DEFINE q == req[r]
  <2>1. /\ q.pc = "respond" /\ req'[r] = Idle /\ Others(r) /\ UNCHANGED <<rows, store>>
        /\ jar' = IF q.out = None THEN jar ELSE q.out
        /\ page' = IF q.status = 302 THEN None ELSE IF q.shown = None THEN page ELSE q.shown
        /\ calm \/ (q.alone /\ q.shown # None)
    BY <1>4 DEF RespondedAs
  <2>2. calm => CalmRequest(q, page, KeptIn(jar, rows, store))
    BY <2>1, CalmParts DEF Open
  <2>3. Alone(r)
    BY <2>1, <2>2 DEF Alone, Open, CalmRequest
  <2>4. (\A o \in Checker \ {r} : ~Open(o)) /\ AloneIn(q, rows, store, jar)
    BY <2>3, AloneParts DEF AloneInv
  <2>5. KeptIn(jar', rows', store') = q.meant
    BY <2>1, <2>4 DEF AloneIn, SettledIn
  <2>6. q.shown # None => q.shown = q.meant.token
    BY DEF StagesInv, StageOK
  <2>7. CalmRest(page', kept)
    BY <2>1, <2>2, <2>5, <2>6 DEF CalmRest, CalmRequest
  <2>8. \A o \in Checker : ~Open(o)'
    BY <2>1, <2>4, IdleFields DEF Open, Others
  <2> QED BY <2>7, <2>8
<1>5. ASSUME NEW r \in Checker, RequestAs(r), ~SentAs(r), ~RespondedAs(r)
      PROVE  /\ \A o \in Checker : Open(o)' => CalmRequest(req'[o], page', kept)
             /\ (\A o \in Checker : ~Open(o)') => CalmRest(page', kept)
  <2> DEFINE q == req[r]
             t == req'[r]
  <2>1. \/ DecodedAs(r) \/ LoadedAs(r) \/ Served(r) \/ SavedAs(r) \/ WrittenAs(r)
        \/ KeptLateAs(r)
    BY <1>5 DEF RequestAs, UnsavedAs, LostAs
  <2>2. /\ Others(r) /\ UNCHANGED <<jar, page, store, calm>>
        /\ q.pc # "idle" /\ t.pc \notin {"idle", "decode"}
        /\ t.kind = q.kind /\ t.alone = q.alone
    BY <2>1 DEF DecodedAs, LoadedAs, Served, ServedAs, SavedAs, WrittenAs, KeptLateAs,
          webVars, SameRequest
  <2>3. CalmRequest(q, page, KeptIn(jar, rows, store)) /\ Open(r)
    BY <2>2, CalmParts DEF Open
  <2>4. (\A o \in Checker \ {r} : ~Open(o)) /\ AloneIn(q, rows, store, jar)
    BY <2>3, AloneParts DEF AloneInv, Alone, CalmRequest
  <2>5. StageOK(q)
    BY DEF StagesInv
  <2>6. /\ t.status # 302 /\ page # None => t.meant.token = page
        /\ t.kind \in Posts => t.status # 403
    <3>1. CASE DecodedAs(r)
      <4>1. /\ q.pc = "decode" /\ q.status = 0
            /\ Kept(q.cookie).token # None => t.meant.token = Kept(q.cookie).token
            /\ t.pc \in {"user", "save"} /\ (t.pc = "user" => t.status = q.status)
            /\ t.pc = "save" =>
                  /\ q.kind \in Posts
                  /\ ~(OriginOrRefererOK(header) /\ ValidToken(q.submitted, t.meant.token))
        BY <2>5, <3>1 DEF DecodedAs, StageOK
      <4>2. Kept(q.cookie) = KeptIn(jar, rows, store)
        BY <2>4 DEF AloneIn, KeptIn, Kept, Decoded, DecodedRow, DecodedCookie, NewSession
      <4>3. page # None => t.meant.token = page
        BY <2>3, <4>1, <4>2 DEF CalmRequest
      <4>4. q.kind \in Posts => page # None /\ q.submitted = page
        BY <2>3, <4>1 DEF CalmRequest
      <4>5. t.pc = "user"
        BY <4>1, <4>3, <4>4, OwnOrigin DEF ValidToken
      <4> QED BY <4>1, <4>3, <4>5
    <3>2. CASE LoadedAs(r) \/ WrittenAs(r)
      <4>1. t.status = q.status /\ t.meant = q.meant /\ q.pc # "decode"
        BY <3>2 DEF LoadedAs, WrittenAs, SameAnswer, SameSession
      <4> QED BY <2>2, <2>3, <4>1 DEF CalmRequest
    <3>3. CASE SavedAs(r) \/ KeptLateAs(r)
      <4>1. t.status = q.status /\ t.meant = q.meant /\ q.pc # "decode"
        BY <3>3 DEF SavedAs, KeptLateAs, SameAnswer
      <4> QED BY <2>2, <2>3, <4>1 DEF CalmRequest
    <3>4. CASE Served(r)
      <4>1. /\ q.pc \in {"handle", "perm"} /\ t.pc \in {"save", "perm"}
            /\ t.status # 302 => t.meant.token = q.meant.token
            /\ t.pc = "save" => (t.status = 403 => t.kind = "guarded")
            /\ t.pc = "perm" => t.status = q.status
        BY <3>4 DEF Served, ServedAs, SameAnswer
      <4>2. q.status = 0
        BY <2>5, <4>1 DEF StageOK
      <4>3. t.status # 302 /\ page # None => t.meant.token = page
        BY <2>3, <4>1, <4>2 DEF CalmRequest
      <4>4. t.kind \in Posts => t.status # 403
        BY <4>1, <4>2 DEF Posts
      <4> QED BY <4>3, <4>4
    <3> QED BY <2>1, <3>1, <3>2, <3>3, <3>4
  <2>7. CalmRequest(t, page, kept)
    BY <2>2, <2>3, <2>6 DEF CalmRequest
  <2>8. \A o \in Checker \ {r} : ~Open(o)'
    BY <2>2, <2>4 DEF Others, Open
  <2>9. Open(r)'
    BY <2>2 DEF Open
  <2> QED BY <2>2, <2>7, <2>8, <2>9
<1> QED BY <1>1, <1>2, <1>3, <1>4, <1>5 DEF StepAs

-----------------------------------------------------------------------------
(* The invariant. *)

WebInv ==
    TypeOK /\ AccountsOK /\ StagesInv /\ MeantInv /\ StaffInv /\ AloneInv /\ CalmInv

LEMMA WebInit ==
    ASSUME Init
    PROVE  WebInv
<1>1. /\ accounts = FirstAccounts /\ creating = [c \in Caller |-> NotCreating]
      /\ check = [c \in Checker |-> NotChecking] /\ changes = 0
      /\ direct \subseteq (DOMAIN accounts) \X Perm
      /\ member \subseteq (DOMAIN accounts) \X Group /\ granted \subseteq Group \X Perm
  BY DEF Init, AccountsInit
<1>2. AccountsTypeOK
  <2>1. NotCreating \in Creation
    BY DEF NotCreating, Creation
  <2>2. NotChecking \in Check
    BY DEF NotChecking, Check, GrantSets
  <2>3. DOMAIN accounts \subseteq Name
    BY <1>1, AccountsAssumption
  <2>4. direct \subseteq Name \X Perm /\ member \subseteq Name \X Group
    BY <1>1, <2>3
  <2> QED BY <1>1, <2>1, <2>2, <2>3, <2>4, AccountsAssumption DEF AccountsTypeOK
<1>3. AccountsOK
  <2>1. AccountsInv
    BY <1>1 DEF AccountsInv, Named, NotCreating
  <2>2. ChecksInv
    BY <1>1 DEF ChecksInv, CheckOK, NotChecking
  <2> QED BY <1>2, <2>1, <2>2 DEF AccountsOK
<1>4. /\ setting \in Settings /\ store \in Stores /\ header \in Headers
      /\ rows = [k \in {} |-> Empty] /\ jar = None /\ page = None
      /\ req = [r \in Checker |-> Idle]
      /\ fresh = 0 /\ sent = 0 /\ faults = 0
      /\ values = {Empty} /\ loggedIn = {} /\ calm = TRUE
  BY DEF Init
<1>5. \A r \in Checker : req[r] = Idle /\ ~Open(r)
  BY <1>4, IdleFields DEF Open
<1>6. TypeOK
  <2>1. req \in [Checker -> RequestState]
    BY <1>4, IdleType
  <2>2. \A r \in Checker : req[r].wrote <=> req[r].pc \in {"write", "after", "respond"}
    BY <1>5 DEF Idle
  <2>3. jar \in Cookie /\ page \in Number
    BY <1>4 DEF Cookie, Number
  <2>4. values \subseteq SessionData
    BY <1>4, EmptyData
  <2>5. DOMAIN rows \subseteq 1 .. fresh /\ rows \in [DOMAIN rows -> SessionData]
    BY <1>4
  <2>6. {fresh, sent, faults} \subseteq Nat
    BY <1>4
  <2>7. calm \in BOOLEAN
    BY <1>4
  <2>8. loggedIn \subseteq Name
    BY <1>4
  <2> QED BY <1>2, <1>4, <2>1, <2>2, <2>3, <2>4, <2>5, <2>6, <2>7, <2>8 DEF TypeOK
<1>7. StagesInv
  BY <1>5, IdleFields DEF StagesInv, StageOK
<1>8. MeantInv
  BY <1>4, <1>5, IdleFields DEF MeantInv, Carrying
<1>9. StaffInv
  BY <1>4, <1>5, IdleFields DEF StaffInv, Empty
<1>10. AloneInv /\ CalmInv
  BY <1>4, <1>5 DEF AloneInv, Alone, CalmInv
<1> QED BY <1>3, <1>6, <1>7, <1>8, <1>9, <1>10 DEF WebInv

(* A step that changes nothing keeps the invariant. *)
LEMMA WebStutter ==
    ASSUME WebInv, UNCHANGED vars
    PROVE  WebInv'
<1>1. /\ UNCHANGED <<accountVars, setting, store, header, rows, jar, page, req, fresh, sent,
                     faults, values, loggedIn, calm>>
      /\ UNCHANGED <<accounts, direct, member, granted, creating, check, changes>>
  BY DEF vars, accountVars, grants
<1>2. AccountsOK'
  BY <1>1, UntouchedAccounts DEF WebInv
<1>3. TypeOK'
  <2>1. Later
    BY <1>1 DEF Later, WebInv, TypeOK
  <2>2. RequestsOK'
    BY <1>1, <2>1, TypesGrow DEF RequestsOK, WebInv, TypeOK
  <2> QED BY <1>1, <1>2, <2>1, <2>2, KeptTypes, OtherTypes DEF WebInv, KeptTypesOf, AccountsOK
<1>4. StagesInv' /\ MeantInv'
  BY <1>1 DEF WebInv, StagesInv, StageOK, MeantInv, Carrying
<1>5. StaffInv'
  BY <1>1 DEF WebInv, StaffInv, Open, StaffNow, Passes
<1>6. AloneInv' /\ CalmInv'
  BY <1>1 DEF WebInv, AloneInv, AloneOK, Alone, Open, Settled, CalmInv, Kept, Decoded,
              DecodedRow, DecodedCookie
<1> QED BY <1>2, <1>3, <1>4, <1>5, <1>6 DEF WebInv

LEMMA WebStep ==
    ASSUME WebInv, [Next]_vars
    PROVE  WebInv'
<1>1. CASE Next
  <2>1. StepAs /\ TypeOK' /\ AccountsOK'
    BY <1>1, StepKinds DEF WebInv
  <2> QED BY <2>1, StagesKept, MeantKept, StaffKept, AloneKept, CalmKept DEF WebInv
<1>2. CASE UNCHANGED vars
  BY <1>2, WebStutter
<1> QED BY <1>1, <1>2

LEMMA WebInvariance == Spec => []WebInv
<1>1. Init => WebInv
  BY WebInit
<1>2. WebInv /\ [Next]_vars => WebInv'
  BY WebStep
<1> QED BY <1>1, <1>2, PTL DEF Spec

-----------------------------------------------------------------------------
(* The theorems. *)

(***************************************************************************)
(* The accounts, sessions, cookies and requests keep their types, and a    *)
(* request has written its header from its save on (sessionWriter.wrote).  *)
(***************************************************************************)
THEOREM TypeCorrect == Spec => []TypeOK
<1>1. WebInv => TypeOK
  BY DEF WebInv
<1> QED BY <1>1, WebInvariance, PTL

(***************************************************************************)
(* CreateUser and createsuperuser, any number at a time: at most one call  *)
(* for a name succeeds and reports the account that is there, one that     *)
(* finds the name taken was turned down for an account, and only the loser *)
(* of a race for a new name meets the constraint (auth/create.go:25-44).   *)
(***************************************************************************)
THEOREM OneCreatedHolds == Spec => []OneCreated
<1>1. ASSUME WebInv, NEW c \in Caller
      PROVE  OneCreated!(c)
  <2>1. /\ creating[c].stage = "created" => Named(c) /\ CreatedOK(c)
        /\ Named(c) => /\ creating[c].name # ""
                       /\ creating[c].super => creating[c].password # ""
        /\ creating[c].stage \in {"exists", "unique"} => creating[c].name \in DOMAIN accounts
        /\ creating[c].stage = "unique" => creating[c].name \notin DOMAIN FirstAccounts
    BY <1>1 DEF WebInv, AccountsOK, AccountsInv, Named
  <2>2. creating[c].name \in DOMAIN accounts \ DOMAIN FirstAccounts =>
          \E d \in Caller : creating[d].stage = "created" /\ creating[d].name = creating[c].name
    BY <1>1 DEF WebInv, AccountsOK, AccountsInv
  <2> QED BY <2>1, <2>2 DEF CreatedOK
<1>2. WebInv => OneCreated
  BY <1>1 DEF OneCreated
<1> QED BY <1>2, WebInvariance, PTL

(***************************************************************************)
(* HasPerm between its queries: yes rests on grants that were there, no on *)
(* their absence at some time, whoever regrants in between                 *)
(* (auth/permissions.go).                                                  *)
(***************************************************************************)
THEOREM AnswersJustifiedHolds == Spec => []AnswersJustified
<1>1. WebInv => AnswersJustified
  BY DEF WebInv, AccountsOK, ChecksInv, CheckOK, Justified, AnswersJustified
<1> QED BY <1>1, WebInvariance, PTL

(***************************************************************************)
(* The browser's session is what one of its requests meant to leave, with  *)
(* either store and any number of overlapping requests                     *)
(* (sessions/middleware.go sessionWriter.save, DBStore.Encode).            *)
(***************************************************************************)
THEOREM NoMixtureHolds == Spec => []NoMixture
<1>1. WebInv => NoMixture
  BY KeptMeant DEF WebInv, MeantInv, NoMixture
<1> QED BY <1>1, WebInvariance, PTL

(***************************************************************************)
(* staffRequired lets in only users who logged in from this browser and    *)
(* were active staff since the request began (admin/auth.go).              *)
(***************************************************************************)
THEOREM StaffOnlyHolds == Spec => []StaffOnly
<1>1. WebInv => StaffOnly
  BY DEF WebInv, StaffInv, StaffOnly, Passes
<1> QED BY <1>1, WebInvariance, PTL

(***************************************************************************)
(* csrf.Middleware accepts the form on the newest page, as long as all is  *)
(* calm (csrf/csrf.go).                                                    *)
(***************************************************************************)
THEOREM NewestPagePostsHolds == Spec => []NewestPagePosts
<1>1. WebInv => NewestPagePosts
  <2>1. \A r \in Checker : StageOK(req[r]) /\ ~Open(r) => req[r].status = 0
    BY DEF StageOK, Open
  <2> QED BY <2>1 DEF WebInv, CalmInv, NewestPagePosts, StagesInv
<1> QED BY <1>1, WebInvariance, PTL

(***************************************************************************)
(* A request that nothing disturbs leaves exactly the session it made,     *)
(* whichever store keeps it (sessions/middleware.go, sessions/store.go).   *)
(***************************************************************************)
THEOREM SequentialSessionHolds == Spec => SequentialSession
<1>1. ASSUME WebInv, Next, NEW r \in Checker, req[r].pc = "respond", req'[r].pc = "idle",
             req[r].alone, faults' = faults
      PROVE  (Decoded(jar).data)' = req[r].meant
  <2>1. StepAs
    BY <1>1, StepKinds DEF WebInv
  <2>2. faults \in Nat
    BY <1>1 DEF WebInv, TypeOK
  <2>3. ~PurgedAs /\ ~TablesAs
    BY <1>1, <2>2 DEF PurgedAs, TablesAs, NotedAs
  <2>4. PICK o \in Checker : RequestAs(o)
    BY <2>1, <2>3 DEF StepAs
  <2>5. ~SentAs(o)
    BY <1>1 DEF SentAs, Open
  <2>6. o = r
    BY <1>1, <2>4, <2>5 DEF RequestAs, DecodedAs, LoadedAs, Served, SavedAs, WrittenAs,
          KeptLateAs, RespondedAs, UnsavedAs, LostAs, Others
  <2>7. RespondedAs(r)
    BY <1>1, <2>2, <2>4, <2>5, <2>6 DEF RequestAs, DecodedAs, LoadedAs, Served, ServedAs,
          SavedAs, WrittenAs, KeptLateAs, UnsavedAs, LostAs
  <2>8. AloneIn(req[r], rows, store, jar)
    BY <1>1, AloneParts DEF WebInv, AloneInv, Alone, Open
  <2>9. KeptIn(jar', rows', store') = req[r].meant
    BY <1>1, <2>7, <2>8 DEF RespondedAs, AloneIn, SettledIn
  <2> QED BY <2>9 DEF KeptIn, Decoded, DecodedRow, DecodedCookie, NewSession
<1>2. WebInv /\ [Next]_vars =>
         [\A r \in Checker : req[r].pc = "respond" /\ req'[r].pc = "idle" /\ req[r].alone
             /\ faults' = faults => (Decoded(jar).data)' = req[r].meant]_vars
  BY <1>1
<1> QED BY <1>2, WebInvariance, PTL DEF Spec, SequentialSession
=============================================================================
