------------------------------ MODULE Accounts ------------------------------
(***************************************************************************)
(* The tables of auth/models.go, and the calls of auth/create.go and       *)
(* guards.go that read and write them in several queries: CreateUser, by   *)
(* itself and from the command createsuperuser, and HasPerm.  Each query   *)
(* is a step, and the site changes the tables between them.                *)
(***************************************************************************)
EXTENDS Naturals, FiniteSets

CONSTANTS
    Name, Password,   \* user names and passwords; "" is the blank one
    Group, Perm,      \* groups, and the ids of the permissions
    Wanted,           \* the permissions whose codename a view asks for
    Caller,           \* goroutines and commands that create accounts
    Checker,          \* requests that check a permission
    None,             \* nothing
    FirstAccounts,    \* the accounts to start from, by name
    MaxChanges        \* bound on the changes of the site to the tables

(* The columns of User that decide something. *)
AccountRow == [active : BOOLEAN, staff : BOOLEAN, super : BOOLEAN, password : Password]

ASSUME AccountsAssumption ==
    /\ Wanted \subseteq Perm /\ MaxChanges \in Nat
    /\ "" \notin DOMAIN FirstAccounts /\ DOMAIN FirstAccounts \subseteq Name
    /\ FirstAccounts \in [DOMAIN FirstAccounts -> AccountRow]

VARIABLES
    accounts,         \* User: name -> [active, staff, super, password]
    direct,           \* UserPermission: <<name, permission>>
    member,           \* UserGroup: <<name, group>>
    granted,          \* GroupPermission: <<group, permission>>
    creating,         \* the CreateUser call of each caller
    check,            \* the HasPerm call of each checker
    changes           \* changes of the site so far

grants == <<direct, member, granted>>
accountVars == <<accounts, grants, creating, check, changes>>

Account(active, staff, super, password) ==
    [active |-> active, staff |-> staff, super |-> super, password |-> password]

(* The User that a request holds, as it read it. *)
User == [name : Name, active : BOOLEAN, staff : BOOLEAN, super : BOOLEAN]

Loaded(n) == [name |-> n, active |-> accounts[n].active, staff |-> accounts[n].staff,
              super |-> accounts[n].super]

(* A table with one more row. *)
With(table, key, row) ==
    [k \in DOMAIN table \cup {key} |-> IF k = key THEN row ELSE table[k]]

NotCreating == [stage |-> "idle", name |-> "", password |-> "", super |-> FALSE]

(* ever and always are history: the grants that have been there at some    *)
(* time, and all the time, since the call began.                           *)
NotChecking == [stage |-> "idle", user |-> None, groups |-> {}, answer |-> None,
                ever |-> <<{}, {}, {}>>, always |-> <<{}, {}, {}>>]

Creation == [stage : {"idle", "insert", "created", "exists", "unique", "empty", "refused"},
             name : Name \cup {""}, password : Password \cup {""}, super : BOOLEAN]

GrantSets == (SUBSET (Name \X Perm)) \X (SUBSET (Name \X Group)) \X (SUBSET (Group \X Perm))

Check == [stage : {"idle", "direct", "groups", "grant", "done"},
          user : User \cup {None}, groups : SUBSET Group, answer : BOOLEAN \cup {None},
          ever : GrantSets, always : GrantSets]

AccountsTypeOK ==
    /\ DOMAIN accounts \subseteq Name /\ accounts \in [DOMAIN accounts -> AccountRow]
    /\ direct \subseteq Name \X Perm /\ member \subseteq Name \X Group
    /\ granted \subseteq Group \X Perm
    /\ creating \in [Caller -> Creation] /\ check \in [Checker -> Check]
    /\ changes \in Nat

AccountsInit ==
    /\ accounts = FirstAccounts
    /\ direct \in SUBSET ((DOMAIN accounts) \X Perm)
    /\ member \in SUBSET ((DOMAIN accounts) \X Group)
    /\ granted \in SUBSET (Group \X Perm)
    /\ creating = [c \in Caller |-> NotCreating]
    /\ check = [c \in Checker |-> NotChecking]
    /\ changes = 0

-----------------------------------------------------------------------------
(* CreateUser                                                              *)

(***************************************************************************)
(* The name and the password that createsuperuser collects: the flag, or   *)
(* else the environment, or else a prompt; a password that is typed is     *)
(* typed twice.  An answer without a name passes if it was typed.          *)
(***************************************************************************)
Collect(noInput, flag, other, first, second) ==
    LET name == IF flag # "" THEN flag ELSE other
        ok == IF noInput THEN name # "" /\ first # ""
              ELSE first # "" /\ first = second
    IN [ok |-> ok, name |-> name, password |-> first]

Creates(c, stage, name, password, super) ==
    creating' = [creating EXCEPT ![c] =
        [stage |-> stage, name |-> name, password |-> password, super |-> super]]

(* Up to the query that looks for the name. *)
Look(c, name, password, super) ==
    Creates(c, IF name = "" THEN "empty"
               ELSE IF name \in DOMAIN accounts THEN "exists" ELSE "insert",
            name, password, super)

CreateUser(c) ==
    /\ creating[c].stage = "idle"
    /\ \E name \in Name \cup {""}, password \in Password : Look(c, name, password, FALSE)
    /\ UNCHANGED <<accounts, grants, check, changes>>

CreateSuperuser(c) ==
    /\ creating[c].stage = "idle"
    /\ \E noInput \in BOOLEAN, flag, other \in Name \cup {""},
          first, second \in Password \cup {""} :
         LET in == Collect(noInput, flag, other, first, second)
         IN IF in.ok THEN Look(c, in.name, in.password, TRUE)
            ELSE Creates(c, "refused", "", "", TRUE)
    /\ UNCHANGED <<accounts, grants, check, changes>>

(* A fault: the column of the names has no unique constraint. *)
TakenNever(name) == FALSE

Taken(name) == name \in DOMAIN accounts

InsertUser(c) ==
    LET call == creating[c]
        row == Account(TRUE, call.super, call.super, call.password)
    IN /\ call.stage = "insert"
       /\ IF Taken(call.name)
          THEN /\ creating' = [creating EXCEPT ![c].stage = "unique"]
               /\ UNCHANGED accounts
          ELSE /\ creating' = [creating EXCEPT ![c].stage = "created"]
               /\ accounts' = With(accounts, call.name, row)
       /\ UNCHANGED <<grants, check, changes>>

-----------------------------------------------------------------------------
(* HasPerm                                                                 *)

Answered(c, answer) ==
    check' = [check EXCEPT ![c].stage = "done", ![c].answer = answer]

(* What HasPerm decides without a query, from the user it is given. *)
StartCheck(user) ==
    [NotChecking EXCEPT !.user = user,
        !.stage = IF user.super \/ ~user.active THEN "done" ELSE "direct",
        !.answer = IF ~user.active THEN FALSE ELSE IF user.super THEN TRUE ELSE None,
        !.ever = grants, !.always = grants]

(* The ids of the permissions do not change: no view edits them. *)
CheckDirect(c) ==
    /\ check[c].stage = "direct"
    /\ IF Wanted = {} THEN Answered(c, FALSE)
       ELSE IF \E p \in Wanted : <<check[c].user.name, p>> \in direct THEN Answered(c, TRUE)
       ELSE check' = [check EXCEPT ![c].stage = "groups"]

CheckGroups(c) ==
    LET groups == {g \in Group : <<check[c].user.name, g>> \in member}
    IN /\ check[c].stage = "groups"
       /\ IF groups = {} THEN Answered(c, FALSE)
          ELSE check' = [check EXCEPT ![c].stage = "grant", ![c].groups = groups]

(* A fault: the groups of the user are not looked at. *)
GrantsOfAnyGroup(c) == {gp \in granted : gp[2] \in Wanted}

Grants(c) == {gp \in granted : gp[1] \in check[c].groups /\ gp[2] \in Wanted}

CheckGrant(c) ==
    /\ check[c].stage = "grant"
    /\ Answered(c, Grants(c) # {})

CheckStep(c) ==
    /\ CheckDirect(c) \/ CheckGroups(c) \/ CheckGrant(c)
    /\ UNCHANGED <<accounts, grants, creating, changes>>

-----------------------------------------------------------------------------
(* The site changes an account or a grant                                  *)

Toggle(set, x) == IF x \in set THEN set \ {x} ELSE set \cup {x}

Change ==
    /\ changes < MaxChanges
    /\ changes' = changes + 1
    /\ UNCHANGED creating

Regrant ==
    /\ Change
    /\ \/ /\ \E n \in DOMAIN accounts, p \in Perm : direct' = Toggle(direct, <<n, p>>)
          /\ UNCHANGED <<member, granted>>
       \/ /\ \E n \in DOMAIN accounts, g \in Group : member' = Toggle(member, <<n, g>>)
          /\ UNCHANGED <<direct, granted>>
       \/ /\ \E g \in Group, p \in Perm : granted' = Toggle(granted, <<g, p>>)
          /\ UNCHANGED <<direct, member>>
    /\ check' = [c \in Checker |->
          [check[c] EXCEPT
              !.ever = <<@[1] \cup direct', @[2] \cup member', @[3] \cup granted'>>,
              !.always = <<@[1] \cap direct', @[2] \cap member', @[3] \cap granted'>>]]
    /\ UNCHANGED accounts

SetActive(n, active) ==
    /\ Change
    /\ accounts[n].active # active
    /\ accounts' = [accounts EXCEPT ![n].active = active]
    /\ UNCHANGED <<grants, check>>

-----------------------------------------------------------------------------
(* Correctness                                                             *)

(* The permission follows from the grants: a user has it directly or by    *)
(* way of a group.                                                         *)
Holds(name, sets) ==
    \E p \in Wanted :
        \/ <<name, p>> \in sets[1]
        \/ \E g \in Group : <<name, g>> \in sets[2] /\ <<g, p>> \in sets[3]

(***************************************************************************)
(* "the permission is granted when u has it directly ... or through any of *)
(* u's groups" (auth/guards.go:45), although the tables change between the *)
(* queries: HasPerm says yes only if each grant it rests on was there at   *)
(* some time during the call, and no only if no way to the permission was  *)
(* open all the time; so if nothing changes meanwhile, it is exact.        *)
(***************************************************************************)
AnswersJustified ==
    \A c \in Checker :
        LET k == check[c] IN
        k.answer # None /\ k.user.active /\ ~k.user.super =>
            /\ k.answer => Holds(k.user.name, k.ever)
            /\ ~k.answer => ~Holds(k.user.name, k.always)

(***************************************************************************)
(* Two CreateUser calls for one name (auth/create.go:25-44) may both find  *)
(* it free.  At most one succeeds, and the account it reports is the one   *)
(* that is there, with its password and its rights.  A call that returns   *)
(* ErrUserExists was so for an account; one whose INSERT the UNIQUE        *)
(* constraint refused, which returns the database's own error and not      *)
(* ErrUserExists, lost the race for a new name to another call.            *)
(***************************************************************************)
OneCreated ==
    \A c \in Caller :
        LET k == creating[c]
            others == {d \in Caller \ {c} : creating[d].stage = "created"
                                             /\ creating[d].name = k.name}
        IN
        /\ k.stage = "created" =>
              /\ k.name \notin DOMAIN FirstAccounts
              /\ k.name # "" /\ (k.super => k.password # "")
              /\ accounts[k.name].password = k.password
              /\ accounts[k.name].super = k.super
              /\ others = {}
        /\ k.stage = "exists" => k.name \in DOMAIN FirstAccounts \/ others # {}
        /\ k.stage = "unique" => k.name \notin DOMAIN FirstAccounts /\ others # {}
=============================================================================
