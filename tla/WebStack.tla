------------------------------ MODULE WebStack ------------------------------
(***************************************************************************)
(* The middleware of an application around its views, as examples/blog     *)
(* puts it together: sessions, then csrf, then auth; with either session   *)
(* store.  The requests are those of one browser, which has one cookie and *)
(* shows one page; they overlap, their answers come in any order, and      *)
(* between two queries of a request the others and the site go on.         *)
(***************************************************************************)
EXTENDS Accounts

CONSTANTS
    Stores,           \* the session stores to run on: "db", "cookie"
    Value,            \* values that views keep in the session, as a and as b
    Headers,          \* how the server meets a browser of its own site
    Settings          \* [kinds, slots, requests, faults, create]: what bounds
                      \* a behaviour

Posts == {"set", "late", "login", "logout"}
Kind == Posts \cup {"page", "admin", "guarded"}

(* The slots of a setting are its requests in flight; requests and faults   *)
(* bound their number and that of lost answers, failed saves and purges.   *)
ASSUME SettingsAssumption ==
    /\ \A s \in Settings : /\ s.slots \subseteq Checker /\ s.create \subseteq Caller
                           /\ {s.requests, s.faults} \subseteq Nat
                           /\ s.kinds \subseteq Kind
    /\ Stores \subseteq {"db", "cookie"}

(* What a browser sends with a form of the site itself: the origin is the  *)
(* site, and so is the referer; over TLS it sends one of them.             *)
Own(url, h) == url.host = "site" /\ url.scheme = IF h.tls THEN "https" ELSE "http"

ASSUME HeadersAssumption ==
    \A h \in Headers :
        /\ h.origin # None => Own(h.origin, h)
        /\ h.referer # None => Own(h.referer, h)
        /\ h.tls /\ h.origin = None => h.referer # None

VARIABLES
    setting, store, header,
    rows,             \* DBStore: the table of the sessions, by key
    jar,              \* the session cookie of the browser
    page,             \* the token in the page the browser shows
    req,              \* the requests
    fresh,            \* keys and tokens handed out so far
    sent, faults,
    values,           \* history: what the browser's requests meant to leave
    loggedIn,         \* history: the users that have logged in
    calm              \* history: the page was asked for and answered alone

vars == <<accountVars, setting, store, header, rows, jar, page, req, fresh,
          sent, faults, values, loggedIn, calm>>
webVars == <<rows, jar, page, fresh, sent, faults, values, loggedIn, calm>>

Data == [token : Nat \cup {None}, user : Name \cup {None},
         a : Value \cup {None}, b : Value \cup {None}]

\* Nothing is neither a number nor the data of a session.
ASSUME NoneAssumption == None \notin Nat /\ None \notin Data

Empty == [token |-> None, user |-> None, a |-> None, b |-> None]
NewSession == [key |-> None, data |-> Empty, modified |-> FALSE]

Open(r) == req[r].pc # "idle"

Idle == [pc |-> "idle", kind |-> "page", cookie |-> None, submitted |-> None,
         sess |-> NewSession, user |-> None, status |-> 0, shown |-> None,
         wrote |-> FALSE, found |-> FALSE, out |-> None,
         alone |-> TRUE, meant |-> Empty, could |-> {}]

(* Keys and tokens that have been handed out, and what can hold them; a    *)
(* cookie is the key of a session or its data.                             *)
Number == 1 .. fresh \cup {None}
SessionData == {d \in Data : d.token \in Number}
Session == [key : Number, data : SessionData, modified : BOOLEAN]
Cookie == IF store = "db" THEN Number ELSE SessionData \cup {None}

RequestState ==
    [pc : {"idle", "decode", "user", "handle", "perm", "save", "write", "after", "respond"},
     kind : Kind, cookie : Cookie, submitted : Number, sess : Session,
     user : User \cup {None}, status : {0, 200, 302, 403}, shown : Number,
     wrote : BOOLEAN, found : BOOLEAN, out : Cookie, alone : BOOLEAN,
     meant : SessionData, could : SUBSET Name]

TypeOK ==
    /\ AccountsTypeOK
    /\ setting \in Settings /\ store \in Stores /\ header \in Headers
    /\ {fresh, sent, faults} \subseteq Nat /\ calm \in BOOLEAN
    /\ DOMAIN rows \subseteq 1 .. fresh /\ rows \in [DOMAIN rows -> SessionData]
    /\ jar \in Cookie /\ page \in Number
    /\ values \subseteq SessionData /\ loggedIn \subseteq Name
    /\ req \in [Checker -> RequestState]
    /\ \A r \in Checker : req[r].wrote <=> req[r].pc \in {"write", "after", "respond"}

Init ==
    /\ AccountsInit
    /\ setting \in Settings /\ store \in Stores /\ header \in Headers
    /\ "guarded" \notin setting.kinds => grants = <<{}, {}, {}>>
    /\ rows = [k \in {} |-> Empty] /\ jar = None /\ page = None
    /\ req = [r \in Checker |-> Idle]
    /\ fresh = 0 /\ sent = 0 /\ faults = 0
    /\ values = {Empty} /\ loggedIn = {} /\ calm = TRUE

-----------------------------------------------------------------------------
(* sessions/session.go and store.go                                        *)

Set(s, field, v) == [s EXCEPT !.data[field] = v, !.modified = TRUE]
Clear(s) == [s EXCEPT !.data = Empty, !.modified = TRUE]

(* A fault: a session that gets a new key starts again without data. *)
RotateFlushes(s, key) == [s EXCEPT !.key = key, !.data = Empty, !.modified = TRUE]

Rotate(s, key) == [s EXCEPT !.key = key, !.modified = TRUE]

(* SignedCookieStore.Decode: the cookie is the data; without one, a fresh    *)
(* session. The session it returns has no key.                             *)
DecodedCookie(cookie) ==
    IF cookie = None THEN NewSession
    ELSE [key |-> None, data |-> cookie, modified |-> FALSE]

(* DBStore.Decode: a key with no row is a fresh session. *)
DecodedRow(key) ==
    IF key \in DOMAIN rows
    THEN [key |-> key, data |-> rows[key], modified |-> FALSE]
    ELSE NewSession

Decoded(cookie) ==
    IF store = "db" THEN DecodedRow(cookie) ELSE DecodedCookie(cookie)

(* The session that the browser's next request would meet. *)
Kept(cookie) == Decoded(cookie).data

-----------------------------------------------------------------------------
(* A request                                                               *)

(* The accounts that staffRequired lets in. *)
StaffNow == {n \in DOMAIN accounts : accounts[n].active /\ accounts[n].staff}

Goes(r, to) == req' = [req EXCEPT ![r] = to]

(* One more request: the two of an overlap disturb each other. *)
Send(r) ==
    /\ ~Open(r) /\ r \in setting.slots /\ sent < setting.requests
    /\ sent' = sent + 1
    /\ \E kind \in setting.kinds :
         LET others == {o \in Checker \ {r} : Open(o)}
             new == [Idle EXCEPT !.pc = "decode", !.kind = kind, !.cookie = jar,
                        !.submitted = IF kind \in Posts THEN page ELSE None,
                        !.alone = others = {},
                        !.could = StaffNow]
         IN /\ kind \in Posts => page # None
            /\ req' = [o \in Checker |->
                  IF o = r THEN new
                  ELSE IF Open(o) THEN [req[o] EXCEPT !.alone = FALSE] ELSE req[o]]
            /\ calm' = (calm /\ others = {})
    /\ UNCHANGED <<accountVars, setting, store, header, rows, jar, page, fresh, faults,
                   values, loggedIn>>

(* A fault: every request gets a token. *)
SeededAlways(s) == Set(s, "token", fresh + 1)

(* csrf.Middleware: a session without a token gets one. *)
Seeded(s) == IF s.data.token = None THEN Set(s, "token", fresh + 1) ELSE s

SameSite(origin, scheme) == origin.scheme = scheme /\ origin.host = "site"

(* originOrRefererOK, for a request to the host "site". *)
OriginOrRefererOK(h) ==
    IF h.origin # None THEN SameSite(h.origin, IF h.tls THEN "https" ELSE "http")
    ELSE h.tls => h.referer # None /\ SameSite(h.referer, "https")

ValidToken(submitted, token) == token # None /\ submitted = token

(* The session is loaded and the token is checked. *)
Decode(r) ==
    LET s == Seeded(Decoded(req[r].cookie))
        ok == \/ req[r].kind \notin Posts
              \/ OriginOrRefererOK(header) /\ ValidToken(req[r].submitted, s.data.token)
        now == [req[r] EXCEPT !.sess = s, !.meant = s.data]
    IN /\ req[r].pc = "decode"
       /\ Goes(r, IF ok THEN [now EXCEPT !.pc = "user"]
                  ELSE [now EXCEPT !.pc = "save", !.status = 403])
       /\ fresh' = IF s.modified THEN fresh + 1 ELSE fresh
       /\ values' = values \cup {s.data}
       /\ UNCHANGED <<accountVars, setting, store, header, rows, jar, page, sent, faults,
                      loggedIn, calm>>

(* A fault: whether the account is active is not looked at. *)
CurrentAnyway(n) == n # None /\ n \in DOMAIN accounts

(* UserFromSession finds the account, and it is active. *)
Current(n) == n # None /\ n \in DOMAIN accounts /\ accounts[n].active

LoadUser(r) ==
    LET n == req[r].sess.data.user
    IN /\ req[r].pc = "user"
       /\ Goes(r, [req[r] EXCEPT !.pc = "handle",
              !.user = IF Current(n) THEN Loaded(n) ELSE None])
       /\ UNCHANGED <<accountVars, setting, store, header, webVars>>

Answers(now, status) == [now EXCEPT !.pc = "save", !.status = status]
ShowsPage(now) == [Answers(now, 200) EXCEPT !.shown = now.meant.token]

Handled(r) ==
    /\ req[r].pc = "handle"
    /\ UNCHANGED <<accounts, grants, creating, changes, setting, store, header, rows, jar,
                   page, sent, faults, calm>>

(* A view that shows a page with a form. *)
Page(r) ==
    /\ Handled(r) /\ req[r].kind = "page"
    /\ Goes(r, ShowsPage(req[r]))
    /\ UNCHANGED <<check, fresh, values, loggedIn>>

(* A view that keeps a value and answers with a page. *)
SetValue(r) ==
    /\ Handled(r) /\ req[r].kind = "set"
    /\ \E f \in {"a", "b"}, v \in Value :
         LET meant == [req[r].meant EXCEPT ![f] = v]
         IN /\ Goes(r, ShowsPage([req[r] EXCEPT !.sess = Set(@, f, v), !.meant = meant]))
            /\ values' = values \cup {meant}
    /\ UNCHANGED <<check, fresh, loggedIn>>

(* A view that begins its answer before it keeps the value. *)
SetLate(r) ==
    /\ Handled(r) /\ req[r].kind = "late"
    /\ Goes(r, ShowsPage(req[r]))
    /\ UNCHANGED <<check, fresh, values, loggedIn>>

(* loginPOST: the account, its password and its rights. *)
Authenticates(n, password) ==
    /\ n \in DOMAIN accounts /\ accounts[n].password = password
    /\ accounts[n].staff /\ accounts[n].active

(* auth.Login after loginPOST has found the account, or the form again. *)
Login(r) ==
    /\ Handled(r) /\ req[r].kind = "login"
    /\ \E n \in Name, password \in Password :
         LET meant == [req[r].meant EXCEPT !.user = n]
         IN IF Authenticates(n, password)
            THEN /\ Goes(r, Answers([req[r] EXCEPT !.meant = meant,
                           !.sess = Set(Rotate(@, fresh + 1), "user", n)], 302))
                 /\ fresh' = fresh + 1
                 /\ values' = values \cup {meant}
                 /\ loggedIn' = loggedIn \cup {n}
            ELSE /\ Goes(r, ShowsPage(req[r]))
                 /\ UNCHANGED <<fresh, values, loggedIn>>
    /\ UNCHANGED check

(* A view that calls auth.Logout. *)
Logout(r) ==
    /\ Handled(r) /\ req[r].kind = "logout"
    /\ Goes(r, Answers([req[r] EXCEPT !.meant = Empty,
                           !.sess = Rotate(Clear(@), fresh + 1)], 302))
    /\ fresh' = fresh + 1
    /\ values' = values \cup {Empty}
    /\ UNCHANGED <<check, loggedIn>>

Passes(user) == user # None /\ user.staff

(* A page of the admin, behind staffRequired. *)
Admin(r) ==
    /\ Handled(r) /\ req[r].kind = "admin"
    /\ Goes(r, IF Passes(req[r].user) THEN ShowsPage(req[r]) ELSE Answers(req[r], 302))
    /\ UNCHANGED <<check, fresh, values, loggedIn>>

(* A page behind PermissionRequired. *)
Guarded(r) ==
    /\ Handled(r) /\ req[r].kind = "guarded"
    /\ IF req[r].user = None
       THEN Goes(r, Answers(req[r], 302)) /\ UNCHANGED check
       ELSE /\ Goes(r, [req[r] EXCEPT !.pc = "perm"])
            /\ check' = [check EXCEPT ![r] = StartCheck(req[r].user)]
    /\ UNCHANGED <<fresh, values, loggedIn>>

GuardAnswers(r) ==
    /\ req[r].pc = "perm" /\ check[r].stage = "done"
    /\ Goes(r, IF check[r].answer THEN ShowsPage(req[r]) ELSE Answers(req[r], 403))
    /\ check' = [check EXCEPT ![r] = NotChecking]
    /\ UNCHANGED <<accounts, grants, creating, changes, setting, store, header, webVars>>

-----------------------------------------------------------------------------
(* sessionWriter: saving, once, at the first write                         *)

Keyed(s) == IF store = "db" /\ s.key = None THEN Rotate(s, fresh + 1) ELSE s

AfterSave(now) == [now EXCEPT !.pc = IF now.kind = "late" /\ now.status = 200
                                     THEN "after" ELSE "respond"]

(* save, up to the query of Encode that looks for the row. *)
Save(r) ==
    LET s == Keyed(req[r].sess)
        now == [req[r] EXCEPT !.wrote = TRUE]
    IN /\ req[r].pc = "save"
       /\ IF ~req[r].sess.modified
          THEN Goes(r, AfterSave(now)) /\ UNCHANGED fresh
          ELSE IF store = "cookie"
          THEN Goes(r, AfterSave([now EXCEPT !.out = s.data])) /\ UNCHANGED fresh
          ELSE /\ Goes(r, [now EXCEPT !.pc = "write", !.sess = s,
                                      !.found = s.key \in DOMAIN rows])
               /\ fresh' = IF s.key = req[r].sess.key THEN fresh ELSE fresh + 1
       /\ UNCHANGED <<accountVars, setting, store, header, rows, jar, page, sent, faults,
                      values, loggedIn, calm>>

(* A fault: what the row holds already is kept. *)
StoredMerged(s, found) ==
    IF s.key \notin DOMAIN rows THEN With(rows, s.key, s.data)
    ELSE [rows EXCEPT ![s.key] = [f \in DOMAIN Empty |->
             IF @[f] = None THEN s.data[f] ELSE @[f]]]

(* Create of a key that another request has put back meanwhile: the column *)
(* of the keys is unique.                                                  *)
Collides(r) == ~req[r].found /\ req[r].sess.key \in DOMAIN rows

(* Update of no row changes nothing.                                       *)
Stored(s, found) ==
    IF found /\ s.key \notin DOMAIN rows THEN rows ELSE With(rows, s.key, s.data)

(* The second query of Encode: Update or Create. *)
Write(r) ==
    /\ req[r].pc = "write" /\ ~Collides(r)
    /\ rows' = Stored(req[r].sess, req[r].found)
    /\ Goes(r, AfterSave([req[r] EXCEPT !.out = req[r].sess.key]))
    /\ UNCHANGED <<accountVars, setting, store, header, jar, page, fresh, sent, faults,
                   values, loggedIn, calm>>

(* A fault: what the view keeps after its first write is saved as well. *)
SaveAgain(now) == [now EXCEPT !.pc = "save", !.kind = "page", !.wrote = FALSE]

(* The save at the end of the request finds the header written. *)
SavedOnce(now) == [now EXCEPT !.pc = "respond"]

(* What the view keeps after it has written stays in memory. *)
KeepLate(r) ==
    /\ req[r].pc = "after"
    /\ \E v \in Value : Goes(r, SavedOnce([req[r] EXCEPT !.sess = Set(@, "a", v)]))
    /\ UNCHANGED <<accountVars, setting, store, header, webVars>>

(* The browser takes the cookie, and shows the page or follows the         *)
(* redirect; all is calm with a page that was asked for alone.             *)
Respond(r) ==
    /\ req[r].pc = "respond"
    /\ jar' = IF req[r].out = None THEN jar ELSE req[r].out
    /\ page' = IF req[r].status = 302 THEN None
               ELSE IF req[r].shown = None THEN page ELSE req[r].shown
    /\ Goes(r, Idle)
    /\ calm' = (calm \/ (req[r].alone /\ req[r].shown # None))
    /\ UNCHANGED <<accountVars, setting, store, header, rows, fresh, sent, faults, values,
                   loggedIn>>

-----------------------------------------------------------------------------
(* What goes wrong                                                         *)

Fault ==
    /\ faults < setting.faults
    /\ faults' = faults + 1
    /\ calm' = FALSE

(* A query of Encode fails, or its Create meets the row of another request: *)
(* the answer goes out without a cookie.                                    *)
EncodeFails(r) ==
    /\ \/ Fault
       \/ Collides(r) /\ calm' = FALSE /\ UNCHANGED faults
    /\ req[r].pc = "write"
    /\ Goes(r, [AfterSave(req[r]) EXCEPT !.alone = FALSE])
    /\ UNCHANGED <<accountVars, setting, store, header, rows, jar, page, fresh, sent,
                   values, loggedIn>>

(* The answer is lost, or the handler panicked and there is none. *)
Lose(r) ==
    /\ Fault
    /\ req[r].pc \in {"handle", "respond"}
    /\ Goes(r, Idle)
    /\ UNCHANGED <<accountVars, setting, store, header, rows, jar, page, fresh, sent,
                   values, loggedIn>>

(* The site deletes the rows of old sessions. *)
Purge(key) ==
    /\ Fault
    /\ rows' = [k \in DOMAIN rows \ {key} |-> rows[k]]
    /\ req' = [r \in Checker |-> [req[r] EXCEPT !.alone = FALSE]]
    /\ UNCHANGED <<accountVars, setting, store, header, jar, page, fresh, sent, values,
                   loggedIn>>

-----------------------------------------------------------------------------
Request(r) ==
    \/ Send(r) \/ Decode(r) \/ LoadUser(r)
    \/ Page(r) \/ SetValue(r) \/ SetLate(r) \/ Login(r) \/ Logout(r) \/ Admin(r)
    \/ Guarded(r) \/ GuardAnswers(r)
    \/ Save(r) \/ Write(r) \/ KeepLate(r) \/ Respond(r)
    \/ EncodeFails(r) \/ Lose(r)

(* The steps of Accounts; the requests note who is of the staff by then. *)
Tables ==
    /\ UNCHANGED <<setting, store, header, webVars>>
    /\ \/ \E c \in setting.create : CreateUser(c) \/ CreateSuperuser(c) \/ InsertUser(c)
       \/ \E r \in Checker : CheckStep(r)
       \/ "guarded" \in setting.kinds /\ Regrant
       \/ /\ "admin" \in setting.kinds
          /\ \E n \in DOMAIN accounts, active \in BOOLEAN : SetActive(n, active)
    /\ req' = [r \in Checker |->
          IF Open(r) THEN [req[r] EXCEPT !.could = @ \cup StaffNow'] ELSE req[r]]

Next ==
    \/ \E r \in Checker : Request(r)
    \/ \E key \in DOMAIN rows : Purge(key)
    \/ Tables

Spec == Init /\ [][Next]_vars

-----------------------------------------------------------------------------
(* Correctness                                                             *)

(***************************************************************************)
(* "keeping all data client-side" or "server-side keyed by an opaque       *)
(* session id" (sessions/session.go:1): a request that nothing disturbs    *)
(* leaves behind exactly what it made of the session it found, with either *)
(* store, across the change of the key at login and logout, and without    *)
(* what its view changed after its first write ("headers cannot be added   *)
(* after WriteHeader").                                                    *)
(***************************************************************************)
SequentialSession ==
    [][ \A r \in Checker : req[r].pc = "respond" /\ req'[r].pc = "idle" /\ req[r].alone
            /\ faults' = faults =>
          (Decoded(jar).data)' = req[r].meant ]_vars

(***************************************************************************)
(* A session is written as a whole (Encode): whatever requests overlap,    *)
(* whichever answer comes last or is lost, the browser's session is what   *)
(* one of its requests meant to leave, and never a mixture of several.     *)
(***************************************************************************)
NoMixture == Kept(jar) \in values

(***************************************************************************)
(* csrf.Middleware "rejects unsafe-method requests whose submitted token   *)
(* does not match the session token": the form on the newest page is never *)
(* rejected if the page was asked for while no other request was open and  *)
(* nothing failed since.                                                   *)
(***************************************************************************)
NewestPagePosts ==
    \A r \in Checker :
        calm /\ req[r].alone /\ req[r].kind \in Posts => req[r].status # 403

(***************************************************************************)
(* staffRequired runs a view "only for an authenticated staff user": for   *)
(* one who has logged in from this browser and who was active and of the   *)
(* staff at some time since the request began, however the account changes *)
(* and whatever session an older answer brings back.                       *)
(***************************************************************************)
StaffOnly ==
    \A r \in Checker :
        req[r].kind = "admin" /\ req[r].status = 200 =>
            req[r].user.name \in loggedIn \cap req[r].could
=============================================================================
