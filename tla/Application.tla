----------------------------- MODULE Application -----------------------------
(***************************************************************************)
(* application.go with conf, apps and templates/tags.go: a process calls   *)
(* New one or more times, while requests of the applications it already    *)
(* has render pages.  The settings in conf and the resolver of {% url %}   *)
(* belong to the process; everything else to one call of New.              *)
(*                                                                         *)
(* A call is [key, host, db, apps]: whether there is a secret key, the     *)
(* host ("" for none), the database ("none", "sqlite", "unopened" when     *)
(* sqlite.Open fails, "mysql"), and the apps.  An app is [name, ready,     *)
(* models, routes, admin]: its name, what its Ready does ("none" without   *)
(* one, "ok", "fails"), and what each optional interface provides, where   *)
(* models and admin are <<FALSE, <<>>>> for an app without it.             *)
(***************************************************************************)
EXTENDS ModelRegistry, Urls

CONSTANTS
    Plans,        \* what a process may do: sequences of calls of New
    Requests,     \* the requests the site may get, <<method, path>>
    AdminRoutes   \* the routes of the admin, AdminSite.Routes

Without == <<FALSE, <<>>>>
Optional(S) == {x \in BOOLEAN \X S : x[1] \/ x = Without}
RouteSet == [method : STRING, path : Seq(STRING), name : Seq(STRING)]

Config == [name : STRING, ready : {"none", "ok", "fails"}, models : Optional(Seq(GoStruct)),
           routes : Seq(RouteSet), admin : Optional(Seq(STRING))]

CallOfNew == [key : BOOLEAN, host : STRING,
              db : {"none", "sqlite", "unopened", "mysql"}, apps : Seq(Config)]

ASSUME PlansAssumption == \A p \in Plans : p \in Seq(CallOfNew) /\ p # <<>>

ASSUME AdminRoutesAssumption == AdminRoutes \in Seq(RouteSet)

VARIABLES
    plan,         \* the calls of this process
    n,            \* the call that runs
    pc,           \* where it is
    active,       \* conf.active: the settings and the call they are of
    resolver,     \* the call whose router is templates.urlResolverFn, 0 for none
    hooks,        \* history: per call, the apps whose Ready ran and the
                  \* call whose settings it saw
    local,        \* what the running call has built
    result,       \* per call: "", "ok", "error" or "panic"
    built,        \* per call: the application it returned
    page          \* the last page: [of, own, link], the application that
                  \* rendered it and the one whose routes are in its links

vars == <<plan, n, pc, active, resolver, hooks, local, result, built, page>>

Call == plan[n]
Apps == Call.apps

Nothing == [settings |-> 0, models |-> EmptyRegistry, db |-> FALSE, routes |-> <<>>,
            migrationsApp |-> ""]
NoPage == [of |-> 0, own |-> FALSE, link |-> 0]

(* applyDefaults. *)
Host(c) == IF c.host = "" THEN "127.0.0.1" ELSE c.host

(* Type correctness; the settings that are active are those of a call that *)
(* was made, with their defaults (New configures them, application.go:44). *)
TypeOK ==
    /\ n \in 1 .. Len(plan)
    /\ pc \in {"configure", "check", "register", "ready", "models", "open", "handler", "done"}
    /\ active.of \in 0 .. n
    /\ active.host = IF active.of = 0 THEN "" ELSE Host(plan[active.of])
    /\ active.host = "" <=> active.of = 0
    /\ resolver \in 0 .. n
    /\ result \in [DOMAIN plan -> {"", "ok", "error", "panic"}]
    /\ \A c \in DOMAIN plan : built[c] # Nothing => result[c] = "ok"
    /\ page.of \in 0 .. n /\ page.link \in 0 .. n

Init ==
    /\ plan \in Plans
    /\ n = 1 /\ pc = "configure"
    /\ active = [of |-> 0, host |-> ""]
    /\ resolver = 0
    /\ hooks = [c \in DOMAIN plan |-> <<>>]
    /\ local = Nothing
    /\ result = [c \in DOMAIN plan |-> ""]
    /\ built = [c \in DOMAIN plan |-> Nothing]
    /\ page = NoPage

Goto(next) == pc' = next /\ UNCHANGED result
Ends(how) == pc' = "done" /\ result' = [result EXCEPT ![n] = how]

-----------------------------------------------------------------------------
(* New. *)

(* A fault: settings once configured are kept. *)
ActivatedOnce == IF active.of = 0 THEN [of |-> n, host |-> Host(Call)] ELSE active

Activated == [of |-> n, host |-> Host(Call)]

(* conf.Configure: the settings are the process's before they are checked. *)
Configure ==
    /\ pc = "configure"
    /\ active' = Activated
    /\ local' = [Nothing EXCEPT !.settings = active'.of]
    /\ Goto("check")
    /\ UNCHANGED <<plan, n, resolver, hooks, built, page>>

(* Settings.Check. *)
Check ==
    /\ pc = "check"
    /\ IF Call.key THEN Goto("register") ELSE Ends("error")
    /\ UNCHANGED <<plan, n, active, resolver, hooks, local, built, page>>

NamesFit(apps) ==
    /\ \A i \in DOMAIN apps : apps[i].name # ""
    /\ \A i, j \in DOMAIN apps : apps[i].name = apps[j].name => i = j

(* apps.Registry.Register of every app. *)
RegisterApps ==
    /\ pc = "register"
    /\ IF NamesFit(Apps) THEN Goto("ready") ELSE Ends("error")
    /\ UNCHANGED <<plan, n, active, resolver, hooks, local, built, page>>

Hooked(apps) == At(apps, {i \in DOMAIN apps : apps[i].ready # "none"})

(* A fault: a hook that fails is passed over. *)
FailsNever(a) == FALSE

Fails(a) == a.ready = "fails"

(* apps.Registry.Ready: one hook, in the order of registration. *)
Ready ==
    LET ran == Len(hooks[n])
        todo == Hooked(Apps)
    IN  /\ pc = "ready"
        /\ IF ran = Len(todo) THEN Goto("models") /\ UNCHANGED hooks
           ELSE /\ hooks' = [hooks EXCEPT ![n] =
                                Append(@, [app |-> todo[ran + 1].name, saw |-> active.of])]
                /\ IF Fails(todo[ran + 1]) THEN Ends("error") ELSE Goto("ready")
        /\ UNCHANGED <<plan, n, active, resolver, local, built, page>>

(* migrationsApp: the app of the models when there is one such app. *)
MigrationsApp(apps) ==
    LET providers == SelectSeq(apps, LAMBDA a : a.models[1])
    IN  IF Len(providers) = 1 THEN providers[1].name ELSE "app"

Declared(apps) == FlattenSeq([i \in DOMAIN apps |-> apps[i].models[2]])

Admit(s, m) == IF s.err THEN s ELSE Register(s.reg, m)

Admits == INSTANCE LeftFold WITH Step <- Admit

(* The models of every app, registered in order, resolved and frozen. *)
Models ==
    LET all == Admits!Fold([err |-> FALSE, reg |-> EmptyRegistry], Declared(Apps))
        resolved == IF all.err THEN all ELSE Resolve(all.reg)
    IN  /\ pc = "models"
        /\ IF resolved.err THEN Ends("error") /\ UNCHANGED local
           ELSE /\ Goto("open")
                /\ local' = [local EXCEPT !.models = Freeze(resolved.reg),
                                          !.migrationsApp = MigrationsApp(Apps)]
        /\ UNCHANGED <<plan, n, active, resolver, hooks, built, page>>

(* The database, when a DSN is set: a driver other than sqlite is refused. *)
Open ==
    /\ pc = "open"
    /\ IF Call.db \in {"none", "sqlite"}
       THEN Goto("handler") /\ local' = [local EXCEPT !.db = Call.db = "sqlite"]
       ELSE Ends("error") /\ UNCHANGED local
    /\ UNCHANGED <<plan, n, active, resolver, hooks, built, page>>

(* RegisterAdmin of every app; admin.Register panics for an unknown model. *)
AdminPanics == \E i \in DOMAIN Apps : ~(ToSet(Apps[i].admin[2]) \subseteq Types(local.models))

HasAdmin == local.db /\ \E i \in DOMAIN Apps : Apps[i].admin[1]

Routes == FlattenSeq([i \in DOMAIN Apps |-> Apps[i].routes])
          \o (IF HasAdmin THEN AdminRoutes ELSE <<>>)

(* A fault: the resolver is set before the router's error is looked at. *)
ResolverEarly(outcome) == IF Routes # <<>> THEN n ELSE resolver

(* SetURLResolver, once there is a router. *)
ResolverAfter(outcome) == IF Routes # <<>> /\ outcome = "ok" THEN n ELSE resolver

(* buildHandler and the rest of New. *)
Handler ==
    LET outcome == IF HasAdmin /\ AdminPanics THEN "panic"
                   ELSE RouterOutcome(Routes, Requests)
    IN  /\ pc = "handler"
        /\ resolver' = ResolverAfter(outcome)
        /\ built' = IF outcome = "ok" THEN [built EXCEPT ![n] = [local EXCEPT !.routes = Routes]]
                    ELSE built
        /\ Ends(outcome)
        /\ UNCHANGED <<plan, n, active, hooks, local, page>>

(* The process calls New again. *)
NextCall ==
    /\ pc = "done" /\ n < Len(plan) /\ result[n] # "panic"
    /\ n' = n + 1 /\ pc' = "configure" /\ local' = Nothing
    /\ UNCHANGED <<plan, active, resolver, hooks, result, built, page>>

-----------------------------------------------------------------------------
(* Pages. *)

(* A fault: {% url %} asks the process before the engine. *)
ResolverFromProcess(c, own) == IF resolver # 0 THEN resolver ELSE c

(* resolverFrom: the engine's resolver when it has one. *)
ResolverFrom(c, own) == IF own THEN c ELSE resolver

(* A page of an application, by an engine with or without a resolver. *)
Render ==
    \E c \in DOMAIN plan : \E own \in BOOLEAN :
        /\ result[c] = "ok" /\ built[c].routes # <<>>
        /\ page' = [of |-> c, own |-> own, link |-> ResolverFrom(c, own)]
        /\ UNCHANGED <<plan, n, pc, active, resolver, hooks, local, result, built>>

Next == Configure \/ Check \/ RegisterApps \/ Ready \/ Models \/ Open \/ Handler
        \/ NextCall \/ Render

Spec == Init /\ [][Next]_vars

-----------------------------------------------------------------------------
(* Properties. *)

(***************************************************************************)
(* The "frozen registry built from app models" (application.go:34) of an   *)
(* application that New returned is consistent and closed.                 *)
(***************************************************************************)
FrozenConsistent ==
    \A c \in DOMAIN plan : result[c] = "ok" => Consistent(built[c].models)

(***************************************************************************)
(* New returns an application if and only if the settings, the apps and    *)
(* the declarations are valid as a whole, and "an error for invalid        *)
(* settings or a failing app Ready hook" (application.go:41); it panics    *)
(* only for routes that ServeMux refuses or that conflict and for a model  *)
(* of the admin that no app declares.                                      *)
(***************************************************************************)
DeclarationsFit(models) ==
    /\ \A m \in ToSet(models) : WellDeclared(m)
    /\ \A i, j \in DOMAIN models : models[i].name = models[j].name => i = j
    /\ \A m \in ToSet(models) : \A d \in ToSet(m.fields) :
           d.type = "fk" => d.to \in {x.type : x \in ToSet(models)}

AllRoutes(c) ==
    FlattenSeq([i \in DOMAIN c.apps |-> c.apps[i].routes])
    \o (IF c.db = "sqlite" /\ \E a \in ToSet(c.apps) : a.admin[1] THEN AdminRoutes ELSE <<>>)

(* What ServeMux refuses. *)
Rejects(routes, requests) ==
    \/ \E i \in DOMAIN routes : Malformed(routes[i].path)
    \/ \E i, j \in DOMAIN routes : i # j /\ Conflict(routes[i], routes[j], requests)

Panics(c) ==
    \/ c.db = "sqlite" /\ \E a \in ToSet(c.apps) :
           ~(ToSet(a.admin[2]) \subseteq {m.type : m \in ToSet(Declared(c.apps))})
    \/ Rejects(AllRoutes(c), Requests)

NamesOnce(routes) == \A i, j \in DOMAIN routes :
    routes[i].name # <<>> /\ routes[i].name = routes[j].name => i = j

Valid(c) ==
    /\ c.key /\ NamesFit(c.apps)
    /\ \A a \in ToSet(c.apps) : a.ready # "fails"
    /\ DeclarationsFit(Declared(c.apps))
    /\ c.db \in {"none", "sqlite"}
    /\ NamesOnce(AllRoutes(c)) /\ ~Panics(c)

ReturnsIfValid ==
    \A c \in DOMAIN plan :
        /\ result[c] # "" => (result[c] = "ok" <=> Valid(plan[c]))
        /\ result[c] = "panic" => Panics(plan[c])

(***************************************************************************)
(* Ready is "run after all apps are registered" (apps/config.go:11), in    *)
(* the order of registration and once per call of New, with the settings   *)
(* of that call active; an application that New returned has had all of    *)
(* its hooks.                                                              *)
(***************************************************************************)
HooksOrdered ==
    \A c \in DOMAIN plan :
        LET todo == Hooked(plan[c].apps)
        IN  /\ Len(hooks[c]) <= Len(todo)
            /\ \A i \in DOMAIN hooks[c] : hooks[c][i] = [app |-> todo[i].name, saw |-> c]
            /\ hooks[c] # <<>> => plan[c].key /\ NamesFit(plan[c].apps)
            /\ \A i \in DOMAIN hooks[c] : i < Len(hooks[c]) => todo[i].ready = "ok"
            /\ result[c] = "ok" => /\ Len(hooks[c]) = Len(todo)
                                   /\ \A i \in DOMAIN todo : todo[i].ready = "ok"
                                   /\ built[c].settings = c

(***************************************************************************)
(* An engine with a resolver of its own links to its own application, "so  *)
(* this engine's {% url %} tags reverse against the given route table      *)
(* rather than the process-global resolver" (templates/engine.go:21); any  *)
(* other links to the latest application returned that has routes ("wired  *)
(* by the app at boot", templates/tags.go:37): a call of New that fails,   *)
(* or has no routes, leaves the links of the pages before it alone.        *)
(***************************************************************************)
Routed == {c \in DOMAIN plan : result[c] = "ok" /\ built[c].routes # <<>>}

LinksOwn ==
    [][page' # page =>
          IF page'.own THEN page'.link = page'.of
          ELSE page'.link \in Routed /\ \A c \in Routed : c <= page'.link]_vars

(***************************************************************************)
(* The URL that Reverse makes for a named route, with arguments of the     *)
(* kind its placeholders take, is served by that route or by a more        *)
(* specific one, whatever namespaces the route went through.               *)
(***************************************************************************)
Arguments(route) ==
    LET holes == Holes(route.path)
    IN  {args \in [1 .. Cardinality(holes) -> {<<"7">>, <<"add">>, <<"7", "add">>}] :
            \A h \in holes : route.path[h] = "{p}" => Len(args[Nth(route.path, h)]) = 1}

MethodFor(route) == IF route.method = Blank THEN "GET" ELSE route.method

ReverseReaches ==
    \A c \in DOMAIN plan : result[c] = "ok" =>
        LET routes == built[c].routes
        IN  \A i \in DOMAIN routes : \A args \in Arguments(routes[i]) :
                routes[i].name # <<>> =>
                    LET got == ReverseURL(routes, routes[i].name, args)
                        method == MethodFor(routes[i])
                        servers == {j \in DOMAIN routes :
                                        Serves(routes, Requests, j, method, got.url)}
                    IN  /\ ~got.err
                        /\ Matches(routes[i], method, got.url)
                        /\ <<method, got.url>> \in Requests => \E j \in servers :
                               Taken(routes[j], Requests) \subseteq Taken(routes[i], Requests)
=============================================================================
