-------------------------------- MODULE Urls --------------------------------
(***************************************************************************)
(* urls/route.go and urls/router.go.  A path is its sequence of segments,  *)
(* so that "/posts/" is <<"posts", "">>; "{p}" is a placeholder, "{p...}"  *)
(* one for the rest of the path and "{$}" the anchor of its end.  A route  *)
(* is [method, path, name], the method "" for any, the name a sequence of  *)
(* namespaces and a name, <<>> when there is none.                         *)
(***************************************************************************)
EXTENDS Naturals, Sequences, FiniteSets, SequencesExt

Blank == ""

Placeholder == {"{p}", "{p...}"}

(* Include: the prefix before every path, the namespace before every name. *)
Include(prefix, namespace, routes) ==
    [i \in DOMAIN routes |->
        [routes[i] EXCEPT
            !.path = prefix \o @,
            !.name = IF @ # <<>> /\ namespace # "" THEN <<namespace>> \o @ ELSE @]]

(***************************************************************************)
(* net/http.ServeMux, external: the requests <<method, path>> a pattern    *)
(* takes, of those given.  A last "" takes every path below it.            *)
(***************************************************************************)
Matches(route, method, url) ==
    LET p == route.path
        n == Len(p)
        rest == p[n] \in {Blank, "{p...}"}
        seg(i) == IF p[i] = "{p}" THEN url[i] # Blank ELSE p[i] = url[i]
    IN  /\ route.method \in {Blank, method}
        /\ IF rest THEN Len(url) >= n ELSE Len(url) = n
        /\ \A i \in 1 .. n - 1 : seg(i)
        /\ rest \/ (IF p[n] = "{$}" THEN url[n] = Blank ELSE seg(n))

Taken(route, requests) == {r \in requests : Matches(route, r[1], r[2])}

(* Two patterns of which neither is the more specific: Handle panics. *)
Conflict(r, s, requests) ==
    LET a == Taken(r, requests)
        b == Taken(s, requests)
    IN  /\ a \cap b # {}
        /\ a = b \/ ~(a \subseteq b \/ b \subseteq a)

(* Handle panics, too, for a path that goes on after its end, or is none. *)
Malformed(path) ==
    path = <<>> \/ \E i \in 1 .. Len(path) - 1 : path[i] \in {"{$}", "{p...}"}

(* NewRouterChecked: "panic" when Handle does, for a path or for a pattern *)
(* that conflicts with an earlier one, "error" for a name used twice,      *)
(* whichever comes first.                                                  *)
RouterOutcome(routes, requests) ==
    LET conflicts == {j \in DOMAIN routes :
                          \/ Malformed(routes[j].path)
                          \/ \E i \in 1 .. j - 1 : Conflict(routes[i], routes[j], requests)}
        repeats == {j \in DOMAIN routes : routes[j].name # <<>> /\ \E i \in 1 .. j - 1 :
                        routes[i].name = routes[j].name}
        first == {j \in conflicts \cup repeats :
                      \A k \in conflicts \cup repeats : j <= k}
    IN  IF first = {} THEN "ok"
        ELSE IF first \subseteq conflicts THEN "panic" ELSE "error"

(* A fault: the anchor stays in the URL. *)
PathAsWritten(route) == route.path

(* The path without its anchor. *)
PathOf(route) ==
    [i \in DOMAIN route.path |-> IF route.path[i] = "{$}" THEN Blank ELSE route.path[i]]

Known(routes, name) == \E i \in DOMAIN routes : routes[i].name = name

(* Where the placeholders of a path are, and which of them is at h. *)
Holes(path) == {i \in DOMAIN path : path[i] \in Placeholder}
Nth(path, h) == Cardinality({g \in Holes(path) : g <= h})

(***************************************************************************)
(* Reverse: the arguments, each a sequence of segments, in the place of    *)
(* the placeholders in order, or an error for an unknown name or another   *)
(* number of arguments.                                                    *)
(***************************************************************************)
Parts(path, args) ==
    [i \in DOMAIN path |-> IF i \in Holes(path) THEN args[Nth(path, i)] ELSE <<path[i]>>]

ReverseURL(routes, name, args) ==
    IF ~Known(routes, name) THEN [err |-> TRUE, url |-> <<>>]
    ELSE LET path == PathOf(routes[CHOOSE i \in DOMAIN routes : routes[i].name = name])
         IN  IF Cardinality(Holes(path)) # Len(args) THEN [err |-> TRUE, url |-> <<>>]
             ELSE [err |-> FALSE, url |-> FlattenSeq(Parts(path, args))]

(* The route a request goes to: the most specific of those that take it. *)
Serves(routes, requests, i, method, url) ==
    /\ Matches(routes[i], method, url)
    /\ \A j \in DOMAIN routes \ {i} :
           Matches(routes[j], method, url) =>
               Taken(routes[i], requests) \subseteq Taken(routes[j], requests)
=============================================================================
