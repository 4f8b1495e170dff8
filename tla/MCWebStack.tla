------------------------------ MODULE MCWebStack ------------------------------
(* Values for model checking WebStack. *)
EXTENDS WebStack, TLC

MCAccounts == "ann" :> Account(TRUE, TRUE, FALSE, "pw")

Url(scheme) == [scheme |-> scheme, host |-> "site"]
Header(tls, origin, referer) == [tls |-> tls, origin |-> origin, referer |-> referer]
MCHeaders == {Header(FALSE, None, Url("http")), Header(TRUE, Url("https"), None),
              Header(TRUE, None, Url("https"))}

Setting(kinds, slots, requests, f, create) ==
    [kinds |-> kinds, slots |-> slots, requests |-> requests, faults |-> f,
     create |-> create]

\* One request after the other; two at a time; a permission that is checked
\* while the grants change; accounts that are created at once.
MCSettings ==
    {Setting({"page", "set", "late", "login", "logout", "admin"}, {"r1"}, 6, 1, {}),
     Setting({"page", "set", "login", "logout"}, {"r1", "r2"}, 4, 0, {}),
     Setting({"page", "set"}, {"r1", "r2"}, 3, 1, {}),
     Setting({"page", "login", "guarded"}, {"r1"}, 3, 0, {}),
     Setting({}, {}, 0, 0, {"c1", "c2"})}
=============================================================================
