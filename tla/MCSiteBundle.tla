----------------------------- MODULE MCSiteBundle -----------------------------
(***************************************************************************)
(* Checkouts: shells that set the variables or leave them to the .env      *)
(* files, .env files that say nothing, the same or different things, and   *)
(* the forms of homepage, tsconfig.json, jsconfig.json and baseUrl.        *)
(***************************************************************************)
EXTENDS SiteBundle

Says(mode, url, list, maps, x) ==
  [NODE_ENV |-> mode, PUBLIC_URL |-> url, NODE_PATH |-> list, GENERATE_SOURCEMAP |-> maps,
   INLINE_RUNTIME_CHUNK |-> maps, REACT_APP_X |-> x]

Silent == Says(Unset, Unset, Unset, Unset, Unset)

List == <<[name |-> "/lib", kind |-> "absolute"], [name |-> "shared", kind |-> "relative"]>>

Shells ==
  {Says(mode, url, list, maps, maps) :
     mode \in {"production", "test", Unset}, url \in {Unset, Url("", FALSE), Url("/app", TRUE)},
     list \in {Unset, List}, maps \in {Unset, "false"}}

Dotenvs ==
  {[f \in DotenvFile |-> Silent],
   [f \in DotenvFile |-> Says("development", Url("/" \o f, FALSE), Unset, Unset, f)],
   [f \in DotenvFile |->
      IF f = "local" THEN Says(Unset, Unset, List, "false", f)
      ELSE IF f = "plain" THEN Says(Unset, Url("/plain", FALSE), Unset, "true", f) ELSE Silent]}

Page == Url("/policy-management-api", FALSE)

Checkout(tsconfig, jsconfig, baseUrl, homepage, index) ==
  [tsconfig |-> tsconfig, jsconfig |-> jsconfig, baseUrl |-> baseUrl,
   homepage |-> homepage, index |-> index]

Checkouts ==
  {Checkout(TRUE, FALSE, Unset, Page, {"tsx"}), Checkout(TRUE, FALSE, Unset, Unset, {"tsx"}),
   Checkout(TRUE, FALSE, "src", Url(".", FALSE), {"tsx", "js"}),
   Checkout(FALSE, TRUE, ".", Page, {"js"}), Checkout(FALSE, FALSE, Unset, Page, {}),
   Checkout(TRUE, FALSE, "lib", Page, {"tsx"}), Checkout(TRUE, TRUE, "src", Page, {"tsx"})}

ProjectsDef ==
  {[shell |-> s, dotenv |-> d, homepage |-> c.homepage, tsconfig |-> c.tsconfig,
    jsconfig |-> c.jsconfig, baseUrl |-> c.baseUrl, index |-> c.index] :
     s \in Shells, d \in Dotenvs, c \in Checkouts}

=============================================================================
