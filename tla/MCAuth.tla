------------------------------- MODULE MCAuth -------------------------------
(* The account, two deployments (one advertises two issuers), and a host under
   one of theirs; two processes of at most three calls each.                   *)
EXTENDS Auth, TLC
D(n, b, h, i) == [name |-> n, default |-> b, hosts |-> {h}, issuer |-> i]
A == D("a", TRUE, "ha", "ia")
B(b) == D("b", b, "hb", "ib")
MCUnder == {<<"xa", "ha">>}
MCDiscovered == [h \in {"ha", "hb"} |->
  IF h = "ha" THEN [hosts |-> {"ha"}, issuers |-> {"ia"}] ELSE [hosts |-> {}, issuers |-> {"ib", "idp"}]]
Login(n, k) == [op |-> "login", name |-> n, kind |-> k, profile |-> ""]
LogOut(n) == [op |-> "logout", name |-> n]
All_ == [op |-> "logoutAll"]
Conf(h, n, d, l) == [op |-> "configure", host |-> h, name |-> n, makeDefault |-> d, issuer |-> "", login |-> l]
Use(n) == [op |-> "use", name |-> n]
Forget(n) == [op |-> "remove", name |-> n]
Token(n) == [op |-> "token", profile |-> n, required |-> FALSE]
Get(h) == [op |-> "get", host |-> h]
S(a, b) == "p" :> a @@ "q" :> b
Faulty == {"none", "crash", "disk", "service", "idp"}
W(calls, user, repos, backends, tokens, rotating, faults) ==
  [calls : {calls}, user : {user}, repo : repos, backend : backends, apiToken : tokens,
   rotates : rotating, fault : faults]
Both == {"keyring", "file"}
MCWorlds == UNION {
  \* the account: one callback port, no refresh tokens
  W(S(<<Login("", "browser"), Token("default")>>, <<Login("", "browser"), LogOut("")>>),
    <<>>, {<<>>}, Both, {FALSE}, {FALSE}, Faulty),
  \* a deployment's session, refreshed by two helpers and a task
  W(S(<<Login("a", "browser"), Get("xa")>>, <<Get("ha"), Token("a")>>),
    <<A>>, {<<>>}, Both, {FALSE}, BOOLEAN, Faulty),
  \* the API token while the default moves
  W(S(<<Conf("ha", "a", FALSE, FALSE), Token("default"), Token("default")>>, <<Use("a")>>),
    <<>>, {<<>>, <<B(TRUE)>>}, {"keyring"}, {TRUE}, {FALSE}, Faulty \ {"service"}),
  W(S(<<Token("default"), Use("aspect"), Token("default")>>, <<LogOut("a")>>),
    <<A>>, {<<>>}, {"keyring"}, {TRUE}, {FALSE}, {"none", "crash", "service"}),
  \* configure with its login, and remove
  W(S(<<Conf("hb", "b", TRUE, TRUE), Get("hb"), Forget("b")>>, <<Login("a", "api")>>),
    <<A>>, {<<>>}, Both, {FALSE}, {TRUE}, Faulty),
  \* writers of the two files
  W(S(<<Conf("hb", "b", FALSE, FALSE), LogOut("b"), Use("aspect")>>, <<Conf("ha", "a", TRUE, FALSE), LogOut("a")>>),
    <<>>, {<<>>, <<B(FALSE)>>}, {"keyring"}, {FALSE}, {FALSE}, {"none", "crash", "disk"}),
  W(S(<<Login("a", "token"), Token("a"), Forget("a")>>, <<All_, Get("hb")>>),
    <<A>>, {<<>>, <<B(TRUE)>>}, Both, {FALSE}, {FALSE}, Faulty),
  W(S(<<Login("a", "token"), All_>>, <<Login("b", "token"), Get("ha")>>),
    <<A, B(FALSE)>>, {<<>>}, Both, {FALSE}, {FALSE}, {"none", "crash"})}
=============================================================================
