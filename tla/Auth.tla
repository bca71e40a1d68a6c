-------------------------------- MODULE Auth --------------------------------
(***************************************************************************)
(* ctx.aspect.auth and the tasks of auth.axl over it, and the Bazel        *)
(* credential helper (`aspect get`): login, logout, configure, use,        *)
(* remove, credentials().  Each of Procs is a process of the CLI that      *)
(* makes some calls one after the other.  A call is cut wherever it leaves *)
(* the process: reading or writing one of the two files, which it reads    *)
(* and writes whole, and asking a server or the browser.                   *)
(*                                                                         *)
(* Authorization servers number the bearers and refresh tokens of a        *)
(* session; one that rotates accepts only the newest refresh token.        *)
(***************************************************************************)
EXTENDS Deployments, FiniteSets

CONSTANTS
  Procs,
  Worlds,     \* what a run starts from: the files, the environment, the processes' calls
  Discovered, \* per host that is a deployment, what its discovery document names
  MaxSessions,  \* logins that an authorization server answers
  MaxTokens     \* bearers minted in one session

VARIABLES
  backend,   \* where the credentials are: "keyring" or "file"
  store,     \* [map |-> profiles to entries, torn |-> does not parse]
  fault,     \* what may go wrong in this run: "none", "crash", "disk", "service" or "idp"
  apiToken,  \* ASPECT_API_TOKEN is set
  rotates,   \* the authorization servers rotate refresh tokens
  repo,      \* .aspect/config.json
  config,    \* ~/.aspect/config.json: [list |-> ..., torn |-> ...]
  todo,      \* per process: its calls, the current one first
  at,        \* where it is in it
  mem,       \* what the call holds
  cache,     \* API_TOKEN_CACHE: [issuer |-> ..., entry |-> ...]
  port,      \* who listens on the fixed callback port
  sessions,  \* the sessions the servers opened
  newest,    \* per session: its newest bearer, and refresh token if it rotates
  expired,   \* bearers past their expiry, <<session, token>>
  answer,    \* per process: what the last call handed out
  intended,  \* history: the map as if every save were atomic
  overlap,   \* history: two calls held a copy of the map at the same time
  cut,       \* history: a save was cut off, or a refresh ended without one
  respent    \* history: a rotated refresh token was presented again

envVars == <<fault, apiToken, rotates, repo, backend>>
idpVars == <<sessions, newest>>
procVars == <<todo, at, mem, answer>>
histVars == <<intended, cut, respent>>
vars == <<envVars, store, config, idpVars, expired, procVars, cache, port, histVars, overlap>>

-----------------------------------------------------------------------------
(* What a run starts from.                                                 *)
Faults == {"none", "crash", "disk", "service", "idp"}

\* The calls, with the arguments their tasks and the helper give them.
Calls ==
  [op : {"login"}, name : Names \cup {""}, kind : {"browser", "api", "token"},
   profile : Profiles \cup {""}]
  \cup [op : {"logout"}, name : Names \cup {""}] \cup [op : {"logoutAll"}]
  \cup [op : {"configure"}, host : Hosts, name : Names, makeDefault : BOOLEAN,
        issuer : Issuers \cup {""}, login : BOOLEAN]
  \cup [op : {"use", "remove"}, name : Names]
  \cup [op : {"token"}, profile : Profiles, required : BOOLEAN] \cup [op : {"get"}, host : Hosts]

World == [fault : Faults, apiToken : BOOLEAN, rotates : BOOLEAN, backend : {"keyring", "file"},
          repo : Seq(Deployment), user : Seq(Deployment), calls : [Procs -> Seq(Calls)]]

NamedOnce(list) == \A i, j \in DOMAIN list : list[i].name = list[j].name => i = j
OneDefaultIn(list) == \A i, j \in Defaults(list) : i = j

NoProc == "nobody"

ASSUME AuthAssumption ==
  /\ IsFiniteSet(Procs) /\ NoProc \notin Procs
  /\ MaxSessions \in Nat /\ MaxTokens \in Nat \ {0}
  /\ \A h \in DOMAIN Discovered :
       Discovered[h].issuers \subseteq Issuers /\ Discovered[h].hosts \subseteq Hosts
  /\ \A w \in Worlds :
       w \in World /\ NamedOnce(w.repo) /\ NamedOnce(w.user) /\ OneDefaultIn(w.user)

-----------------------------------------------------------------------------
(* The stored credentials: one map of profiles, read and written whole.    *)
(* The keyring replaces it at once; the file is truncated and then         *)
(* written, and what stands in it between the two does not parse.          *)
\* CredentialsEntry: a bearer is the token-th of its session; refresh is the
\* number of its refresh token, 0 for none; id tells an id_token.
Entry == [session : 0..MaxSessions, token : 0..MaxTokens, refresh : 0..MaxTokens,
          prefer : BOOLEAN, id : BOOLEAN]
NoEntry == [session |-> 0, token |-> 0, refresh |-> 0, prefer |-> FALSE, id |-> FALSE]

Empty == [n \in Profiles |-> NoEntry]

StoreTypeOK ==
  /\ backend \in {"keyring", "file"}
  /\ store \in [map : [Profiles -> Entry], torn : BOOLEAN]
  /\ backend = "keyring" => ~store.torn

LoadedAfresh == Empty  \* mutant: a save of the new entry alone
\* load_all(): what cannot be parsed is no credentials.
Loaded == IF store.torn THEN Empty ELSE store.map

\* set_password() or delete_credential().
Replace(map) == backend = "keyring" /\ store' = [map |-> map, torn |-> FALSE]

TruncateAny == store' = [store EXCEPT !.torn = TRUE]  \* mutant: a keyring entry cleared before it is set
\* fs::write(): it opens with truncation,
Truncate == backend = "file" /\ store' = [store EXCEPT !.torn = TRUE]

\* and writes.  Over what another process wrote since the truncation, the longer
\* of the two contents shows.
WriteInPlace(map) ==  \* mutant: opened without truncation
  store' = [map |-> map, torn |-> FALSE] \/ store' = [store EXCEPT !.torn = TRUE]
WriteOut(map) ==
  \/ store' = [map |-> map, torn |-> FALSE]
  \/ ~store.torn /\ store' = [store EXCEPT !.torn = TRUE]

-----------------------------------------------------------------------------
(* A call and what it holds.                                                *)
NoAnswer == [is |-> "none", session |-> 0, profile |-> "", host |-> ""]
\* What a call holds: the selected deployment, the profile, the entry it stores
\* there, the map and the list it will write.
Fresh == [sel |-> SeedDeployment, profile |-> "", entry |-> NoEntry, map |-> Empty, list |-> <<>>]
NoCache == [issuer |-> NoIssuer, entry |-> NoEntry]

Call(p) == Head(todo[p])
Op(p) == Call(p).op

\* Where a call starts.  credentials() of the default profile looks for an API
\* token first; logout --all has nothing to look up.
StartOf(calls, token) ==
  IF calls = <<>> THEN "ended"
  ELSE LET c == Head(calls) IN
    CASE c.op \in {"login", "logout"} -> "select"
      [] c.op = "logoutAll" -> "clear"
      [] c.op = "configure" -> "probe"
      [] c.op \in {"use", "remove"} -> "confLoad"
      [] c.op = "get" -> "owner"
      [] c.op = "token" -> IF token /\ c.profile = DefaultProfile THEN "apiEnv" ELSE "credLoad"
Start(calls, token) ==
  IF calls # <<>> /\ Head(calls).op = "token"
  THEN [Fresh EXCEPT !.profile = Head(calls).profile] ELSE Fresh

Init ==
  /\ \E w \in Worlds :
       /\ fault = w.fault /\ apiToken = w.apiToken /\ rotates = w.rotates /\ backend = w.backend
       /\ repo = w.repo /\ config = [list |-> w.user, torn |-> FALSE]
       /\ todo = w.calls
  /\ store = [map |-> Empty, torn |-> FALSE]
  /\ at = [p \in Procs |-> StartOf(todo[p], apiToken)]
  /\ mem = [p \in Procs |-> Start(todo[p], apiToken)]
  /\ cache = [p \in Procs |-> NoCache]
  /\ port = NoProc /\ answer = [p \in Procs |-> NoAnswer]
  /\ sessions = <<>> /\ newest = <<>> /\ expired = {}
  /\ intended = Empty /\ overlap = FALSE /\ cut = FALSE /\ respent = FALSE

-----------------------------------------------------------------------------
(* How a call goes on.                                                     *)
GoTo(p, label, m) ==
  /\ at' = [at EXCEPT ![p] = label] /\ mem' = [mem EXCEPT ![p] = m]
  /\ UNCHANGED <<todo, answer>>
Ends(p, a) ==
  /\ todo' = [todo EXCEPT ![p] = Tail(@)]
  /\ at' = [at EXCEPT ![p] = StartOf(Tail(todo[p]), apiToken)]
  /\ mem' = [mem EXCEPT ![p] = Start(Tail(todo[p]), apiToken)]
  /\ answer' = [answer EXCEPT ![p] = a]
Fails(p) == Ends(p, [NoAnswer EXCEPT !.is = "error"])
Done(p) == Ends(p, [NoAnswer EXCEPT !.is = "ok"])
HandOut(p, e) ==
  Ends(p, [is |-> "token", session |-> e.session, profile |-> mem[p].profile,
           host |-> IF Op(p) = "get" THEN Call(p).host ELSE ""])

\* load_deployments(): the user's file must parse.
All == Effective(repo, config.list)

IsExpired(e) == <<e.session, e.token>> \in expired
CanRefresh(e) == e.refresh # 0
\* classify_token()
Classify(e) == IF ~IsExpired(e) THEN "use" ELSE IF CanRefresh(e) THEN "refresh" ELSE "expired"

\* TokenResponse::bearer(): what a response with or without an id_token gives.
BearerDowngraded(prefer, hasId) == IF prefer /\ hasId THEN "id" ELSE "access"  \* mutant
Bearer(prefer, hasId) == IF ~prefer THEN "access" ELSE IF hasId THEN "id" ELSE "none"

MergedKept(prior, fresh) == prior  \* mutant: the rotated token is not taken
Merged(prior, fresh) == IF fresh = 0 THEN prior ELSE fresh

\* What an authorization server opens, and the entry of its first bearer.
NewSession(d, endpoint) ==
  /\ Len(sessions) < MaxSessions
  /\ sessions' = Append(sessions, [name |-> d.name, hosts |-> d.hosts, issuer |-> d.issuer,
                                   endpoint |-> endpoint])
  /\ newest' = Append(newest, 1)
FirstEntry(endpoint) ==
  [session |-> Len(sessions) + 1, token |-> 1, refresh |-> IF endpoint THEN 1 ELSE 0,
   prefer |-> endpoint, id |-> endpoint]

-----------------------------------------------------------------------------
(* login, and the interactive login that ends a configure.                 *)

WaitsForBrowser(p) == at[p] = "asked" /\ (Op(p) = "login" => Call(p).kind = "browser")
\* The requests of auth.rs have no timeout: one that is sent may never be answered.
WaitsForServer(p) ==
  \/ at[p] \in {"probe", "apiExchange", "refresh"}
  \/ at[p] = "asked" /\ Op(p) = "login" /\ Call(p).kind = "api"
NameOf(p) == IF Op(p) \in {"login", "logout", "configure"} THEN Call(p).name ELSE ""
\* auth_env_from(): no login at a deployment that advertised none.
CannotLogIn(d) == d.issuer = NoIssuer

\* build_cloud_session()
BindPatiently(p, d) ==  \* mutant: wait for the port
  port = NoProc /\ port' = p /\ GoTo(p, "asked", [mem[p] EXCEPT !.sel = d])
Bind(p, d) ==
  \/ port = NoProc /\ port' = p /\ GoTo(p, "asked", [mem[p] EXCEPT !.sel = d])
  \/ port # NoProc /\ Fails(p) /\ UNCHANGED port

\* login(): an unreadable file, an unknown name and a deployment without login
\* config are errors.  The account's browser login listens on the one port its
\* server redirects to; an endpoint's on a port of its own.
Select(p) ==
  /\ at[p] = "select" /\ Op(p) \in {"login", "configure"}
  /\ LET chosen == IF config.torn THEN {} ELSE SelectedAccount(All, NameOf(p))
         browser == Op(p) = "login" => Call(p).kind = "browser"
     IN IF chosen = {} \/ (\E d \in chosen : CannotLogIn(d))
        THEN Fails(p) /\ UNCHANGED port
        ELSE \E d \in chosen :
          IF browser /\ d.hosts = {} THEN Bind(p, d)
          ELSE GoTo(p, "asked", [mem[p] EXCEPT !.sel = d]) /\ UNCHANGED port
  /\ UNCHANGED <<store, config, idpVars, expired, cache, histVars>>

\* The callback and the exchange of its code, the exchange of an API token, or a
\* token from stdin.  A login that named no profile asks login_profile() next.
Freed(p) == port' = IF port = p THEN NoProc ELSE port
CodeExchange(p, endpoint) ==
  /\ NewSession(mem[p].sel, endpoint)
  /\ UNCHANGED <<store, config, expired, cache, histVars>>
Answered(p) ==
  /\ at[p] = "asked"
  /\ LET endpoint == WaitsForBrowser(p) /\ mem[p].sel.hosts # {}
         pinned == IF Op(p) = "configure" THEN Call(p).name ELSE Call(p).profile
     IN /\ CodeExchange(p, endpoint)
        /\ GoTo(p, IF pinned = "" THEN "profile" ELSE "credLoad",
                [mem[p] EXCEPT !.entry = FirstEntry(endpoint), !.profile = pinned])
  /\ Freed(p)
Refused(p) ==
  /\ at[p] = "asked" /\ (fault = "idp" \/ Len(sessions) = MaxSessions)
  /\ Fails(p) /\ Freed(p)
  /\ UNCHANGED <<store, config, idpVars, expired, cache, histVars>>

\* login_profile(): it reads the deployments once more.
Profile(p) ==
  /\ at[p] = "profile"
  /\ LET chosen == IF config.torn THEN {} ELSE SelectedAccount(All, NameOf(p))
     IN IF chosen = {} THEN Fails(p)
        ELSE \E d \in chosen : GoTo(p, "credLoad", [mem[p] EXCEPT !.profile = LoginProfile(d)])
  /\ UNCHANGED <<store, config, idpVars, expired, cache, port, histVars>>

-----------------------------------------------------------------------------
(* The rest of the commands up to where they read or write a file.         *)

\* logout() of one deployment.
SelectLogout(p) ==
  /\ at[p] = "select" /\ Op(p) = "logout"
  /\ LET chosen == IF config.torn THEN {} ELSE SelectedAccount(All, NameOf(p))
     IN IF chosen = {} THEN Fails(p)
        ELSE \E d \in chosen :
          GoTo(p, "credLoad", [mem[p] EXCEPT !.sel = d, !.profile = LoginProfile(d)])
  /\ UNCHANGED <<store, config, idpVars, expired, cache, port, histVars>>

\* probe_protected_resource(): a host is a deployment if it serves a discovery
\* document; auth_servers(): the issuers it advertises there.
IsDeployment(host) == host \in DOMAIN Discovered
Offered(host) == IF IsDeployment(host) THEN Discovered[host].issuers ELSE {}
\* resolve_auth_server(): the one asked for, if it is advertised; the only one;
\* none at all, and the deployment is recorded without login.
Ambiguous(offered, asked) == asked = "" /\ Cardinality(offered) > 1
Choices(offered, asked) ==
  IF asked # "" THEN {asked} \cap offered
  ELSE IF offered = {} THEN {NoIssuer} ELSE offered
\* deployment_from_discovery()
Recorded(call, i) ==
  [name |-> call.name, default |-> call.makeDefault,
   hosts |-> Discovered[call.host].hosts \cup {call.host}, issuer |-> i]
\* configure(); of several servers the task asks, and probes again.
Probe(p) ==
  /\ at[p] = "probe"
  /\ LET host == Call(p).host  asked == Call(p).issuer  offered == Offered(host)
     IN \/ fault = "idp" /\ Fails(p)
        \/ /\ ~IsDeployment(host) \/ Ambiguous(offered, asked) \/ Choices(offered, asked) = {}
           /\ Fails(p)
        \/ /\ IsDeployment(host) /\ Ambiguous(offered, asked)
           /\ \E i \in offered : todo' = [todo EXCEPT ![p][1].issuer = i]
           /\ UNCHANGED <<at, mem, answer>>
        \/ /\ IsDeployment(host) /\ ~Ambiguous(offered, asked)
           /\ \E i \in Choices(offered, asked) :
                GoTo(p, "confLoad", [mem[p] EXCEPT !.sel = Recorded(Call(p), i)])
  /\ UNCHANGED <<store, config, idpVars, expired, cache, port, histVars>>

\* profile_for_uri(): a host nobody owns gets no header.
Owner(p) ==
  /\ at[p] = "owner"
  /\ IF config.torn THEN Fails(p)
     ELSE LET owner == OwnerOf(All, Call(p).host)
          IN IF owner = {} THEN Done(p)
             ELSE \E d \in owner : GoTo(p, "credLoad", [mem[p] EXCEPT !.profile = d.name])
  /\ UNCHANGED <<store, config, idpVars, expired, cache, port, histVars>>

\* credentials_from_api_token_env(): the exchange of this process for the default
\* deployment's issuer is used again until it expires.
CacheServesAny(c, issuer) == c.entry # NoEntry /\ ~IsExpired(c.entry)  \* mutant: not keyed by issuer
CacheServes(c, issuer) == c.entry # NoEntry /\ c.issuer = issuer /\ ~IsExpired(c.entry)
\* resolve_auth_env()
ResolvedEnv(name) == IF config.torn THEN {} ELSE Selected(All, name)
ApiEnv(p) ==
  /\ at[p] = "apiEnv"
  /\ LET chosen == ResolvedEnv("")
     IN IF chosen = {} \/ (\E d \in chosen : CannotLogIn(d)) THEN Fails(p)
        ELSE \E d \in chosen :
          IF CacheServes(cache[p], d.issuer) THEN HandOut(p, cache[p].entry)
          ELSE GoTo(p, "apiExchange", [mem[p] EXCEPT !.sel = d])
  /\ UNCHANGED <<store, config, idpVars, expired, cache, port, histVars>>
ApiExchange(p) ==
  /\ at[p] = "apiExchange"
  /\ \/ /\ NewSession(mem[p].sel, FALSE)
        /\ cache' = [cache EXCEPT ![p] = [issuer |-> mem[p].sel.issuer, entry |-> FirstEntry(FALSE)]]
        /\ HandOut(p, FirstEntry(FALSE))
     \/ (fault = "idp" \/ Len(sessions) = MaxSessions) /\ Fails(p) /\ UNCHANGED <<idpVars, cache>>
  /\ UNCHANGED <<store, config, expired, port, histVars>>

-----------------------------------------------------------------------------
(* The stored credentials.                                                 *)

\* load_all_credentials(), by persist(), logout(), remove(), credentials() and the
\* helper; what is stored is read once and saved whole.
Serves(p, e) ==
  \/ e = NoEntry /\ IF Op(p) = "get" THEN Fails(p) ELSE Done(p)
  \/ /\ e # NoEntry /\ Classify(e) = "use" /\ HandOut(p, e)
  \/ /\ e # NoEntry /\ Classify(e) = "expired"
     /\ IF Op(p) = "get" \/ Call(p).required THEN Fails(p) ELSE Done(p)
  \/ /\ e # NoEntry /\ Classify(e) = "refresh"
     /\ GoTo(p, "refresh", [mem[p] EXCEPT !.entry = e, !.map = Loaded])
CredLoad(p) ==
  /\ at[p] = "credLoad"
  /\ \/ fault = "service" /\ Fails(p)
     \/ /\ Op(p) \in {"token", "get"} /\ Serves(p, Loaded[mem[p].profile])
     \/ /\ Op(p) = "remove" /\ Loaded[mem[p].profile] = NoEntry /\ Done(p)
     \/ /\ \/ Op(p) \in {"login", "configure", "logout"}
           \/ Op(p) = "remove" /\ Loaded[mem[p].profile] # NoEntry
        /\ GoTo(p, "credOpen",
                [mem[p] EXCEPT !.map = [Loaded EXCEPT ![mem[p].profile] = mem[p].entry]])
  /\ UNCHANGED <<store, config, idpVars, expired, cache, port, histVars>>

\* refresh_access_token(): a server that rotates takes only the newest refresh
\* token, and a response may leave out the id_token.
Refresh(p) ==
  /\ at[p] = "refresh"
  /\ LET e == mem[p].entry
         stale == rotates /\ e.refresh # newest[e.session]
         none == IF Op(p) = "get" \/ Call(p).required THEN Fails(p) ELSE Done(p)
     IN \/ /\ stale \/ fault = "idp" \/ newest[e.session] = MaxTokens
           /\ none /\ respent' = (respent \/ stale) /\ UNCHANGED <<idpVars, cut>>
        \/ /\ ~stale /\ newest[e.session] < MaxTokens
           /\ newest' = [newest EXCEPT ![e.session] = @ + 1]
           /\ \E hasId \in IF fault = "idp" THEN BOOLEAN ELSE {TRUE} :
                LET bearer == Bearer(e.prefer, hasId)
                    fresh == [e EXCEPT !.token = newest[e.session] + 1, !.id = bearer = "id",
                      !.refresh = Merged(@, IF rotates THEN newest[e.session] + 1 ELSE 0)]
                IN IF bearer = "none"
                   THEN none /\ cut' = TRUE
                   ELSE /\ GoTo(p, "credOpen", [mem[p] EXCEPT !.entry = fresh,
                              !.map = [@ EXCEPT ![mem[p].profile] = fresh]])
                        /\ UNCHANGED cut
           /\ UNCHANGED <<sessions, respent>>
  /\ UNCHANGED <<store, config, expired, cache, port, intended>>

\* What follows a save.
Saved(p) ==
  /\ intended' = IF Op(p) = "logoutAll" THEN Empty
                 ELSE [intended EXCEPT ![mem[p].profile] = mem[p].entry]
  /\ IF Op(p) \in {"token", "get"} THEN HandOut(p, mem[p].entry)
     ELSE IF Op(p) = "logout" /\ mem[p].sel.default /\ mem[p].sel.name # Seed
     THEN GoTo(p, "confLoad", mem[p])
     ELSE Done(p)
  /\ UNCHANGED <<cut, respent>>
NotSaved(p) == Fails(p) /\ cut' = TRUE /\ UNCHANGED <<intended, respent>>

\* save_all_credentials().
SaveKeyring(p) ==
  /\ at[p] \in {"credOpen", "clear"}
  /\ \/ Replace(mem[p].map) /\ Saved(p)
     \/ backend = "keyring" /\ fault = "service" /\ NotSaved(p) /\ UNCHANGED store
  /\ UNCHANGED <<config, idpVars, expired, cache, port>>
OpenStore(p) ==
  /\ at[p] \in {"credOpen", "clear"} /\ Truncate /\ GoTo(p, "credWrite", mem[p])
  /\ UNCHANGED <<config, idpVars, expired, cache, port, histVars>>
WriteStore(p) ==
  /\ at[p] = "credWrite"
  /\ \/ WriteOut(mem[p].map) /\ Saved(p)
     \/ fault = "disk" /\ NotSaved(p) /\ UNCHANGED store
  /\ UNCHANGED <<config, idpVars, expired, cache, port>>

-----------------------------------------------------------------------------
(* The user's config.json.                                                 *)

\* save_user_deployment(), set_default_deployment(), remove_deployment(): they
\* read the file, or fail over one that does not parse.
Written(p) ==
  CASE Op(p) = "configure" -> Upsert(config.list, mem[p].sel)
    [] Op(p) = "use" -> DefaultSet(config.list, Call(p).name)
    [] Op(p) = "remove" -> Without(config.list, Call(p).name)
    [] Op(p) = "logout" -> DefaultSet(config.list, Seed)
ConfLoad(p) ==
  /\ at[p] = "confLoad"
  /\ IF \/ config.torn
        \/ Op(p) = "remove" /\ (Call(p).name = Seed \/ ~Has(config.list, Call(p).name))
        \/ Op(p) = "use" /\ Call(p).name # Seed /\ ~Has(config.list, Call(p).name)
     THEN Fails(p)
     ELSE GoTo(p, "confOpen", [mem[p] EXCEPT !.list = Written(p)])
  /\ UNCHANGED <<store, config, idpVars, expired, cache, port, histVars>>
ConfOpen(p) ==
  /\ at[p] = "confOpen" /\ config' = [config EXCEPT !.torn = TRUE]
  /\ GoTo(p, "confWrite", mem[p])
  /\ UNCHANGED <<store, idpVars, expired, cache, port, histVars>>

\* A configure logs in when it can; a remove forgets the credential.
ConfWrite(p) ==
  /\ at[p] = "confWrite"
  /\ \/ /\ \/ config' = [list |-> mem[p].list, torn |-> FALSE]
           \/ ~config.torn /\ config' = [config EXCEPT !.torn = TRUE]
        /\ CASE Op(p) = "configure" /\ CannotLogIn(mem[p].sel) -> Fails(p)
             [] Op(p) = "configure" /\ ~CannotLogIn(mem[p].sel) /\ Call(p).login ->
                  GoTo(p, "select", mem[p])
             [] Op(p) = "remove" -> GoTo(p, "credLoad", [mem[p] EXCEPT !.profile = Call(p).name])
             [] OTHER -> Done(p)
     \/ fault = "disk" /\ Fails(p) /\ UNCHANGED config
  /\ UNCHANGED <<store, idpVars, expired, cache, port, histVars>>

-----------------------------------------------------------------------------
Step(p) ==
  \/ Select(p) \/ (~WaitsForBrowser(p) /\ (Answered(p) \/ Refused(p))) \/ Profile(p) \/ SelectLogout(p)
  \/ Probe(p) \/ Owner(p) \/ ApiEnv(p) \/ ApiExchange(p)
  \/ CredLoad(p) \/ Refresh(p) \/ SaveKeyring(p) \/ OpenStore(p) \/ WriteStore(p)
  \/ ConfLoad(p) \/ ConfOpen(p) \/ ConfWrite(p)

\* The browser answers when the user does, if at all.
Callback(p) == WaitsForBrowser(p) /\ Answered(p)
Denied(p) == WaitsForBrowser(p) /\ Refused(p)

\* The process is killed; the listener goes with it.
Crash(p) ==
  /\ fault = "crash" /\ at[p] \notin {"ended", "crashed"}
  /\ at' = [at EXCEPT ![p] = "crashed"] /\ todo' = [todo EXCEPT ![p] = <<>>]
  /\ cut' = (cut \/ at[p] = "credWrite" \/ (at[p] = "credOpen" /\ Op(p) \in {"token", "get"}))
  /\ Freed(p)
  /\ UNCHANGED <<store, config, idpVars, expired, mem, answer, cache, intended, respent>>

\* A bearer comes within a minute of its expiry (is_expired_jwt).
Expire(s) ==
  /\ <<s, newest[s]>> \notin expired
  /\ expired' = expired \cup {<<s, newest[s]>>}
  /\ UNCHANGED <<store, config, idpVars, procVars, cache, port, histVars>>

Rest == (\A p \in Procs : at[p] \in {"ended", "crashed"}) /\ UNCHANGED vars

\* The calls that hold a copy of the map they will save, and the one that clears it.
Holding(where) == {p \in Procs : where[p] \in {"refresh", "credOpen", "credWrite"}}
Clearing == {p \in Procs : at[p] = "clear" /\ todo'[p] # todo[p] /\ at'[p] # "crashed"}
Watched ==
  /\ UNCHANGED envVars
  /\ overlap' = (overlap \/ Cardinality(Holding(at') \cup Clearing) > 1)

Next ==
  \/ \E p \in Procs : (Step(p) \/ Callback(p) \/ Denied(p) \/ Crash(p)) /\ Watched
  \/ \E s \in DOMAIN sessions : Expire(s) /\ Watched
  \/ Rest

\* A process runs on; neither the browser nor a server owes it an answer.
Fairness == \A p \in Procs : WF_vars(~WaitsForServer(p) /\ Step(p) /\ Watched)
Spec == Init /\ [][Next]_vars /\ Fairness

-----------------------------------------------------------------------------
(* Properties.                                                             *)

\* Type correctness: every label, held copy, file and session is well formed.
AuthTypeOK ==
  /\ StoreTypeOK /\ rotates \in BOOLEAN /\ apiToken \in BOOLEAN
  /\ config \in [list : Seq(Deployment), torn : BOOLEAN]
  /\ at \in [Procs -> {"select", "asked", "profile", "credLoad", "refresh", "credOpen", "clear",
       "credWrite", "confLoad", "confOpen", "confWrite", "probe", "owner", "apiEnv",
       "apiExchange", "ended", "crashed"}]
  /\ mem \in [Procs -> [sel : Deployment, profile : Profiles \cup {""}, entry : Entry,
                        map : [Profiles -> Entry], list : Seq(Deployment)]]
  /\ port \in Procs \cup {NoProc} /\ Len(newest) = Len(sessions)
  /\ \A s \in DOMAIN newest : newest[s] \in 1..MaxTokens
  /\ intended \in [Profiles -> Entry]

\* Where calls do not hold copies of the map at the same time and none is cut off
\* in a save, what is stored is what one call after the other would have left: no
\* login is lost, no refreshed token forgotten, whatever else the calls do
\* (persist, logout, remove_deployment, the refresh of credentials()).
LoginsSurvive ==
  ~overlap /\ ~cut /\ (\A p \in Procs : at[p] # "credWrite")
    => store = [map |-> intended, torn |-> FALSE]

\* A keyring entry is replaced whole: a call that is killed or fails in its save
\* leaves every other profile's credential as it was.
KeyringKeepsOthers ==
  [][backend = "keyring" /\ ~overlap =>
       Cardinality({n \in Profiles : store.map[n] # store'.map[n]}) <= 1
       \/ \E p \in Procs : at[p] = "clear"]_vars

\* The user's file names each deployment once and marks at most one as the
\* default, whatever configure, use, logout and remove do to it, in whatever
\* interleaving of their whole-file writes (upsert_deployment, apply_set_default).
OneDefault == NamedOnce(config.list) /\ OneDefaultIn(config.list)

\* The default moves only by a command that says so: `use`, a configure that asks
\* for it or finds none, or a logout or remove of the default itself; a second
\* configure never takes it (auth.rs, configure).
DefaultNames(list) == {list[i].name : i \in Defaults(list)}
DefaultKeeps ==
  [][\A p \in Procs :
       /\ at[p] = "confLoad" /\ at'[p] = "confOpen"
       /\ DefaultNames(mem'[p].list) # DefaultNames(config.list)
       => \/ Op(p) = "use" \/ Op(p) = "logout"
          \/ Op(p) = "remove" /\ Call(p).name \in DefaultNames(config.list)
          \/ Op(p) = "configure" /\ (Call(p).makeDefault \/ Defaults(config.list) = {})]_vars

\* What `auth status` marks as the default is what a command without
\* --deployment selects, where the repository's file marks none.
StatusShowsSelection ==
  ~config.torn /\ Defaults(repo) = {}
    => \A i \in DOMAIN All :
         MarkedDefault(All, All[i]) = (\E d \in Selected(All, "") : d.name = All[i].name)

\* One default, and `auth status` and the commands agree on it (auth.rs:176-210).
DefaultIsOne == OneDefault /\ StatusShowsSelection

\* A stored session keeps its kind and stays refreshable over any number of
\* refreshes: an endpoint's bearer is an id_token, and its refresh token is never
\* dropped (TokenResponse::bearer, merged_refresh_token).
SessionsKeepKind ==
  \A n \in Profiles : LET e == store.map[n] IN
    e # NoEntry =>
      /\ e.prefer = sessions[e.session].endpoint /\ e.id = e.prefer
      /\ e.refresh = 0 <=> ~e.prefer

\* Every file and every configure of a world means the same hosts by a name, and no
\* login is pinned to the profile of another deployment.
Agree(hosts) ==
  /\ hosts[Seed] = {}
  /\ \A w \in Worlds :
       /\ \A i \in DOMAIN w.repo : w.repo[i].hosts = hosts[w.repo[i].name]
       /\ \A i \in DOMAIN w.user : w.user[i].hosts = hosts[w.user[i].name]
       /\ \A p \in Procs : \A i \in DOMAIN w.calls[p] : LET c == w.calls[p][i] IN
            /\ c.op = "configure" /\ c.host \in DOMAIN Discovered =>
                 hosts[c.name] = Discovered[c.host].hosts \cup {c.host}
            /\ c.op = "login" /\ c.profile \in Names =>
                 c.profile = IF c.name = "" THEN Seed ELSE c.name
HostsAgree == \E hosts \in [Names -> SUBSET Hosts] : Agree(hosts)

\* Where a name means the same hosts everywhere, a token the helper hands out for a
\* host was issued to a login at a deployment that serves this host.
AnswersAreOwners ==
  HostsAgree =>
    \A p \in Procs : answer[p].is = "token" /\ answer[p].host # "" =>
      LET s == sessions[answer[p].session]
      IN \E h \in s.hosts : h = answer[p].host \/ <<answer[p].host, h>> \in Under

\* What is stored and handed out fits who it is for (auth.rs:1691, :2471).
TokensFit == SessionsKeepKind /\ AnswersAreOwners

\* With a server that rotates them, no refresh token is presented twice as long as
\* calls do not overlap and none ends between the refresh and its save.
SpentOnce == ~overlap /\ ~cut => ~respent

\* Nothing stored or presented is lost or doubled by calls one after the other
\* (auth.rs:1691, credential_store.rs:170).
LoginsKept == AuthTypeOK /\ LoginsSurvive /\ SpentOnce

\* A cached exchange of the API token is handed out only while the deployment
\* selected by default is one of the issuer it was made with.
ApiTokenMatches ==
  [][\A p \in Procs :
       at[p] = "apiEnv" /\ todo'[p] # todo[p] /\ at'[p] # "crashed" /\ answer'[p].is = "token"
       => \E d \in Selected(All, "") : d.issuer = sessions[answer'[p].session].issuer]_vars

\* A step changes the credential, the default and the token it is about, and no
\* other (KeyringStore::save, apply_set_default, the cache of auth.rs:1074).
StepsKeepTheRest == KeyringKeepsOthers /\ DefaultKeeps /\ ApiTokenMatches

\* What a process still waits for, when it does not end, is the browser it opened
\* (and the exchange of its code) or a server it asked, as no request has a timeout
\* (auth.rs:579, 1134, 1307, 1364): never another process, that may itself wait for
\* an answer for good, for the callback port it holds or a file it is writing.
CommandsEnd ==
  \A p \in Procs : at[p] # "ended" ~>
    at[p] \in {"ended", "crashed"} \/ WaitsForBrowser(p) \/ WaitsForServer(p)
=============================================================================
