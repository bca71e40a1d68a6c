---------------------------- MODULE Deployments -----------------------------
(***************************************************************************)
(* The deployments the CLI can log in to, as engine/aspect/auth.rs keeps   *)
(* them: the built-in Aspect account (the seed), overlaid by the           *)
(* repository's .aspect/config.json, overlaid by the user's                *)
(* ~/.aspect/config.json.  A file is the sequence of its deployments; this *)
(* module holds what is computed from them, Auth the commands.             *)
(***************************************************************************)
EXTENDS Naturals, Sequences

CONSTANTS
  Names,    \* names of deployments, "aspect" among them
  Hosts,    \* Bazel-facing endpoints
  Under,    \* the pairs <<h, g>> of hosts where h ends with "." \o g
  Issuers   \* authorization servers

Seed == "aspect"
NoIssuer == "no issuer"
DefaultProfile == "default"

\* default_deployment(), but for its issuer, which is the module's parameter too.
CONSTANT SeedIssuer

ASSUME DeploymentsAssumption ==
  /\ Seed \in Names /\ DefaultProfile \notin Names /\ "" \notin Names
  /\ Under \subseteq Hosts \X Hosts /\ NoIssuer \notin Issuers
  /\ SeedIssuer \in Issuers \cup {NoIssuer}

Deployment == [name : Names, default : BOOLEAN, hosts : SUBSET Hosts,
               issuer : Issuers \cup {NoIssuer}]
Profiles == Names \cup {DefaultProfile}

SeedDeployment == [name |-> Seed, default |-> TRUE, hosts |-> {}, issuer |-> SeedIssuer]

\* A list may have gaps: its positions are numbers, in the order of the code's Vec.
Named(list, n) == {i \in DOMAIN list : list[i].name = n}
Has(list, n) == Named(list, n) # {}
First(list, where) == list[CHOOSE i \in where : \A j \in where : i <= j]
TheOne(list, n) == First(list, Named(list, n))

-----------------------------------------------------------------------------
(* Reading.                                                                *)

\* The overlay closure over a list of positions up to top: an entry replaces the
\* one of its name in its place, the others follow.  A file names each deployment
\* once.
Overlaid(list, top, entries) ==
  LET new == {i \in DOMAIN entries : ~Has(list, entries[i].name)}
  IN [i \in DOMAIN list \cup {top + k : k \in new} |->
        IF i \notin DOMAIN list THEN entries[i - top]
        ELSE IF Has(entries, list[i].name) THEN TheOne(entries, list[i].name) ELSE list[i]]

ConfiguredDefault(list) == \E i \in DOMAIN list : list[i].default /\ list[i].name # Seed

ReconciledNot(list) == list  \* mutant
\* reconcile_seed_default(): a configured default takes it from the seed.
Reconciled(list) ==
  [i \in DOMAIN list |->
     IF list[i].name = Seed /\ ConfiguredDefault(list)
     THEN [list[i] EXCEPT !.default = FALSE] ELSE list[i]]

\* load_deployments(), of two files that can be read.
Effective(repo, user) ==
  Reconciled(Overlaid(Overlaid(<<SeedDeployment>>, 1, repo), 1 + Len(repo), user))

\* select_deployment(): "" is no name.  An unknown name selects nothing.
Defaults(list) == {i \in DOMAIN list : list[i].default}
Selected(list, n) ==
  IF n # ""
  THEN IF Has(list, n) THEN {TheOne(list, n)} ELSE {}
  ELSE IF Defaults(list) # {}
       THEN {First(list, Defaults(list))}
       ELSE {TheOne(list, Seed)}

\* select_account_or_deployment(): without a name it is the account.
SelectedAccount(list, n) == Selected(list, IF n = "" THEN Seed ELSE n)

Owns(d, host) == \E h \in d.hosts : h = host \/ <<host, h>> \in Under
Owners(list, host) == {i \in DOMAIN list : Owns(list[i], host)}
OwnerOrDefault(list, host) ==  \* mutant: an unowned host falls to the default
  IF Owners(list, host) # {} THEN {First(list, Owners(list, host))}
  ELSE {list[i] : i \in Defaults(list)}
\* deployment_name_for_host(): the first that claims the host, if any.
OwnerOf(list, host) ==
  IF Owners(list, host) # {} THEN {First(list, Owners(list, host))} ELSE {}

\* login_profile_for(), without $ASPECT_AUTH_PROFILE.
LoginProfile(d) == IF d.hosts = {} THEN DefaultProfile ELSE d.name

\* summarize_deployment(): the mark of the default in `auth status`.
MarkedDefault(list, d) == IF d.name = Seed THEN ~ConfiguredDefault(list) ELSE d.default

-----------------------------------------------------------------------------
(* Writing the user's file.                                                *)
NoneDefault(list) == [i \in DOMAIN list |-> [list[i] EXCEPT !.default = FALSE]]

\* The record takes the place of the one of its name, or the end.
Put(list, d) ==
  IF Has(list, d.name)
  THEN [i \in DOMAIN list |-> IF list[i].name = d.name THEN d ELSE list[i]]
  ELSE Append(list, d)

\* upsert_deployment(): the record takes the default when it asks for it, when
\* there is none, or when it replaces the one that had it.
Claims(list, d) ==
  \/ d.default
  \/ Defaults(list) = {}
  \/ \E i \in Defaults(list) : list[i].name = d.name
UpsertKeepingOthers(list, d) == Put(list, [d EXCEPT !.default = Claims(list, d)])  \* mutant
UpsertHijacking(list, d) ==  \* mutant: a configure always takes the default
  Put(NoneDefault(list), [d EXCEPT !.default = TRUE])
Upsert(list, d) ==
  Put(IF Claims(list, d) THEN NoneDefault(list) ELSE list,
      [d EXCEPT !.default = Claims(list, d)])

\* apply_set_default(): the seed, or no name, means no configured default.
DefaultSet(list, n) ==
  [i \in DOMAIN list |-> [list[i] EXCEPT !.default = (n # Seed /\ list[i].name = n)]]

\* remove_deployment()'s retain, of a name that is there.
Without(list, n) ==
  LET k == CHOOSE i \in Named(list, n) : TRUE
  IN [i \in 1..(Len(list) - 1) |-> list[IF i < k THEN i ELSE i + 1]]
=============================================================================
