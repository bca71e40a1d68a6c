-------------------------- MODULE ProvisionProofs ---------------------------
(***************************************************************************)
(* What Provision's run checks of small instances, for every number of     *)
(* processes, releases, modules and commands: the launcher execs whole and *)
(* recent tools (LaunchSound), the store and the tree of tasks are what    *)
(* they say they are (StoreSound), and commands of a run have names of     *)
(* their own (NamesSound).  The four parts share no variable: a step of    *)
(* the system is a move of each (Parts), and each has an invariant of its  *)
(* own, NamesInv, TreeInv, StoreInv and LaunchInv.                         *)
(***************************************************************************)
EXTENDS Provision, FiniteSetTheorems, NaturalsInduction, TLAPS

\* What a step is for the names, the tree of tasks, the store and the launchers.
NameMove == UNCHANGED nameVars \/ \E p \in Callers : NameStep(p) \/ Forget(p)
TreeMove ==
  \/ UNCHANGED treeVars
  \/ \E p \in Extractors : ExtractStep(p) \/ ExtractKill(p) \/ (Ended(p) /\ ExtractAgain(p))
StoreMove ==
  UNCHANGED storeVars \/ Checkout \/ \E p \in Commands : StoreStep(p) \/ StoreKill(p) \/ Rerun(p)
LaunchMove ==
  UNCHANGED launchVars \/ LaunchWorld \/ \E p \in Procs : LaunchStep(p) \/ Kill(p) \/ Again(p)

LEMMA Parts ==
  ASSUME [Next]_vars
  PROVE  NameMove /\ TreeMove /\ StoreMove /\ LaunchMove
<1> USE ProvisionAssumption DEF NameMove, TreeMove, StoreMove, LaunchMove
<1>1. ASSUME UNCHANGED vars PROVE NameMove /\ TreeMove /\ StoreMove /\ LaunchMove
  BY <1>1 DEF vars
<1>2. ASSUME NEW p \in Procs, Step(p) PROVE NameMove /\ TreeMove /\ StoreMove /\ LaunchMove
  BY <1>2 DEF Step
<1>3. ASSUME NEW p \in Procs, Kill(p), UNCHANGED <<treeVars, storeVars, nameVars>>
      PROVE NameMove /\ TreeMove /\ StoreMove /\ LaunchMove
  BY <1>3
<1>4. ASSUME NEW p \in Procs, ExtractKill(p), UNCHANGED <<launchVars, storeVars, nameVars>>
      PROVE NameMove /\ TreeMove /\ StoreMove /\ LaunchMove
  BY <1>4
<1>5. ASSUME NEW p \in Procs, StoreKill(p), UNCHANGED <<launchVars, treeVars, nameVars>>
      PROVE NameMove /\ TreeMove /\ StoreMove /\ LaunchMove
  BY <1>5
<1>6. ASSUME NEW p \in Procs, Again(p), Rerun(p) \/ UNCHANGED storeVars, Forget(p), ExtractAgain(p), Ended(p)
      PROVE NameMove /\ TreeMove /\ StoreMove /\ LaunchMove
  BY <1>6
<1>7. ASSUME LaunchWorld, UNCHANGED <<treeVars, storeVars, nameVars>>
      PROVE NameMove /\ TreeMove /\ StoreMove /\ LaunchMove
  BY <1>7
<1>8. ASSUME Checkout, UNCHANGED <<launchVars, treeVars, nameVars>>
      PROVE NameMove /\ TreeMove /\ StoreMove /\ LaunchMove
  BY <1>8
<1> QED BY <1>1, <1>2, <1>3, <1>4, <1>5, <1>6, <1>7, <1>8 DEF Next

-----------------------------------------------------------------------------
(* Names.  A claim is the file of a name that was given.                   *)
BaseOf(c) == <<c.kind>> \o CiJobName(c.env)
FileOf(g) == <<DedupDir(g.by.env), g.name>>
GivenType ==
  [by : ci.commands, base : {BaseOf(c) : c \in ci.commands},
   name : {Candidate(BaseOf(c), n) : c \in ci.commands, n \in Nat}, sure : BOOLEAN]
NameTypes ==
  /\ ci \in NameWorlds
  /\ command \in [Callers -> {<< >>} \cup {<<c>> : c \in ci.commands}]
  /\ probe \in [Callers -> Nat] /\ name = [p \in Callers |-> name[p]]
  /\ given \in Seq(GivenType)
Claims ==
  /\ \A i \in DOMAIN given : given[i].base = BaseOf(given[i].by)
  /\ \A i \in DOMAIN given : given[i].sure => FileOf(given[i]) \in claims
  /\ \A f \in claims : \E i \in DOMAIN given : given[i].sure /\ FileOf(given[i]) = f
\* Nobody has the name of another of its run.
Apart ==
  \A i, j \in DOMAIN given :
    i # j /\ given[i].sure /\ given[j].sure => FileOf(given[i]) # FileOf(given[j])
\* Who tries a number has seen that the plain name is claimed, and who has one came after.
PlainClaimed ==
  \A p \in Callers :
    command[p] # << >> /\ name[p] = << >> /\ probe[p] # 1 => <<DedupDir(Env(p)), Base(p)>> \in claims
Behind ==
  \A i \in DOMAIN given :
    given[i].name # given[i].base =>
      \E j \in 1..i - 1 :
        given[j].sure /\ FileOf(given[j]) = <<DedupDir(given[i].by.env), given[i].base>>
NamesInv == NameTypes /\ Claims /\ Apart /\ PlainClaimed /\ Behind

LEMMA NamesInit == Init => NamesInv
<1> SUFFICES ASSUME Init PROVE NamesInv
  OBVIOUS
<1>1. NameTypes
  BY DEF Init, NameInit, NameTypes
<1>2. given = << >> /\ claims = {} /\ \A p \in Callers : command[p] = << >>
  BY DEF Init, NameInit
<1> QED BY <1>1, <1>2 DEF NamesInv, Claims, Apart, PlainClaimed, Behind

\* A name is added: what the claims and the names say to each other stays, if the name is
\* unsure and the plain one, or is not claimed and, with a number, comes after the plain one.
LEMMA NameIsGiven ==
  ASSUME NamesInv, NEW p \in Callers, NEW n \in Nat, NEW sure \in BOOLEAN,
         command[p] # << >>, name[p] = << >>, UNCHANGED <<ci, command, probe>>,
         Given(p, Candidate(Base(p), n), sure),
         claims' = IF sure THEN claims \cup {<<DedupDir(Env(p)), Candidate(Base(p), n)>>} ELSE claims,
         sure => <<DedupDir(Env(p)), Candidate(Base(p), n)>> \notin claims,
         Candidate(Base(p), n) # Base(p) => sure /\ <<DedupDir(Env(p)), Base(p)>> \in claims
  PROVE  NamesInv'
<1> DEFINE c == command[p][1]
           g == [by |-> c, base |-> BaseOf(c), name |-> Candidate(BaseOf(c), n), sure |-> sure]
           last == Len(given) + 1
<1>1. c \in ci.commands /\ Base(p) = BaseOf(c) /\ Env(p) = c.env
  BY DEF NamesInv, NameTypes, Base, BaseOf, Env
<1>2. g \in GivenType
  BY <1>1 DEF GivenType
<1>3. g.by = c /\ g.base = BaseOf(c) /\ g.name = Candidate(BaseOf(c), n) /\ g.sure = sure
  OBVIOUS
<1>4. FileOf(g) = <<DedupDir(Env(p)), Candidate(Base(p), n)>>
  BY <1>1, <1>3 DEF FileOf
<1>5. given \in Seq(GivenType) /\ given' = Append(given, g) /\ GivenType' = GivenType
  BY <1>1 DEF NamesInv, NameTypes, Given, GivenType
<1> HIDE DEF c, g
<1>6. /\ given' \in Seq(GivenType) /\ DOMAIN given' = 1..last /\ DOMAIN given = 1..Len(given)
      /\ Len(given) \in Nat /\ given'[last] = g
      /\ \A i \in DOMAIN given : given'[i] = given[i]
  BY <1>2, <1>5
<1>7. NameTypes'
  <2>1. name' = [q \in Callers |-> name'[q]]
    BY DEF NamesInv, NameTypes, Given
  <2> QED BY <1>5, <1>6, <2>1 DEF NamesInv, NameTypes
<1>8. \A i \in DOMAIN given' : i # last => i \in DOMAIN given /\ given'[i] = given[i]
  BY <1>6
<1>9. claims \subseteq claims' /\ (sure => FileOf(g) \in claims')
  BY <1>4
<1>10. Claims'
  <2>1. ASSUME NEW i \in DOMAIN given' PROVE given'[i].base = BaseOf(given'[i].by)
    BY <1>3, <1>6, <1>8 DEF NamesInv, Claims
  <2>2. ASSUME NEW i \in DOMAIN given', given'[i].sure PROVE FileOf(given'[i]) \in claims'
    BY <2>2, <1>3, <1>6, <1>8, <1>9 DEF NamesInv, Claims
  <2>3. ASSUME NEW f \in claims' PROVE \E i \in DOMAIN given' : given'[i].sure /\ FileOf(given'[i]) = f
    <3>1. CASE f \in claims
      <4>1. PICK i \in DOMAIN given : given[i].sure /\ FileOf(given[i]) = f
        BY <3>1 DEF NamesInv, Claims
      <4>2. i \in DOMAIN given' /\ given'[i] = given[i]
        BY <1>6
      <4> QED BY <4>1, <4>2
    <3>2. CASE f \notin claims
      <4>1. sure /\ f = FileOf(g)
        BY <3>2, <1>4
      <4>2. last \in DOMAIN given' /\ given'[last] = g
        BY <1>6
      <4> QED BY <1>3, <4>1, <4>2
    <3> QED BY <3>1, <3>2
  <2>4. \A i \in DOMAIN given' : given'[i].base = BaseOf(given'[i].by)
    BY <2>1
  <2>5. \A i \in DOMAIN given' : given'[i].sure => FileOf(given'[i]) \in claims'
    BY <2>2
  <2> HIDE DEF last
  <2> QED BY <2>3, <2>4, <2>5 DEF Claims, FileOf, BaseOf
<1>11. Apart'
  <2>1. ASSUME NEW i \in DOMAIN given', NEW j \in DOMAIN given', i # j, given'[i].sure, given'[j].sure
        PROVE FileOf(given'[i]) # FileOf(given'[j])
    <3>1. CASE i # last /\ j # last
      BY <2>1, <3>1, <1>8 DEF NamesInv, Apart
    <3>2. CASE i = last
      <4>1. j \in DOMAIN given /\ given'[j] = given[j] /\ given'[i] = g
        BY <2>1, <3>2, <1>6, <1>8
      <4>2. FileOf(given[j]) \in claims /\ FileOf(g) \notin claims
        BY <2>1, <4>1, <1>3, <1>4 DEF NamesInv, Claims
      <4> QED BY <4>1, <4>2
    <3>3. CASE j = last
      <4>1. i \in DOMAIN given /\ given'[i] = given[i] /\ given'[j] = g
        BY <2>1, <3>3, <1>6, <1>8
      <4>2. FileOf(given[i]) \in claims /\ FileOf(g) \notin claims
        BY <2>1, <4>1, <1>3, <1>4 DEF NamesInv, Claims
      <4> QED BY <4>1, <4>2
    <3> QED BY <3>1, <3>2, <3>3
  <2> QED BY <2>1 DEF Apart, FileOf
<1>12. PlainClaimed'
  <2>1. ASSUME NEW q \in Callers, command'[q] # << >>, name'[q] = << >>, probe'[q] # 1
        PROVE <<DedupDir(Env(q)), Base(q)>> \in claims'
    <3>1. name[q] = << >>
      BY <2>1 DEF NamesInv, NameTypes, Given
    <3> QED BY <2>1, <3>1, <1>9 DEF NamesInv, PlainClaimed
  <2>2. \A q \in Callers : Env(q)' = Env(q) /\ Base(q)' = Base(q)
    BY DEF Env, Base
  <2> QED BY <2>1, <2>2 DEF PlainClaimed
<1>13. Behind'
  <2>1. ASSUME NEW i \in DOMAIN given', given'[i].name # given'[i].base
        PROVE \E j \in 1..i - 1 :
                given'[j].sure /\ FileOf(given'[j]) = <<DedupDir(given'[i].by.env), given'[i].base>>
    <3>1. PICK j \in DOMAIN given :
            j \in 1..i - 1 /\ given[j].sure
            /\ FileOf(given[j]) = <<DedupDir(given'[i].by.env), given'[i].base>>
      <4>1. CASE i # last
        <5>1. i \in DOMAIN given /\ given'[i] = given[i]
          BY <4>1, <1>8
        <5>2. PICK j \in 1..i - 1 :
                given[j].sure /\ FileOf(given[j]) = <<DedupDir(given[i].by.env), given[i].base>>
          BY <2>1, <5>1 DEF NamesInv, Behind
        <5>3. j \in DOMAIN given
          BY <5>1, <1>6
        <5> QED BY <5>1, <5>2, <5>3
      <4>2. CASE i = last
        <5>1. given'[i] = g
          BY <4>2, <1>6
        <5>2. <<DedupDir(Env(p)), Base(p)>> \in claims
          BY <2>1, <5>1, <1>1, <1>3
        <5>3. PICK j \in DOMAIN given : given[j].sure /\ FileOf(given[j]) = <<DedupDir(Env(p)), Base(p)>>
          BY <5>2 DEF NamesInv, Claims
        <5>4. j \in 1..i - 1
          BY <4>2, <1>6
        <5> QED BY <5>1, <5>3, <5>4, <1>1, <1>3
      <4> QED BY <4>1, <4>2
    <3>2. given'[j] = given[j]
      BY <1>6
    <3> QED BY <3>1, <3>2
  <2> QED BY <2>1 DEF Behind, FileOf
<1> QED BY <1>7, <1>10, <1>11, <1>12, <1>13 DEF NamesInv

LEMMA NamesNext ==
  ASSUME NamesInv, NameMove
  PROVE  NamesInv'
<1>1. CASE UNCHANGED nameVars
  <2>1. NameTypes'
    BY <1>1 DEF nameVars, NamesInv, NameTypes, GivenType
  <2>2. Claims' /\ Apart' /\ Behind'
    BY <1>1 DEF nameVars, NamesInv, Claims, Apart, Behind
  <2>3. PlainClaimed'
    <3>1. \A q \in Callers : Env(q)' = Env(q) /\ Base(q)' = Base(q)
      BY <1>1 DEF nameVars, Env, Base
    <3> QED BY <1>1, <3>1 DEF nameVars, NamesInv, PlainClaimed
  <2> QED BY <2>1, <2>2, <2>3 DEF NamesInv
<1>2. ASSUME NEW p \in Callers, DispatchTask(p) PROVE NamesInv'
  <2>1. UNCHANGED <<ci, claims, given>> /\ probe' = [probe EXCEPT ![p] = 1]
    BY <1>2 DEF DispatchTask
  <2>2. PICK c \in ci.commands : command' = [command EXCEPT ![p] = <<c>>]
    BY <1>2 DEF DispatchTask
  <2>3. \E n : name' = [name EXCEPT ![p] = n]
    BY <1>2 DEF DispatchTask
  <2>4. NameTypes'
    <3>1. GivenType' = GivenType
      BY <2>1 DEF GivenType
    <3>2. command' \in [Callers -> {<< >>} \cup {<<d>> : d \in ci.commands}]
      BY <2>2 DEF NamesInv, NameTypes
    <3> QED BY <2>1, <2>3, <3>1, <3>2 DEF NamesInv, NameTypes
  <2>5. ASSUME NEW q \in Callers, command'[q] # << >>, name'[q] = << >>, probe'[q] # 1
        PROVE <<DedupDir(Env(q)'), Base(q)'>> \in claims
    <3>1. q # p
      BY <2>1, <2>5 DEF NamesInv, NameTypes
    <3>2. command'[q] = command[q] /\ name'[q] = name[q] /\ probe'[q] = probe[q]
      BY <2>1, <2>2, <2>3, <3>1 DEF NamesInv, NameTypes
    <3>3. Env(q)' = Env(q) /\ Base(q)' = Base(q)
      BY <3>2 DEF Env, Base
    <3> QED BY <2>5, <3>2, <3>3 DEF NamesInv, PlainClaimed
  <2>6. PlainClaimed'
    BY <2>1, <2>5 DEF PlainClaimed
  <2> QED BY <2>1, <2>4, <2>6 DEF NamesInv, Claims, Apart, Behind, FileOf, BaseOf
<1>3. ASSUME NEW p \in Callers, Claim(p) PROVE NamesInv'
  <2> DEFINE candidate == Candidate(Base(p), probe[p])
             file == <<DedupDir(Env(p)), candidate>>
  <2>1. command[p] # << >> /\ name[p] = << >> /\ UNCHANGED <<ci, command>> /\ probe[p] \in Nat
    BY <1>3 DEF Claim, NamesInv, NameTypes
  <2>2. Candidate(Base(p), 1) = Base(p)
    BY DEF Candidate
  <2>3. CASE probe[p] > MaxProbe
    <3>1. Given(p, Candidate(Base(p), 1), FALSE) /\ UNCHANGED <<claims, probe>>
      BY <1>3, <2>2, <2>3 DEF Claim
    <3> QED BY <2>1, <2>2, <3>1, NameIsGiven
  <2>4. CASE ~(probe[p] > MaxProbe) /\ ~Taken(file)
    <3>1. Given(p, candidate, TRUE) /\ claims' = claims \cup {file} /\ UNCHANGED probe
      BY <1>3, <2>4 DEF Claim
    <3>2. file \notin claims
      BY <2>4 DEF Taken
    <3>3. candidate # Base(p) => <<DedupDir(Env(p)), Base(p)>> \in claims
      BY <2>1, <2>2 DEF NamesInv, PlainClaimed
    <3> QED BY <2>1, <3>1, <3>2, <3>3, NameIsGiven
  <2>5. CASE ~(probe[p] > MaxProbe) /\ Taken(file)
    <3>1. probe' = [probe EXCEPT ![p] = @ + 1] /\ UNCHANGED <<claims, name, given>>
      BY <1>3, <2>5 DEF Claim
    <3>2. NameTypes'
      <4>1. GivenType' = GivenType
        BY <2>1 DEF GivenType
      <4> QED BY <2>1, <3>1, <4>1 DEF NamesInv, NameTypes
    <3>3. <<DedupDir(Env(p)), Base(p)>> \in claims
      BY <2>1, <2>2, <2>5 DEF NamesInv, PlainClaimed, Taken
    <3>4. ASSUME NEW q \in Callers, command[q] # << >>, name[q] = << >>, probe'[q] # 1
          PROVE <<DedupDir(Env(q)), Base(q)>> \in claims
      BY <3>4, <3>1, <3>3 DEF NamesInv, NameTypes, PlainClaimed
    <3>5. PlainClaimed'
      BY <2>1, <3>1, <3>4 DEF PlainClaimed, Env, Base
    <3> QED BY <2>1, <3>1, <3>2, <3>5 DEF NamesInv, Claims, Apart, Behind, FileOf, BaseOf
  <2> QED BY <2>3, <2>4, <2>5
<1>4. ASSUME NEW p \in Callers, ClaimFails(p) PROVE NamesInv'
  <2>1. Candidate(Base(p), 1) = Base(p)
    BY DEF Candidate
  <2>2. /\ command[p] # << >> /\ name[p] = << >> /\ UNCHANGED <<ci, command, probe, claims>>
        /\ Given(p, Candidate(Base(p), 1), FALSE)
    BY <1>4, <2>1 DEF ClaimFails
  <2> QED BY <2>1, <2>2, NameIsGiven
<1>5. ASSUME NEW p \in Callers, Forget(p) PROVE NamesInv'
  <2>1. /\ UNCHANGED <<ci, probe, claims, given>> /\ command' = [command EXCEPT ![p] = << >>]
        /\ name' = [name EXCEPT ![p] = << >>]
    BY <1>5 DEF Forget
  <2>2. NameTypes'
    <3>1. GivenType' = GivenType
      BY <2>1 DEF GivenType
    <3> QED BY <2>1, <3>1 DEF NamesInv, NameTypes
  <2>3. ASSUME NEW q \in Callers, command'[q] # << >>, name'[q] = << >>, probe'[q] # 1
        PROVE <<DedupDir(Env(q)'), Base(q)'>> \in claims
    <3>1. q # p /\ command'[q] = command[q] /\ name'[q] = name[q]
      BY <2>1, <2>3 DEF NamesInv, NameTypes
    <3>2. Env(q)' = Env(q) /\ Base(q)' = Base(q)
      BY <3>1 DEF Env, Base
    <3> QED BY <2>1, <2>3, <3>1, <3>2 DEF NamesInv, PlainClaimed
  <2>4. PlainClaimed'
    BY <2>1, <2>3 DEF PlainClaimed
  <2> QED BY <2>1, <2>2, <2>4 DEF NamesInv, Claims, Apart, Behind, FileOf, BaseOf
<1> QED BY <1>1, <1>2, <1>3, <1>4, <1>5 DEF NameMove, NameStep

LEMMA NamesHold == RunsAreTold /\ NamesInv => NamesSound
<1> SUFFICES ASSUME RunsAreTold, NamesInv PROVE NamesSound
  OBVIOUS
<1>1. \A i \in DOMAIN given : given[i].by \in ci.commands
  <2>1. \A i \in DOMAIN given : given[i] \in GivenType
    BY DEF NamesInv, NameTypes
  <2> QED BY <2>1 DEF GivenType
<1>2. ASSUME NEW i \in DOMAIN given, NEW j \in DOMAIN given
      PROVE RunOf(given[i].by) = RunOf(given[j].by)
              <=> DedupDir(given[i].by.env) = DedupDir(given[j].by.env)
  BY <1>1 DEF RunsAreTold, NamesInv, NameTypes
<1>3. OwnNames
  BY <1>2 DEF NamesInv, Apart, FileOf, OwnNames
<1>4. ASSUME NEW i \in DOMAIN given, given[i].name # given[i].base
      PROVE \E j \in 1..i - 1 :
              /\ RunOf(given[j].by) = RunOf(given[i].by)
              /\ given[j].sure /\ given[j].name = given[i].base
  <2>1. PICK j \in 1..i - 1 :
          given[j].sure /\ FileOf(given[j]) = <<DedupDir(given[i].by.env), given[i].base>>
    BY <1>4 DEF NamesInv, Behind
  <2>2. j \in DOMAIN given
    BY DEF NamesInv, NameTypes
  <2> QED BY <1>2, <2>1, <2>2 DEF FileOf
<1> QED BY <1>3, <1>4 DEF NamesSound, PlainFirst

-----------------------------------------------------------------------------
(* The tree of tasks.                                                      *)
Trees == {NoTree, Whole} \cup {Tree(files, FALSE) : files \in SUBSET TreeFiles}
Partial(t) == t.there /\ ~t.complete
Labels ==
  {"cold", "write", "evict", "trash", "sweep", "publish", "adopt", "done", "fail", "there", "failed", "gone"}
AtIt == {"cold", "write", "evict", "trash", "sweep", "publish"}
\* There are no two beside p.
Few(p) == ~\E q, r \in Extractors \ {p} : q # r

TreeTypes ==
  /\ extractFault \in {"off", "none", "crash", "disk"} /\ final \in Trees
  /\ temp \in [Extractors -> Trees] /\ trash \in [Extractors -> Trees]
  /\ ep \in [Extractors -> Labels] /\ both \in BOOLEAN /\ cut \in BOOLEAN
\* No partial tree comes back once somebody has seen that there is none.
NeverPartial ==
  \A p \in Extractors : ep[p] \in {"sweep", "publish", "adopt", "done", "there"} => ~Partial(final)
TempWhole ==
  \A p \in Extractors : ep[p] \in {"evict", "trash", "sweep", "publish"} => temp[p] = Whole
\* Only one is about to take the tree away, a partial one; who is through has a whole one.
OneStale ==
  ~both =>
    /\ \A p, q \in Extractors : ep[p] = "trash" /\ ep[q] = "trash" => p = q
    /\ \A p \in Extractors : ep[p] = "trash" => Partial(final)
    /\ \A p \in Extractors : ep[p] \in {"adopt", "done", "there"} => final = Whole
\* Of two processes the one that can lose its tree to the other is through.
TwoAdopt == \A p \in Extractors : Few(p) /\ ep[p] = "adopt" => final = Whole
TwoFind ==
  \A p, q \in Extractors :
    Few(p) /\ q # p /\ ep[q] = "trash" /\ final = Whole => ep[p] \in {"cold", "there", "done", "gone"}
Excused ==
  \A p \in Extractors : ep[p] \in {"fail", "failed"} => extractFault = "disk" \/ (both /\ ~Few(p))
LeavesNothing ==
  \A p \in Extractors :
    /\ trash[p] # NoTree => ep[p] \in {"sweep", "gone"}
    /\ ep[p] \in {"cold", "there", "failed"} => temp[p] = NoTree
    /\ ep[p] = "gone" => cut
\* As long as there is no whole tree somebody is at it.
SomebodyIsAtIt ==
  ~cut /\ extractFault \notin {"disk", "off"} => final = Whole \/ \E p \in Extractors : ep[p] \in AtIt
OffIsCold == extractFault = "off" => \A p \in Extractors : ep[p] = "cold"
\* Who took the tree of one that is through puts his own there.
TakenAway ==
  \A p \in Extractors :
    ep[p] \in {"done", "there"} =>
      final = Whole \/ (both /\ final = NoTree /\ (cut \/ \E q \in Extractors : ep[q] \in {"sweep", "publish"}))
TreeInv ==
  /\ TreeTypes /\ NeverPartial /\ TempWhole /\ OneStale /\ TwoAdopt /\ TwoFind /\ Excused
  /\ LeavesNothing /\ SomebodyIsAtIt /\ OffIsCold /\ TakenAway
\* A tree is written while the command runs, and before it comes to its modules.
InTurn ==
  \A p \in Procs :
    /\ ep[p] \notin {"cold", "there", "failed", "gone"} => pc[p] = "running"
    /\ sp[p] # "idle" => Extracted(p)

\* The three kinds of tree.
LEMMA TreeKinds ==
  /\ NoTree \in Trees /\ Whole \in Trees /\ Whole # NoTree
  /\ ~Partial(NoTree) /\ ~Partial(Whole) /\ Replaceable(NoTree) /\ ~Replaceable(Whole)
  /\ \A files \in SUBSET TreeFiles : Tree(files, FALSE) \in Trees
  /\ \A t \in Trees :
       /\ t.files \subseteq TreeFiles
       /\ t.complete <=> t = Whole
       /\ ~Partial(t) => t = NoTree \/ t = Whole
       /\ t.there /\ ~t.complete <=> Partial(t)
<1> USE DEF Trees, NoTree, Whole, Tree, Partial, Replaceable, TreeFiles
<1>1. Whole # NoTree
  BY DEF Trees
<1>2. \A files \in SUBSET TreeFiles : Tree(files, FALSE) \in Trees
  OBVIOUS
<1>3. ASSUME NEW t \in Trees
      PROVE  /\ t.files \subseteq TreeFiles
             /\ t.complete <=> t = Whole
             /\ ~Partial(t) => t = NoTree \/ t = Whole
             /\ t.there /\ ~t.complete <=> Partial(t)
  <2>1. CASE t = NoTree
    BY <2>1
  <2>2. CASE t = Whole
    BY <2>2
  <2>3. ASSUME NEW files \in SUBSET TreeFiles, t = Tree(files, FALSE)
        PROVE t.files = files /\ t.complete = FALSE /\ t.there = TRUE
    BY <2>3
  <2> QED BY <2>1, <2>2, <2>3
<1> QED BY <1>1, <1>2, <1>3

LEMMA TreesInit == Init => TreeInv
<1> SUFFICES ASSUME Init PROVE TreeInv
  OBVIOUS
<1>1. PICK w \in ExtractWorlds : extractFault = w.fault /\ final = w.tree
  BY DEF Init, ExtractInit
<1>2. extractFault \in {"off", "none", "crash", "disk"} /\ final \in Trees
  BY <1>1, BuiltinsAssumption DEF Trees
<1>3. /\ temp = [p \in Extractors |-> NoTree] /\ trash = [p \in Extractors |-> NoTree]
      /\ ep = [p \in Extractors |-> "cold"] /\ both = FALSE /\ cut = FALSE
  BY DEF Init, ExtractInit
<1>4. TreeTypes
  BY <1>2, <1>3, TreeKinds DEF TreeTypes, Labels
<1>5. SomebodyIsAtIt
  BY <1>3, BuiltinsAssumption DEF SomebodyIsAtIt, AtIt
<1> QED
  BY <1>3, <1>4, <1>5 DEF TreeInv, NeverPartial, TempWhole, OneStale, TwoAdopt, TwoFind, Excused,
       LeavesNothing, OffIsCold, TakenAway

LEMMA TreesNext ==
  ASSUME TreeInv, InTurn, TreeMove
  PROVE  TreeInv'
<1> USE TreeKinds DEF History, TreeInv, TreeTypes, NeverPartial, TempWhole, OneStale, TwoAdopt, TwoFind, Excused,
      LeavesNothing, SomebodyIsAtIt, OffIsCold, TakenAway
<1>1. CASE UNCHANGED treeVars
  BY <1>1 DEF treeVars
<1>2. ASSUME NEW p \in Extractors, LookAtTree(p), extractFault # "off" PROVE TreeInv'
  <2>1. /\ ep[p] = "cold" /\ ep' = [ep EXCEPT ![p] = IF final = Whole THEN "there" ELSE "write"]
        /\ UNCHANGED <<extractFault, final, temp, trash, both, cut>>
    BY <1>2 DEF LookAtTree, GoesTo, Reusable
  <2>2. TreeTypes' /\ NeverPartial' /\ TempWhole'
    BY <2>1 DEF Labels
  <2>3. OneStale'
    BY <2>1
  <2>4. TwoAdopt' /\ TwoFind'
    BY <2>1 DEF Few
  <2>5. Excused' /\ LeavesNothing'
    BY <2>1 DEF Few
  <2>6. SomebodyIsAtIt' /\ OffIsCold'
    BY <2>1, <1>2 DEF AtIt
  <2>8. TakenAway'
    BY <2>1
  <2> QED BY <2>2, <2>3, <2>4, <2>5, <2>6, <2>8
<1>3. ASSUME NEW p \in Extractors, WriteFile(p), extractFault # "off" PROVE TreeInv'
  <2>1. PICK t \in Trees, l \in {"write", "evict", "fail"} : ep[p] = "write"
        /\ ep' = [ep EXCEPT ![p] = l] /\ temp' = [temp EXCEPT ![p] = t]
        /\ (l = "evict" => t = Whole) /\ (l = "fail" => extractFault = "disk")
        /\ UNCHANGED <<extractFault, final, trash, both, cut>>
    <3>1. ep[p] = "write" /\ UNCHANGED <<extractFault, final, trash, both, cut>>
      BY <1>3 DEF WriteFile
    <3>2. ASSUME NEW f \in TreeFiles \ temp[p].files,
                 temp' = [temp EXCEPT ![p] = Tree(@.files \cup {f}, FALSE)], UNCHANGED ep
          PROVE  /\ Tree(temp[p].files \cup {f}, FALSE) \in Trees /\ ep' = [ep EXCEPT ![p] = "write"]
                 /\ temp' = [temp EXCEPT ![p] = Tree(temp[p].files \cup {f}, FALSE)]
      <4>1. temp[p].files \cup {f} \in SUBSET TreeFiles
        OBVIOUS
      <4> QED BY <3>1, <3>2, <4>1
    <3>3. CASE temp' = [temp EXCEPT ![p] = Whole] /\ GoesTo(p, "evict")
      BY <3>1, <3>3 DEF GoesTo
    <3>4. ASSUME extractFault = "disk", GoesTo(p, "fail"), UNCHANGED temp
          PROVE  ep' = [ep EXCEPT ![p] = "fail"] /\ temp' = [temp EXCEPT ![p] = temp[p]] /\ temp[p] \in Trees
      BY <3>4 DEF GoesTo
    <3> QED BY <1>3, <3>1, <3>2, <3>3, <3>4 DEF WriteFile
  <2>2. TreeTypes' /\ NeverPartial' /\ TempWhole'
    BY <2>1 DEF Labels
  <2>3. OneStale'
    BY <2>1
  <2>4. TwoAdopt' /\ TwoFind'
    BY <2>1 DEF Few
  <2>5. Excused' /\ LeavesNothing'
    BY <2>1 DEF Few
  <2>6. SomebodyIsAtIt' /\ OffIsCold'
    BY <2>1, <1>3 DEF AtIt
  <2>8. TakenAway'
    BY <2>1
  <2> QED BY <2>2, <2>3, <2>4, <2>5, <2>6, <2>8
<1>4. ASSUME NEW p \in Extractors, LookForStale(p), extractFault # "off" PROVE TreeInv'
  <2>1. /\ ep[p] = "evict" /\ ep' = [ep EXCEPT ![p] = IF Partial(final) THEN "trash" ELSE "publish"]
        /\ both' = (both \/ (Partial(final) /\ \E q \in Extractors \ {p} : ep[q] = "trash"))
        /\ UNCHANGED <<extractFault, final, temp, trash, cut>>
    BY <1>4 DEF LookForStale, GoesTo
  <2>2. TreeTypes' /\ NeverPartial' /\ TempWhole'
    BY <2>1 DEF Labels
  <2>3. OneStale'
    BY <2>1
  <2>4. TwoAdopt' /\ TwoFind'
    BY <2>1 DEF Few
  <2>5. Excused' /\ LeavesNothing'
    BY <2>1 DEF Few
  <2>6. SomebodyIsAtIt' /\ OffIsCold'
    BY <2>1, <1>4 DEF AtIt
  <2>8. TakenAway'
    BY <2>1
  <2> QED BY <2>2, <2>3, <2>4, <2>5, <2>6, <2>8
<1>5. ASSUME NEW p \in Extractors, Trash(p), extractFault # "off" PROVE TreeInv'
  <2>1. /\ ep[p] = "trash" /\ ep' = [ep EXCEPT ![p] = "sweep"]
        /\ trash' = [trash EXCEPT ![p] = final] /\ final' = NoTree
        /\ UNCHANGED <<extractFault, temp, both, cut>>
    BY <1>5 DEF Trash, GoesTo
  <2>2. TreeTypes' /\ NeverPartial' /\ TempWhole'
    BY <2>1 DEF Labels
  <2>3. OneStale'
    BY <2>1
  <2>4. TwoAdopt' /\ TwoFind'
    BY <2>1 DEF Few
  <2>5. Excused' /\ LeavesNothing'
    BY <2>1 DEF Few
  <2>6. SomebodyIsAtIt' /\ OffIsCold'
    BY <2>1, <1>5 DEF AtIt
  <2>8. TakenAway'
    BY <2>1
  <2> QED BY <2>2, <2>3, <2>4, <2>5, <2>6, <2>8
<1>6. ASSUME NEW p \in Extractors, Sweep(p), extractFault # "off" PROVE TreeInv'
  <2>1. /\ ep[p] = "sweep" /\ ep' = [ep EXCEPT ![p] = "publish"] /\ trash' = [trash EXCEPT ![p] = NoTree]
        /\ UNCHANGED <<extractFault, final, temp, both, cut>>
    BY <1>6 DEF Sweep, GoesTo
  <2>2. TreeTypes' /\ NeverPartial' /\ TempWhole'
    BY <2>1 DEF Labels
  <2>3. OneStale'
    BY <2>1
  <2>4. TwoAdopt' /\ TwoFind'
    BY <2>1 DEF Few
  <2>5. Excused' /\ LeavesNothing'
    BY <2>1 DEF Few
  <2>6. SomebodyIsAtIt' /\ OffIsCold'
    BY <2>1, <1>6 DEF AtIt
  <2>8. TakenAway'
    BY <2>1
  <2> QED BY <2>2, <2>3, <2>4, <2>5, <2>6, <2>8
<1>7. ASSUME NEW p \in Extractors, PublishTree(p), extractFault # "off" PROVE TreeInv'
  <2>1. /\ ep[p] = "publish" /\ final' = Whole
        /\ ep' = [ep EXCEPT ![p] = IF final = Whole THEN "adopt" ELSE "done"]
        /\ temp' = IF final = Whole THEN temp ELSE [temp EXCEPT ![p] = NoTree]
        /\ UNCHANGED <<extractFault, trash, both, cut>>
    BY <1>7 DEF PublishTree, GoesTo
  <2>2. TreeTypes' /\ NeverPartial' /\ TempWhole'
    BY <2>1 DEF Labels
  <2>3. OneStale'
    BY <2>1
  <2>4. TwoAdopt' /\ TwoFind'
    BY <2>1 DEF Few
  <2>5. Excused' /\ LeavesNothing'
    BY <2>1 DEF Few
  <2>6. SomebodyIsAtIt' /\ OffIsCold'
    BY <2>1, <1>7 DEF AtIt
  <2>8. TakenAway'
    BY <2>1
  <2> QED BY <2>2, <2>3, <2>4, <2>5, <2>6, <2>8
<1>8. ASSUME NEW p \in Extractors, Adopt(p), extractFault # "off" PROVE TreeInv'
  <2>1. /\ ep[p] = "adopt" /\ ep' = [ep EXCEPT ![p] = IF final = Whole THEN "done" ELSE "fail"]
        /\ UNCHANGED <<extractFault, final, temp, trash, both, cut>>
    BY <1>8 DEF Adopt, GoesTo
  <2>2. TreeTypes' /\ NeverPartial' /\ TempWhole'
    BY <2>1 DEF Labels
  <2>3. OneStale'
    BY <2>1
  <2>4. TwoAdopt' /\ TwoFind'
    BY <2>1 DEF Few
  <2>5. Excused' /\ LeavesNothing'
    BY <2>1 DEF Few
  <2>6. SomebodyIsAtIt' /\ OffIsCold'
    BY <2>1, <1>8 DEF AtIt
  <2>8. TakenAway'
    BY <2>1
  <2> QED BY <2>2, <2>3, <2>4, <2>5, <2>6, <2>8
<1>9. ASSUME NEW p \in Extractors, CleanUp(p), extractFault # "off" PROVE TreeInv'
  <2>1. /\ ep[p] \in {"done", "fail"} /\ temp' = [temp EXCEPT ![p] = NoTree]
        /\ ep' = [ep EXCEPT ![p] = IF ep[p] = "done" THEN "there" ELSE "failed"]
        /\ UNCHANGED <<extractFault, final, trash, both, cut>>
    BY <1>9 DEF CleanUp, GoesTo, Cleaned
  <2>2. TreeTypes' /\ NeverPartial' /\ TempWhole'
    BY <2>1 DEF Labels
  <2>3. OneStale'
    BY <2>1
  <2>4. TwoAdopt' /\ TwoFind'
    BY <2>1 DEF Few
  <2>5. Excused' /\ LeavesNothing'
    BY <2>1 DEF Few
  <2>6. SomebodyIsAtIt' /\ OffIsCold'
    BY <2>1, <1>9 DEF AtIt
  <2>8. TakenAway'
    BY <2>1
  <2> QED BY <2>2, <2>3, <2>4, <2>5, <2>6, <2>8
<1>10. ASSUME NEW p \in Extractors, ExtractKill(p) PROVE TreeInv'
  <2>1. /\ ep[p] # "there" /\ ep' = [ep EXCEPT ![p] = "gone"] /\ cut' = TRUE
        /\ extractFault = "crash" /\ extractFault' = "none" /\ UNCHANGED <<final, temp, trash, both>>
    BY <1>10 DEF ExtractKill, Extracted, GoesTo
  <2>2. TreeTypes' /\ NeverPartial' /\ TempWhole'
    BY <2>1 DEF Labels
  <2>3. OneStale'
    BY <2>1
  <2>4. TwoAdopt' /\ TwoFind'
    BY <2>1 DEF Few
  <2>5. Excused' /\ LeavesNothing'
    BY <2>1 DEF Few
  <2>6. SomebodyIsAtIt' /\ OffIsCold'
    BY <2>1 DEF AtIt
  <2>8. TakenAway'
    BY <2>1
  <2> QED BY <2>2, <2>3, <2>4, <2>5, <2>6, <2>8
<1>11. ASSUME NEW p \in Extractors, Ended(p), ExtractAgain(p) PROVE TreeInv'
  <2>1. /\ ep' = [ep EXCEPT ![p] = "cold"]
        /\ temp' = [temp EXCEPT ![p] = NoTree] /\ trash' = [trash EXCEPT ![p] = NoTree]
        /\ UNCHANGED <<extractFault, final, both, cut>>
    BY <1>11 DEF ExtractAgain, GoesTo
  <2>7. ep[p] \notin {"sweep", "publish"}
    BY <1>11, ProvisionAssumption DEF InTurn, Ended, Ready, Running, Extracted, GivenUp
  <2>2. TreeTypes' /\ NeverPartial' /\ TempWhole'
    BY <2>1 DEF Labels
  <2>3. OneStale'
    BY <2>1
  <2>4. TwoAdopt' /\ TwoFind'
    BY <2>1 DEF Few
  <2>5. Excused' /\ LeavesNothing'
    BY <2>1 DEF Few
  <2>6. SomebodyIsAtIt' /\ OffIsCold'
    BY <2>1 DEF AtIt
  <2>8. TakenAway'
    BY <2>1, <2>7
  <2> QED BY <2>2, <2>3, <2>4, <2>5, <2>6, <2>8
<1> QED BY <1>1, <1>2, <1>3, <1>4, <1>5, <1>6, <1>7, <1>8, <1>9, <1>10, <1>11 DEF TreeMove, ExtractStep

LEMMA TreesHold == TreeInv => BuiltinsWhole /\ ExtractedOnce
  BY BuiltinsAssumption DEF TreeInv, TreeTypes, TakenAway, Excused, LeavesNothing, SomebodyIsAtIt, OffIsCold, Few,
    BuiltinsWhole, ExtractedOnce, Extracted, GivenUp, AtIt

-----------------------------------------------------------------------------
(* The module store.                                                       *)
Lists == UNION {{w.wanted[k] : k \in DOMAIN w.wanted} : w \in StoreWorlds}
\* A version is of a path or of an archive.
Kinds ==
  CHOOSE kinds \in [Versions -> {"local", "remote"}] :
    \A w \in StoreWorlds : \A k \in DOMAIN w.wanted : \A i \in DOMAIN w.wanted[k] :
      LET d == w.wanted[k][i]
      IN d.kind = kinds[d.version] /\ (d.kind = "local" => d.integrity)
TrueTo(t, v) == t = IF Kinds[v] = "local" THEN Link(v) ELSE Dir(v, Entries)

Working == {"delete", "present", "fetch", "expand", "unpack", "mark"}
Dirs ==
  [kind : {"none", "link", "dir"}, of : Versions \cup {NoVersion, "mixed"}, entries : SUBSET Entries]
Holding ==
  [i : Nat \ {0}, url : Nat, unpacked : Nat, list : Lists \cup {<<>>}, late : SUBSET Versions]
Archives == [of : Versions \cup {NoVersion}, whole : BOOLEAN, by : SUBSET Commands]
StoreTypes ==
  /\ wanted \in Seq(Seq(Dependency)) /\ \A k \in DOMAIN wanted : wanted[k] \in Lists
  /\ cas \in [Versions -> Archives] /\ dir \in [Deps -> Dirs]
  /\ marker \in [Deps -> Versions \cup {NoVersion}]
  /\ sp \in [Commands -> {"idle", "dep", "loaded", "stopped", "gone"} \cup Working]
  /\ st \in [Commands -> Holding] /\ used \in [Commands -> [Deps -> Dirs]]
  /\ crowded \in BOOLEAN /\ turned \in BOOLEAN
OwnArchives == \A v \in Versions : cas[v].of \in {NoVersion, v}
AtADep == \A p \in Commands : sp[p] \in Working => st[p].i \in DOMAIN st[p].list
OneExpands == ~crowded => \A p, q \in Expanding(sp) : p = q

\* What a marker says is true of the module, unless its expansion is under way.
Kept(n) == marker[n] # NoVersion => dir[n].kind = "none" \/ TrueTo(dir[n], marker[n])
WorksOn(p, n) == sp[p] \in {"delete", "unpack", "mark"} /\ Dep(p).name = n
MarkersKept == \A n \in Deps : Kept(n) \/ \E p \in Commands : WorksOn(p, n)
\* What a command has come to is in place.
Stands(p) ==
  /\ sp[p] \in {"dep"} \cup Working =>
       \A k \in DOMAIN st[p].list :
         k < st[p].i => TrueTo(dir[st[p].list[k].name], st[p].list[k].version)
  /\ sp[p] \in {"dep", "delete", "present", "fetch", "expand"} => st[p].unpacked = 0
  /\ sp[p] = "present" => dir[Dep(p).name].kind = "none" \/ marker[Dep(p).name] = Dep(p).version
  /\ sp[p] \in {"fetch", "expand"} => dir[Dep(p).name].kind = "none" /\ Dep(p).kind = "remote"
  /\ sp[p] \in {"expand", "unpack"} => Dep(p).integrity
  /\ sp[p] = "unpack" =>
       Dep(p).kind = "remote" /\ dir[Dep(p).name] = Dir(Dep(p).version, 1..st[p].unpacked)
  /\ sp[p] = "mark" =>
       /\ TrueTo(dir[Dep(p).name], Dep(p).version)
       /\ Dep(p).integrity \/ marker[Dep(p).name] = Dep(p).version
  /\ sp[p] = "loaded" => WholeFor(p)
InPlace == ~crowded /\ ~turned => MarkersKept /\ \A p \in Commands : Stands(p)
StoreInv == StoreTypes /\ OwnArchives /\ AtADep /\ OneExpands /\ InPlace

\* The lists of modules: a name once, and a kind for a version.
LEMMA ListsAre ==
  ASSUME NEW list \in Lists \cup {<<>>}
  PROVE  /\ list \in Seq(Dependency)
         /\ \A i, j \in DOMAIN list : list[i].name = list[j].name => i = j
         /\ \A i \in DOMAIN list :
              /\ list[i] \in Dependency /\ list[i].kind = Kinds[list[i].version]
              /\ list[i].kind = "local" => list[i].integrity
<1>1. CASE list = <<>>
  BY <1>1
<1>2. CASE list \in Lists
  <2>1. PICK w \in StoreWorlds : \E k \in DOMAIN w.wanted : list = w.wanted[k]
    BY <1>2 DEF Lists
  <2>2. Modules(list)
    BY <2>1, StoreAssumption
  <2>3. list \in Seq(Dependency) /\ \A i \in DOMAIN list : list[i] \in Dependency
    BY <2>2 DEF Modules
  <2>4. \A x \in StoreWorlds : \A j \in DOMAIN x.wanted : \A i \in DOMAIN x.wanted[j] :
          LET d == x.wanted[j][i]
          IN d.kind = Kinds[d.version] /\ (d.kind = "local" => d.integrity)
    <3> DEFINE Right(kinds) ==
          \A x \in StoreWorlds : \A j \in DOMAIN x.wanted : \A i \in DOMAIN x.wanted[j] :
            LET d == x.wanted[j][i]
            IN d.kind = kinds[d.version] /\ (d.kind = "local" => d.integrity)
    <3>1. \E kinds \in [Versions -> {"local", "remote"}] : Right(kinds)
      BY StoreAssumption
    <3>2. Kinds = CHOOSE kinds \in [Versions -> {"local", "remote"}] : Right(kinds)
      BY DEF Kinds
    <3> HIDE DEF Right
    <3>3. Right(Kinds)
      BY <3>1, <3>2
    <3> QED BY <3>3 DEF Right
  <2> QED BY <2>1, <2>2, <2>3, <2>4 DEF Modules
<1> QED BY <1>1, <1>2

LEMMA TwoAreMany ==
  ASSUME NEW T \in SUBSET Commands, NEW p \in T, NEW q \in T, Cardinality(T) <= 1
  PROVE  p = q
<1>1. IsFiniteSet(T)
  BY StoreAssumption, FS_Subset
<1>2. IsFiniteSet(T \ {p}) /\ Cardinality(T \ {p}) = Cardinality(T) - 1 /\ Cardinality(T) \in Nat
  BY <1>1, FS_RemoveElement, FS_CardinalityType
<1>3. Cardinality(T \ {p}) = 0
  BY <1>2, FS_CardinalityType
<1>4. T \ {p} = {}
  BY <1>2, <1>3, FS_EmptySet
<1> QED BY <1>4

LEMMA StoreBegins == Init => StoreInv
<1> SUFFICES ASSUME Init PROVE StoreInv
  OBVIOUS
<1>1. PICK w \in StoreWorlds : wanted = w.wanted
  BY DEF Init, StoreInit
<1>2. wanted \in Seq(Seq(Dependency))
  BY <1>1, StoreAssumption
<1>3. \A k \in DOMAIN wanted : wanted[k] \in Lists
  BY <1>1 DEF Lists
<1>4. Nothing \in Dirs /\ NoStore \in Holding /\ NoArchive \in Archives
  BY DEF Nothing, Dirs, NoStore, Holding, NoArchive, Archives
<1>5. /\ cas = [v \in Versions |-> NoArchive]
      /\ dir = [d \in Deps |-> Nothing] /\ marker = [d \in Deps |-> NoVersion]
      /\ sp = [p \in Commands |-> "idle"] /\ st = [p \in Commands |-> NoStore]
      /\ used = [p \in Commands |-> [d \in Deps |-> Nothing]]
      /\ crowded = FALSE /\ turned = FALSE
  BY DEF Init, StoreInit
<1>6. StoreTypes
  BY <1>2, <1>3, <1>4, <1>5 DEF StoreTypes
<1>7. OwnArchives
  BY <1>5 DEF OwnArchives, NoArchive
<1> QED
  BY <1>5, <1>6, <1>7 DEF StoreInv, AtADep, OneExpands, Expanding, InPlace, MarkersKept, Kept, Stands, Working

\* The dep a command works at.
LEMMA DepIs ==
  ASSUME StoreInv, NEW p \in Commands, st[p].i \in DOMAIN st[p].list
  PROVE  /\ Dep(p) \in Dependency /\ Dep(p).kind = Kinds[Dep(p).version]
         /\ Dep(p).kind = "local" => Dep(p).integrity
         /\ \A k \in DOMAIN st[p].list :
              k < st[p].i => st[p].list[k].name \in Deps \ {Dep(p).name}
<1>1. st[p].list \in Lists \cup {<<>>} /\ st[p].i \in Nat
  BY DEF StoreInv, StoreTypes, Holding
<1>2. \A k \in DOMAIN st[p].list : st[p].list[k].name \in Deps /\ k \in Nat
  <2>1. st[p].list \in Seq(Dependency)
    BY <1>1, ListsAre
  <2>2. \A k \in DOMAIN st[p].list : st[p].list[k] \in Dependency /\ k \in Nat
    BY <2>1
  <2> QED BY <2>2 DEF Dependency
<1>3. \A k \in DOMAIN st[p].list : k # st[p].i => st[p].list[k].name # Dep(p).name
  BY <1>1, ListsAre DEF Dep
<1>4. Dep(p) \in Dependency /\ Dep(p).kind = Kinds[Dep(p).version] /\ (Dep(p).kind = "local" => Dep(p).integrity)
  BY <1>1, ListsAre DEF Dep
<1> QED BY <1>1, <1>2, <1>3, <1>4

\* While one command expands alone, the markers it is not at say the truth.
LEMMA KeptBeside ==
  ASSUME StoreInv, ~crowded, ~turned, NEW p \in Expanding(sp), NEW m \in Deps, ~WorksOn(p, m)
  PROVE  Kept(m)
<1>1. PICK q \in Commands : Kept(m) \/ WorksOn(q, m)
  BY StoreAssumption DEF StoreInv, InPlace, MarkersKept, Expanding
<1>2. CASE WorksOn(q, m)
  <2>1. q \in Expanding(sp)
    BY <1>2 DEF WorksOn, Expanding
  <2> QED BY <1>2, <2>1 DEF StoreInv, OneExpands
<1> QED BY <1>1, <1>2

\* When one command alone changes the module it is at, what the others stand on stays.
LEMMA WorkKeeps ==
  ASSUME StoreInv, NEW p \in Commands, sp[p] \in Working, NEW n, n = Dep(p).name, n \in Deps,
         \A q \in Commands \ {p} : sp'[q] = sp[q] /\ st'[q] = st[q],
         used' = used, \A m \in Deps \ {n} : dir'[m] = dir[m] /\ marker'[m] = marker[m],
         ~crowded' => ~crowded, ~turned' => ~turned,
         ~crowded /\ ~turned /\ ~turned' => Stands(p)' /\ (Kept(n)' \/ WorksOn(p, n)')
  PROVE  InPlace'
<1> SUFFICES ASSUME ~crowded', ~turned' PROVE MarkersKept' /\ \A q \in Commands : Stands(q)'
  BY DEF InPlace
<1>1. ~crowded /\ ~turned /\ \A q \in Commands : Stands(q)
  BY DEF StoreInv, InPlace
<1>2. p \in Expanding(sp)
  BY DEF Expanding, Working
<1>3. ASSUME NEW m \in Deps PROVE Kept(m)' \/ \E q \in Commands : WorksOn(q, m)'
  <2>1. CASE m = n
    BY <1>1, <2>1
  <2>2. CASE m # n
    <3>1. Kept(m)
      BY <1>1, <1>2, <2>2, KeptBeside DEF WorksOn
    <3> QED BY <2>2, <3>1 DEF Kept, TrueTo
  <2> QED BY <2>1, <2>2
<1>4. ASSUME NEW q \in Commands PROVE Stands(q)'
  <2>1. CASE q = p
    BY <1>1, <2>1
  <2>2. CASE q # p
    <3>1. q \notin Expanding(sp)
      BY <1>1, <1>2, <2>2 DEF StoreInv, OneExpands
    <3>2. sp'[q] \in {"idle", "loaded", "stopped", "gone"} /\ sp'[q] = sp[q] /\ st'[q] = st[q]
      BY <2>2, <3>1 DEF Expanding
    <3>3. sp[q] = "loaded" => WholeFor(q)
      BY <1>1 DEF Stands
    <3> QED BY <3>2, <3>3 DEF Stands, Working, WholeFor
  <2> QED BY <2>1, <2>2
<1> QED BY <1>3, <1>4 DEF MarkersKept

\* And when no module changes.
LEMMA StandingKeeps ==
  ASSUME StoreInv, NEW p \in Commands, UNCHANGED <<dir, marker>>,
         \A q \in Commands \ {p} : sp'[q] = sp[q] /\ st'[q] = st[q] /\ used'[q] = used[q],
         ~crowded' => ~crowded, ~turned' => ~turned, \A m \in Deps : WorksOn(p, m) => WorksOn(p, m)',
         ~crowded /\ ~turned /\ ~turned' => Stands(p)'
  PROVE  InPlace'
<1> SUFFICES ASSUME ~crowded', ~turned' PROVE MarkersKept' /\ \A q \in Commands : Stands(q)'
  BY DEF InPlace
<1>1. ~crowded /\ ~turned /\ MarkersKept /\ \A q \in Commands : Stands(q)
  BY DEF StoreInv, InPlace
<1>2. ASSUME NEW q \in Commands \ {p} PROVE Dep(q)' = Dep(q)
  BY DEF Dep
<1>3. ASSUME NEW m \in Deps PROVE Kept(m)' \/ \E q \in Commands : WorksOn(q, m)'
  <2>1. CASE Kept(m)
    BY <2>1 DEF Kept, TrueTo
  <2>2. ASSUME NEW q \in Commands, WorksOn(q, m) PROVE WorksOn(q, m)'
    BY <1>2, <2>2 DEF WorksOn
  <2> QED BY <1>1, <2>1, <2>2 DEF MarkersKept
<1>4. ASSUME NEW q \in Commands PROVE Stands(q)'
  <2>1. CASE q = p
    BY <1>1, <2>1
  <2>2. CASE q # p
    <3>1. Stands(q) /\ Dep(q)' = Dep(q)
      BY <1>1, <1>2, <2>2
    <3> QED BY <2>2, <3>1 DEF Stands, WholeFor, TrueTo
  <2> QED BY <2>1, <2>2
<1> QED BY <1>3, <1>4 DEF MarkersKept

LEMMA StillOne ==
  ASSUME StoreInv, Expanding(sp') \subseteq Expanding(sp), ~crowded' => ~crowded
  PROVE  OneExpands'
  BY DEF StoreInv, OneExpands, Expanding

LEMMA EnterKeeps ==
  ASSUME StoreInv, NEW p \in Commands, Enter(p)
  PROVE  StoreInv'
<1> USE DEF Enter, Goes, Others
<1>1. Head(wanted) \in Lists
  BY DEF StoreInv, StoreTypes
<1> DEFINE begun == [NoStore EXCEPT !.list = Head(wanted)]
<1>2. begun.i = 1 /\ begun.unpacked = 0 /\ begun.list = Head(wanted)
  BY DEF NoStore
<1>3. begun \in Holding
  BY <1>1 DEF NoStore, Holding
<1> HIDE DEF begun
<1>10. st' = [st EXCEPT ![p] = begun] /\ sp' = [sp EXCEPT ![p] = "dep"] /\ UNCHANGED <<wanted, cas, dir, marker, used, turned>>
       /\ crowded' \in BOOLEAN
  BY DEF begun, Crowd, StoreInv, StoreTypes
<1>4. StoreTypes' /\ AtADep' /\ OwnArchives'
  <2>1. StoreTypes'
    BY <1>3, <1>10 DEF StoreInv, StoreTypes
  <2>2. AtADep'
    BY <1>10 DEF StoreInv, StoreTypes, AtADep, Working
  <2>3. OwnArchives'
    BY <1>10 DEF StoreInv, OwnArchives
  <2> QED BY <2>1, <2>2, <2>3
<1>5. OneExpands'
  <2>1. SUFFICES ASSUME ~crowded' PROVE \A q, r \in Expanding(sp)' : q = r
    BY DEF OneExpands
  <2>2. Expanding(sp)' \in SUBSET Commands /\ ~(Cardinality(Expanding(sp)') > 1)
    BY <2>1 DEF Crowd, Expanding
  <2>3. Cardinality(Expanding(sp)') \in Nat
    BY <2>2, StoreAssumption, FS_Subset, FS_CardinalityType
  <2> HIDE DEF Enter
  <2> QED BY <2>2, <2>3, TwoAreMany
<1>6. sp'[p] = "dep" /\ st'[p].i = 1 /\ st'[p].unpacked = 0 /\ st'[p].list = Head(wanted)
  BY <1>2, <1>10 DEF StoreInv, StoreTypes
<1>7. Head(wanted) \in Seq(Dependency)
  BY <1>1, ListsAre
<1>8. Stands(p)'
  BY <1>6, <1>7 DEF Stands
<1>9. InPlace'
  <2>1. \A m \in Deps : ~WorksOn(p, m)
    BY DEF WorksOn
  <2>2. ~crowded' => ~crowded
    BY DEF Crowd
  <2>3. \A q \in Commands \ {p} : sp'[q] = sp[q] /\ st'[q] = st[q] /\ used'[q] = used[q]
    BY DEF StoreInv, StoreTypes
  <2> QED BY <1>8, <2>1, <2>2, <2>3, StandingKeeps
<1> QED BY <1>4, <1>5, <1>9 DEF StoreInv

LEMMA LookAtMarkerKeeps ==
  ASSUME StoreInv, NEW p \in Commands, LookAtMarker(p)
  PROVE  StoreInv'
<1>1. /\ sp[p] = "dep" /\ UNCHANGED <<storeFault, wanted, used, cas, dir, marker, st, crowded, turned>>
      /\ \E l \in {"present", "delete"} : sp' = [sp EXCEPT ![p] = l]
  BY DEF LookAtMarker, Goes, Others
<1>2. st[p].list \in Lists \cup {<<>>} /\ st[p].i \in Nat \ {0}
  BY DEF StoreInv, StoreTypes, Holding
<1>3. st[p].i \in DOMAIN st[p].list
  <2>1. st[p].list \in Seq(Dependency) /\ st[p].i <= Len(st[p].list)
    BY <1>2, ListsAre DEF LookAtMarker
  <2> QED BY <1>2, <2>1
<1>4. StoreTypes' /\ AtADep' /\ OwnArchives'
  BY <1>1, <1>3 DEF StoreInv, StoreTypes, AtADep, OwnArchives, Working
<1>5. OneExpands'
  BY <1>1, StillOne DEF Expanding, StoreInv, StoreTypes
<1>6. sp'[p] = "present" => dir[Dep(p).name].kind = "none" \/ marker[Dep(p).name] = Dep(p).version
  BY DEF LookAtMarker, Goes, Vouches, StoreInv, StoreTypes
<1>7. ASSUME Stands(p) PROVE Stands(p)'
  <2>1. Dep(p)' = Dep(p) /\ sp'[p] \in {"present", "delete"}
    BY <1>1 DEF Dep, StoreInv, StoreTypes
  <2> QED BY <1>1, <1>6, <1>7, <2>1 DEF Stands, TrueTo
<1>8. InPlace'
  <2>1. \A m \in Deps : ~WorksOn(p, m)
    BY <1>1 DEF WorksOn
  <2>2. \A q \in Commands \ {p} : sp'[q] = sp[q] /\ st'[q] = st[q] /\ used'[q] = used[q]
    BY <1>1 DEF StoreInv, StoreTypes
  <2>3. ~crowded /\ ~turned => Stands(p)'
    BY <1>7 DEF StoreInv, InPlace
  <2> QED BY <1>1, <2>1, <2>2, <2>3, StandingKeeps
<1> QED BY <1>4, <1>5, <1>8 DEF StoreInv

LEMMA DeleteKeeps ==
  ASSUME StoreInv, NEW p \in Commands, Delete(p)
  PROVE  StoreInv'
<1> DEFINE n == Dep(p).name
<1>1. sp[p] = "delete" /\ UNCHANGED <<storeFault, wanted, used, cas, marker, st, crowded, turned>>
  BY DEF Delete, Others
<1>2. st[p].i \in DOMAIN st[p].list /\ n \in Deps
  <2>1. st[p].i \in DOMAIN st[p].list
    BY <1>1 DEF StoreInv, AtADep, Working
  <2> QED BY <2>1, DepIs DEF Dependency
<1>3. PICK t \in Dirs : /\ dir' = [dir EXCEPT ![n] = t]
                        /\ UNCHANGED sp \/ (t = Nothing /\ sp' = [sp EXCEPT ![p] = "present"])
  <2>1. PICK es \in SUBSET dir[n].entries :
          IF dir[n].kind = "dir" /\ es # {} /\ es # dir[n].entries
          THEN dir' = [dir EXCEPT ![n].entries = es] /\ UNCHANGED sp
          ELSE es = {} /\ dir' = [dir EXCEPT ![n] = Nothing] /\ Goes(p, "present")
    BY DEF Delete
  <2>2. dir[n] \in Dirs /\ [dir[n] EXCEPT !.entries = es] \in Dirs /\ Nothing \in Dirs
    <3>1. dir \in [Deps -> Dirs] /\ n \in Deps
      BY <1>2 DEF StoreInv, StoreTypes
    <3>2. dir[n] \in Dirs /\ es \in SUBSET Entries
      BY <3>1 DEF Dirs
    <3>3. Nothing \in Dirs
      BY DEF Dirs, Nothing
    <3> QED BY <3>2, <3>3 DEF Dirs
  <2>3. CASE dir' = [dir EXCEPT ![n].entries = es] /\ UNCHANGED sp
    BY <2>2, <2>3
  <2>4. CASE dir' = [dir EXCEPT ![n] = Nothing] /\ Goes(p, "present")
    BY <2>2, <2>4 DEF Goes
  <2> QED BY <2>1, <2>3, <2>4
<1>4. sp'[p] \in {"delete", "present"} /\ (sp'[p] = "present" => t = Nothing)
  BY <1>1, <1>3 DEF StoreInv, StoreTypes
<1>5. StoreTypes' /\ AtADep' /\ OwnArchives'
  BY <1>1, <1>2, <1>3 DEF StoreInv, StoreTypes, AtADep, OwnArchives, Working
<1>6. OneExpands'
  BY <1>1, <1>3, StillOne DEF Expanding, StoreInv, StoreTypes
<1>7. dir'[n] = t /\ (\A m \in Deps \ {n} : dir'[m] = dir[m]) /\ Dep(p)' = Dep(p)
  BY <1>1, <1>2, <1>3 DEF StoreInv, StoreTypes, Dep
<1>8. ASSUME Stands(p) PROVE Stands(p)'
  <2>1. \A k \in DOMAIN st[p].list : k < st[p].i => st[p].list[k].name \in Deps \ {n}
    BY <1>2, DepIs
  <2>2. sp[p] \in {"dep"} \cup Working /\ st' = st
    BY <1>1 DEF Working
  <2>3. \A k \in DOMAIN st'[p].list :
          k < st'[p].i => TrueTo(dir'[st'[p].list[k].name], st'[p].list[k].version)
    BY <1>7, <1>8, <2>1, <2>2 DEF Stands
  <2>4. st'[p].unpacked = 0
    BY <1>1, <1>8 DEF Stands
  <2>5. sp'[p] = "present" => dir'[n].kind = "none"
    BY <1>4, <1>7 DEF Nothing
  <2> QED BY <1>4, <1>7, <2>3, <2>4, <2>5 DEF Stands, TrueTo
<1>9. Kept(n)' \/ WorksOn(p, n)'
  BY <1>4, <1>7 DEF Kept, WorksOn, Nothing
<1>10. InPlace'
  <2>1. \A q \in Commands \ {p} : sp'[q] = sp[q] /\ st'[q] = st[q]
    BY <1>1, <1>3 DEF StoreInv, StoreTypes
  <2>2. sp[p] \in Working /\ (~crowded /\ ~turned => Stands(p))
    BY <1>1 DEF Working, StoreInv, InPlace
  <2> HIDE DEF n
  <2> QED BY <1>1, <1>2, <1>7, <1>8, <1>9, <2>1, <2>2, WorkKeeps DEF n
<1> QED BY <1>5, <1>6, <1>10 DEF StoreInv

\* What a command works at, and what it has done before.
LEMMA WorkIs ==
  ASSUME StoreInv, NEW p \in Commands, sp[p] \in Working
  PROVE  /\ st[p].i \in DOMAIN st[p].list /\ st[p] \in Holding
         /\ Dep(p) \in Dependency /\ Dep(p).name \in Deps /\ Dep(p).version \in Versions
         /\ Dep(p).version # NoVersion
         /\ Dep(p).kind = Kinds[Dep(p).version] /\ (Dep(p).kind = "local" => Dep(p).integrity)
         /\ \A k \in DOMAIN st[p].list : k < st[p].i => st[p].list[k].name \in Deps \ {Dep(p).name}
         /\ dir[Dep(p).name] \in Dirs /\ cas[Dep(p).version] \in Archives
<1>1. st[p].i \in DOMAIN st[p].list /\ st[p] \in Holding
  BY DEF StoreInv, AtADep, StoreTypes
<1>2. Dep(p) \in Dependency
  BY <1>1, DepIs
<1>3. Dep(p).name \in Deps /\ Dep(p).version \in Versions
  BY <1>2 DEF Dependency
<1>4. Dep(p).version # NoVersion
  BY <1>3, StoreAssumption
<1>5. dir[Dep(p).name] \in Dirs /\ cas[Dep(p).version] \in Archives
  BY <1>3 DEF StoreInv, StoreTypes
<1> QED BY <1>1, <1>2, <1>3, <1>4, <1>5, DepIs

\* The part of Stands about what is done, when only the module at hand changes.
LEMMA DoneStays ==
  ASSUME StoreInv, NEW p \in Commands, sp[p] \in Working, Stands(p),
         st'[p].list = st[p].list, st'[p].i = st[p].i,
         \A m \in Deps \ {Dep(p).name} : dir'[m] = dir[m]
  PROVE  \A k \in DOMAIN st'[p].list :
           k < st'[p].i => TrueTo(dir'[st'[p].list[k].name], st'[p].list[k].version)
<1>1. \A k \in DOMAIN st[p].list : k < st[p].i => st[p].list[k].name \in Deps \ {Dep(p).name}
  BY WorkIs
<1>2. \A k \in DOMAIN st[p].list :
        k < st[p].i => TrueTo(dir[st[p].list[k].name], st[p].list[k].version)
  BY DEF Stands
<1> QED BY <1>1, <1>2

LEMMA PresentKeeps ==
  ASSUME StoreInv, NEW p \in Commands, Present(p)
  PROVE  StoreInv'
<1> DEFINE n == Dep(p).name
           v == Dep(p).version
<1>1. /\ sp[p] = "present" /\ UNCHANGED <<storeFault, wanted, used, cas, marker, st, crowded, turned>>
      /\ sp[p] \in Working
  BY DEF Present, Others, Working
<1>2. n \in Deps /\ v \in Versions /\ v # NoVersion
  BY <1>1, WorkIs
<1>3. PICK l \in {"mark", "expand", "fetch"}, t \in Dirs :
        /\ sp' = [sp EXCEPT ![p] = l] /\ dir' = [dir EXCEPT ![n] = t]
        /\ l = "mark" =>
             \/ t = dir[n] /\ t.kind # "none"
             \/ dir[n].kind = "none" /\ Dep(p).kind = "local" /\ t = Link(v)
        /\ l # "mark" => dir[n].kind = "none" /\ Dep(p).kind = "remote" /\ t = dir[n]
        /\ l = "expand" => Dep(p).integrity
  <2>1. dir[n] \in Dirs /\ dir = [dir EXCEPT ![n] = dir[n]]
    BY <1>2 DEF StoreInv, StoreTypes
  <2>2. CASE dir[n].kind # "none" /\ Goes(p, "mark") /\ UNCHANGED dir
    BY <2>1, <2>2 DEF Goes
  <2>3. CASE dir[n].kind = "none" /\ Dep(p).kind = "local" /\ dir' = [dir EXCEPT ![n] = Link(v)] /\ Goes(p, "mark")
    <3>1. Link(v) \in Dirs
      BY <1>2 DEF Link, Dirs, Entries
    <3> QED BY <2>3, <3>1 DEF Goes
  <2>4. CASE /\ dir[n].kind = "none" /\ Dep(p).kind = "remote" /\ UNCHANGED dir
             /\ Goes(p, IF Dep(p).integrity /\ cas[v].of # NoVersion THEN "expand" ELSE "fetch")
    BY <2>1, <2>4 DEF Goes
  <2> QED BY <2>2, <2>3, <2>4 DEF Present
<1>4. sp'[p] = l /\ dir'[n] = t /\ (\A m \in Deps \ {n} : dir'[m] = dir[m]) /\ Dep(p)' = Dep(p)
  BY <1>1, <1>2, <1>3 DEF StoreInv, StoreTypes, Dep
<1>5. StoreTypes'
  BY <1>1, <1>2, <1>3 DEF StoreInv, StoreTypes, Working
<1>6. AtADep' /\ OwnArchives'
  BY <1>1, <1>3 DEF StoreInv, StoreTypes, AtADep, OwnArchives, Working
<1>7. OneExpands'
  BY <1>1, <1>3, StillOne DEF Expanding, StoreInv, StoreTypes
<1>8. ASSUME ~crowded, ~turned
      PROVE  Stands(p)' /\ (Kept(n)' \/ WorksOn(p, n)')
  <2>1. Stands(p) /\ Kept(n)
    <3>1. p \in Expanding(sp) /\ ~WorksOn(p, n)
      BY <1>1 DEF Expanding, WorksOn
    <3> QED BY <1>2, <1>8, <3>1, KeptBeside DEF StoreInv, InPlace
  <2>2. \A k \in DOMAIN st'[p].list :
          k < st'[p].i => TrueTo(dir'[st'[p].list[k].name], st'[p].list[k].version)
    BY <1>1, <1>4, <2>1, DoneStays
  <2>3. st'[p].unpacked = 0
    BY <1>1, <2>1 DEF Stands
  <2>4. ASSUME l = "mark"
        PROVE  TrueTo(t, v) /\ (Dep(p).integrity \/ marker[n] = v)
    <3>1. CASE t = dir[n] /\ t.kind # "none"
      <4>1. marker[n] = v
        BY <1>1, <2>1, <3>1 DEF Stands
      <4> QED BY <1>2, <2>1, <3>1, <4>1 DEF Kept
    <3>2. CASE dir[n].kind = "none" /\ Dep(p).kind = "local" /\ t = Link(v)
      <4>1. Kinds[v] = "local" /\ Dep(p).integrity
        BY <1>1, <3>2, WorkIs
      <4> QED BY <3>2, <4>1 DEF TrueTo
    <3> QED BY <1>3, <2>4, <3>1, <3>2
  <2>5. Stands(p)'
    BY <1>1, <1>3, <1>4, <2>2, <2>3, <2>4 DEF Stands
  <2>6. Kept(n)' \/ WorksOn(p, n)'
    BY <1>1, <1>3, <1>4, <2>1 DEF Kept, WorksOn, TrueTo
  <2> QED BY <2>5, <2>6
<1>9. InPlace'
  <2>1. \A q \in Commands \ {p} : sp'[q] = sp[q] /\ st'[q] = st[q]
    BY <1>1, <1>3 DEF StoreInv, StoreTypes
  <2> HIDE DEF n
  <2> QED BY <1>1, <1>2, <1>4, <1>8, <2>1, WorkKeeps DEF n
<1> QED BY <1>5, <1>6, <1>7, <1>9 DEF StoreInv

LEMMA FetchKeeps ==
  ASSUME StoreInv, NEW p \in Commands, Fetch(p)
  PROVE  StoreInv'
<1> DEFINE n == Dep(p).name
           v == Dep(p).version
<1>1. /\ sp[p] = "fetch" /\ UNCHANGED <<storeFault, wanted, used, dir, marker, crowded>>
      /\ sp[p] \in Working
  BY DEF Fetch, Working
<1>2. n \in Deps /\ v \in Versions /\ st[p] \in Holding
  BY <1>1, WorkIs
<1>3. PICK l \in {"stopped", "fetch", "expand"}, r \in Holding, c \in Archives :
        /\ sp' = [sp EXCEPT ![p] = l] /\ st' = [st EXCEPT ![p] = r] /\ cas' = [cas EXCEPT ![v] = c]
        /\ r.list = st[p].list /\ r.i = st[p].i /\ r.unpacked = st[p].unpacked
        /\ c.of \in {NoVersion, v} /\ (l = "expand" => Dep(p).integrity) /\ turned' = turned
  <2>1. /\ st = [st EXCEPT ![p] = st[p]] /\ cas = [cas EXCEPT ![v] = cas[v]] /\ cas[v] \in Archives
        /\ cas[v].of \in {NoVersion, v} /\ sp = [sp EXCEPT ![p] = "fetch"]
    BY <1>1, <1>2 DEF StoreInv, StoreTypes, OwnArchives
  <2>2. Fails(p) => sp' = [sp EXCEPT ![p] = "stopped"] /\ turned' = turned
    BY <1>1 DEF Fails, Goes, StoreInv, StoreTypes
  <2>3. CASE Fails(p) /\ UNCHANGED <<st, cas>>
    BY <1>2, <2>1, <2>2, <2>3
  <2>4. CASE st' = [st EXCEPT ![p].url = @ + 1] /\ UNCHANGED <<sp, turned, cas>>
    <3> DEFINE s == [st[p] EXCEPT !.url = @ + 1]
    <3>1. s \in Holding /\ s.list = st[p].list /\ s.i = st[p].i /\ s.unpacked = st[p].unpacked
      BY <1>2 DEF Holding
    <3>2. st' = [st EXCEPT ![p] = s]
      BY <2>4
    <3> HIDE DEF s
    <3> QED BY <2>1, <2>4, <3>1, <3>2
  <2>5. CASE /\ Dep(p).integrity /\ cas' = [cas EXCEPT ![v] = [of |-> v, whole |-> FALSE, by |-> {p}]]
             /\ st' = [st EXCEPT ![p].late = @ \cup {v}] /\ Goes(p, "expand") /\ UNCHANGED turned
    <3> DEFINE s == [st[p] EXCEPT !.late = @ \cup {v}]
               a == [of |-> v, whole |-> FALSE, by |-> {p}]
    <3>1. s \in Holding /\ s.list = st[p].list /\ s.i = st[p].i /\ s.unpacked = st[p].unpacked
      BY <1>2 DEF Holding
    <3>2. a \in Archives /\ a.of = v
      BY <1>2 DEF Archives
    <3>3. st' = [st EXCEPT ![p] = s] /\ cas' = [cas EXCEPT ![v] = a] /\ sp' = [sp EXCEPT ![p] = "expand"]
      BY <2>5 DEF Goes
    <3> HIDE DEF s, a
    <3> QED BY <2>5, <3>1, <3>2, <3>3
  <2> QED BY <2>3, <2>4, <2>5 DEF Fetch, Matches
<1>4. sp'[p] = l /\ st'[p] = r /\ Dep(p)' = Dep(p)
  BY <1>1, <1>2, <1>3 DEF StoreInv, StoreTypes, Dep
<1>5. StoreTypes'
  BY <1>1, <1>2, <1>3 DEF StoreInv, StoreTypes, Working
<1>6. AtADep' /\ OwnArchives'
  <2>1. AtADep'
    BY <1>1, <1>3, <1>4 DEF StoreInv, StoreTypes, AtADep, Working
  <2>2. OwnArchives'
    BY <1>2, <1>3 DEF StoreInv, StoreTypes, OwnArchives
  <2> QED BY <2>1, <2>2
<1>7. OneExpands'
  BY <1>1, <1>3, StillOne DEF Expanding, StoreInv, StoreTypes
<1>8. ASSUME ~crowded, ~turned PROVE Stands(p)'
  <2>1. Stands(p)
    BY <1>8 DEF StoreInv, InPlace
  <2>2. \A k \in DOMAIN st'[p].list :
          k < st'[p].i => TrueTo(dir'[st'[p].list[k].name], st'[p].list[k].version)
    BY <1>1, <1>3, <1>4, <2>1, DoneStays
  <2> QED BY <1>1, <1>3, <1>4, <2>1, <2>2 DEF Stands, TrueTo
<1>9. InPlace'
  <2>1. \A q \in Commands \ {p} : sp'[q] = sp[q] /\ st'[q] = st[q] /\ used'[q] = used[q]
    BY <1>1, <1>3 DEF StoreInv, StoreTypes
  <2>2. \A m \in Deps : ~WorksOn(p, m)
    BY <1>1 DEF WorksOn
  <2> QED BY <1>1, <1>3, <1>8, <2>1, <2>2, StandingKeeps
<1> QED BY <1>5, <1>6, <1>7, <1>9 DEF StoreInv

LEMMA ExpandKeeps ==
  ASSUME StoreInv, NEW p \in Commands, Expand(p)
  PROVE  StoreInv'
<1> DEFINE n == Dep(p).name
           v == Dep(p).version
           t == IF dir[n].kind = "none" THEN Dir(v, {}) ELSE dir[n]
<1>1. /\ sp[p] = "expand" /\ UNCHANGED <<storeFault, wanted, used, cas, marker, st, crowded, turned>>
      /\ sp[p] \in Working /\ sp' = [sp EXCEPT ![p] = "unpack"] /\ dir' = [dir EXCEPT ![n] = t]
  BY DEF Expand, Others, Working, Goes
<1>2. n \in Deps /\ v \in Versions /\ t \in Dirs
  <2>1. n \in Deps /\ v \in Versions /\ dir[n] \in Dirs
    BY <1>1, WorkIs
  <2>2. Dir(v, {}) \in Dirs
    BY <2>1 DEF Dir, Dirs
  <2> QED BY <2>1, <2>2
<1>3. dir[n].kind = "none" => t = Dir(v, {})
  OBVIOUS
<1> HIDE DEF t
<1>4. sp'[p] = "unpack" /\ dir'[n] = t /\ (\A m \in Deps \ {n} : dir'[m] = dir[m]) /\ Dep(p)' = Dep(p)
  BY <1>1, <1>2 DEF StoreInv, StoreTypes, Dep
<1>5. StoreTypes'
  BY <1>1, <1>2 DEF StoreInv, StoreTypes, Working
<1>6. AtADep' /\ OwnArchives'
  BY <1>1 DEF StoreInv, StoreTypes, AtADep, OwnArchives, Working
<1>7. OneExpands'
  BY <1>1, StillOne DEF Expanding, StoreInv, StoreTypes
<1>8. ASSUME ~crowded, ~turned PROVE Stands(p)'
  <2>1. Stands(p)
    BY <1>8 DEF StoreInv, InPlace
  <2>2. \A k \in DOMAIN st'[p].list :
          k < st'[p].i => TrueTo(dir'[st'[p].list[k].name], st'[p].list[k].version)
    BY <1>1, <1>4, <2>1, DoneStays
  <2>3. dir[n].kind = "none" /\ Dep(p).kind = "remote" /\ st[p].unpacked = 0 /\ Dep(p).integrity
    BY <1>1, <2>1 DEF Stands
  <2>4. 1..st'[p].unpacked = {}
    BY <1>1, <2>3
  <2> QED BY <1>3, <1>4, <2>2, <2>3, <2>4 DEF Stands
<1>9. WorksOn(p, n)'
  BY <1>4 DEF WorksOn
<1>10. InPlace'
  <2>1. \A q \in Commands \ {p} : sp'[q] = sp[q] /\ st'[q] = st[q]
    BY <1>1 DEF StoreInv, StoreTypes
  <2> HIDE DEF n
  <2> QED BY <1>1, <1>2, <1>4, <1>8, <1>9, <2>1, WorkKeeps DEF n
<1> QED BY <1>5, <1>6, <1>7, <1>10 DEF StoreInv

LEMMA UnpackKeeps ==
  ASSUME StoreInv, NEW p \in Commands, Unpack(p)
  PROVE  StoreInv'
<1>0. PICK n \in Deps : n = Dep(p).name
  BY WorkIs DEF Unpack, Working
<1> DEFINE v == Dep(p).version
           k == st[p].unpacked + 1
           more == [st[p] EXCEPT !.unpacked = k]
           t == IF dir[n].of = v THEN Dir(dir[n].of, dir[n].entries \cup {k}) ELSE Dir("mixed", dir[n].entries)
<1>1. /\ sp[p] = "unpack" /\ UNCHANGED <<storeFault, wanted, used, cas, marker, crowded>>
      /\ sp[p] \in Working
  BY <1>0 DEF Unpack, Others, Working
<1>2. n \in Deps /\ v \in Versions /\ st[p] \in Holding /\ dir[n] \in Dirs /\ st[p].unpacked \in Nat
  BY <1>1, <1>0, WorkIs DEF Holding
<1>3. more \in Holding /\ more.list = st[p].list /\ more.i = st[p].i /\ more.unpacked = k
  BY <1>2 DEF Holding
<1>4. Cardinality(Entries) = 2
  <2>1. IsFiniteSet({1}) /\ Cardinality({1}) = 1
    BY FS_Singleton
  <2>2. Cardinality({1} \cup {2}) = Cardinality({1}) + 1
    <3>1. 2 \notin {1}
      OBVIOUS
    <3> QED BY <2>1, <3>1, FS_AddElement, ZenonT(30)
  <2>3. Entries = {1} \cup {2}
    BY DEF Entries
  <2> QED BY <2>1, <2>2, <2>3
<1>5. ASSUME StoreTypes', sp' = [sp EXCEPT ![p] = sp'[p]], UNCHANGED cas,
             st' = [st EXCEPT ![p] = st'[p]], st'[p].list = st[p].list, st'[p].i = st[p].i,
             \A m \in Deps \ {n} : dir'[m] = dir[m], sp'[p] \in {"unpack", "mark", "stopped"},
             ~turned' => ~turned,
             ~crowded /\ ~turned /\ ~turned' => Stands(p)' /\ (Kept(n)' \/ WorksOn(p, n)')
      PROVE  StoreInv'
  <2>1. AtADep' /\ OwnArchives'
    <3>1. AtADep'
      BY <1>1, <1>5 DEF StoreInv, StoreTypes, AtADep, Working
    <3>2. OwnArchives'
      BY <1>5 DEF StoreInv, OwnArchives
    <3> QED BY <3>1, <3>2
  <2>2. OneExpands'
    BY <1>1, <1>5, StillOne DEF Expanding, StoreInv, StoreTypes
  <2>3. InPlace'
    <3>1. \A q \in Commands \ {p} : sp'[q] = sp[q] /\ st'[q] = st[q]
      BY <1>5 DEF StoreInv, StoreTypes
    <3> QED BY <1>1, <1>2, <1>5, <3>1, WorkKeeps, <1>0
  <2> QED BY <1>5, <2>1, <2>2, <2>3 DEF StoreInv
<1>6. ~crowded /\ ~turned => Stands(p)
  BY DEF StoreInv, InPlace
<1>7. CASE k > Cardinality(Entries)
  <2>1. sp' = [sp EXCEPT ![p] = "mark"] /\ UNCHANGED <<dir, st, turned>>
    BY <1>7, <1>0 DEF Unpack, Goes
  <2>2. sp'[p] = "mark" /\ Dep(p)' = Dep(p)
    BY <2>1 DEF StoreInv, StoreTypes, Dep
  <2>3. StoreTypes'
    BY <1>1, <2>1 DEF StoreInv, StoreTypes, Working
  <2>4. ASSUME ~crowded, ~turned PROVE Stands(p)'
    <3>1. dir[n] = Dir(v, 1..st[p].unpacked) /\ Dep(p).kind = "remote" /\ Dep(p).integrity /\ Stands(p)
      BY <1>1, <1>6, <2>4, <1>0 DEF Stands
    <3>2. st[p].unpacked >= 2 /\ dir[n].entries = 1..st[p].unpacked
      BY <1>2, <1>4, <1>7, <3>1 DEF Dir
    <3>3. dir[n].entries \subseteq Entries
      BY <1>2 DEF Dirs
    <3>4. 1..st[p].unpacked = Entries
      BY <1>2, <3>2, <3>3 DEF Entries
    <3>5. Kinds[v] = "remote"
      BY <1>1, <3>1, WorkIs
    <3>6. TrueTo(dir[n], v)
      BY <3>1, <3>4, <3>5 DEF TrueTo
    <3>7. \A j \in DOMAIN st'[p].list :
            j < st'[p].i => TrueTo(dir'[st'[p].list[j].name], st'[p].list[j].version)
      BY <1>1, <2>1, <3>1, <1>0, DoneStays
    <3> QED BY <2>1, <2>2, <3>1, <3>6, <3>7, <1>0 DEF Stands, TrueTo
  <2>5. WorksOn(p, n)'
    BY <2>2, <1>0 DEF WorksOn
  <2>6. st' = [st EXCEPT ![p] = st'[p]]
    BY <2>1 DEF StoreInv, StoreTypes
  <2> QED BY <1>1, <1>5, <2>1, <2>2, <2>3, <2>4, <2>5, <2>6
<1>8. CASE /\ ~(k > Cardinality(Entries))
           /\ dir[n].kind # "dir" \/ (k = 2 /\ (v \in Broken \/ ~cas[v].whole))
  <2>1. sp' = [sp EXCEPT ![p] = "stopped"] /\ UNCHANGED <<dir, st>> /\ turned' = (turned \/ marker[n] # NoVersion)
    BY <1>8, <1>0 DEF Unpack, Goes
  <2>2. sp'[p] = "stopped"
    BY <2>1 DEF StoreInv, StoreTypes
  <2>3. StoreTypes'
    BY <1>1, <2>1 DEF StoreInv, StoreTypes, Working
  <2>4. Stands(p)'
    BY <2>2 DEF Stands, Working
  <2>5. ~turned' => Kept(n)'
    BY <1>1, <2>1 DEF Kept
  <2>6. st' = [st EXCEPT ![p] = st'[p]]
    BY <2>1 DEF StoreInv, StoreTypes
  <2> QED BY <1>1, <1>5, <2>1, <2>2, <2>3, <2>4, <2>5, <2>6
<1>9. CASE /\ ~(k > Cardinality(Entries))
           /\ ~(dir[n].kind # "dir" \/ (k = 2 /\ (v \in Broken \/ ~cas[v].whole)))
  <2>1. dir' = [dir EXCEPT ![n] = t] /\ st' = [st EXCEPT ![p] = more] /\ UNCHANGED <<sp, turned>>
    BY <1>9, <1>0 DEF Unpack
  <2>2. k \in Entries
    BY <1>2, <1>4, <1>9 DEF Entries
  <2>3. t \in Dirs
    BY <1>2, <2>2 DEF Dirs, Dir
  <2>4. StoreTypes'
    <3> HIDE DEF t, more
    <3> QED BY <1>1, <1>2, <1>3, <2>1, <2>3 DEF StoreInv, StoreTypes, Working
  <2>5. sp'[p] = "unpack" /\ st'[p] = more /\ dir'[n] = t /\ (\A m \in Deps \ {n} : dir'[m] = dir[m])
    <3> HIDE DEF t, more
    <3> QED BY <1>1, <1>2, <2>1 DEF StoreInv, StoreTypes
  <2>6. Dep(p)' = Dep(p)
    BY <1>3, <2>5 DEF Dep
  <2>7. ASSUME ~crowded, ~turned PROVE Stands(p)'
    <3>1. dir[n] = Dir(v, 1..st[p].unpacked) /\ Dep(p).kind = "remote" /\ Dep(p).integrity /\ Stands(p)
      BY <1>1, <1>6, <2>7, <1>0 DEF Stands
    <3>2. 1..k = (1..st[p].unpacked) \cup {k}
      BY <1>2
    <3>3. dir[n].of = v /\ dir[n].entries = 1..st[p].unpacked
      BY <3>1 DEF Dir
    <3>4. t = Dir(v, 1..k)
      BY <3>2, <3>3
    <3> HIDE DEF t, more
    <3>5. \A j \in DOMAIN st'[p].list :
            j < st'[p].i => TrueTo(dir'[st'[p].list[j].name], st'[p].list[j].version)
      BY <1>1, <1>3, <2>5, <3>1, <1>0, DoneStays
    <3> QED BY <1>3, <2>5, <2>6, <3>1, <3>4, <3>5, <1>0 DEF Stands
  <2>8. WorksOn(p, n)'
    BY <2>5, <2>6, <1>0 DEF WorksOn
  <2>9. sp' = [sp EXCEPT ![p] = sp'[p]] /\ st' = [st EXCEPT ![p] = st'[p]]
    BY <2>1, <2>5 DEF StoreInv, StoreTypes
  <2> HIDE DEF t, more
  <2> QED BY <1>1, <1>3, <1>5, <2>1, <2>4, <2>5, <2>7, <2>8, <2>9
<1> QED BY <1>7, <1>8, <1>9

LEMMA MarkKeeps ==
  ASSUME StoreInv, NEW p \in Commands, Mark(p)
  PROVE  StoreInv'
<1>0. PICK n \in Deps : n = Dep(p).name
  BY WorkIs DEF Mark, Working
<1> DEFINE v == Dep(p).version
           m == IF Dep(p).integrity THEN v ELSE marker[n]
           next == [st[p] EXCEPT !.i = @ + 1, !.url = 1, !.unpacked = 0]
<1>1. /\ sp[p] = "mark" /\ UNCHANGED <<storeFault, wanted, used, cas, dir, crowded, turned>>
      /\ sp[p] \in Working /\ marker' = [marker EXCEPT ![n] = m] /\ sp' = [sp EXCEPT ![p] = "dep"]
      /\ st' = [st EXCEPT ![p] = next]
  BY <1>0 DEF Mark, Others, Working, Goes
<1>2. n \in Deps /\ v \in Versions /\ st[p] \in Holding /\ st[p].i \in Nat
  BY <1>1, <1>0, WorkIs DEF Holding
<1>3. next \in Holding /\ next.list = st[p].list /\ next.i = st[p].i + 1 /\ next.unpacked = 0
  <2>1. next.list = st[p].list /\ next.i = st[p].i + 1 /\ next.unpacked = 0
    BY <1>2 DEF Holding
  <2>2. st[p].i + 1 \in Nat \ {0}
    BY <1>2
  <2>3. next \in Holding
    BY <1>2, <2>2 DEF Holding
  <2> QED BY <2>1, <2>3
<1>4. m \in Versions \cup {NoVersion} /\ (~Dep(p).integrity => m = marker[n]) /\ (Dep(p).integrity => m = v)
  BY <1>2 DEF StoreInv, StoreTypes
<1> HIDE DEF m, next
<1>5. sp'[p] = "dep" /\ st'[p] = next /\ marker'[n] = m /\ (\A x \in Deps \ {n} : marker'[x] = marker[x])
  BY <1>1, <1>2 DEF StoreInv, StoreTypes
<1>6. StoreTypes'
  BY <1>1, <1>2, <1>3, <1>4 DEF StoreInv, StoreTypes, Working
<1>7. AtADep' /\ OwnArchives'
  <2>1. AtADep'
    BY <1>1, <1>5 DEF StoreInv, StoreTypes, AtADep, Working
  <2>2. OwnArchives'
    BY <1>1 DEF StoreInv, OwnArchives
  <2> QED BY <2>1, <2>2
<1>8. OneExpands'
  BY <1>1, StillOne DEF Expanding, StoreInv, StoreTypes
<1>9. ASSUME ~crowded, ~turned PROVE Stands(p)' /\ Kept(n)'
  <2>1. Stands(p)
    BY <1>9 DEF StoreInv, InPlace
  <2>2. TrueTo(dir[n], v) /\ (Dep(p).integrity \/ marker[n] = v)
    BY <1>1, <2>1, <1>0 DEF Stands
  <2>3. Kept(n)'
    BY <1>1, <1>4, <1>5, <2>2, <1>0 DEF Kept, TrueTo
  <2>4. ASSUME NEW j \in DOMAIN st[p].list, j < st[p].i + 1
        PROVE  TrueTo(dir[st[p].list[j].name], st[p].list[j].version)
    <3>1. j \in Nat
      <4>1. st[p].list \in Seq(Dependency)
        BY <1>2, ListsAre DEF Holding
      <4> QED BY <4>1
    <3>2. CASE j = st[p].i
      BY <1>0, <2>2, <3>2 DEF Dep
    <3>3. CASE j < st[p].i
      BY <1>1, <2>1, <3>3, <1>0 DEF Stands
    <3> QED BY <1>2, <2>4, <3>1, <3>2, <3>3
  <2>5. Stands(p)'
    BY <1>1, <1>3, <1>5, <2>4, <1>0 DEF Stands, TrueTo
  <2> QED BY <2>3, <2>5
<1>10. InPlace'
  <2>1. \A q \in Commands \ {p} : sp'[q] = sp[q] /\ st'[q] = st[q]
    BY <1>1 DEF StoreInv, StoreTypes
  <2> QED BY <1>1, <1>2, <1>5, <1>9, <2>1, WorkKeeps, <1>0
<1> QED BY <1>6, <1>7, <1>8, <1>10 DEF StoreInv

LEMMA LoadKeeps ==
  ASSUME StoreInv, NEW p \in Commands, Load(p)
  PROVE  StoreInv'
<1>1. /\ sp[p] = "dep" /\ st[p].i > Len(st[p].list) /\ used' = [used EXCEPT ![p] = dir]
      /\ sp' = [sp EXCEPT ![p] = "loaded"]
      /\ UNCHANGED <<storeFault, wanted, cas, dir, marker, st, crowded, turned>>
  BY DEF Load, Goes
<1>2. st[p] \in Holding /\ st[p].list \in Seq(Dependency) /\ st[p].i \in Nat
  <2>1. st[p] \in Holding
    BY DEF StoreInv, StoreTypes
  <2>2. st[p].list \in Lists \cup {<<>>} /\ st[p].i \in Nat
    BY <2>1 DEF Holding
  <2> QED BY <2>1, <2>2, ListsAre
<1>3. sp'[p] = "loaded" /\ used'[p] = dir
  BY <1>1 DEF StoreInv, StoreTypes
<1>4. StoreTypes' /\ AtADep' /\ OwnArchives'
  BY <1>1 DEF StoreInv, StoreTypes, AtADep, OwnArchives, Working
<1>5. OneExpands'
  BY <1>1, StillOne DEF Expanding, StoreInv, StoreTypes
<1>6. ASSUME ~crowded, ~turned PROVE Stands(p)'
  <2>1. Stands(p)
    BY <1>6 DEF StoreInv, InPlace
  <2>2. ASSUME NEW k \in DOMAIN st[p].list
        PROVE  /\ dir[st[p].list[k].name].of = st[p].list[k].version
               /\ dir[st[p].list[k].name].entries = Entries
               /\ dir[st[p].list[k].name].kind = IF st[p].list[k].kind = "local" THEN "link" ELSE "dir"
    <3>1. k < st[p].i
      BY <1>1, <1>2
    <3>2. TrueTo(dir[st[p].list[k].name], st[p].list[k].version)
      BY <1>1, <2>1, <3>1 DEF Stands
    <3>3. st[p].list[k].kind = Kinds[st[p].list[k].version]
      BY <1>2, ListsAre DEF Holding
    <3>4. CASE Kinds[st[p].list[k].version] = "local"
      BY <3>2, <3>3, <3>4 DEF TrueTo, Link
    <3>5. CASE Kinds[st[p].list[k].version] # "local"
      BY <3>2, <3>3, <3>5 DEF TrueTo, Dir
    <3> QED BY <3>4, <3>5
  <2>3. WholeFor(p)'
    BY <1>1, <1>3, <2>2 DEF WholeFor
  <2> QED BY <1>3, <2>3 DEF Stands, Working
<1>7. InPlace'
  <2>1. \A q \in Commands \ {p} : sp'[q] = sp[q] /\ st'[q] = st[q] /\ used'[q] = used[q]
    BY <1>1 DEF StoreInv, StoreTypes
  <2>2. \A m \in Deps : ~WorksOn(p, m)
    BY <1>1 DEF WorksOn
  <2> QED BY <1>1, <1>6, <2>1, <2>2, StandingKeeps
<1> QED BY <1>4, <1>5, <1>7 DEF StoreInv

\* What a command has come to depends on what it holds, the modules and the markers.
LEMMA StandsAsBefore ==
  ASSUME NEW p \in Commands, UNCHANGED <<sp, dir, marker, used>>, Stands(p),
         st'[p].list = st[p].list, st'[p].i = st[p].i, st'[p].unpacked = st[p].unpacked
  PROVE  Stands(p)'
<1>1. Dep(p)' = Dep(p)
  BY DEF Dep
<1>2. WholeFor(p)' <=> WholeFor(p)
  BY DEF WholeFor
<1>3. \A k \in DOMAIN st[p].list :
        TrueTo(dir'[st'[p].list[k].name], st'[p].list[k].version)
          <=> TrueTo(dir[st[p].list[k].name], st[p].list[k].version)
  OBVIOUS
<1> QED BY <1>1, <1>2, <1>3 DEF Stands

\* The last chunk of an archive lands, or is lost: no command looks at it but to unpack.
LEMMA LandKeeps ==
  ASSUME StoreInv, NEW p \in Commands, Land(p) \/ Lose(p)
  PROVE  StoreInv'
<1> DEFINE r == [st[p] EXCEPT !.late = {}]
<1>1. st' = [st EXCEPT ![p] = r] /\ UNCHANGED <<storeFault, wanted, used, dir, marker, sp, crowded, turned>>
  BY DEF Land, Lose, Others
<1>2. st[p] \in Holding
  BY DEF StoreInv, StoreTypes
<1>3. r \in Holding /\ r.list = st[p].list /\ r.i = st[p].i /\ r.unpacked = st[p].unpacked
  BY <1>2 DEF Holding
<1> HIDE DEF r
<1>4. cas' \in [Versions -> Archives] /\ \A v \in Versions : cas'[v].of = cas[v].of
  <2>1. CASE Lose(p)
    BY <2>1 DEF Lose, StoreInv, StoreTypes
  <2>2. CASE Land(p)
    <3>1. cas' = [v \in Versions |->
            IF v \in Pending(p) THEN [cas[v] EXCEPT !.whole = TRUE] ELSE cas[v]]
      BY <2>2 DEF Land
    <3>2. ASSUME NEW v \in Versions
          PROVE  [cas[v] EXCEPT !.whole = TRUE] \in Archives /\ [cas[v] EXCEPT !.whole = TRUE].of = cas[v].of
      BY DEF StoreInv, StoreTypes, Archives
    <3>3. \A v \in Versions : cas[v] \in Archives
      BY DEF StoreInv, StoreTypes
    <3>4. \A v \in Versions : cas'[v] \in Archives /\ cas'[v].of = cas[v].of
      BY <3>1, <3>2, <3>3
    <3> QED BY <3>1, <3>2, <3>3, <3>4
  <2> QED BY <2>1, <2>2
<1>5. st'[p] = r /\ \A q \in Commands \ {p} : st'[q] = st[q]
  BY <1>1 DEF StoreInv, StoreTypes
<1>6. StoreTypes'
  BY <1>1, <1>3, <1>4 DEF StoreInv, StoreTypes
<1>7. AtADep' /\ OwnArchives'
  <2>1. AtADep'
    BY <1>1, <1>3, <1>5 DEF StoreInv, AtADep
  <2>2. OwnArchives'
    BY <1>4 DEF StoreInv, OwnArchives
  <2> QED BY <2>1, <2>2
<1>8. OneExpands'
  BY <1>1, StillOne DEF Expanding
<1>9. Dep(p)' = Dep(p)
  BY <1>3, <1>5 DEF Dep
<1>10. ASSUME ~crowded, ~turned PROVE Stands(p)'
  <2>1. Stands(p)
    BY <1>10 DEF StoreInv, InPlace
  <2> QED BY <1>1, <1>3, <1>5, <2>1, StandsAsBefore
<1>11. InPlace'
  <2>1. \A m \in Deps : WorksOn(p, m) => WorksOn(p, m)'
    BY <1>1, <1>9 DEF WorksOn
  <2> QED BY <1>1, <1>5, <1>10, <2>1, StandingKeeps
<1> QED BY <1>6, <1>7, <1>8, <1>11 DEF StoreInv

LEMMA StoreKillKeeps ==
  ASSUME StoreInv, NEW p \in Commands, StoreKill(p)
  PROVE  StoreInv'
<1>1. /\ p \in Expanding(sp) /\ sp' = [sp EXCEPT ![p] = "gone"] /\ st' = [st EXCEPT ![p] = NoStore]
      /\ turned' = (turned \/ (sp[p] \in {"delete", "present", "fetch", "expand", "unpack", "mark"}
                                /\ marker[Dep(p).name] # NoVersion))
      /\ UNCHANGED <<wanted, cas, dir, marker, used, crowded>>
  BY DEF StoreKill, Goes
<1>2. sp[p] \in {"dep"} \cup Working
  BY <1>1 DEF StoreInv, StoreTypes, Expanding
<1>3. NoStore \in Holding
  BY DEF NoStore, Holding
<1>4. sp'[p] = "gone" /\ \A q \in Commands \ {p} : sp'[q] = sp[q] /\ st'[q] = st[q] /\ used'[q] = used[q]
  BY <1>1 DEF StoreInv, StoreTypes
<1>5. StoreTypes'
  BY <1>1, <1>3 DEF StoreInv, StoreTypes
<1>6. AtADep' /\ OwnArchives'
  BY <1>1 DEF StoreInv, StoreTypes, AtADep, OwnArchives, Working
<1>7. OneExpands'
  BY <1>1, StillOne DEF Expanding, StoreInv, StoreTypes
<1>8. Stands(p)'
  BY <1>4 DEF Stands, Working
<1>9. CASE sp[p] = "dep"
  <2>1. \A m \in Deps : ~WorksOn(p, m)
    BY <1>9 DEF WorksOn
  <2>2. InPlace'
    BY <1>1, <1>4, <1>8, <2>1, StandingKeeps
  <2> QED BY <1>5, <1>6, <1>7, <2>2 DEF StoreInv
<1>10. CASE sp[p] \in Working
  <2>1. PICK n \in Deps : n = Dep(p).name
    BY <1>10, WorkIs
  <2>2. ~turned' => Kept(n)'
    BY <1>1, <1>10, <2>1 DEF Kept, Working
  <2>3. InPlace'
    BY <1>1, <1>4, <1>8, <1>10, <2>1, <2>2, WorkKeeps
  <2> QED BY <1>5, <1>6, <1>7, <2>3 DEF StoreInv
<1> QED BY <1>2, <1>9, <1>10

LEMMA RerunKeeps ==
  ASSUME StoreInv, NEW p \in Commands, Rerun(p)
  PROVE  StoreInv'
<1>1. /\ sp[p] \in {"loaded", "stopped", "gone"} /\ sp' = [sp EXCEPT ![p] = "idle"]
      /\ st' = [st EXCEPT ![p] = NoStore]
      /\ UNCHANGED <<wanted, used, cas, dir, marker, crowded, turned>>
  BY DEF Rerun, Goes, Others
<1>2. NoStore \in Holding
  BY DEF NoStore, Holding
<1>3. sp'[p] = "idle" /\ \A q \in Commands \ {p} : sp'[q] = sp[q] /\ st'[q] = st[q] /\ used'[q] = used[q]
  BY <1>1 DEF StoreInv, StoreTypes
<1>4. StoreTypes'
  BY <1>1, <1>2 DEF StoreInv, StoreTypes
<1>5. AtADep' /\ OwnArchives'
  BY <1>1 DEF StoreInv, StoreTypes, AtADep, OwnArchives, Working
<1>6. OneExpands'
  BY <1>1, StillOne DEF Expanding, StoreInv, StoreTypes
<1>7. Stands(p)'
  BY <1>3 DEF Stands, Working
<1>8. InPlace'
  <2>1. \A m \in Deps : ~WorksOn(p, m)
    BY <1>1 DEF WorksOn
  <2> QED BY <1>1, <1>3, <1>7, <2>1, StandingKeeps
<1> QED BY <1>4, <1>5, <1>6, <1>8 DEF StoreInv

LEMMA StoreNext ==
  ASSUME StoreInv, StoreMove
  PROVE  StoreInv'
<1>1. ASSUME UNCHANGED <<cas, dir, marker, sp, st, used, crowded, turned>>, StoreTypes' PROVE StoreInv'
  <2>1. OwnArchives' /\ AtADep' /\ OneExpands'
    BY <1>1 DEF StoreInv, OwnArchives, AtADep, OneExpands, Expanding
  <2>2. MarkersKept <=> MarkersKept'
    BY <1>1 DEF MarkersKept, Kept, WorksOn, Dep, TrueTo
  <2>3. ASSUME NEW p \in Commands, Stands(p) PROVE Stands(p)'
    BY <1>1, <2>3, StandsAsBefore
  <2>4. InPlace'
    BY <1>1, <2>2, <2>3 DEF StoreInv, InPlace
  <2> QED BY <1>1, <2>1, <2>4 DEF StoreInv
<1>2. CASE UNCHANGED storeVars
  BY <1>1, <1>2 DEF storeVars, StoreInv, StoreTypes
<1>3. CASE Checkout
  <2>1. Tail(wanted) \in Seq(Seq(Dependency)) /\ \A k \in DOMAIN Tail(wanted) : Tail(wanted)[k] \in Lists
    BY <1>3 DEF Checkout, StoreInv, StoreTypes
  <2>2. StoreTypes'
    BY <1>3, <2>1 DEF Checkout, StoreInv, StoreTypes
  <2> QED BY <1>1, <1>3, <2>2 DEF Checkout
<1> QED
  BY <1>2, <1>3, EnterKeeps, LookAtMarkerKeeps, DeleteKeeps, PresentKeeps, FetchKeeps, ExpandKeeps,
     UnpackKeeps, MarkKeeps, LoadKeeps, LandKeeps, StoreKillKeeps, RerunKeeps DEF StoreMove, StoreStep

-----------------------------------------------------------------------------
(* The archives.                                                           *)
Archived == CasMatches /\ \A p \in Commands : sp[p] = "idle" => st[p].late = {}

LEMMA ArchivesBegin == Init => Archived
  BY DEF Init, StoreInit, Archived, CasMatches, NoArchive, NoStore

\* Nobody writes and nobody gives up what he has to write.
LEMMA ArchivesStay ==
  ASSUME Archived, UNCHANGED <<cas, short>>, \A q \in Commands : st'[q].late = st[q].late,
         \A q \in Commands : sp'[q] = "idle" => st'[q].late = {}
  PROVE  Archived'
<1>1. \A q \in Commands : Pending(q)' = Pending(q)
  BY DEF Pending
<1> QED BY <1>1 DEF Archived, CasMatches

\* A command's place in its list is no part of what it has to write.
LEMMA LateStays ==
  ASSUME NEW h \in Holding, NEW x, NEW y, NEW z
  PROVE  /\ [h EXCEPT !.url = x].late = h.late /\ [h EXCEPT !.unpacked = x].late = h.late
         /\ [h EXCEPT !.i = x, !.url = y, !.unpacked = z].late = h.late
  BY DEF Holding

LEMMA FetchArchives ==
  ASSUME StoreInv, Archived, NEW p \in Commands, Fetch(p)
  PROVE  Archived'
<1> DEFINE v == Dep(p).version
<1>1. sp[p] = "fetch" /\ sp \in [Commands -> {"idle", "dep", "loaded", "stopped", "gone"} \cup Working]
  BY DEF Fetch, StoreInv, StoreTypes
<1>2. v \in Versions /\ st[p] \in Holding /\ v # NoVersion
  BY <1>1, WorkIs DEF Working
<1>3. st \in [Commands -> Holding] /\ cas \in [Versions -> Archives]
  BY DEF StoreInv, StoreTypes
<1> HIDE DEF v
<1>4. CASE UNCHANGED <<cas, short>> /\ (st' = st \/ st' = [st EXCEPT ![p].url = @ + 1])
            /\ (sp' = sp \/ sp' = [sp EXCEPT ![p] = "stopped"])
  <2>1. \A q \in Commands : st'[q].late = st[q].late
    <3>1. CASE st' = [st EXCEPT ![p].url = @ + 1]
      <4>1. PICK x : st' = [st EXCEPT ![p] = [st[p] EXCEPT !.url = x]]
        BY <3>1
      <4> QED BY <1>2, <1>3, <4>1, LateStays
    <3> QED BY <1>4, <3>1
  <2>2. \A q \in Commands : sp'[q] = "idle" => sp[q] = "idle"
    BY <1>1, <1>4
  <2> QED BY <1>4, <2>1, <2>2, ArchivesStay DEF Archived
<1>5. CASE /\ cas' = [cas EXCEPT ![v] = [of |-> v, whole |-> FALSE, by |-> {p}]] /\ short' = short \ {v}
           /\ st' = [st EXCEPT ![p].late = @ \cup {v}] /\ sp' = [sp EXCEPT ![p] = "expand"]
  <2>1. cas'[v] = [of |-> v, whole |-> FALSE, by |-> {p}] /\ \A w \in Versions \ {v} : cas'[w] = cas[w]
    BY <1>2, <1>3, <1>5
  <2>2. st'[p].late = st[p].late \cup {v} /\ \A q \in Commands \ {p} : st'[q] = st[q]
    BY <1>2, <1>3, <1>5 DEF Holding
  <2>3. \A q \in Commands, w \in Versions \ {v} : w \in Pending(q) => w \in Pending(q)'
    BY <2>1, <2>2 DEF Pending
  <2>4. v \in Pending(p)' /\ cas'[v].of = v
    BY <2>1, <2>2 DEF Pending
  <2>5. \A w \in Versions \ {v} : w \in short => w \in short'
    BY <1>5
  <2>6. CasMatches'
    BY <2>1, <2>3, <2>4, <2>5 DEF Archived, CasMatches
  <2>7. ASSUME NEW q \in Commands, sp'[q] = "idle" PROVE st'[q].late = {}
    <3>1. q # p /\ sp[q] = "idle"
      BY <1>1, <1>5, <2>7
    <3> QED BY <2>2, <3>1 DEF Archived
  <2> QED BY <2>6, <2>7 DEF Archived
<1> QED BY <1>4, <1>5, <1>1 DEF Fetch, Fails, Goes, Matches, v

\* The last chunk lands, or is lost with its writer or by the disk.
LEMMA LandArchives ==
  ASSUME StoreInv, Archived, NEW p \in Commands,
         \A q \in Commands \ {p} : st'[q] = st[q], st'[p].late = {},
         \A q \in Commands : sp'[q] = "idle" => sp[q] = "idle",
         \/ UNCHANGED cas /\ short' = short \cup Pending(p)
         \/ /\ UNCHANGED short
            /\ cas' = [v \in Versions |-> IF v \in Pending(p) THEN [cas[v] EXCEPT !.whole = TRUE] ELSE cas[v]]
  PROVE  Archived'
<1>1. cas \in [Versions -> Archives]
  BY DEF StoreInv, StoreTypes
<1>2. ASSUME NEW v \in Versions
      PROVE  /\ cas'[v].of = cas[v].of /\ cas'[v].by = cas[v].by /\ (cas[v].whole => cas'[v].whole)
             /\ v \in Pending(p) => cas'[v].whole \/ v \in short'
             /\ v \in short => v \in short'
  <2>1. cas[v] \in Archives
    BY <1>1
  <2>2. CASE UNCHANGED cas /\ short' = short \cup Pending(p)
    BY <2>2
  <2>3. CASE /\ UNCHANGED short
             /\ cas' = [w \in Versions |-> IF w \in Pending(p) THEN [cas[w] EXCEPT !.whole = TRUE] ELSE cas[w]]
    <3> DEFINE a == [cas[v] EXCEPT !.whole = TRUE]
    <3>1. a.of = cas[v].of /\ a.by = cas[v].by /\ a.whole
      BY <2>1 DEF Archives
    <3>2. cas'[v] = IF v \in Pending(p) THEN a ELSE cas[v]
      BY <2>3
    <3> HIDE DEF a
    <3> QED BY <2>3, <3>1, <3>2
  <2> QED BY <2>2, <2>3
<1>3. \A q \in Commands \ {p}, v \in Versions : v \in Pending(q) => v \in Pending(q)'
  BY <1>2 DEF Pending
<1>4. CasMatches'
  BY <1>2, <1>3 DEF Archived, CasMatches
<1>5. \A q \in Commands : sp'[q] = "idle" => st'[q].late = {}
  BY DEF Archived
<1> QED BY <1>4, <1>5 DEF Archived

LEMMA ArchivesNext ==
  ASSUME StoreInv, Archived, StoreMove
  PROVE  Archived'
<1>1. /\ sp \in [Commands -> {"idle", "dep", "loaded", "stopped", "gone"} \cup Working]
      /\ st \in [Commands -> Holding]
  BY DEF StoreInv, StoreTypes
<1>2. NoStore.late = {}
  BY DEF NoStore
<1>3. CASE UNCHANGED storeVars \/ Checkout
  <2>1. UNCHANGED <<cas, short, sp, st>>
    BY <1>3 DEF storeVars, Checkout
  <2> QED BY <2>1, ArchivesStay DEF Archived
<1>4. ASSUME NEW p \in Commands, Enter(p) \/ Rerun(p) PROVE Archived'
  <2>1. /\ UNCHANGED <<cas, short>> /\ st[p].late = {}
        /\ \E l : sp' = [sp EXCEPT ![p] = l]
    BY <1>4 DEF Enter, Rerun, Others, Goes, Archived
  <2>2. \E s : st' = [st EXCEPT ![p] = s] /\ s.late = {}
    BY <1>2, <1>4 DEF Enter, Rerun, NoStore
  <2>3. \A q \in Commands : st'[q].late = st[q].late
    BY <1>1, <2>1, <2>2
  <2>4. \A q \in Commands : sp'[q] = "idle" => st'[q].late = {}
    BY <1>1, <2>1, <2>3 DEF Archived
  <2> QED BY <2>1, <2>3, <2>4, ArchivesStay
<1>5. ASSUME NEW p \in Commands,
             LookAtMarker(p) \/ Delete(p) \/ Present(p) \/ Expand(p) \/ Unpack(p) \/ Mark(p) \/ Load(p)
      PROVE  Archived'
  <2>1. UNCHANGED <<cas, short>> /\ sp[p] # "idle"
    BY <1>5 DEF LookAtMarker, Delete, Present, Expand, Unpack, Mark, Load, Others
  <2>2. sp' = sp \/ \E l \in {"present", "delete", "mark", "expand", "fetch", "unpack", "stopped", "dep", "loaded"} :
          sp' = [sp EXCEPT ![p] = l]
    BY <1>5 DEF LookAtMarker, Delete, Present, Expand, Unpack, Mark, Load, Goes
  <2>3. \/ st' = st
        \/ st' = [st EXCEPT ![p].unpacked = st[p].unpacked + 1]
        \/ st' = [st EXCEPT ![p].i = @ + 1, ![p].url = 1, ![p].unpacked = 0]
    BY <1>5 DEF LookAtMarker, Delete, Present, Expand, Unpack, Mark, Load
  <2>4. \A q \in Commands : st'[q].late = st[q].late
    <3>1. st[p] \in Holding
      BY <1>1
    <3>2. CASE st' = [st EXCEPT ![p].unpacked = st[p].unpacked + 1]
      <4>1. PICK x : st' = [st EXCEPT ![p] = [st[p] EXCEPT !.unpacked = x]]
        BY <3>2
      <4> QED BY <1>1, <3>1, <4>1, LateStays
    <3>3. CASE st' = [st EXCEPT ![p].i = @ + 1, ![p].url = 1, ![p].unpacked = 0]
      <4>1. PICK x, y, z : st' = [st EXCEPT ![p] = [st[p] EXCEPT !.i = x, !.url = y, !.unpacked = z]]
        BY <3>3
      <4> QED BY <1>1, <3>1, <4>1, LateStays
    <3> QED BY <2>3, <3>2, <3>3
  <2>5. \A q \in Commands : sp'[q] = "idle" => sp[q] = "idle"
    BY <1>1, <2>2
  <2> QED BY <2>1, <2>4, <2>5, ArchivesStay DEF Archived
<1>6. ASSUME NEW p \in Commands, Land(p) \/ Lose(p) PROVE Archived'
  <2>1. st' = [st EXCEPT ![p].late = {}] /\ UNCHANGED sp
    BY <1>6 DEF Land, Lose
  <2>2. st'[p].late = {} /\ \A q \in Commands \ {p} : st'[q] = st[q]
    BY <1>1, <2>1 DEF Holding
  <2> QED BY <1>6, <2>1, <2>2, LandArchives DEF Land, Lose, Others
<1>7. ASSUME NEW p \in Commands, StoreKill(p) PROVE Archived'
  <2>1. /\ st' = [st EXCEPT ![p] = NoStore] /\ sp' = [sp EXCEPT ![p] = "gone"]
        /\ UNCHANGED cas /\ short' = short \cup Pending(p)
    BY <1>7 DEF StoreKill, Goes
  <2>2. st'[p].late = {} /\ \A q \in Commands \ {p} : st'[q] = st[q]
    BY <1>1, <1>2, <2>1
  <2>3. \A q \in Commands : sp'[q] = "idle" => sp[q] = "idle"
    BY <1>1, <2>1
  <2> QED BY <2>1, <2>2, <2>3, LandArchives
<1> QED BY <1>3, <1>4, <1>5, <1>6, <1>7, FetchArchives DEF StoreMove, StoreStep

LEMMA StoreHolds == StoreInv => ExpandedWhole
<1> SUFFICES ASSUME StoreInv PROVE ExpandedWhole
  OBVIOUS
<1>1. ASSUME NEW p \in Commands, ~crowded, ~turned, sp[p] = "loaded" PROVE WholeFor(p)
  <2>1. Stands(p)
    BY <1>1 DEF StoreInv, InPlace
  <2> QED BY <1>1, <2>1 DEF Stands
<1> QED BY <1>1, ProvisionAssumption DEF StoreInv, ExpandedWhole

-----------------------------------------------------------------------------
(* The launcher: files that are not used, the newest release, the sources. *)
LEMMA Least ==
  ASSUME NEW S, S \subseteq Nat, S # {}
  PROVE  \E i \in S : \A j \in S : i <= j
<1> DEFINE R == OpToRel(<, Nat)
<1>1. PICK i \in S : \A j \in S : ~(<<j, i>> \in R)
  <2> HIDE DEF R
  <2> QED BY WFMin, NatLessThanWellFounded DEF R
<1>2. ASSUME NEW j \in S PROVE i <= j
  <2>1. i \in Nat /\ j \in Nat
    OBVIOUS
  <2>2. ~(j < i)
    BY <1>1, <2>1 DEF OpToRel
  <2> QED BY <2>1, <2>2
<1> QED BY <1>2

LEMMA UrlsAreFinite == IsFiniteSet(Urls) /\ IsFiniteSet(Procs)
<1> DEFINE some == {Url(t, b) : t \in Tags, b \in BOOLEAN}
           pairs == Tags \X BOOLEAN
           of == [x \in pairs |-> Url(x[1], x[2])]
<1>1. IsFiniteSet(BOOLEAN)
  <2>1. IsFiniteSet({TRUE}) /\ IsFiniteSet({FALSE})
    BY FS_Singleton
  <2>2. BOOLEAN = {TRUE} \cup {FALSE}
    OBVIOUS
  <2> QED BY <2>1, <2>2, FS_Union
<1>2. IsFiniteSet(pairs)
  BY <1>1, LauncherAssumption, FS_Product
<1>3. of \in [pairs -> some]
  OBVIOUS
<1> HIDE DEF pairs
<1>4. ASSUME NEW y \in some PROVE \E x \in pairs : of[x] = y
  <2>1. PICK t \in Tags, b \in BOOLEAN : y = Url(t, b)
    OBVIOUS
  <2>2. <<t, b>> \in pairs /\ of[<<t, b>>] = Url(t, b)
    BY DEF pairs
  <2> HIDE DEF of
  <2> QED BY <2>1, <2>2
<1>5. IsFiniteSet(some)
  <2>1. of \in Surjection(pairs, some)
    <3> HIDE DEF of, some
    <3> QED BY <1>3, <1>4 DEF Surjection
  <2> HIDE DEF of, some
  <2> QED BY <1>2, <2>1, FS_Surjection
<1> HIDE DEF some
<1>6. IsFiniteSet({HttpUrl, LocalPath})
  <2>1. IsFiniteSet({HttpUrl}) /\ IsFiniteSet({LocalPath})
    BY FS_Singleton
  <2>2. {HttpUrl, LocalPath} = {HttpUrl} \cup {LocalPath}
    OBVIOUS
  <2> QED BY <2>1, <2>2, FS_Union
<1>7. Urls = some \cup {HttpUrl, LocalPath}
  BY DEF Urls, some
<1> QED BY <1>5, <1>6, <1>7, FS_Union, LauncherAssumption

\* There is always a file without a name and without a writer.
LEMMA UnusedIs ==
  ASSUME tool \in [Urls -> Files \cup {None}], tmp \in [Urls -> Files \cup {None}],
         NEW files \in [Procs -> Files \cup {None}], \A p \in Procs : files[p] = run[p].file
  PROVE  Unused \in Files /\ Unused \notin Used
<1> DEFINE A == {tool[v] : v \in Urls}
           B == {tmp[v] : v \in Urls}
           C == {files[p] : p \in Procs}
           u == Cardinality(Urls)
           c == Cardinality(Procs)
<1>1. IsFiniteSet(A) /\ Cardinality(A) <= u
  <2>1. tool \in Surjection(Urls, A)
    BY DEF Surjection
  <2> HIDE DEF A
  <2> QED BY <2>1, UrlsAreFinite, FS_Surjection
<1>2. IsFiniteSet(B) /\ Cardinality(B) <= u
  <2>1. tmp \in Surjection(Urls, B)
    BY DEF Surjection
  <2> HIDE DEF B
  <2> QED BY <2>1, UrlsAreFinite, FS_Surjection
<1>3. IsFiniteSet(C) /\ Cardinality(C) <= c
  <2>1. files \in Surjection(Procs, C)
    BY DEF Surjection
  <2> HIDE DEF C
  <2> QED BY <2>1, UrlsAreFinite, FS_Surjection
<1>4. Used = A \cup B \cup C
  BY DEF Used
<1>5. u \in Nat /\ c \in Nat
  BY UrlsAreFinite, FS_CardinalityType
<1> HIDE DEF A, B, C, u, c
<1>6. IsFiniteSet(A \cup B) /\ Cardinality(A \cup B) <= u + u
  <2>1. IsFiniteSet(A \cup B) /\ Cardinality(A \cup B) = Cardinality(A) + Cardinality(B) - Cardinality(A \cap B)
    BY <1>1, <1>2, FS_Union
  <2>2. IsFiniteSet(A \cap B)
    BY <1>1, FS_Intersection
  <2>3. Cardinality(A \cap B) \in Nat /\ Cardinality(A) \in Nat /\ Cardinality(B) \in Nat
    BY <1>1, <1>2, <2>2, FS_CardinalityType
  <2> QED BY <1>1, <1>2, <1>5, <2>1, <2>3
<1>7. IsFiniteSet(Used) /\ Cardinality(Used) <= u + u + c
  <2>1. /\ IsFiniteSet((A \cup B) \cup C)
        /\ Cardinality((A \cup B) \cup C)
             = Cardinality(A \cup B) + Cardinality(C) - Cardinality((A \cup B) \cap C)
    BY <1>3, <1>6, FS_Union
  <2>2. IsFiniteSet((A \cup B) \cap C)
    BY <1>6, FS_Intersection
  <2>3. Cardinality((A \cup B) \cap C) \in Nat /\ Cardinality(A \cup B) \in Nat /\ Cardinality(C) \in Nat
    BY <1>3, <1>6, <2>2, FS_CardinalityType
  <2> QED BY <1>3, <1>4, <1>5, <1>6, <2>1, <2>3
<1>8. IsFiniteSet(Files) /\ Cardinality(Files) = 2 * u + c + 1
  <2>1. Files = 1..(2 * u + c + 1)
    BY DEF Files, u, c
  <2>2. 2 * u + c + 1 \in Nat
    BY <1>5
  <2> DEFINE k == 2 * u + c + 1
  <2>3. Cardinality(1..k) = k /\ IsFiniteSet(1..k)
    <3> HIDE DEF k
    <3> QED BY <2>2, FS_Interval DEF k
  <2> QED BY <2>1, <2>3
<1>9. \E f \in Files : f \notin Used
  <2>1. SUFFICES ASSUME Files \subseteq Used PROVE FALSE
    OBVIOUS
  <2>2. Cardinality(Files) <= Cardinality(Used)
    BY <1>7, <2>1, FS_Subset
  <2>3. Cardinality(Used) \in Nat
    BY <1>7, FS_CardinalityType
  <2> QED BY <1>5, <1>7, <1>8, <2>2, <2>3
<1> QED BY <1>9 DEF Unused

\* The newest release with the asset is the last of those that have it.
LEMMA NewestIs ==
  ASSUME NEW n \in Nat
  PROVE  IF OfferedOf(n) = {} THEN Newest(n) = None
         ELSE Newest(n) \in OfferedOf(n) /\ \A t \in OfferedOf(n) : t <= Newest(n)
<1>1. CASE OfferedOf(n) = {}
  BY <1>1 DEF Newest
<1>2. CASE OfferedOf(n) # {}
  <2> DEFINE above == {m \in Nat : \A t \in OfferedOf(n) : t <= m}
  <2>1. OfferedOf(n) \subseteq 1..n
    BY DEF OfferedOf
  <2>2. n \in above
    BY <2>1
  <2>3. PICK m \in above : \A k \in above : m <= k
    BY <2>2, Least
  <2>4. m \in OfferedOf(n)
    <3>1. SUFFICES ASSUME m \notin OfferedOf(n) PROVE FALSE
      OBVIOUS
    <3>2. \A t \in OfferedOf(n) : t \in Nat /\ t <= m /\ t # m /\ t >= 1
      BY <2>1, <3>1
    <3>3. m - 1 \in Nat /\ \A t \in OfferedOf(n) : t <= m - 1
      BY <1>2, <3>2
    <3>4. m - 1 \in above
      BY <3>3
    <3> QED BY <2>3, <3>4
  <2>5. \E x \in OfferedOf(n) : \A y \in OfferedOf(n) : x >= y
    BY <2>3, <2>4
  <2>6. Newest(n) \in OfferedOf(n) /\ \A y \in OfferedOf(n) : Newest(n) >= y
    BY <1>2, <2>5 DEF Newest
  <2> QED BY <1>2, <2>1, <2>6
<1> QED BY <1>1, <1>2

LEMMA NewestGrows ==
  ASSUME NEW m \in Nat, NEW n \in Nat, m <= n
  PROVE  Newest(m) \in Nat /\ Newest(m) <= m /\ Newest(m) <= Newest(n)
         /\ (Newest(n) # None => Newest(n) \in 1..n)
<1>1. OfferedOf(m) \subseteq OfferedOf(n) /\ OfferedOf(m) \subseteq 1..m /\ OfferedOf(n) \subseteq 1..n
  BY DEF OfferedOf
<1>2. Newest(n) \in Nat /\ (Newest(n) # None => Newest(n) \in 1..n)
  BY <1>1, NewestIs DEF None
<1>3. CASE OfferedOf(m) = {}
  BY <1>2, <1>3, NewestIs DEF None
<1>4. CASE OfferedOf(m) # {}
  <2>1. Newest(m) \in OfferedOf(m) /\ Newest(m) \in OfferedOf(n)
    BY <1>1, <1>4, NewestIs
  <2>2. Newest(m) <= Newest(n)
    BY <2>1, NewestIs
  <2> QED BY <1>1, <1>2, <2>1, <2>2
<1> QED BY <1>3, <1>4

LaunchLabels ==
  {"rest", "start", "source", "copy", "copying", "api", "hint", "touch", "touched", "create", "get",
   "stream", "check", "rename", "fallback", "exec", "running", "failed", "killed"}
WritingLabels == {"get", "stream", "check", "rename"}
Worlds ==
  [fault : LaunchFaults, dirs : Seq(Directory), home : Nat, debug : BOOLEAN, warming : Warmings,
   alone : BOOLEAN]
Holds ==
  [source : Nat \ {0}, tag : Tags \cup {None}, url : Urls, file : Files \cup {None},
   got : SUBSET Chunks, attempt : 0..Attempts, sized : 0..2, announced : BOOLEAN]
Hints == [tag : Tags \cup {None}, fresh : BOOLEAN]
WorldTypes ==
  /\ world \in Worlds /\ world.dirs # <<>> /\ world.home \in DOMAIN world.dirs \cup {None}
  /\ published \in Tags /\ yesterday \in Tags \cup {None} /\ yesterday <= published
  /\ began \in Tags \cup {None} /\ began <= yesterday
  /\ outage \subseteq {"api", "cdn"}
  /\ restored \in {"no", "partly", "yes"} /\ (world.warming = "off" => restored = "no")
DiskTypes ==
  /\ tool \in [Urls -> Files \cup {None}] /\ tmp \in [Urls -> Files \cup {None}]
  /\ content \in [Files -> SUBSET Chunks] /\ hint \in [BOOLEAN -> Hints]
RunTypes ==
  /\ pc \in [Procs -> LaunchLabels] /\ run \in [Procs -> Holds] /\ shared \in BOOLEAN /\ renewed \in BOOLEAN
  /\ launched = [p \in Procs |-> launched[p]]
NamesApart ==
  \A u, v \in Urls :
    /\ tool[u] # None => tool[u] # tmp[v] /\ (u # v => tool[u] # tool[v])
    /\ tmp[u] # None /\ u # v => tmp[u] # tmp[v]
\* What is true of a launch at label l that holds r: how far in the sources it is, which URL
\* it may be at, that it execs what is there and has waited for the restore of the cache.
Stand(l, r) ==
  /\ r.source <= Len(Sources) + 1
  /\ l \notin {"rest", "start", "source", "running", "failed", "killed"} => r.source <= Len(Sources)
  /\ l \in {"create", "fallback", "touch", "touched"} \cup WritingLabels => r.url # LocalPath
  /\ l \in {"copy", "copying"} => r.url = LocalPath
  /\ l = "hint" => r.tag \in Tags
  /\ l \in {"touch", "touched", "copying", "exec"} => tool[r.url] # None
  /\ world.warming = "marked" /\ restored # "yes" => l \in {"rest", "start", "killed"}
\* And how old a release it may be at: what the day owes it, and a touch what the day
\* began with.
Owed == Newest(IF renewed THEN began ELSE yesterday)
Oldest == Newest(began)
Recent(l, r) ==
  /\ l = "hint" => r.tag >= Owed /\ r.tag <= published
  /\ l \in {"touch", "touched"} =>
       r.tag >= Oldest /\ r.tag <= published /\ (r.url[1] = "github" => r.url[2] >= Oldest)
  /\ /\ l \in {"create", "fallback", "exec"} \cup WritingLabels /\ r.url[1] = "github"
     /\ Sources[r.source].kind = "github" /\ Sources[r.source].tag = None
     => r.url[2] >= Owed
HintRecent ==
  LET h == hint[world.debug]
  IN h.tag >= Oldest /\ h.tag <= published /\ (h.fresh /\ h.tag # None => h.tag >= Owed)
\* What is accepted is whole, or was broken off and could not be told from it.
WholeOrCut(f, chunks) == chunks = Chunks \/ (f \in cutoff /\ chunks # {})
\* A download's file has what it got; and what a local source is copied to is the tool's.
Writes(p) ==
  pc[p] \in WritingLabels =>
    /\ run[p].file \in Files /\ tmp[run[p].url] = run[p].file /\ content[run[p].file] = run[p].got
    /\ pc[p] = "rename" => WholeOrCut(run[p].file, run[p].got)
OnLocal(p) == pc[p] \in {"copying", "exec"} /\ run[p].url = LocalPath
Copies(p) ==
  /\ pc[p] = "copying" => run[p].file \in Files /\ tool[LocalPath] = run[p].file
  /\ pc[p] = "exec" /\ run[p].url = LocalPath => content[tool[LocalPath]] = Chunks
OneWriter ==
  \A p, q \in Procs :
    pc[p] \in WritingLabels /\ pc[q] \in WritingLabels /\ run[p].url = run[q].url => p = q
OneCopier == \A p, q \in Procs : OnLocal(p) /\ OnLocal(q) => p = q
Undisturbed == ~shared => OneWriter /\ OneCopier /\ \A p \in Procs : Writes(p) /\ Copies(p)
\* What is in the cache was accepted, but for what is being restored.
CacheWhole ==
  ~shared /\ world.warming # "unmarked" =>
    \A u \in Urls \ {LocalPath} :
      tool[u] # None /\ ~(restored = "partly" /\ u = Url(1, FALSE)) => WholeOrCut(tool[u], content[tool[u]])
LaunchInv ==
  /\ WorldTypes /\ DiskTypes /\ RunTypes /\ NamesApart
  /\ \A p \in Procs : Stand(pc[p], run[p]) /\ Recent(pc[p], run[p])
  /\ HintRecent /\ Undisturbed /\ CacheWhole /\ ExecWhole

LEMMA DeepestIs ==
  ASSUME NEW places, places \subseteq Nat, places # {}
  PROVE  Deepest(places) \in places
<1>1. \E i \in places : \A j \in places : i <= j
  BY Least
<1> QED BY <1>1 DEF Deepest

LEMMA SourcesAre ==
  ASSUME WorldTypes
  PROVE  /\ Sources \in Seq(Configured) /\ Len(Sources) \in Nat
         /\ \A i \in Nat \ {0} : i <= Len(Sources) => Sources[i] \in Configured
<1>1. world.dirs \in Seq(Directory) /\ world.dirs # <<>> /\ world.home \in DOMAIN world.dirs \cup {None}
  BY DEF WorldTypes, Worlds
<1>2. DOMAIN world.dirs \subseteq Nat /\ 1 \in DOMAIN world.dirs /\ None \notin DOMAIN world.dirs
  BY <1>1 DEF None
<1>3. RootDir \in DOMAIN world.dirs
  <2> DEFINE aspect == Marked({"version.axl", "MODULE.aspect"}, world.home)
             bazel == Marked({"MODULE.bazel"}, None)
  <2>1. aspect \subseteq DOMAIN world.dirs /\ bazel \subseteq DOMAIN world.dirs
    BY DEF Marked
  <2>2. RootDir = IF aspect # {} THEN Deepest(aspect) ELSE IF bazel # {} THEN Deepest(bazel) ELSE 1
    BY DEF RootDir
  <2> HIDE DEF aspect, bazel
  <2>3. aspect # {} => Deepest(aspect) \in aspect
    BY <1>2, <2>1, DeepestIs
  <2>4. bazel # {} => Deepest(bazel) \in bazel
    BY <1>2, <2>1, DeepestIs
  <2> QED BY <1>2, <2>1, <2>2, <2>3, <2>4
<1>4. \A i \in DOMAIN world.dirs : world.dirs[i].sources \in Seq(Configured)
  <2>1. \A i \in DOMAIN world.dirs : world.dirs[i] \in Directory
    BY <1>1
  <2> QED BY <2>1 DEF Directory
<1>5. DefaultSources \in Seq(Configured)
  <2>1. [kind |-> "github", tag |-> None] \in Configured
    BY DEF Configured
  <2> QED BY <2>1 DEF DefaultSources
<1>6. Sources \in Seq(Configured)
  <2>1. \/ Sources = world.dirs[RootDir].sources
        \/ world.home # None /\ Sources = world.dirs[world.home].sources
        \/ Sources = DefaultSources
    BY DEF Sources
  <2> QED BY <1>1, <1>3, <1>4, <1>5, <2>1
<1> QED BY <1>6

LEMMA UrlsAre ==
  /\ HttpUrl \in Urls /\ LocalPath \in Urls /\ HttpUrl # LocalPath
  /\ HttpUrl[1] # "github" /\ LocalPath[1] # "github"
  /\ \A t \in Tags, b \in BOOLEAN : Url(t, b) \in Urls \ {LocalPath} /\ Url(t, b)[1] = "github" /\ Url(t, b)[2] = t
  /\ \A u \in Urls : u[1] = "github" => u[2] \in Tags /\ u[3] \in BOOLEAN /\ Fallback(u) \in Urls \ {LocalPath}
                                        /\ Fallback(u)[1] = "github" /\ Fallback(u)[2] = u[2]
<1>1. \A t \in Tags, b \in BOOLEAN : Url(t, b) \in Urls \ {LocalPath} /\ Url(t, b)[1] = "github" /\ Url(t, b)[2] = t
  BY DEF Urls, LocalPath, Url
<1>2. HttpUrl \in Urls /\ LocalPath \in Urls /\ HttpUrl # LocalPath
      /\ HttpUrl[1] # "github" /\ LocalPath[1] # "github"
  BY DEF Urls, HttpUrl, LocalPath
<1>3. ASSUME NEW u \in Urls, u[1] = "github"
      PROVE  /\ u[2] \in Tags /\ u[3] \in BOOLEAN /\ Fallback(u) \in Urls \ {LocalPath}
             /\ Fallback(u)[1] = "github" /\ Fallback(u)[2] = u[2]
  <2>1. u # HttpUrl /\ u # LocalPath
    BY <1>2, <1>3
  <2>2. PICK t \in Tags, b \in BOOLEAN : u = Url(t, b)
    BY <2>1 DEF Urls
  <2>3. u[2] = t /\ u[3] = b
    BY <2>2 DEF Url
  <2> QED BY <1>1, <2>3 DEF Fallback
<1> QED BY <1>1, <1>2, <1>3

LEMMA NumbersAre == \A t \in Tags \cup {None} : t \in Nat
<1>1. Tags = 1..Cardinality(Tags) /\ Cardinality(Tags) \in Nat
  BY LauncherAssumption, FS_CardinalityType
<1> QED BY <1>1 DEF None

LEMMA NoRunHolds == NoRun \in Holds
  BY UrlsAre DEF NoRun, Holds, None, Attempts

LEMMA LaunchBegins == Init => LaunchInv
<1> SUFFICES ASSUME Init PROVE LaunchInv
  OBVIOUS
<1>1. PICK w \in LaunchWorlds :
       /\ world = [fault |-> w.fault, dirs |-> w.dirs, home |-> w.home, debug |-> w.debug,
                   warming |-> w.warming, alone |-> w.alone]
       /\ tool = [u \in Urls |-> IF u \in w.cached THEN 1 ELSE None]
       /\ hint = [b \in BOOLEAN |-> [tag |-> w.hinted, fresh |-> w.fresh]]
       /\ published = w.published /\ yesterday = w.hinted /\ began = w.hinted
  BY DEF Init, LaunchInit
<1>2. /\ outage = {} /\ restored = "no" /\ tmp = [u \in Urls |-> None]
      /\ content = [f \in Files |-> IF f = 1 THEN Chunks ELSE {}]
      /\ pc = [p \in Procs |-> "rest"] /\ run = [p \in Procs |-> NoRun]
      /\ launched = [p \in Procs |-> NotLaunched] /\ shared = FALSE /\ renewed = FALSE
  BY DEF Init, LaunchInit
<1>3. /\ w.fault \in LaunchFaults /\ w.debug \in BOOLEAN /\ w.warming \in Warmings /\ w.alone \in BOOLEAN
      /\ w.dirs \in Seq(Directory) /\ w.dirs # <<>> /\ w.home \in DOMAIN w.dirs \cup {None}
      /\ \A u, v \in w.cached : u = v
      /\ w.published \in Tags /\ w.hinted \in Tags \cup {None} /\ w.hinted <= w.published
      /\ w.fresh \in BOOLEAN
  BY LauncherAssumption
<1>4. 1 \in Files
  <2>1. Cardinality(Urls) \in Nat /\ Cardinality(Procs) \in Nat
    BY UrlsAreFinite, FS_CardinalityType
  <2> QED BY <2>1 DEF Files
<1>5. WorldTypes
  <2>1. w.home \in Nat
    BY <1>3 DEF None
  <2>2. Tags \subseteq Nat
    BY LauncherAssumption, FS_CardinalityType
  <2>3. world \in Worlds
    BY <1>1, <1>3, <2>1 DEF Worlds
  <2>4. yesterday \in Tags \cup {None} /\ yesterday <= published /\ began \in Tags \cup {None} /\ began <= yesterday
    <3>1. published = w.published /\ w.published \in Nat
      BY <1>1, <1>3, <2>2
    <3>5. w.hinted \in Tags \cup {None}
      BY <1>3
    <3>2. w.hinted \in Nat
      BY <3>5, NumbersAre
    <3>3. yesterday = w.hinted /\ began = w.hinted
      BY <1>1
    <3>4. w.hinted <= w.published /\ w.hinted <= w.hinted
      BY <1>3, <3>2
    <3> QED BY <1>3, <3>1, <3>3, <3>4
  <2> QED BY <1>1, <1>2, <1>3, <2>3, <2>4 DEF WorldTypes
<1>6. DiskTypes
  <2>1. tool \in [Urls -> Files \cup {None}] /\ tmp \in [Urls -> Files \cup {None}]
    BY <1>1, <1>2, <1>4
  <2>2. content \in [Files -> SUBSET Chunks]
    BY <1>2
  <2>3. hint \in [BOOLEAN -> Hints]
    BY <1>1, <1>3 DEF Hints
  <2> QED BY <2>1, <2>2, <2>3 DEF DiskTypes
<1>8. RunTypes
  BY <1>2, NoRunHolds DEF RunTypes, LaunchLabels
<1>9. NamesApart
  BY <1>1, <1>2, <1>3 DEF NamesApart, None
<1>10. Stand("rest", NoRun) /\ Recent("rest", NoRun)
  <2>1. NoRun.source = 1 /\ Len(Sources) \in Nat
    BY <1>5, SourcesAre DEF NoRun
  <2> QED BY <2>1 DEF Stand, Recent, WritingLabels
<1>11. HintRecent
  <2>1. hint[world.debug] = [tag |-> w.hinted, fresh |-> w.fresh]
    BY <1>1, <1>3
  <2>2. w.hinted \in Nat /\ w.hinted <= published
    BY <1>1, <1>3, LauncherAssumption, FS_CardinalityType DEF None
  <2>3. w.hinted >= Newest(w.hinted)
    BY <2>2, NewestGrows
  <2>4. Owed = Newest(w.hinted) /\ Oldest = Newest(w.hinted)
    BY <1>1, <1>2 DEF Owed, Oldest
  <2> QED BY <2>1, <2>2, <2>3, <2>4 DEF HintRecent
<1>12. Undisturbed
  BY <1>2 DEF Undisturbed, OneWriter, OneCopier, OnLocal, Writes, Copies, WritingLabels
<1>13. CacheWhole
  BY <1>1, <1>2, <1>4 DEF CacheWhole, WholeOrCut, None
<1>14. ExecWhole
  BY <1>2 DEF ExecWhole
<1> QED BY <1>2, <1>5, <1>6, <1>8, <1>9, <1>10, <1>11, <1>12, <1>13, <1>14 DEF LaunchInv

\* What changes of the world beside a launch: a launch may use up the bad body or the crash.
SameWorld ==
  /\ world' \in Worlds /\ world'.dirs = world.dirs /\ world'.home = world.home
  /\ world'.debug = world.debug /\ world'.warming = world.warming
  /\ (renewed => renewed') /\ renewed' \in BOOLEAN /\ UNCHANGED <<published, yesterday, began, outage, restored>>

LEMMA SourcesStay ==
  ASSUME world'.dirs = world.dirs, world'.home = world.home
  PROVE  Sources' = Sources
<1>1. RootDir' = RootDir
  BY DEF RootDir, Marked, Deepest
<1> QED BY <1>1 DEF Sources

LEMMA OwedIs ==
  ASSUME WorldTypes
  PROVE  /\ Owed \in Nat /\ Oldest \in Nat /\ Oldest <= Owed /\ Owed <= Newest(published)
         /\ Newest(published) \in Nat /\ Newest(published) <= published /\ published \in Nat
<1>1. published \in Nat /\ yesterday \in Nat /\ began \in Nat /\ yesterday <= published /\ began <= yesterday
  BY LauncherAssumption, FS_CardinalityType DEF WorldTypes, None
<1>2. /\ Newest(began) \in Nat /\ Newest(yesterday) \in Nat /\ Newest(published) \in Nat
      /\ Newest(began) <= Newest(yesterday) /\ Newest(yesterday) <= Newest(published)
      /\ Newest(published) <= published
  BY <1>1, NewestGrows
<1>3. Owed \in {Newest(began), Newest(yesterday)} /\ Oldest = Newest(began)
  BY DEF Owed, Oldest
<1> QED BY <1>1, <1>2, <1>3

LEMMA WorldStays ==
  ASSUME LaunchInv, SameWorld
  PROVE  /\ WorldTypes' /\ Sources' = Sources /\ \A n : Newest(n)' = Newest(n)
         /\ Owed' <= Owed /\ Oldest' = Oldest /\ (renewed' = renewed => Owed' = Owed)
         /\ \A l : \A r \in Holds : Recent(l, r) => Recent(l, r)'
         /\ \A l, r : Stand(l, r) /\ (\A u \in Urls : tool[u] # None => tool'[u] # None) /\ r.url \in Urls
                        => Stand(l, r)'
<1>1. Sources' = Sources
  BY SourcesStay DEF SameWorld
<1>2. \A n : Newest(n)' = Newest(n)
  BY DEF Newest, OfferedOf, SameWorld
<1>3. WorldTypes'
  BY DEF LaunchInv, WorldTypes, SameWorld
<1>6. Oldest' = Oldest /\ (renewed' = renewed => Owed' = Owed)
  BY <1>2 DEF Oldest, Owed, SameWorld
<1>7. Owed' <= Owed /\ Owed' \in Nat /\ Owed \in Nat
  <2>1. Owed' = Owed \/ Owed' = Oldest
    BY <1>2 DEF LaunchInv, RunTypes, Oldest, Owed, SameWorld
  <2> QED BY <2>1, OwedIs DEF LaunchInv
<1>4. ASSUME NEW l, NEW r \in Holds, Recent(l, r) PROVE Recent(l, r)'
  <2>7. r.tag \in Tags \cup {None} /\ (r.url[1] = "github" => r.url[2] \in Tags)
    BY UrlsAre DEF Holds
  <2>2. r.tag \in Nat /\ (r.url[1] = "github" => r.url[2] \in Nat)
    BY <2>7, NumbersAre
  <2>3. \A n \in Nat : n >= Owed => n >= Owed'
    BY <1>7
  <2>4. l = "hint" => r.tag >= Owed' /\ r.tag <= published'
    BY <1>4, <2>2, <2>3 DEF Recent, SameWorld
  <2>5. l \in {"touch", "touched"} =>
          r.tag >= Oldest' /\ r.tag <= published' /\ (r.url[1] = "github" => r.url[2] >= Oldest')
    BY <1>4, <1>6 DEF Recent, SameWorld
  <2>6. /\ l \in {"create", "fallback", "exec"} \cup WritingLabels /\ r.url[1] = "github"
        /\ Sources[r.source].kind = "github" /\ Sources[r.source].tag = None
        => r.url[2] >= Owed'
    BY <1>4, <2>2, <2>3 DEF Recent
  <2> QED BY <1>1, <2>4, <2>5, <2>6 DEF Recent
<1>5. \A l, r : Stand(l, r) /\ (\A u \in Urls : tool[u] # None => tool'[u] # None) /\ r.url \in Urls
                  => Stand(l, r)'
  BY <1>1 DEF Stand, SameWorld
<1> QED BY <1>1, <1>2, <1>3, <1>4, <1>5, <1>6, <1>7

\* A launch goes to label l with r, and neither begins nor ends to write.
Turn(p, l, r) ==
  /\ l \in LaunchLabels /\ r \in Holds
  /\ pc' = [pc EXCEPT ![p] = l] /\ run' = [run EXCEPT ![p] = r]
  /\ Stand(l, r) /\ (Recent(l, r) \/ Recent(l, r)')
  /\ l \in WritingLabels =>
       /\ pc[p] \in WritingLabels /\ r.url = run[p].url /\ r.file = run[p].file /\ r.got = run[p].got
       /\ l = "rename" => WholeOrCut(r.file, r.got)'
  /\ l # "copying" /\ (l = "exec" => r.url # LocalPath)

LEMMA TurnKeeps ==
  ASSUME LaunchInv, NEW p \in Procs, NEW l, NEW r, Turn(p, l, r), SameWorld,
         UNCHANGED <<tool, tmp, content, shared>>, cutoff \subseteq cutoff', renewed' \in BOOLEAN,
         hint' \in [BOOLEAN -> Hints], HintRecent',
         launched' = [q \in Procs |-> launched'[q]], ExecWhole'
  PROVE  LaunchInv'
<1>1. /\ pc'[p] = l /\ run'[p] = r /\ l \in LaunchLabels /\ r \in Holds
      /\ \A q \in Procs \ {p} : pc'[q] = pc[q] /\ run'[q] = run[q]
  BY DEF LaunchInv, RunTypes, Turn
<1>2. WorldTypes' /\ DiskTypes' /\ NamesApart'
  BY WorldStays DEF LaunchInv, DiskTypes, NamesApart
<1>3. RunTypes'
  BY DEF LaunchInv, RunTypes, Turn
<1>4. ASSUME NEW q \in Procs PROVE (Stand(pc[q], run[q]) /\ Recent(pc[q], run[q]))'
  <2>1. PICK m, s : m = pc'[q] /\ s = run'[q]
    OBVIOUS
  <2>2. Stand(m, s) /\ (Recent(m, s) \/ Recent(m, s)')
    BY <1>1, <2>1 DEF LaunchInv, Turn
  <2>3. s \in Holds /\ s.url \in Urls
    BY <1>3, <2>1 DEF RunTypes, Holds
  <2>4. Stand(m, s)'
    BY <2>2, <2>3, WorldStays
  <2>5. Recent(m, s)'
    BY <2>2, <2>3, WorldStays
  <2> QED BY <2>1, <2>4, <2>5
<1>5. Undisturbed'
  <2>1. SUFFICES ASSUME ~shared
                 PROVE  OneWriter' /\ OneCopier' /\ \A q \in Procs : Writes(q)' /\ Copies(q)'
    BY DEF Undisturbed
  <2>2. OneWriter /\ OneCopier /\ \A q \in Procs : Writes(q) /\ Copies(q)
    BY <2>1 DEF LaunchInv, Undisturbed
  <2>3. OneWriter'
    BY <1>1, <2>2 DEF OneWriter, Turn
  <2>4. OneCopier'
    BY <1>1, <2>2 DEF OneCopier, OnLocal, Turn
  <2>5. ASSUME NEW q \in Procs PROVE Writes(q)' /\ Copies(q)'
    <3>1. CASE q # p
      BY <1>1, <2>2, <3>1 DEF Writes, Copies, WholeOrCut
    <3>2. CASE q = p
      <4>1. Writes(p)'
        BY <1>1, <2>2 DEF Writes, Turn, WholeOrCut
      <4>2. Copies(p)'
        BY <1>1 DEF Copies, Turn
      <4> QED BY <3>2, <4>1, <4>2
    <3> QED BY <3>1, <3>2
  <2> QED BY <2>3, <2>4, <2>5
<1>6. CacheWhole'
  BY DEF LaunchInv, CacheWhole, WholeOrCut, SameWorld
<1> QED BY <1>2, <1>3, <1>4, <1>5, <1>6 DEF LaunchInv

SomeTurn(p) == \E l, r : Turn(p, l, r)

LEMMA WorldIsSame ==
  ASSUME LaunchInv, UNCHANGED worldVars, DiskSame \/ (UNCHANGED began /\ (UNCHANGED renewed \/ renewed' = TRUE))
  PROVE  SameWorld
<1>1. (renewed => renewed') /\ renewed' \in BOOLEAN /\ began' = began
  BY DEF LaunchInv, RunTypes, DiskSame, diskVars, hintVars
<1> QED BY <1>1 DEF LaunchInv, WorldTypes, worldVars, SameWorld

LEMMA QuietTurnKeeps ==
  ASSUME LaunchInv, NEW p \in Procs, SomeTurn(p), SameWorld, DiskSame, UNCHANGED <<launched, shared>>
  PROVE  LaunchInv'
<1>1. PICK l, r : Turn(p, l, r)
  BY DEF SomeTurn
<1>2. UNCHANGED <<tool, tmp, content, cutoff, hint, began, renewed>>
  BY DEF DiskSame, diskVars, fileVars, hintVars
<1>3. /\ hint' \in [BOOLEAN -> Hints] /\ launched' = [q \in Procs |-> launched'[q]]
      /\ renewed' \in BOOLEAN /\ cutoff \subseteq cutoff'
  BY <1>2 DEF LaunchInv, DiskTypes, RunTypes
<1>4. HintRecent'
  BY <1>2, WorldStays DEF LaunchInv, HintRecent, SameWorld
<1>5. ExecWhole'
  BY DEF LaunchInv, ExecWhole, SameWorld
<1> QED BY <1>1, <1>2, <1>3, <1>4, <1>5, TurnKeeps

\* A launch past the gate: what its source is, and that the restore is over or never waited for.
LEMMA PastTheGate ==
  ASSUME LaunchInv, NEW p \in Procs, pc[p] \notin {"rest", "start", "source", "running", "failed", "killed"}
  PROVE  /\ run[p] \in Holds /\ Stand(pc[p], run[p]) /\ Recent(pc[p], run[p])
         /\ ~(world.warming = "marked" /\ restored # "yes")
         /\ run[p].source \in Nat \ {0} /\ run[p].source <= Len(Sources) /\ Len(Sources) \in Nat
         /\ Source(p) \in Configured /\ world.debug \in BOOLEAN /\ hint[world.debug] \in Hints
<1>1. run[p] \in Holds /\ Stand(pc[p], run[p]) /\ Recent(pc[p], run[p])
  BY DEF LaunchInv, RunTypes
<1>2. run[p].source \in Nat \ {0} /\ run[p].source <= Len(Sources)
  BY <1>1 DEF Holds, Stand
<1>3. Source(p) \in Configured /\ Len(Sources) \in Nat
  BY <1>2, SourcesAre DEF LaunchInv, Source
<1>4. world.debug \in BOOLEAN /\ hint[world.debug] \in Hints
  BY DEF LaunchInv, WorldTypes, Worlds, DiskTypes
<1>5. ~(world.warming = "marked" /\ restored # "yes")
  BY <1>1 DEF Stand
<1> QED BY <1>1, <1>2, <1>3, <1>4, <1>5

LEMMA NextSourceTurns ==
  ASSUME LaunchInv, NEW p \in Procs, NextSource(p), run[p].source \in Nat \ {0},
         run[p].source <= Len(Sources), ~(world.warming = "marked" /\ restored # "yes")
  PROVE  SomeTurn(p)
<1> DEFINE r == [NoRun EXCEPT !.source = run[p].source + 1]
<1>1. r.source = run[p].source + 1
  BY DEF NoRun
<1>2. r \in Holds
  <2>1. run[p].source + 1 \in Nat \ {0}
    OBVIOUS
  <2> QED BY <2>1, NoRunHolds DEF Holds
<1>3. pc' = [pc EXCEPT ![p] = "source"] /\ run' = [run EXCEPT ![p] = r]
  BY DEF NextSource, At, Keep
<1> HIDE DEF r
<1>4. Len(Sources) \in Nat
  BY SourcesAre DEF LaunchInv
<1>5. Stand("source", r)
  BY <1>1, <1>4 DEF Stand, WritingLabels
<1>6. Recent("source", r)
  BY DEF Recent, WritingLabels
<1>7. Turn(p, "source", r)
  BY <1>2, <1>3, <1>5, <1>6 DEF Turn, LaunchLabels, WritingLabels
<1> QED BY <1>7 DEF SomeTurn

LEMMA UrlTurns ==
  ASSUME LaunchInv, NEW p \in Procs, NEW u \in Urls \ {LocalPath}, Found(p, u) \/ Missing(p, u),
         run[p].source <= Len(Sources), ~(world.warming = "marked" /\ restored # "yes"),
         u[1] = "github" /\ Source(p).kind = "github" /\ Source(p).tag = None => u[2] >= Owed
  PROVE  SomeTurn(p)
<1>1. run[p] \in Holds /\ Len(Sources) \in Nat
  BY SourcesAre DEF LaunchInv, RunTypes
<1>2. ASSUME NEW l \in {"exec", "create"}, NEW r \in Holds, r.url = u, r.source = run[p].source,
             l = "exec" => tool[u] # None,
             pc' = [pc EXCEPT ![p] = l], run' = [run EXCEPT ![p] = r]
      PROVE  SomeTurn(p)
  <2>1. Stand(l, r)
    BY <1>1, <1>2 DEF Stand, WritingLabels, Holds
  <2>2. Recent(l, r)
    BY <1>2 DEF Recent, WritingLabels, Source
  <2>3. Turn(p, l, r)
    BY <1>2, <2>1, <2>2 DEF Turn, LaunchLabels, WritingLabels
  <2> QED BY <2>3 DEF SomeTurn
<1>3. CASE Found(p, u)
  <2> DEFINE r == [run[p] EXCEPT !.url = u]
  <2>1. r \in Holds /\ r.url = u /\ r.source = run[p].source
    BY <1>1 DEF Holds
  <2>2. pc' = [pc EXCEPT ![p] = "exec"] /\ run' = [run EXCEPT ![p] = r] /\ tool[u] # None
    BY <1>3 DEF Found, At, Keep
  <2> HIDE DEF r
  <2> QED BY <1>2, <2>1, <2>2
<1>4. CASE Missing(p, u)
  <2> DEFINE r == [run[p] EXCEPT !.url = u, !.attempt = 1]
  <2>1. 1 \in 0..Attempts
    BY DEF Attempts
  <2>2. r \in Holds /\ r.url = u /\ r.source = run[p].source
    BY <1>1, <2>1 DEF Holds
  <2>3. pc' = [pc EXCEPT ![p] = "create"] /\ run' = [run EXCEPT ![p] = r]
    BY <1>4 DEF Missing, At, Keep
  <2> HIDE DEF r
  <2> QED BY <1>2, <2>2, <2>3
<1> QED BY <1>3, <1>4

LEMMA AttemptFailsTurns ==
  ASSUME LaunchInv, NEW p \in Procs, pc[p] \in WritingLabels, AttemptFails(p)
  PROVE  SomeTurn(p)
<1>1. /\ run[p] \in Holds /\ Stand(pc[p], run[p]) /\ Recent(pc[p], run[p])
      /\ ~(world.warming = "marked" /\ restored # "yes")
      /\ run[p].source \in Nat \ {0} /\ run[p].source <= Len(Sources) /\ Len(Sources) \in Nat
  BY PastTheGate DEF WritingLabels
<1>2. run[p].url \in Urls \ {LocalPath} /\ run[p].attempt \in 0..Attempts
  BY <1>1 DEF Stand, Holds
<1>3. ASSUME NEW l \in {"create", "fallback"}, NEW r \in Holds, r.url \in Urls \ {LocalPath},
             r.url[1] = "github" => run[p].url[1] = "github" /\ r.url[2] = run[p].url[2],
             r.source = run[p].source, pc' = [pc EXCEPT ![p] = l], run' = [run EXCEPT ![p] = r]
      PROVE  SomeTurn(p)
  <2>1. Stand(l, r)
    BY <1>1, <1>3 DEF Stand, WritingLabels
  <2>2. Recent(l, r)
    BY <1>1, <1>3 DEF Recent
  <2>3. Turn(p, l, r)
    BY <1>3, <2>1, <2>2 DEF Turn, LaunchLabels, WritingLabels
  <2> QED BY <2>3 DEF SomeTurn
<1>4. CASE run[p].url[1] = "github" /\ run[p].attempt < Attempts
  <2> DEFINE r == [Retried(run[p]) EXCEPT !.file = None]
  <2>1. run[p].attempt + 1 \in 0..Attempts
    BY <1>2, <1>4 DEF Attempts
  <2>2. r \in Holds /\ r.url = run[p].url /\ r.source = run[p].source
    BY <1>1, <2>1 DEF Holds, Retried
  <2>3. pc' = [pc EXCEPT ![p] = "create"] /\ run' = [run EXCEPT ![p] = r]
    BY <1>4 DEF AttemptFails, At, Keep
  <2> HIDE DEF r
  <2> QED BY <1>2, <1>3, <2>2, <2>3
<1>5. CASE ~(run[p].url[1] = "github" /\ run[p].attempt < Attempts) /\ run[p].url[1] = "github" /\ run[p].url[3]
  <2> DEFINE r == [run[p] EXCEPT !.url = Fallback(run[p].url), !.file = None]
  <2>1. Fallback(run[p].url) \in Urls \ {LocalPath} /\ Fallback(run[p].url)[2] = run[p].url[2]
    BY <1>2, <1>5, UrlsAre
  <2>2. r \in Holds /\ r.url = Fallback(run[p].url) /\ r.source = run[p].source
    BY <1>1, <2>1 DEF Holds
  <2>3. pc' = [pc EXCEPT ![p] = "fallback"] /\ run' = [run EXCEPT ![p] = r]
    BY <1>5 DEF AttemptFails, At, Keep
  <2> HIDE DEF r
  <2> QED BY <1>3, <1>5, <2>1, <2>2, <2>3
<1>6. CASE ~(run[p].url[1] = "github" /\ run[p].attempt < Attempts) /\ ~(run[p].url[1] = "github" /\ run[p].url[3])
  <2>1. NextSource(p)
    BY <1>6 DEF AttemptFails
  <2> QED BY <1>1, <2>1, NextSourceTurns
<1> QED BY <1>4, <1>5, <1>6

LEMMA GateKeeps ==
  ASSUME LaunchInv, NEW p \in Procs, Gate(p)
  PROVE  LaunchInv'
<1>1. /\ pc[p] = "start" /\ pc' = [pc EXCEPT ![p] = "source"] /\ run' = run /\ run[p] \in Holds
      /\ (world.warming = "marked" => restored = "yes") /\ DiskSame /\ UNCHANGED <<worldVars, launched, shared>>
  BY DEF Gate, At, Same, LaunchInv, RunTypes
<1>2. run' = [run EXCEPT ![p] = run[p]]
  BY <1>1 DEF LaunchInv, RunTypes
<1>3. Stand("source", run[p])
  <2>1. Stand("start", run[p])
    BY <1>1 DEF LaunchInv
  <2> QED BY <1>1, <2>1 DEF Stand, WritingLabels
<1>4. Recent("source", run[p])
  BY DEF Recent, WritingLabels
<1>5. Turn(p, "source", run[p])
  BY <1>1, <1>2, <1>3, <1>4 DEF Turn, LaunchLabels, WritingLabels
<1> QED BY <1>1, <1>5, WorldIsSame, QuietTurnKeeps DEF SomeTurn

LEMMA BeginTurns ==
  ASSUME LaunchInv, NEW p \in Procs, Begin(p)
  PROVE  SomeTurn(p)
<1> DEFINE s == Source(p)
           h == hint[world.debug]
<1>1. pc[p] = "source"
  BY DEF Begin
<1>2. /\ run[p] \in Holds /\ Stand("source", run[p]) /\ Len(Sources) \in Nat
      /\ ~(world.warming = "marked" /\ restored # "yes") /\ run[p].source \in Nat \ {0}
  <2>1. run[p] \in Holds /\ Stand("source", run[p]) /\ Len(Sources) \in Nat
    BY <1>1, SourcesAre DEF LaunchInv, RunTypes
  <2> QED BY <2>1 DEF Stand, Holds
<1>3. ASSUME NEW l \in {"failed", "api"}, pc' = [pc EXCEPT ![p] = l], run' = run,
             l = "api" => run[p].source <= Len(Sources)
      PROVE  SomeTurn(p)
  <2>1. run' = [run EXCEPT ![p] = run[p]]
    BY <1>3 DEF LaunchInv, RunTypes
  <2>2. Stand(l, run[p])
    BY <1>2, <1>3 DEF Stand, WritingLabels
  <2>3. Recent(l, run[p])
    BY <1>3 DEF Recent, WritingLabels
  <2>4. Turn(p, l, run[p])
    BY <1>2, <1>3, <2>1, <2>2, <2>3 DEF Turn, LaunchLabels, WritingLabels
  <2> QED BY <2>4 DEF SomeTurn
<1>4. SomeTurn(p)
  <2>1. CASE run[p].source > Len(Sources)
    <3>1. pc' = [pc EXCEPT ![p] = "failed"] /\ run' = run
      BY <2>1 DEF Begin, At
    <3> QED BY <1>3, <3>1
  <2>2. CASE ~(run[p].source > Len(Sources))
    <3>1. run[p].source <= Len(Sources) /\ s \in Configured
      BY <1>2, <2>2, SourcesAre DEF Source, LaunchInv
    <3>2. CASE s.kind = "http"
      <4>1. Found(p, HttpUrl) \/ Missing(p, HttpUrl)
        BY <2>2, <3>2 DEF Begin
      <4> QED BY <1>2, <3>1, <4>1, UrlsAre, UrlTurns
    <3>3. CASE s.kind = "local" /\ s.exists
      <4> DEFINE r == [run[p] EXCEPT !.url = LocalPath]
      <4>1. pc' = [pc EXCEPT ![p] = "copy"] /\ run' = [run EXCEPT ![p] = r]
        BY <2>2, <3>3 DEF Begin, At, Keep
      <4>2. r \in Holds /\ r.url = LocalPath /\ r.source = run[p].source
        BY <1>2, UrlsAre DEF Holds
      <4> HIDE DEF r
      <4>3. Stand("copy", r)
        BY <1>2, <3>1, <4>2 DEF Stand, WritingLabels
      <4>4. Recent("copy", r)
        BY DEF Recent, WritingLabels
      <4>5. Turn(p, "copy", r)
        BY <4>1, <4>2, <4>3, <4>4 DEF Turn, LaunchLabels, WritingLabels
      <4> QED BY <4>5 DEF SomeTurn
    <3>4. CASE s.kind = "local" /\ ~s.exists
      <4>1. NextSource(p)
        BY <2>2, <3>4 DEF Begin
      <4> QED BY <1>2, <3>1, <4>1, NextSourceTurns
    <3>5. CASE s.kind = "github" /\ s.tag # None
      <4>1. s.tag \in Tags /\ world.debug \in BOOLEAN
        BY <3>1, <3>5 DEF Configured, LaunchInv, WorldTypes, Worlds
      <4>2. Found(p, Url(s.tag, world.debug)) \/ Missing(p, Url(s.tag, world.debug))
        BY <2>2, <3>5 DEF Begin
      <4>3. Url(s.tag, world.debug) \in Urls \ {LocalPath}
        BY <4>1, UrlsAre
      <4> QED BY <1>2, <3>1, <3>5, <4>2, <4>3, UrlTurns
    <3>6. CASE s.kind = "github" /\ s.tag = None
      <4>1. IF Usable(h) THEN Found(p, Url(h.tag, world.debug))
            ELSE pc' = [pc EXCEPT ![p] = "api"] /\ run' = run
        BY <2>2, <3>6 DEF Begin, At
      <4>2. CASE Usable(h)
        <5>1. world.debug \in BOOLEAN /\ h \in Hints /\ h.tag # None /\ h.fresh
          BY <4>2 DEF LaunchInv, WorldTypes, Worlds, DiskTypes, Usable, Held
        <5>2. h.tag \in Tags
          BY <5>1 DEF Hints
        <5>3. Url(h.tag, world.debug) \in Urls \ {LocalPath} /\ Url(h.tag, world.debug)[2] = h.tag
          BY <5>1, <5>2, UrlsAre
        <5>4. h.tag >= Owed
          BY <5>1 DEF LaunchInv, HintRecent
        <5> QED BY <1>2, <3>1, <4>1, <4>2, <5>3, <5>4, UrlTurns
      <4>3. CASE ~Usable(h)
        BY <1>3, <3>1, <4>1, <4>3
      <4> QED BY <4>2, <4>3
    <3>7. s.kind \in {"http", "local", "github"}
      BY <3>1 DEF Configured
    <3> QED BY <3>2, <3>3, <3>4, <3>5, <3>6, <3>7
  <2> QED BY <2>1, <2>2
<1> QED BY <1>4

LEMMA BeginKeeps ==
  ASSUME LaunchInv, NEW p \in Procs, Begin(p)
  PROVE  LaunchInv'
<1>1. DiskSame /\ UNCHANGED <<worldVars, launched, shared>>
  BY DEF Begin, Same
<1> QED BY <1>1, BeginTurns, WorldIsSame, QuietTurnKeeps

LEMMA ResolveKeeps ==
  ASSUME LaunchInv, NEW p \in Procs, Resolve(p)
  PROVE  LaunchInv'
<1>1. pc[p] = "api" /\ DiskSame /\ UNCHANGED <<worldVars, launched, shared>>
  BY DEF Resolve, Same
<1>2. /\ run[p] \in Holds /\ run[p].source \in Nat \ {0} /\ run[p].source <= Len(Sources)
      /\ ~(world.warming = "marked" /\ restored # "yes")
  BY <1>1, PastTheGate
<1>3. CASE Newest(published) = None
  <2>1. NextSource(p)
    BY <1>3 DEF Resolve
  <2> QED BY <1>1, <1>2, <2>1, NextSourceTurns, WorldIsSame, QuietTurnKeeps
<1>4. CASE Newest(published) # None
  <2> DEFINE r == [run[p] EXCEPT !.tag = Newest(published)]
  <2>1. pc' = [pc EXCEPT ![p] = "hint"] /\ run' = [run EXCEPT ![p] = r]
    BY <1>4 DEF Resolve, At, Keep
  <2>2. Newest(published) \in Tags /\ Newest(published) >= Owed /\ Newest(published) <= published
    <3>1. /\ Tags = 1..Cardinality(Tags) /\ Cardinality(Tags) \in Nat
          /\ published \in Tags /\ yesterday \in Tags \cup {None} /\ yesterday <= published
      BY LauncherAssumption, FS_CardinalityType DEF LaunchInv, WorldTypes
    <3>2. published \in Nat /\ yesterday \in Nat /\ 1..published \subseteq Tags
      BY <3>1 DEF None
    <3>3. Newest(published) \in 1..published
      BY <1>4, <3>1, <3>2, NewestGrows
    <3>4. Owed <= Newest(published) /\ Newest(published) <= published /\ Owed \in Nat /\ Newest(published) \in Nat
      BY OwedIs DEF LaunchInv
    <3> QED BY <3>2, <3>3, <3>4
  <2>3. r \in Holds /\ r.tag = Newest(published) /\ r.source = run[p].source
    BY <1>2, <2>2 DEF Holds
  <2> HIDE DEF r
  <2>4. Stand("hint", r)
    BY <1>2, <2>2, <2>3 DEF Stand, WritingLabels
  <2>5. Recent("hint", r)
    BY <2>2, <2>3 DEF Recent, WritingLabels
  <2>6. Turn(p, "hint", r)
    BY <2>1, <2>3, <2>4, <2>5 DEF Turn, LaunchLabels, WritingLabels
  <2> QED BY <1>1, <2>6, WorldIsSame, QuietTurnKeeps DEF SomeTurn
<1> QED BY <1>3, <1>4

LEMMA WriteHintKeeps ==
  ASSUME LaunchInv, NEW p \in Procs, WriteHint(p)
  PROVE  LaunchInv'
<1> DEFINE u == Url(run[p].tag, world.debug)
<1>1. pc[p] = "hint" /\ UNCHANGED <<tool, tmp, content, cutoff, began, renewed, worldVars, launched, shared>>
      /\ hint' = [hint EXCEPT ![world.debug] = [tag |-> run[p].tag, fresh |-> TRUE]]
      /\ (Found(p, u) \/ Missing(p, u))
  BY DEF WriteHint, Same, fileVars
<1>2. /\ run[p] \in Holds /\ Stand("hint", run[p]) /\ Recent("hint", run[p]) /\ run[p].source <= Len(Sources)
      /\ ~(world.warming = "marked" /\ restored # "yes") /\ world.debug \in BOOLEAN
  BY <1>1, PastTheGate
<1>3. run[p].tag \in Tags /\ run[p].tag >= Owed /\ run[p].tag <= published
  BY <1>2 DEF Stand, Recent
<1>4. u \in Urls \ {LocalPath} /\ u[2] = run[p].tag
  BY <1>2, <1>3, UrlsAre
<1>5. SomeTurn(p)
  <2> HIDE DEF u
  <2> QED BY <1>1, <1>2, <1>3, <1>4, UrlTurns
<1>6. SameWorld
  BY <1>1, WorldIsSame
<1>7. hint' \in [BOOLEAN -> Hints]
  <2>1. [tag |-> run[p].tag, fresh |-> TRUE] \in Hints
    BY <1>3 DEF Hints
  <2> QED BY <1>1, <2>1 DEF LaunchInv, DiskTypes
<1>8. HintRecent'
  <2>1. hint'[world'.debug].tag = run[p].tag
    BY <1>1, <1>2, <1>6 DEF LaunchInv, DiskTypes, SameWorld
  <2>2. Owed' = Owed /\ Oldest' = Oldest /\ published' = published
    BY <1>1, <1>6, WorldStays DEF SameWorld
  <2>3. run[p].tag >= Oldest
    <3>1. run[p].tag \in Nat /\ Owed \in Nat /\ Oldest \in Nat /\ Oldest <= Owed
      BY <1>3, OwedIs, LauncherAssumption, FS_CardinalityType DEF LaunchInv
    <3> QED BY <1>3, <3>1
  <2> QED BY <1>3, <2>1, <2>2, <2>3 DEF HintRecent
<1>9. launched' = [q \in Procs |-> launched'[q]] /\ ExecWhole' /\ renewed' \in BOOLEAN
  BY <1>1, <1>6 DEF LaunchInv, RunTypes, ExecWhole, SameWorld
<1>10. PICK l, r : Turn(p, l, r)
  BY <1>5 DEF SomeTurn
<1> QED BY <1>1, <1>6, <1>7, <1>8, <1>9, <1>10, TurnKeeps

LEMMA ApiFailsKeeps ==
  ASSUME LaunchInv, NEW p \in Procs, ApiFails(p)
  PROVE  LaunchInv'
<1> DEFINE h == hint[world.debug]
<1>1. pc[p] = "api" /\ "api" \in outage /\ DiskSame /\ UNCHANGED <<worldVars, launched, shared>>
  BY DEF ApiFails, Same
<1>2. /\ run[p] \in Holds /\ run[p].source \in Nat \ {0} /\ run[p].source <= Len(Sources)
      /\ ~(world.warming = "marked" /\ restored # "yes") /\ world.debug \in BOOLEAN /\ h \in Hints
  BY <1>1, PastTheGate
<1>4. CASE ~Held(h)
  <2>1. NextSource(p)
    BY <1>4 DEF ApiFails
  <2> QED BY <1>1, <1>2, <2>1, NextSourceTurns, WorldIsSame, QuietTurnKeeps
<1>5. CASE Held(h)
  <2> DEFINE u == Url(h.tag, world.debug)
             r == [run[p] EXCEPT !.url = u, !.tag = h.tag]
  <2>1. pc' = [pc EXCEPT ![p] = "touch"] /\ run' = [run EXCEPT ![p] = r]
    BY <1>5 DEF ApiFails, At, Keep
  <2>2. h.tag \in Tags /\ tool[u] # None
    BY <1>2, <1>5 DEF Held, Hints
  <2>3. u \in Urls \ {LocalPath}
    BY <1>2, <2>2, UrlsAre
  <2>4. r \in Holds /\ r.url = u /\ r.source = run[p].source
    <3> HIDE DEF u, h
    <3> QED BY <1>2, <2>2, <2>3 DEF Holds
  <2> HIDE DEF r, u
  <2>5. Stand("touch", r)
    BY <1>2, <2>2, <2>3, <2>4 DEF Stand, WritingLabels
  <2>8. r.tag = h.tag /\ (r.url[1] = "github" => r.url[2] = h.tag)
    <3>1. u[2] = h.tag
      BY <1>2, <2>2, UrlsAre DEF u
    <3> QED BY <1>2, <2>4, <3>1 DEF r, Holds
  <2>6. Recent("touch", r)
    BY <2>8 DEF Recent, WritingLabels, LaunchInv, HintRecent
  <2>7. Turn(p, "touch", r)
    BY <2>1, <2>4, <2>5, <2>6 DEF Turn, LaunchLabels, WritingLabels
  <2> QED BY <1>1, <2>7, WorldIsSame, QuietTurnKeeps DEF SomeTurn
<1> QED BY <1>4, <1>5

LEMMA TouchReadKeeps ==
  ASSUME LaunchInv, NEW p \in Procs, TouchRead(p)
  PROVE  LaunchInv'
<1> DEFINE t == hint[world.debug].tag
           r == [run[p] EXCEPT !.tag = t]
<1>1. /\ pc[p] = "touch" /\ pc' = [pc EXCEPT ![p] = "touched"] /\ run' = [run EXCEPT ![p] = r]
      /\ DiskSame /\ UNCHANGED <<worldVars, launched, shared>>
  BY DEF TouchRead, Same, At, Keep
<1>2. run[p] \in Holds /\ Stand("touch", run[p]) /\ hint[world.debug] \in Hints
  BY <1>1, PastTheGate
<1>3. t \in Tags \cup {None}
  BY <1>2 DEF Hints
<1>8. t >= Oldest /\ t <= published /\ Recent("touch", run[p])
  BY <1>1 DEF LaunchInv, HintRecent
<1> HIDE DEF t
<1>4. r \in Holds /\ r.url = run[p].url /\ r.source = run[p].source /\ r.tag = t
  BY <1>2, <1>3 DEF Holds
<1> HIDE DEF r
<1>5. Stand("touched", r)
  BY <1>2, <1>4 DEF Stand, WritingLabels
<1>6. Recent("touched", r)
  BY <1>4, <1>8 DEF Recent, WritingLabels
<1>7. Turn(p, "touched", r)
  BY <1>1, <1>4, <1>5, <1>6 DEF Turn, LaunchLabels, WritingLabels
<1> QED BY <1>1, <1>7, WorldIsSame, QuietTurnKeeps DEF SomeTurn

LEMMA TouchWriteKeeps ==
  ASSUME LaunchInv, NEW p \in Procs, TouchWrite(p)
  PROVE  LaunchInv'
<1>1. /\ pc[p] = "touched" /\ pc' = [pc EXCEPT ![p] = "exec"] /\ run' = run
      /\ hint' = [hint EXCEPT ![world.debug] = [tag |-> run[p].tag, fresh |-> TRUE]]
      /\ UNCHANGED <<tool, tmp, content, cutoff, began, worldVars, launched, shared>> /\ renewed' = TRUE
  BY DEF TouchWrite, Same, At, fileVars
<1>2. run[p] \in Holds /\ Stand("touched", run[p]) /\ Recent("touched", run[p]) /\ world.debug \in BOOLEAN
  BY <1>1, PastTheGate
<1>3. run' = [run EXCEPT ![p] = run[p]]
  BY <1>1 DEF LaunchInv, RunTypes
<1>4. Stand("exec", run[p]) /\ run[p].url # LocalPath
  BY <1>2 DEF Stand, WritingLabels
<1>7. SameWorld
  BY <1>1, WorldIsSame
<1>5. Owed' = Oldest /\ Oldest' = Oldest /\ published' = published
  <2>1. Owed' = Oldest'
    BY <1>1 DEF Owed, Oldest
  <2> QED BY <1>7, <2>1, WorldStays DEF SameWorld
<1>11. Recent("exec", run[p])'
  BY <1>1, <1>2, <1>5 DEF Recent, WritingLabels
<1>6. Turn(p, "exec", run[p])
  BY <1>1, <1>2, <1>3, <1>4, <1>11 DEF Turn, LaunchLabels, WritingLabels
<1>8. hint' \in [BOOLEAN -> Hints]
  <2>1. [tag |-> run[p].tag, fresh |-> TRUE] \in Hints
    BY <1>2 DEF Hints, Holds
  <2> QED BY <1>1, <2>1 DEF LaunchInv, DiskTypes
<1>9. HintRecent' /\ renewed' \in BOOLEAN
  <2>1. hint'[world'.debug].tag = run[p].tag
    BY <1>1, <1>2, <1>7 DEF LaunchInv, DiskTypes, SameWorld
  <2>2. run[p].tag >= Oldest /\ run[p].tag <= published
    BY <1>2 DEF Recent
  <2> QED BY <1>1, <1>5, <2>1, <2>2 DEF HintRecent
<1>10. launched' = [q \in Procs |-> launched'[q]] /\ ExecWhole'
  BY <1>1, <1>7 DEF LaunchInv, RunTypes, ExecWhole, SameWorld
<1> QED BY <1>1, <1>6, <1>7, <1>8, <1>9, <1>10, TurnKeeps

LEMMA FallBackKeeps ==
  ASSUME LaunchInv, NEW p \in Procs, FallBack(p)
  PROVE  LaunchInv'
<1>1. /\ pc[p] = "fallback" /\ (Found(p, run[p].url) \/ Missing(p, run[p].url))
      /\ DiskSame /\ UNCHANGED <<worldVars, launched, shared>>
  BY DEF FallBack, Same
<1>2. /\ run[p] \in Holds /\ Stand("fallback", run[p]) /\ Recent("fallback", run[p])
      /\ run[p].source <= Len(Sources) /\ ~(world.warming = "marked" /\ restored # "yes")
  BY <1>1, PastTheGate
<1>3. run[p].url \in Urls \ {LocalPath}
  BY <1>2 DEF Stand, Holds
<1>4. SomeTurn(p)
  <2>1. run[p].url[1] = "github" /\ Source(p).kind = "github" /\ Source(p).tag = None
           => run[p].url[2] >= Owed
    BY <1>2 DEF Recent, Source
  <2> QED BY <1>1, <1>2, <1>3, <2>1, UrlTurns
<1> QED BY <1>1, <1>4, WorldIsSame, QuietTurnKeeps

LEMMA StrikeIsSame ==
  ASSUME LaunchInv, world.fault \in {"body", "crash"}, world' = [world EXCEPT !.fault = "none"],
         UNCHANGED <<published, yesterday, outage, restored>>, DiskSame
  PROVE  SameWorld
<1>1. (renewed => renewed') /\ renewed' \in BOOLEAN /\ began' = began
  BY DEF LaunchInv, RunTypes, DiskSame, diskVars, hintVars
<1> QED BY <1>1 DEF LaunchInv, WorldTypes, Worlds, LaunchFaults, SameWorld

LEMMA RespondKeeps ==
  ASSUME LaunchInv, NEW p \in Procs, Respond(p)
  PROVE  LaunchInv'
<1>1. pc[p] = "get" /\ DiskSame /\ UNCHANGED <<published, yesterday, outage, restored, launched, shared>>
  BY DEF Respond
<1>2. run[p] \in Holds /\ Stand("get", run[p]) /\ Recent("get", run[p])
  BY <1>1, PastTheGate
<1>3. SameWorld
  <2>1. CASE UNCHANGED world
    BY <1>1, <2>1, WorldIsSame DEF worldVars
  <2>2. CASE world.fault = "body" /\ Strike
    BY <1>1, <2>2, StrikeIsSame DEF Strike
  <2> QED BY <2>1, <2>2 DEF Respond
<1>4. ASSUME NEW n \in {0, 1, 2}, NEW b \in BOOLEAN, At(p, "stream"),
             Keep(p, [run[p] EXCEPT !.sized = n, !.announced = b])
      PROVE  SomeTurn(p)
  <2> DEFINE r == [run[p] EXCEPT !.sized = n, !.announced = b]
  <2>1. pc' = [pc EXCEPT ![p] = "stream"] /\ run' = [run EXCEPT ![p] = r]
    BY <1>4 DEF At, Keep
  <2>2. n \in 0..2
    OBVIOUS
  <2>3. /\ r \in Holds /\ r.url = run[p].url /\ r.source = run[p].source /\ r.file = run[p].file
        /\ r.got = run[p].got
    BY <1>2, <2>2 DEF Holds
  <2> HIDE DEF r
  <2>4. Stand("stream", r)
    BY <1>2, <2>3 DEF Stand, WritingLabels
  <2>5. Recent("stream", r)
    BY <1>2, <2>3 DEF Recent, WritingLabels
  <2>6. Turn(p, "stream", r)
    BY <1>1, <2>1, <2>3, <2>4, <2>5 DEF Turn, LaunchLabels, WritingLabels
  <2> QED BY <2>6 DEF SomeTurn
<1>5. SomeTurn(p)
  <2>1. CASE AttemptFails(p)
    BY <1>1, <2>1, AttemptFailsTurns DEF WritingLabels
  <2>2. CASE At(p, "stream") /\ Keep(p, [run[p] EXCEPT !.sized = 2, !.announced = TRUE])
    BY <1>4, <2>2
  <2>3. CASE At(p, "stream") /\ \E n \in {0, 1}, b \in BOOLEAN : Keep(p, [run[p] EXCEPT !.sized = n, !.announced = b])
    BY <1>4, <2>3
  <2> QED BY <2>1, <2>2, <2>3 DEF Respond
<1> QED BY <1>1, <1>3, <1>5, QuietTurnKeeps

LEMMA ResetKeeps ==
  ASSUME LaunchInv, NEW p \in Procs, Reset(p)
  PROVE  LaunchInv'
<1>1. /\ pc[p] = "stream" /\ world.fault = "body" /\ Strike /\ AttemptFails(p) /\ DiskSame
      /\ UNCHANGED <<published, yesterday, outage, restored, launched, shared>>
  BY DEF Reset
<1>2. SomeTurn(p)
  BY <1>1, AttemptFailsTurns DEF WritingLabels
<1>3. SameWorld
  BY <1>1, StrikeIsSame DEF Strike
<1> QED BY <1>1, <1>2, <1>3, QuietTurnKeeps

LEMMA KillKeeps ==
  ASSUME LaunchInv, NEW p \in Procs, Kill(p) \/ Again(p)
  PROVE  LaunchInv'
<1>1. PICK l \in {"killed", "start"} :
        pc' = [pc EXCEPT ![p] = l] /\ run' = [run EXCEPT ![p] = NoRun] /\ DiskSame /\ UNCHANGED <<launched, shared>>
  BY DEF Kill, Again, At, Keep
<1>2. SameWorld
  <2>1. CASE UNCHANGED worldVars
    BY <1>1, <2>1, WorldIsSame
  <2>2. CASE Kill(p)
    BY <1>1, <2>2, StrikeIsSame DEF Kill
  <2> QED BY <2>1, <2>2 DEF Again
<1>4. Stand(l, NoRun)
  <2>1. NoRun.source = 1 /\ Len(Sources) \in Nat
    BY SourcesAre DEF NoRun, LaunchInv
  <2> QED BY <2>1 DEF Stand, WritingLabels
<1>5. Recent(l, NoRun)
  BY DEF Recent, WritingLabels
<1>6. Turn(p, l, NoRun)
  BY <1>1, <1>4, <1>5, NoRunHolds DEF Turn, LaunchLabels, WritingLabels
<1> QED BY <1>1, <1>2, <1>6, QuietTurnKeeps DEF SomeTurn

\* A file without a name and without a writer is none of those.
LEMMA FreeFile ==
  ASSUME LaunchInv
  PROVE  /\ Unused \in Files /\ Unused # None /\ None \notin Files
         /\ \A u \in Urls : Unused # tool[u] /\ Unused # tmp[u]
         /\ \A q \in Procs : Unused # run[q].file
<1> DEFINE files == [q \in Procs |-> run[q].file]
<1>1. files \in [Procs -> Files \cup {None}] /\ \A q \in Procs : files[q] = run[q].file
  BY DEF LaunchInv, RunTypes, Holds
<1>2. tool \in [Urls -> Files \cup {None}] /\ tmp \in [Urls -> Files \cup {None}]
  BY DEF LaunchInv, DiskTypes
<1> HIDE DEF files
<1>3. Unused \in Files /\ Unused \notin Used
  BY <1>1, <1>2, UnusedIs
<1>4. None \notin Files
  BY DEF Files, None
<1> HIDE DEF Unused
<1> QED BY <1>3, <1>4 DEF Used

\* A launch at l with r, beside a disk that keeps what has a name.
LEMMA MoveStands ==
  ASSUME LaunchInv, NEW p \in Procs, NEW l \in LaunchLabels, NEW r \in Holds, UNCHANGED <<worldVars, began, renewed>>,
         pc' = [pc EXCEPT ![p] = l], run' = [run EXCEPT ![p] = r], Stand(l, r)', Recent(l, r),
         \A u \in Urls : tool[u] # None => tool'[u] # None
  PROVE  /\ WorldTypes' /\ pc' \in [Procs -> LaunchLabels] /\ run' \in [Procs -> Holds]
         /\ \A q \in Procs : (Stand(pc[q], run[q]) /\ Recent(pc[q], run[q]))'
         /\ pc'[p] = l /\ run'[p] = r /\ \A q \in Procs \ {p} : pc'[q] = pc[q] /\ run'[q] = run[q]
         /\ UNCHANGED <<world, restored>> /\ (hint' = hint => HintRecent')
<1>1. SameWorld
  BY WorldIsSame
<1>2. pc' \in [Procs -> LaunchLabels] /\ run' \in [Procs -> Holds]
  BY DEF LaunchInv, RunTypes
<1>3. pc'[p] = l /\ run'[p] = r /\ \A q \in Procs \ {p} : pc'[q] = pc[q] /\ run'[q] = run[q]
  BY DEF LaunchInv, RunTypes
<1>4. ASSUME NEW q \in Procs PROVE (Stand(pc[q], run[q]) /\ Recent(pc[q], run[q]))'
  <2>1. PICK m, s : m = pc'[q] /\ s = run'[q]
    OBVIOUS
  <2>2. CASE q = p
    <3>1. m = l /\ s = r
      BY <1>3, <2>1, <2>2
    <3>2. Recent(l, r)'
      BY <1>1, WorldStays
    <3> QED BY <2>1, <3>1, <3>2
  <2>3. CASE q # p
    <3>1. Stand(m, s) /\ Recent(m, s) /\ s \in Holds /\ s.url \in Urls
      BY <1>3, <2>1, <2>3 DEF LaunchInv, RunTypes, Holds
    <3>2. Stand(m, s)' /\ Recent(m, s)'
      BY <1>1, <3>1, WorldStays
    <3> QED BY <2>1, <3>2
  <2> QED BY <2>2, <2>3
<1>5. ASSUME hint' = hint PROVE HintRecent'
  <2>1. HintRecent /\ Owed' = Owed /\ Oldest' = Oldest
    BY <1>1, WorldStays DEF LaunchInv, SameWorld
  <2> QED BY <1>1, <1>5, <2>1 DEF HintRecent, worldVars
<1> QED BY <1>1, <1>2, <1>3, <1>4, <1>5, WorldStays DEF worldVars

LEMMA CreateKeeps ==
  ASSUME LaunchInv, NEW p \in Procs, Create(p)
  PROVE  LaunchInv'
<1>1. PICK u, f : u = run[p].url /\ f = IF tmp[u] # None THEN tmp[u] ELSE Unused
  OBVIOUS
<1>0. PICK r : r = [run[p] EXCEPT !.file = f, !.got = {}]
  OBVIOUS
<1>2. /\ pc[p] = "create" /\ pc' = [pc EXCEPT ![p] = "get"] /\ run' = [run EXCEPT ![p] = r]
      /\ tmp' = [tmp EXCEPT ![u] = f] /\ content' = [content EXCEPT ![f] = {}]
      /\ shared' = (shared \/ Writing(u) # {})
      /\ UNCHANGED <<worldVars, tool, hint, began, renewed, launched>> /\ cutoff' = cutoff \ {f}
  BY <1>0, <1>1 DEF Create, At, Keep, hintVars
<1>3. run[p] \in Holds /\ Stand("create", run[p]) /\ Recent("create", run[p])
  BY <1>2, PastTheGate
<1>4. u \in Urls \ {LocalPath}
  BY <1>1, <1>3 DEF Stand, Holds
<1>5. /\ f \in Files /\ f # None
      /\ \A v \in Urls : (tool[v] # None => tool[v] # f) /\ (v # u /\ tmp[v] # None => tmp[v] # f)
  <2>1. CASE tmp[u] = None
    BY <1>1, <1>4, <2>1, FreeFile
  <2>2. CASE tmp[u] # None
    <3>1. f = tmp[u] /\ f \in Files /\ f # None
      BY <1>1, <1>4, <2>2 DEF LaunchInv, DiskTypes
    <3> QED BY <1>4, <3>1 DEF LaunchInv, NamesApart
  <2> QED BY <2>1, <2>2
<1>6. r \in Holds /\ r.url = u /\ r.source = run[p].source /\ r.file = f /\ r.got = {}
  BY <1>0, <1>1, <1>3, <1>5 DEF Holds
<1>7. Stand("get", r)'
  <2>1. Stand("get", r)
    BY <1>3, <1>4, <1>6 DEF Stand, WritingLabels
  <2>2. SameWorld /\ r.url \in Urls /\ tool' = tool
    BY <1>2, <1>4, <1>6, WorldIsSame
  <2> QED BY <2>1, <2>2, WorldStays
<1>8. Recent("get", r)
  BY <1>1, <1>3, <1>6 DEF Recent, WritingLabels
<1>9. /\ WorldTypes' /\ pc' \in [Procs -> LaunchLabels] /\ run' \in [Procs -> Holds]
      /\ \A q \in Procs : (Stand(pc[q], run[q]) /\ Recent(pc[q], run[q]))'
      /\ pc'[p] = "get" /\ run'[p] = r /\ \A q \in Procs \ {p} : pc'[q] = pc[q] /\ run'[q] = run[q]
      /\ UNCHANGED <<world, restored>> /\ HintRecent'
  <2>1. UNCHANGED <<worldVars, began, renewed>> /\ tool' = tool /\ hint' = hint /\ "get" \in LaunchLabels
    BY <1>2 DEF LaunchLabels
  <2> QED BY <1>2, <1>6, <1>7, <1>8, <2>1, MoveStands
<1>10. DiskTypes' /\ NamesApart'
  <2>1. DiskTypes'
    BY <1>2, <1>4, <1>5 DEF LaunchInv, DiskTypes
  <2>2. tmp'[u] = f /\ \A v \in Urls \ {u} : tmp'[v] = tmp[v]
    BY <1>2, <1>4 DEF LaunchInv, DiskTypes
  <2>3. NamesApart'
    BY <1>2, <1>4, <1>5, <2>2 DEF LaunchInv, NamesApart
  <2> QED BY <2>1, <2>3
<1>11. RunTypes'
  <2>1. shared' \in BOOLEAN
    BY <1>2 DEF LaunchInv, RunTypes
  <2> QED BY <1>2, <1>9, <2>1 DEF LaunchInv, RunTypes
<1>12. content'[f] = {} /\ \A g \in Files : g # f => content'[g] = content[g]
  BY <1>2, <1>5 DEF LaunchInv, DiskTypes
<1>13. Undisturbed'
  <2>1. SUFFICES ASSUME ~shared, Writing(u) = {}
                 PROVE  OneWriter' /\ OneCopier' /\ \A q \in Procs : Writes(q)' /\ Copies(q)'
    BY <1>2 DEF Undisturbed
  <2>2. OneWriter /\ OneCopier /\ \A q \in Procs : Writes(q) /\ Copies(q)
    BY <2>1 DEF LaunchInv, Undisturbed
  <2>3. \A q \in Procs : pc[q] \in WritingLabels => run[q].url # u
    BY <2>1 DEF Writing, WritingLabels
  <2>4. OneWriter'
    BY <1>6, <1>9, <2>2, <2>3 DEF OneWriter
  <2>5. OneCopier'
    BY <1>9, <2>2 DEF OneCopier, OnLocal
  <2>6. ASSUME NEW q \in Procs PROVE Writes(q)' /\ Copies(q)'
    <3>1. CASE q = p
      <4>1. Writes(p)'
        BY <1>2, <1>4, <1>5, <1>6, <1>9, <1>12 DEF Writes, LaunchInv, DiskTypes
      <4>2. Copies(p)'
        BY <1>9 DEF Copies
      <4> QED BY <3>1, <4>1, <4>2
    <3>2. CASE q # p
      <4>1. Writes(q)'
        <5>1. SUFFICES ASSUME pc[q] \in WritingLabels PROVE Writes(q)'
          BY <1>9, <3>2 DEF Writes
        <5>2. run[q].url \in Urls /\ run[q].url # u
          BY <2>3, <5>1 DEF LaunchInv, RunTypes, Holds
        <5>3. run[q].file \in Files /\ tmp[run[q].url] = run[q].file
          BY <2>2, <5>1 DEF Writes
        <5>4. run[q].file # f /\ tmp'[run[q].url] = tmp[run[q].url]
          BY <1>2, <1>5, <5>2, <5>3, FreeFile DEF LaunchInv, DiskTypes
        <5>5. WholeOrCut(run[q].file, run[q].got) => WholeOrCut(run[q].file, run[q].got)'
          BY <1>2, <1>9, <3>2, <5>4 DEF WholeOrCut
        <5> QED BY <1>9, <1>12, <2>2, <3>2, <5>3, <5>4, <5>5 DEF Writes
      <4>2. Copies(q)'
        <5>1. pc[q] = "exec" /\ run[q].url = LocalPath => tool[LocalPath] # None
          BY DEF LaunchInv, Stand
        <5>2. LocalPath \in Urls /\ tool \in [Urls -> Files \cup {None}]
          BY UrlsAre DEF LaunchInv, DiskTypes
        <5> QED BY <1>2, <1>5, <1>9, <1>12, <2>2, <3>2, <5>1, <5>2 DEF Copies
      <4> QED BY <4>1, <4>2
    <3> QED BY <3>1, <3>2
  <2> QED BY <2>4, <2>5, <2>6
<1>14. CacheWhole'
  <2>1. tool \in [Urls -> Files \cup {None}]
    BY DEF LaunchInv, DiskTypes
  <2>2. SUFFICES ASSUME CacheWhole PROVE CacheWhole'
    BY DEF LaunchInv
  <2>3. UNCHANGED <<tool, world, restored>> /\ (~shared' => ~shared)
    BY <1>2 DEF worldVars
  <2>4. ASSUME NEW v \in Urls \ {LocalPath}, tool[v] # None
        PROVE  content'[tool[v]] = content[tool[v]] /\ (tool[v] \in cutoff => tool[v] \in cutoff')
    <3>1. tool[v] \in Files /\ tool[v] # f
      BY <1>5, <2>1, <2>4
    <3> QED BY <1>2, <1>12, <3>1
  <2> QED BY <2>2, <2>3, <2>4 DEF CacheWhole, WholeOrCut
<1>15. ExecWhole'
  BY <1>2, <1>9 DEF LaunchInv, ExecWhole
<1> QED BY <1>9, <1>10, <1>11, <1>13, <1>14, <1>15 DEF LaunchInv

LEMMA ChunkKeeps ==
  ASSUME LaunchInv, NEW p \in Procs, Chunk(p)
  PROVE  LaunchInv'
<1>1. pc[p] = "stream" /\ UNCHANGED <<worldVars, launched, shared, tool, tmp, cutoff, hint, began, renewed>>
  BY DEF Chunk, Same, hintVars
<1>2. run[p] \in Holds /\ Stand("stream", run[p]) /\ Recent("stream", run[p])
  BY <1>1, PastTheGate
<1>3. PICK n : n = Cardinality(run[p].got) + 1
  OBVIOUS
<1>4. CASE ~(n <= run[p].sized)
  <2>1. pc' = [pc EXCEPT ![p] = "check"] /\ UNCHANGED <<run, content>>
    BY <1>3, <1>4 DEF Chunk, At
  <2>2. run' = [run EXCEPT ![p] = run[p]]
    BY <2>1 DEF LaunchInv, RunTypes
  <2>3. Stand("check", run[p])
    BY <1>2 DEF Stand, WritingLabels
  <2>4. Recent("check", run[p])
    BY <1>2 DEF Recent, WritingLabels
  <2>5. Turn(p, "check", run[p])
    BY <1>1, <1>2, <2>1, <2>2, <2>3, <2>4 DEF Turn, LaunchLabels, WritingLabels
  <2> QED BY <1>1, <2>1, <2>5, WorldIsSame, QuietTurnKeeps DEF SomeTurn, DiskSame, diskVars, fileVars, hintVars
<1>5. CASE n <= run[p].sized
  <2>1. PICK f, g : f = run[p].file /\ g = run[p].got \cup {n}
    OBVIOUS
  <2>2. PICK r : r = [run[p] EXCEPT !.got = g]
    OBVIOUS
  <2>3. /\ pc' = pc /\ run' = [run EXCEPT ![p] = r]
        /\ content' = [content EXCEPT ![f] = @ \cup {n}]
    <3>1. run' = [run EXCEPT ![p] = [run[p] EXCEPT !.got = run[p].got \cup {n}]]
      BY <1>3, <1>5 DEF Chunk, Keep
    <3>2. pc' = pc /\ content' = [content EXCEPT ![run[p].file] = @ \cup {n}]
      BY <1>3, <1>5 DEF Chunk
    <3> QED BY <2>1, <2>2, <3>1, <3>2
  <2>4. n \in Chunks
    <3>1. run[p].got \subseteq {1, 2} /\ run[p].sized \in 0..2
      BY <1>2 DEF Holds, Chunks
    <3>2. IsFiniteSet({1, 2})
      <4>1. IsFiniteSet({1}) /\ IsFiniteSet({2}) /\ {1, 2} = {1} \cup {2}
        BY FS_Singleton
      <4> QED BY <4>1, FS_Union
    <3>3. Cardinality(run[p].got) \in Nat
      BY <3>1, <3>2, FS_Subset, FS_CardinalityType
    <3> QED BY <1>3, <1>5, <3>1, <3>3 DEF Chunks
  <2>5. /\ r \in Holds /\ r.url = run[p].url /\ r.source = run[p].source /\ r.file = f /\ r.got = g
        /\ r.url \in Urls
    <3>1. g \subseteq Chunks
      BY <1>2, <2>1, <2>4 DEF Holds
    <3> QED BY <1>2, <2>1, <2>2, <3>1 DEF Holds
  <2>6. pc' = [pc EXCEPT ![p] = "stream"]
    BY <1>1, <2>3 DEF LaunchInv, RunTypes
  <2>7. Stand("stream", r)'
    <3>1. Stand("stream", r)
      BY <1>2, <2>5 DEF Stand, WritingLabels
    <3>2. SameWorld /\ tool' = tool
      BY <1>1, WorldIsSame
    <3> QED BY <2>5, <3>1, <3>2, WorldStays
  <2>8. Recent("stream", r)
    BY <1>2, <2>5 DEF Recent, WritingLabels
  <2>9. /\ WorldTypes' /\ pc' \in [Procs -> LaunchLabels] /\ run' \in [Procs -> Holds]
        /\ \A q \in Procs : (Stand(pc[q], run[q]) /\ Recent(pc[q], run[q]))'
        /\ pc'[p] = "stream" /\ run'[p] = r /\ \A q \in Procs \ {p} : pc'[q] = pc[q] /\ run'[q] = run[q]
        /\ UNCHANGED <<world, restored>> /\ HintRecent'
    <3>1. UNCHANGED <<worldVars, began, renewed>> /\ tool' = tool /\ hint' = hint /\ "stream" \in LaunchLabels
      BY <1>1 DEF LaunchLabels
    <3> QED BY <2>3, <2>5, <2>6, <2>7, <2>8, <3>1, MoveStands
  <2>10. /\ f \in Files => content'[f] = content[f] \cup {n}
         /\ \A h \in Files : h # f => content'[h] = content[h]
         /\ content' \in [Files -> SUBSET Chunks]
    BY <2>3, <2>4 DEF LaunchInv, DiskTypes
  <2>11. DiskTypes' /\ NamesApart'
    BY <1>1, <2>10 DEF LaunchInv, DiskTypes, NamesApart
  <2>12. RunTypes'
    BY <1>1, <2>9 DEF LaunchInv, RunTypes
  <2>13. ASSUME ~shared
         PROVE  /\ OneWriter /\ OneCopier /\ \A q \in Procs : Writes(q) /\ Copies(q)
                /\ f \in Files /\ tmp[r.url] = f /\ content[f] = run[p].got
                /\ \A u \in Urls : tool[u] # None => tool[u] # f
    <3>1. OneWriter /\ OneCopier /\ \A q \in Procs : Writes(q) /\ Copies(q)
      BY <2>13 DEF LaunchInv, Undisturbed
    <3>2. f \in Files /\ tmp[r.url] = f /\ content[f] = run[p].got
      BY <1>1, <2>1, <2>5, <3>1 DEF Writes, WritingLabels
    <3> QED BY <2>5, <3>1, <3>2 DEF LaunchInv, NamesApart
  <2>14. Undisturbed'
    <3>1. SUFFICES ASSUME ~shared
                   PROVE  OneWriter' /\ OneCopier' /\ \A q \in Procs : Writes(q)' /\ Copies(q)'
      BY <1>1 DEF Undisturbed
    <3>2. OneWriter'
      BY <2>3, <2>5, <2>9, <2>13, <3>1 DEF OneWriter
    <3>3. OneCopier'
      BY <2>3, <2>5, <2>9, <2>13, <3>1 DEF OneCopier, OnLocal
    <3>4. ASSUME NEW q \in Procs PROVE Writes(q)' /\ Copies(q)'
      <4>1. Writes(q)'
        <5>1. CASE q = p
          BY <1>1, <2>1, <2>5, <2>9, <2>10, <2>13, <3>1, <5>1 DEF Writes
        <5>2. CASE q # p
          <6>1. SUFFICES ASSUME pc[q] \in WritingLabels PROVE Writes(q)'
            BY <2>9, <5>2 DEF Writes
          <6>2. run[q].url \in Urls /\ run[q].url # r.url
            BY <1>1, <2>5, <2>13, <3>1, <5>2, <6>1 DEF LaunchInv, RunTypes, Holds, OneWriter, WritingLabels
          <6>3. run[q].file \in Files /\ tmp[run[q].url] = run[q].file
            BY <2>13, <3>1, <6>1 DEF Writes
          <6>4. run[q].file # f
            BY <2>5, <2>13, <3>1, <6>2, <6>3, FreeFile DEF LaunchInv, NamesApart
          <6> QED BY <1>1, <2>9, <2>10, <2>13, <3>1, <5>2, <6>3, <6>4 DEF Writes, WholeOrCut
        <5> QED BY <5>1, <5>2
      <4>2. Copies(q)'
        <5>1. pc[q] = "exec" /\ run[q].url = LocalPath => tool[LocalPath] # None
          BY DEF LaunchInv, Stand
        <5>2. LocalPath \in Urls /\ tool \in [Urls -> Files \cup {None}]
          BY UrlsAre DEF LaunchInv, DiskTypes
        <5>3. CASE q = p
          BY <2>9, <5>3 DEF Copies
        <5>4. CASE q # p
          BY <1>1, <2>9, <2>10, <2>13, <3>1, <5>1, <5>2, <5>4 DEF Copies
        <5> QED BY <5>3, <5>4
      <4> QED BY <4>1, <4>2
    <3> QED BY <3>2, <3>3, <3>4
  <2>15. CacheWhole'
    <3>1. tool \in [Urls -> Files \cup {None}]
      BY DEF LaunchInv, DiskTypes
    <3> QED BY <1>1, <2>9, <2>10, <2>13, <3>1 DEF LaunchInv, CacheWhole, WholeOrCut
  <2>16. ExecWhole'
    BY <1>1, <2>9 DEF LaunchInv, ExecWhole
  <2> QED BY <2>9, <2>11, <2>12, <2>14, <2>15, <2>16 DEF LaunchInv
<1> QED BY <1>4, <1>5

\* A launch that gives up on its file takes its name away.
LEMMA CheckKeeps ==
  ASSUME LaunchInv, NEW p \in Procs, Check(p)
  PROVE  LaunchInv'
<1>1. pc[p] = "check" /\ UNCHANGED <<worldVars, launched, shared, tool, content, hint, began, renewed>>
  BY DEF Check, Same, hintVars
<1>2. run[p] \in Holds /\ Stand("check", run[p]) /\ Recent("check", run[p])
  BY <1>1, PastTheGate
<1>3. CASE Accepts(run[p])
  <2>1. /\ pc' = [pc EXCEPT ![p] = "rename"] /\ UNCHANGED <<run, tmp>> /\ cutoff \subseteq cutoff'
        /\ ~run[p].announced /\ run[p].got # Chunks => run[p].file \in cutoff'
    BY <1>3 DEF Check, At
  <2>2. run' = [run EXCEPT ![p] = run[p]]
    BY <2>1 DEF LaunchInv, RunTypes
  <2>3. Stand("rename", run[p])
    BY <1>2 DEF Stand, WritingLabels
  <2>4. Recent("rename", run[p])
    BY <1>2 DEF Recent, WritingLabels
  <2>5. WholeOrCut(run[p].file, run[p].got)'
    BY <1>3, <2>1 DEF Accepts, WholeOrCut
  <2>6. Turn(p, "rename", run[p])
    <3>1. \A r : r = run[p] => WholeOrCut(r.file, r.got)'
      BY <2>1, <2>5 DEF WholeOrCut
    <3> QED BY <1>1, <1>2, <2>1, <2>2, <2>3, <2>4, <3>1 DEF Turn, LaunchLabels, WritingLabels
  <2>7. SameWorld
    BY <1>1, WorldIsSame
  <2>8. /\ hint' \in [BOOLEAN -> Hints] /\ renewed' \in BOOLEAN /\ HintRecent'
        /\ launched' = [q \in Procs |-> launched'[q]] /\ ExecWhole'
    <3>1. hint' \in [BOOLEAN -> Hints] /\ renewed' \in BOOLEAN /\ launched' = [q \in Procs |-> launched'[q]]
      BY <1>1 DEF LaunchInv, DiskTypes, RunTypes
    <3>2. HintRecent'
      BY <1>1, <2>7, WorldStays DEF LaunchInv, HintRecent, SameWorld
    <3> QED BY <1>1, <2>7, <3>1, <3>2 DEF LaunchInv, ExecWhole, SameWorld
  <2> QED BY <1>1, <2>1, <2>6, <2>7, <2>8, TurnKeeps
<1>4. CASE ~Accepts(run[p])
  <2>1. PICK u : u = run[p].url
    OBVIOUS
  <2>2. AttemptFails(p) /\ tmp' = [tmp EXCEPT ![u] = None] /\ UNCHANGED cutoff
    BY <1>4, <2>1 DEF Check
  <2>3. PICK l, r : Turn(p, l, r)
    BY <1>1, <2>2, AttemptFailsTurns DEF SomeTurn, WritingLabels
  <2>4. /\ pc' = [pc EXCEPT ![p] = l] /\ run' = [run EXCEPT ![p] = r] /\ l \in LaunchLabels /\ r \in Holds
        /\ Stand(l, r) /\ (Recent(l, r) \/ Recent(l, r)') /\ l # "copying" /\ (l = "exec" => r.url # LocalPath)
    BY <2>3 DEF Turn
  <2>5. l \notin WritingLabels
    <3>1. pc'[p] \in {"create", "fallback", "source"}
      BY <2>2 DEF AttemptFails, NextSource, At, LaunchInv, RunTypes
    <3>2. pc'[p] = l
      BY <2>4 DEF LaunchInv, RunTypes
    <3> QED BY <3>1, <3>2 DEF WritingLabels
  <2>6. u \in Urls /\ r.url \in Urls
    BY <1>2, <2>1, <2>4 DEF Holds
  <2>7. Stand(l, r)'
    <3>1. SameWorld /\ tool' = tool
      BY <1>1, WorldIsSame
    <3> QED BY <2>4, <2>6, <3>1, WorldStays
  <2>8. /\ WorldTypes' /\ pc' \in [Procs -> LaunchLabels] /\ run' \in [Procs -> Holds]
        /\ \A q \in Procs : (Stand(pc[q], run[q]) /\ Recent(pc[q], run[q]))'
        /\ pc'[p] = l /\ run'[p] = r /\ \A q \in Procs \ {p} : pc'[q] = pc[q] /\ run'[q] = run[q]
        /\ UNCHANGED <<world, restored>> /\ HintRecent'
    <3>1. UNCHANGED <<worldVars, began, renewed>> /\ tool' = tool /\ hint' = hint
      BY <1>1
    <3>2. Recent(l, r)
      <4>1. /\ Sources' = Sources /\ Owed' = Owed /\ Oldest' = Oldest /\ published' = published
        BY <1>1, WorldIsSame, WorldStays DEF worldVars
      <4> QED BY <2>4, <4>1 DEF Recent
    <3> QED BY <2>4, <2>7, <3>1, <3>2, MoveStands
  <2>9. tmp'[u] = None /\ \A v \in Urls \ {u} : tmp'[v] = tmp[v]
    BY <2>2, <2>6 DEF LaunchInv, DiskTypes
  <2>10. DiskTypes'
    BY <1>1, <2>2 DEF LaunchInv, DiskTypes
  <2>11. NamesApart'
    BY <1>1, <2>9 DEF LaunchInv, NamesApart
  <2>12. RunTypes'
    BY <1>1, <2>8 DEF LaunchInv, RunTypes
  <2>13. Undisturbed'
    <3>1. SUFFICES ASSUME ~shared
                   PROVE  OneWriter' /\ OneCopier' /\ \A q \in Procs : Writes(q)' /\ Copies(q)'
      BY <1>1 DEF Undisturbed
    <3>2. OneWriter /\ OneCopier /\ \A q \in Procs : Writes(q) /\ Copies(q)
      BY <3>1 DEF LaunchInv, Undisturbed
    <3>3. OneWriter'
      BY <2>5, <2>8, <3>2 DEF OneWriter
    <3>4. OneCopier'
      BY <2>4, <2>8, <3>2 DEF OneCopier, OnLocal
    <3>5. ASSUME NEW q \in Procs PROVE Writes(q)' /\ Copies(q)'
      <4>1. CASE q = p
        BY <2>4, <2>5, <2>8, <4>1 DEF Writes, Copies
      <4>2. CASE q # p
        <5>1. pc[q] \in WritingLabels => run[q].url \in Urls \ {u}
          BY <1>1, <2>1, <3>2, <4>2 DEF LaunchInv, RunTypes, Holds, OneWriter, WritingLabels
        <5>2. Writes(q)'
          BY <1>1, <2>2, <2>8, <2>9, <3>2, <4>2, <5>1 DEF Writes, WholeOrCut
        <5>3. Copies(q)'
          BY <1>1, <2>8, <3>2, <4>2 DEF Copies
        <5> QED BY <5>2, <5>3
      <4> QED BY <4>1, <4>2
    <3> QED BY <3>3, <3>4, <3>5
  <2>14. CacheWhole' /\ ExecWhole'
    BY <1>1, <2>2, <2>8 DEF LaunchInv, CacheWhole, ExecWhole, WholeOrCut
  <2> QED BY <2>8, <2>10, <2>11, <2>12, <2>13, <2>14 DEF LaunchInv
<1> QED BY <1>3, <1>4

LEMMA RenameKeeps ==
  ASSUME LaunchInv, NEW p \in Procs, Rename(p)
  PROVE  LaunchInv'
<1>1. PICK u, f, r : u = run[p].url /\ f = tmp[u] /\ r = [run[p] EXCEPT !.file = None]
  OBVIOUS
<1>2. pc[p] = "rename" /\ UNCHANGED <<worldVars, launched, shared, content, cutoff, hint, began, renewed>>
  BY DEF Rename, Same, hintVars
<1>3. run[p] \in Holds /\ Stand("rename", run[p]) /\ Recent("rename", run[p])
      /\ ~(world.warming = "marked" /\ restored # "yes")
  BY <1>2, PastTheGate
<1>4. CASE tmp[u] = None
  <2>1. AttemptFails(p) /\ UNCHANGED <<tool, tmp>>
    BY <1>1, <1>4 DEF Rename
  <2>2. SomeTurn(p)
    BY <1>2, <2>1, AttemptFailsTurns DEF WritingLabels
  <2> QED BY <1>2, <2>1, <2>2, WorldIsSame, QuietTurnKeeps DEF DiskSame, diskVars, fileVars, hintVars
<1>5. CASE tmp[u] # None
  <2>1. /\ tool' = [tool EXCEPT ![u] = f] /\ tmp' = [tmp EXCEPT ![u] = None]
        /\ pc' = [pc EXCEPT ![p] = "exec"] /\ run' = [run EXCEPT ![p] = r]
    BY <1>1, <1>5 DEF Rename, At, Keep
  <2>2. r \in Holds /\ r.url = u /\ r.source = run[p].source /\ u \in Urls \ {LocalPath}
    BY <1>1, <1>3 DEF Holds, Stand, WritingLabels
  <2>3. f \in Files /\ f # None /\ LocalPath \in Urls
    BY <1>1, <1>5, <2>2, UrlsAre DEF LaunchInv, DiskTypes
  <2>4. /\ tool'[u] = f /\ tmp'[u] = None
        /\ \A v \in Urls \ {u} : tool'[v] = tool[v] /\ tmp'[v] = tmp[v]
    BY <2>1, <2>2 DEF LaunchInv, DiskTypes
  <2>5. UNCHANGED <<worldVars, began, renewed>> /\ hint' = hint /\ "exec" \in LaunchLabels
        /\ \A v \in Urls : tool[v] # None => tool'[v] # None
    BY <1>2, <2>3, <2>4 DEF LaunchLabels
  <2>6. Stand("exec", r)'
    <3>1. Sources' = Sources /\ UNCHANGED <<world, restored>> /\ Len(Sources) \in Nat
      BY <1>2, WorldIsSame, WorldStays, SourcesAre DEF LaunchInv, worldVars
    <3>2. r.source <= Len(Sources) /\ r.source \in Nat /\ tool'[r.url] # None
      BY <1>3, <2>2, <2>3, <2>4 DEF Stand, Holds
    <3> QED BY <1>3, <3>1, <3>2 DEF Stand, WritingLabels
  <2>7. Recent("exec", r)
    BY <1>1, <1>3, <2>2 DEF Recent, WritingLabels
  <2>8. /\ WorldTypes' /\ pc' \in [Procs -> LaunchLabels] /\ run' \in [Procs -> Holds]
        /\ \A q \in Procs : (Stand(pc[q], run[q]) /\ Recent(pc[q], run[q]))'
        /\ pc'[p] = "exec" /\ run'[p] = r /\ \A q \in Procs \ {p} : pc'[q] = pc[q] /\ run'[q] = run[q]
        /\ UNCHANGED <<world, restored>> /\ HintRecent'
    BY <2>1, <2>2, <2>5, <2>6, <2>7, MoveStands
  <2>9. DiskTypes'
    BY <1>2, <2>1, <2>2, <2>3 DEF LaunchInv, DiskTypes
  <2>10. NamesApart'
    BY <1>1, <1>5, <2>2, <2>4 DEF LaunchInv, NamesApart
  <2>11. RunTypes'
    BY <1>2, <2>8 DEF LaunchInv, RunTypes
  <2>12. ASSUME ~shared
         PROVE  /\ OneWriter /\ OneCopier /\ \A q \in Procs : Writes(q) /\ Copies(q)
                /\ WholeOrCut(f, content[f])
    <3>1. OneWriter /\ OneCopier /\ \A q \in Procs : Writes(q) /\ Copies(q)
      BY <2>12 DEF LaunchInv, Undisturbed
    <3>2. WholeOrCut(f, content[f])
      BY <1>1, <1>2, <3>1 DEF Writes, WritingLabels
    <3> QED BY <3>1, <3>2
  <2>13. Undisturbed'
    <3>1. SUFFICES ASSUME ~shared
                   PROVE  OneWriter' /\ OneCopier' /\ \A q \in Procs : Writes(q)' /\ Copies(q)'
      BY <1>2 DEF Undisturbed
    <3>2. OneWriter'
      BY <2>8, <2>12, <3>1 DEF OneWriter, WritingLabels
    <3>3. OneCopier'
      BY <2>2, <2>8, <2>12, <3>1 DEF OneCopier, OnLocal
    <3>4. ASSUME NEW q \in Procs PROVE Writes(q)' /\ Copies(q)'
      <4>1. CASE q = p
        BY <2>2, <2>8, <4>1 DEF Writes, Copies, WritingLabels
      <4>2. CASE q # p
        <5>1. pc[q] \in WritingLabels => run[q].url \in Urls \ {u}
          BY <1>1, <1>2, <2>12, <3>1, <4>2 DEF LaunchInv, RunTypes, Holds, OneWriter, WritingLabels
        <5>2. Writes(q)'
          BY <1>2, <2>4, <2>8, <2>12, <3>1, <4>2, <5>1 DEF Writes, WholeOrCut
        <5>3. Copies(q)'
          BY <1>2, <2>2, <2>3, <2>4, <2>8, <2>12, <3>1, <4>2 DEF Copies
        <5> QED BY <5>2, <5>3
      <4> QED BY <4>1, <4>2
    <3> QED BY <3>2, <3>3, <3>4
  <2>14. CacheWhole'
    BY <1>2, <2>4, <2>8, <2>12 DEF LaunchInv, CacheWhole, WholeOrCut
  <2>15. ExecWhole'
    BY <1>2, <2>8 DEF LaunchInv, ExecWhole
  <2> QED BY <2>8, <2>9, <2>10, <2>11, <2>13, <2>14, <2>15 DEF LaunchInv
<1> QED BY <1>4, <1>5

LEMMA CopyKeeps ==
  ASSUME LaunchInv, NEW p \in Procs, Copy(p)
  PROVE  LaunchInv'
<1>1. PICK f, r : f = Unused /\ r = [run[p] EXCEPT !.file = f]
  OBVIOUS
<1>2. /\ pc[p] = "copy" /\ pc' = [pc EXCEPT ![p] = "copying"] /\ run' = [run EXCEPT ![p] = r]
      /\ tool' = [tool EXCEPT ![LocalPath] = f] /\ content' = [content EXCEPT ![f] = {1}]
      /\ shared' = (shared \/ \E q \in Procs \ {p} : OnLocal(q))
      /\ UNCHANGED <<worldVars, tmp, hint, began, renewed, launched>> /\ cutoff' = cutoff \ {f}
  BY <1>1 DEF Copy, At, Keep, OnLocal, hintVars
<1>3. run[p] \in Holds /\ Stand("copy", run[p]) /\ ~(world.warming = "marked" /\ restored # "yes")
  BY <1>2, PastTheGate
<1>4. /\ f \in Files /\ f # None /\ LocalPath \in Urls
      /\ \A u \in Urls : f # tool[u] /\ f # tmp[u]
      /\ \A q \in Procs : f # run[q].file
  BY <1>1, FreeFile, UrlsAre
<1>5. r \in Holds /\ r.url = LocalPath /\ r.source = run[p].source /\ r.file = f
  BY <1>1, <1>3, <1>4 DEF Holds, Stand
<1>6. tool'[LocalPath] = f /\ \A u \in Urls \ {LocalPath} : tool'[u] = tool[u]
  BY <1>2, <1>4 DEF LaunchInv, DiskTypes
<1>7. UNCHANGED <<worldVars, began, renewed>> /\ hint' = hint /\ "copying" \in LaunchLabels
      /\ \A u \in Urls : tool[u] # None => tool'[u] # None
  BY <1>2, <1>4, <1>6 DEF LaunchLabels
<1>8. Stand("copying", r)'
  <2>1. Sources' = Sources /\ UNCHANGED <<world, restored>> /\ Len(Sources) \in Nat
    BY <1>2, WorldIsSame, WorldStays, SourcesAre DEF LaunchInv, worldVars
  <2>2. r.source <= Len(Sources) /\ r.source \in Nat /\ tool'[r.url] # None
    BY <1>3, <1>4, <1>5, <1>6 DEF Stand, Holds
  <2> QED BY <1>3, <1>5, <2>1, <2>2 DEF Stand, WritingLabels
<1>9. Recent("copying", r)
  BY DEF Recent, WritingLabels
<1>10. /\ WorldTypes' /\ pc' \in [Procs -> LaunchLabels] /\ run' \in [Procs -> Holds]
       /\ \A q \in Procs : (Stand(pc[q], run[q]) /\ Recent(pc[q], run[q]))'
       /\ pc'[p] = "copying" /\ run'[p] = r /\ \A q \in Procs \ {p} : pc'[q] = pc[q] /\ run'[q] = run[q]
       /\ UNCHANGED <<world, restored>> /\ HintRecent'
  BY <1>2, <1>5, <1>7, <1>8, <1>9, MoveStands
<1>11. DiskTypes'
  <2>1. {1} \in SUBSET Chunks
    BY DEF Chunks
  <2> QED BY <1>2, <1>4, <2>1 DEF LaunchInv, DiskTypes
<1>12. NamesApart'
  BY <1>2, <1>4, <1>6 DEF LaunchInv, NamesApart
<1>13. RunTypes'
  <2>1. shared' \in BOOLEAN
    BY <1>2 DEF LaunchInv, RunTypes
  <2> QED BY <1>2, <1>10, <2>1 DEF LaunchInv, RunTypes
<1>14. \A g \in Files : g # f => content'[g] = content[g]
  BY <1>2 DEF LaunchInv, DiskTypes
<1>15. Undisturbed'
  <2>1. SUFFICES ASSUME ~shared, \A q \in Procs \ {p} : ~OnLocal(q)
                 PROVE  OneWriter' /\ OneCopier' /\ \A q \in Procs : Writes(q)' /\ Copies(q)'
    BY <1>2 DEF Undisturbed
  <2>2. OneWriter /\ OneCopier /\ \A q \in Procs : Writes(q) /\ Copies(q)
    BY <2>1 DEF LaunchInv, Undisturbed
  <2>3. OneWriter'
    BY <1>10, <2>2 DEF OneWriter, WritingLabels
  <2>4. OneCopier'
    BY <1>10, <2>1 DEF OneCopier, OnLocal
  <2>5. ASSUME NEW q \in Procs PROVE Writes(q)' /\ Copies(q)'
    <3>1. CASE q = p
      BY <1>4, <1>5, <1>6, <1>10, <3>1 DEF Writes, Copies, WritingLabels
    <3>2. CASE q # p
      <4>1. Writes(q)'
        BY <1>2, <1>4, <1>10, <1>14, <2>2, <3>2 DEF Writes, WholeOrCut
      <4>2. Copies(q)'
        BY <1>10, <2>1, <3>2 DEF Copies, OnLocal, LaunchInv, Stand
      <4> QED BY <4>1, <4>2
    <3> QED BY <3>1, <3>2
  <2> QED BY <2>3, <2>4, <2>5
<1>16. CacheWhole'
  <2>1. tool \in [Urls -> Files \cup {None}] /\ (shared => shared')
    BY <1>2 DEF LaunchInv, DiskTypes
  <2>2. ASSUME NEW u \in Urls \ {LocalPath}, tool'[u] # None
        PROVE  /\ tool[u] # None /\ tool'[u] = tool[u] /\ content'[tool'[u]] = content[tool[u]]
               /\ tool[u] \in cutoff => tool[u] \in cutoff'
    BY <1>2, <1>4, <1>6, <1>14, <2>1, <2>2
  <2> QED BY <1>10, <2>1, <2>2 DEF LaunchInv, CacheWhole, WholeOrCut
<1>17. ExecWhole'
  BY <1>2, <1>10 DEF LaunchInv, ExecWhole
<1> QED BY <1>10, <1>11, <1>12, <1>13, <1>15, <1>16, <1>17 DEF LaunchInv

LEMMA CopiedKeeps ==
  ASSUME LaunchInv, NEW p \in Procs, Copied(p)
  PROVE  LaunchInv'
<1>1. PICK f, r : f = run[p].file /\ r = [run[p] EXCEPT !.file = None]
  OBVIOUS
<1>2. /\ pc[p] = "copying" /\ pc' = [pc EXCEPT ![p] = "exec"] /\ run' = [run EXCEPT ![p] = r]
      /\ content' = [content EXCEPT ![f] = Chunks]
      /\ UNCHANGED <<worldVars, tool, tmp, cutoff, hint, began, renewed, launched, shared>>
  BY <1>1 DEF Copied, At, Keep, Same, hintVars
<1>3. run[p] \in Holds /\ Stand("copying", run[p]) /\ ~(world.warming = "marked" /\ restored # "yes")
  BY <1>2, PastTheGate
<1>4. r \in Holds /\ r.url = LocalPath /\ r.source = run[p].source /\ LocalPath \in Urls
  BY <1>1, <1>3, UrlsAre DEF Holds, Stand
<1>5. UNCHANGED <<worldVars, began, renewed>> /\ hint' = hint /\ "exec" \in LaunchLabels /\ tool' = tool
  BY <1>2 DEF LaunchLabels
<1>6. Stand("exec", r)'
  <2>1. Stand("exec", r)
    BY <1>3, <1>4 DEF Stand, WritingLabels
  <2>2. SameWorld
    BY <1>2, WorldIsSame
  <2> QED BY <1>4, <1>5, <2>1, <2>2, WorldStays
<1>7. Recent("exec", r)
  BY <1>4, UrlsAre DEF Recent, WritingLabels
<1>8. /\ WorldTypes' /\ pc' \in [Procs -> LaunchLabels] /\ run' \in [Procs -> Holds]
      /\ \A q \in Procs : (Stand(pc[q], run[q]) /\ Recent(pc[q], run[q]))'
      /\ pc'[p] = "exec" /\ run'[p] = r /\ \A q \in Procs \ {p} : pc'[q] = pc[q] /\ run'[q] = run[q]
      /\ UNCHANGED <<world, restored>> /\ HintRecent'
  BY <1>2, <1>4, <1>5, <1>6, <1>7, MoveStands
<1>9. /\ f \in Files => content'[f] = Chunks
      /\ \A g \in Files : g # f => content'[g] = content[g]
      /\ content' \in [Files -> SUBSET Chunks]
  BY <1>2 DEF LaunchInv, DiskTypes
<1>10. DiskTypes' /\ NamesApart'
  BY <1>2, <1>9 DEF LaunchInv, DiskTypes, NamesApart
<1>11. RunTypes'
  BY <1>2, <1>8 DEF LaunchInv, RunTypes
<1>12. ASSUME ~shared
       PROVE  /\ OneWriter /\ OneCopier /\ \A q \in Procs : Writes(q) /\ Copies(q)
              /\ f \in Files /\ tool[LocalPath] = f /\ f # None
              /\ \A u \in Urls : tmp[u] # f /\ (u # LocalPath => tool[u] # f)
  <2>1. OneWriter /\ OneCopier /\ \A q \in Procs : Writes(q) /\ Copies(q)
    BY <1>12 DEF LaunchInv, Undisturbed
  <2>2. f \in Files /\ tool[LocalPath] = f /\ f # None
    BY <1>1, <1>2, <2>1, FreeFile DEF Copies
  <2> QED BY <1>4, <2>1, <2>2 DEF LaunchInv, NamesApart
<1>13. Undisturbed'
  <2>1. SUFFICES ASSUME ~shared
                 PROVE  OneWriter' /\ OneCopier' /\ \A q \in Procs : Writes(q)' /\ Copies(q)'
    BY <1>2 DEF Undisturbed
  <2>2. OneWriter'
    BY <1>8, <1>12, <2>1 DEF OneWriter, WritingLabels
  <2>3. \A q \in Procs : OnLocal(q)' => OnLocal(q)
    BY <1>2, <1>3, <1>8 DEF OnLocal, Stand
  <2>4. OneCopier'
    BY <1>12, <2>1, <2>3 DEF OneCopier
  <2>5. ASSUME NEW q \in Procs PROVE Writes(q)' /\ Copies(q)'
    <3>1. CASE q = p
      BY <1>2, <1>4, <1>8, <1>9, <1>12, <2>1, <3>1 DEF Writes, Copies, WritingLabels
    <3>2. CASE q # p
      <4>1. Writes(q)'
        <5>1. SUFFICES ASSUME pc[q] \in WritingLabels PROVE Writes(q)'
          BY <1>8, <3>2 DEF Writes
        <5>2. run[q].url \in Urls /\ run[q].file \in Files /\ tmp[run[q].url] = run[q].file
          BY <1>12, <2>1, <5>1 DEF Writes, LaunchInv, RunTypes, Holds
        <5>3. run[q].file # f
          BY <1>12, <2>1, <5>2
        <5> QED BY <1>2, <1>8, <1>9, <1>12, <2>1, <3>2, <5>2, <5>3 DEF Writes, WholeOrCut
      <4>2. Copies(q)'
        <5>1. ~OnLocal(q)
          BY <1>2, <1>3, <1>12, <2>1, <3>2 DEF OneCopier, OnLocal, Stand
        <5>2. pc[q] = "copying" => run[q].url = LocalPath
          BY DEF LaunchInv, Stand
        <5> QED BY <1>8, <3>2, <5>1, <5>2 DEF Copies, OnLocal
      <4> QED BY <4>1, <4>2
    <3> QED BY <3>1, <3>2
  <2> QED BY <2>2, <2>4, <2>5
<1>14. CacheWhole'
  <2>1. tool \in [Urls -> Files \cup {None}]
    BY DEF LaunchInv, DiskTypes
  <2> QED BY <1>2, <1>8, <1>9, <1>12, <2>1 DEF LaunchInv, CacheWhole, WholeOrCut
<1>15. ExecWhole'
  BY <1>2, <1>8 DEF LaunchInv, ExecWhole
<1> QED BY <1>8, <1>10, <1>11, <1>13, <1>14, <1>15 DEF LaunchInv

\* What a launch execs was accepted: it was there, is not being restored, and no one writes it.
LEMMA ExecKeeps ==
  ASSUME LaunchInv, NEW p \in Procs, Exec(p)
  PROVE  LaunchInv'
<1>1. PICK u, c : u = run[p].url /\ c = IF tool[u] = None THEN {} ELSE content[tool[u]]
  OBVIOUS
<1>2. /\ pc[p] = "exec" /\ pc' = [pc EXCEPT ![p] = "running"] /\ run' = run
      /\ launched' = [launched EXCEPT ![p] = [url |-> u, chunks |-> c, cutoff |-> tool[u] \in cutoff]]
      /\ UNCHANGED <<worldVars, tool, tmp, content, cutoff, hint, began, renewed, shared>>
  BY <1>1 DEF Exec, At, DiskSame, diskVars, fileVars, hintVars
<1>3. run[p] \in Holds /\ Stand("exec", run[p]) /\ ~(world.warming = "marked" /\ restored # "yes")
  BY <1>2, PastTheGate
<1>4. run' = [run EXCEPT ![p] = run[p]]
  BY <1>2 DEF LaunchInv, RunTypes
<1>5. Stand("running", run[p])
  BY <1>3, SourcesAre DEF Stand, WritingLabels, LaunchInv, Holds
<1>6. Recent("running", run[p])
  BY DEF Recent, WritingLabels
<1>7. Turn(p, "running", run[p])
  BY <1>2, <1>3, <1>4, <1>5, <1>6 DEF Turn, LaunchLabels, WritingLabels
<1>8. SameWorld
  BY <1>2, WorldIsSame
<1>9. hint' \in [BOOLEAN -> Hints] /\ renewed' \in BOOLEAN /\ HintRecent'
  <2>1. Owed' = Owed /\ Oldest' = Oldest
    BY <1>2, <1>8, WorldStays
  <2> QED BY <1>2, <2>1 DEF LaunchInv, DiskTypes, RunTypes, HintRecent, worldVars
<1>10. launched' = [q \in Procs |-> launched'[q]]
  BY <1>2 DEF LaunchInv, RunTypes
<1>11. ExecWhole'
  <2>1. SUFFICES ASSUME ~shared, world.warming # "unmarked", NEW q \in Procs, launched'[q] # NotLaunched
                 PROVE  \/ launched'[q].chunks = Chunks
                        \/ launched'[q].cutoff /\ launched'[q].chunks # {}
    BY <1>2 DEF ExecWhole, worldVars
  <2>2. CASE q # p
    BY <1>2, <2>1, <2>2 DEF LaunchInv, RunTypes, ExecWhole
  <2>3. CASE q = p
    <3>1. u \in Urls /\ tool[u] # None
      BY <1>1, <1>3 DEF Stand, Holds
    <3>2. c = Chunks \/ (tool[u] \in cutoff /\ c # {})
      <4>1. WholeOrCut(tool[u], content[tool[u]])
        <5>1. CASE u = LocalPath
          BY <1>1, <1>2, <2>1, <5>1 DEF LaunchInv, Undisturbed, Copies, WholeOrCut
        <5>2. CASE u # LocalPath
          <6>1. restored # "partly"
            BY <1>3, <2>1 DEF LaunchInv, WorldTypes, Worlds, Warmings
          <6> QED BY <2>1, <3>1, <5>2, <6>1 DEF LaunchInv, CacheWhole
        <5> QED BY <5>1, <5>2
      <4> QED BY <1>1, <3>1, <4>1 DEF WholeOrCut
    <3>3. launched'[p] = [url |-> u, chunks |-> c, cutoff |-> tool[u] \in cutoff]
      BY <1>2 DEF LaunchInv, RunTypes
    <3>4. launched'[p].chunks = c
      BY <3>3
    <3>5. ASSUME tool[u] \in cutoff PROVE launched'[p].cutoff
      <4>1. PICK b : b = (tool[u] \in cutoff)
        OBVIOUS
      <4>2. launched'[p] = [url |-> u, chunks |-> c, cutoff |-> b]
        BY <3>3, <4>1
      <4>3. launched'[p].cutoff = b
        BY <4>2
      <4> QED BY <3>5, <4>1, <4>3, Zenon
    <3> QED BY <2>3, <3>2, <3>4, <3>5
  <2> QED BY <2>2, <2>3
<1> QED BY <1>2, <1>7, <1>8, <1>9, <1>10, <1>11, TurnKeeps

LEMMA WorldKeeps ==
  ASSUME LaunchInv, Publish \/ Outage
  PROVE  LaunchInv'
<1>1. UNCHANGED <<world, yesterday, restored, diskVars, pc, run, launched, shared>>
  BY DEF Publish, Outage
<1>2. WorldTypes'
  <2>1. Tags = 1..Cardinality(Tags) /\ Cardinality(Tags) \in Nat
    BY LauncherAssumption, FS_CardinalityType
  <2>2. CASE Publish
    <3>1. published' = published + 1 /\ published' \in Tags /\ outage' = outage
      BY <2>2 DEF Publish
    <3>2. published \in Nat /\ yesterday \in Nat
      BY <2>1 DEF LaunchInv, WorldTypes, None
    <3> QED BY <1>1, <3>1, <3>2 DEF LaunchInv, WorldTypes, diskVars, hintVars
  <2>3. CASE Outage
    <3>1. published' = published /\ outage' \subseteq {"api", "cdn"}
      BY <2>3 DEF Outage
    <3> QED BY <1>1, <3>1 DEF LaunchInv, WorldTypes, diskVars, hintVars
  <2> QED BY <2>2, <2>3
<1>3. /\ Sources' = Sources /\ Owed' = Owed /\ Oldest' = Oldest
      /\ published \in Nat /\ published' \in Nat /\ published <= published'
  <2>1. \A n : Newest(n)' = Newest(n)
    BY <1>1 DEF Newest, OfferedOf
  <2>2. published \in Nat /\ published' \in Nat
    BY <1>2, LauncherAssumption, FS_CardinalityType DEF LaunchInv, WorldTypes
  <2>3. published' = published + 1 \/ published' = published
    BY DEF Publish, Outage
  <2>4. Owed' = Owed /\ Oldest' = Oldest
    BY <1>1, <2>1 DEF Owed, Oldest, diskVars, hintVars
  <2> QED BY <1>1, <2>2, <2>3, <2>4, SourcesStay
<1>4. DiskTypes' /\ RunTypes' /\ NamesApart'
  BY <1>1 DEF LaunchInv, DiskTypes, RunTypes, NamesApart, diskVars, fileVars, hintVars
<1>5. ASSUME NEW q \in Procs PROVE (Stand(pc[q], run[q]) /\ Recent(pc[q], run[q]))'
  <2>1. run[q].tag \in Nat /\ run[q].tag <= published => run[q].tag <= published'
    BY <1>3
  <2>2. run[q].tag \in Nat
    BY LauncherAssumption, FS_CardinalityType DEF LaunchInv, RunTypes, Holds, None
  <2>3. Recent(pc[q], run[q])'
    BY <1>1, <1>3, <2>1, <2>2 DEF LaunchInv, Recent
  <2>4. Stand(pc[q], run[q])'
    BY <1>1, <1>3 DEF LaunchInv, Stand, diskVars, fileVars
  <2> QED BY <2>3, <2>4
<1>6. HintRecent'
  <2>1. hint[world.debug].tag \in Nat
    BY LauncherAssumption, FS_CardinalityType DEF LaunchInv, WorldTypes, Worlds, DiskTypes, Hints, None
  <2>2. hint[world.debug].tag <= published => hint[world.debug].tag <= published'
    BY <1>3, <2>1
  <2> QED BY <1>1, <1>3, <2>2 DEF LaunchInv, HintRecent, diskVars, hintVars
<1>7. Undisturbed'
  BY <1>1 DEF LaunchInv, Undisturbed, OneWriter, OneCopier, OnLocal, Writes, Copies, WholeOrCut,
    diskVars, fileVars
<1>8. CacheWhole' /\ ExecWhole'
  BY <1>1 DEF LaunchInv, CacheWhole, ExecWhole, WholeOrCut, diskVars, fileVars
<1> QED BY <1>2, <1>4, <1>5, <1>6, <1>7, <1>8 DEF LaunchInv

LEMMA DayPassesKeeps ==
  ASSUME LaunchInv, DayPasses
  PROVE  LaunchInv'
<1>1. /\ \A p \in Procs : pc[p] \in {"rest", "running", "failed", "killed"}
      /\ hint' = [b \in BOOLEAN |-> [hint[b] EXCEPT !.fresh = FALSE]] /\ yesterday' = published
      /\ began' = hint[world.debug].tag /\ renewed' = FALSE
      /\ UNCHANGED <<tool, tmp, content, cutoff, world, published, outage, restored, pc, run, launched, shared>>
  BY DEF DayPasses, Resting, fileVars
<1>10. /\ hint[world.debug].tag \in Tags \cup {None} /\ hint[world.debug].tag \in Nat /\ published \in Nat
       /\ hint[world.debug].tag <= published
  <2>1. hint[world.debug].tag \in Tags \cup {None} /\ published \in Tags /\ hint[world.debug].tag <= published
    BY DEF LaunchInv, WorldTypes, Worlds, DiskTypes, Hints, HintRecent
  <2> QED BY <2>1, LauncherAssumption, FS_CardinalityType DEF None
<1>2. WorldTypes'
  BY <1>1, <1>10 DEF LaunchInv, WorldTypes
<1>3. Sources' = Sources
  BY <1>1, SourcesStay
<1>4. DiskTypes'
  <2>1. \A b \in BOOLEAN : [hint[b] EXCEPT !.fresh = FALSE] \in Hints
    BY DEF LaunchInv, DiskTypes, Hints
  <2>2. hint' \in [BOOLEAN -> Hints]
    BY <1>1, <2>1
  <2> QED BY <1>1, <2>2 DEF LaunchInv, DiskTypes
<1>5. RunTypes' /\ NamesApart'
  BY <1>1 DEF LaunchInv, RunTypes, NamesApart
<1>6. ASSUME NEW q \in Procs PROVE (Stand(pc[q], run[q]) /\ Recent(pc[q], run[q]))'
  <2>1. Stand(pc[q], run[q])'
    BY <1>1, <1>3 DEF LaunchInv, Stand
  <2>2. pc'[q] \in {"rest", "running", "failed", "killed"}
    BY <1>1
  <2>3. Recent(pc[q], run[q])'
    BY <2>2 DEF Recent, WritingLabels
  <2> QED BY <2>1, <2>3
<1>7. HintRecent'
  <2>1. world.debug \in BOOLEAN /\ world' = world
    BY <1>1 DEF LaunchInv, WorldTypes, Worlds
  <2>2. ~hint'[world.debug].fresh
    BY <1>1, <2>1 DEF LaunchInv, DiskTypes, Hints
  <2>3. hint'[world.debug].tag = hint[world.debug].tag
    BY <1>1, <2>1 DEF LaunchInv, DiskTypes, Hints
  <2>4. Oldest' = Newest(hint[world.debug].tag)
    BY <1>1 DEF Oldest, Newest, OfferedOf
  <2>5. Newest(hint[world.debug].tag) <= hint[world.debug].tag
    BY <1>10, NewestGrows
  <2> QED BY <1>1, <1>10, <2>1, <2>2, <2>3, <2>4, <2>5 DEF HintRecent
<1>8. Undisturbed'
  BY <1>1 DEF LaunchInv, Undisturbed, OneWriter, OneCopier, OnLocal, Writes, Copies, WholeOrCut
<1>9. CacheWhole' /\ ExecWhole'
  BY <1>1 DEF LaunchInv, CacheWhole, ExecWhole, WholeOrCut
<1> QED BY <1>2, <1>4, <1>5, <1>6, <1>7, <1>8, <1>9 DEF LaunchInv

LEMMA RestoreKeeps ==
  ASSUME LaunchInv, Restore
  PROVE  LaunchInv'
<1>1. PICK u, f, cs : /\ u = Url(1, FALSE) /\ f = IF restored = "no" THEN Unused ELSE tool[u]
                      /\ cs = IF restored = "no" THEN {1} ELSE Chunks
  OBVIOUS
<1>2. /\ world.warming # "off" /\ restored # "yes"
      /\ tool' = [tool EXCEPT ![u] = f] /\ content' = [content EXCEPT ![f] = cs]
      /\ restored' = IF restored = "no" THEN "partly" ELSE "yes"
      /\ cutoff' = cutoff \ {f}
      /\ UNCHANGED <<world, published, yesterday, outage, tmp, hint, began, renewed, pc, run, launched, shared>>
  BY <1>1 DEF Restore, hintVars
<1>3. u \in Urls \ {LocalPath} /\ LocalPath \in Urls
  <2>1. 1 \in Tags
    BY LauncherAssumption, FS_CardinalityType
  <2> QED BY <1>1, <2>1, UrlsAre
<1>4. /\ f \in Files \cup {None} /\ (restored = "no" => f \in Files /\ f # None)
      /\ \A v \in Urls \ {u} : tool[v] # None => tool[v] # f
      /\ \A v \in Urls : tmp[v] # None => tmp[v] # f
      /\ None \notin Files
  <2>1. CASE restored = "no"
    BY <1>1, <1>3, <2>1, FreeFile
  <2>2. CASE restored # "no"
    <3>1. f = tool[u]
      BY <1>1, <2>2
    <3> QED BY <1>3, <2>2, <3>1, FreeFile DEF LaunchInv, DiskTypes, NamesApart
  <2> QED BY <2>1, <2>2
<1>5. /\ tool'[u] = f /\ \A v \in Urls \ {u} : tool'[v] = tool[v]
      /\ f \in Files => content'[f] = cs
      /\ \A g \in Files : g # f => content'[g] = content[g]
  BY <1>2, <1>3 DEF LaunchInv, DiskTypes
<1>6. \A v \in Urls : tool[v] # None => tool'[v] # None
  <2>1. restored # "no" => f = tool[u]
    BY <1>1
  <2> QED BY <1>4, <1>5, <2>1
<1>7. WorldTypes'
  BY <1>2 DEF LaunchInv, WorldTypes
<1>8. Sources' = Sources /\ Owed' = Owed /\ Oldest' = Oldest
  BY <1>2, SourcesStay DEF Owed, Oldest, Newest, OfferedOf
<1>9. DiskTypes'
  <2>1. cs \in SUBSET Chunks
    BY <1>1 DEF Chunks
  <2> QED BY <1>2, <1>3, <1>4, <2>1 DEF LaunchInv, DiskTypes
<1>10. RunTypes'
  BY <1>2 DEF LaunchInv, RunTypes
<1>11. NamesApart'
  BY <1>2, <1>3, <1>4, <1>5 DEF LaunchInv, NamesApart
<1>12. ASSUME NEW q \in Procs PROVE (Stand(pc[q], run[q]) /\ Recent(pc[q], run[q]))'
  <2>1. Stand(pc[q], run[q]) /\ Recent(pc[q], run[q]) /\ run[q].url \in Urls
    BY DEF LaunchInv, RunTypes, Holds
  <2>2. Recent(pc[q], run[q])'
    BY <1>2, <1>8, <2>1 DEF Recent
  <2>3. Stand(pc[q], run[q])'
    BY <1>2, <1>6, <1>8, <2>1 DEF Stand
  <2> QED BY <2>2, <2>3
<1>13. HintRecent'
  BY <1>2, <1>8 DEF LaunchInv, HintRecent
<1>14. Undisturbed'
  <2>1. SUFFICES ASSUME ~shared
                 PROVE  OneWriter' /\ OneCopier' /\ \A q \in Procs : Writes(q)' /\ Copies(q)'
    BY <1>2 DEF Undisturbed
  <2>2. OneWriter /\ OneCopier /\ \A q \in Procs : Writes(q) /\ Copies(q)
    BY <2>1 DEF LaunchInv, Undisturbed
  <2>3. OneWriter' /\ OneCopier'
    BY <1>2, <2>2 DEF OneWriter, OneCopier, OnLocal
  <2>4. ASSUME NEW q \in Procs PROVE Writes(q)' /\ Copies(q)'
    <3>1. Writes(q)'
      <4>1. SUFFICES ASSUME pc[q] \in WritingLabels PROVE Writes(q)'
        BY <1>2 DEF Writes
      <4>2. run[q].url \in Urls /\ run[q].file \in Files /\ tmp[run[q].url] = run[q].file
        BY <2>2, <4>1 DEF Writes, LaunchInv, RunTypes, Holds
      <4>3. run[q].file # f
        BY <1>4, <4>2
      <4> QED BY <1>2, <1>5, <2>2, <4>1, <4>2, <4>3 DEF Writes, WholeOrCut
    <3>2. Copies(q)'
      <4>1. tool[LocalPath] \in Files \cup {None} /\ tool'[LocalPath] = tool[LocalPath]
        BY <1>3, <1>5 DEF LaunchInv, DiskTypes
      <4>2. pc[q] = "exec" /\ run[q].url = LocalPath => tool[LocalPath] # None
        BY DEF LaunchInv, Stand
      <4>3. tool[LocalPath] # None => tool[LocalPath] # f
        BY <1>3, <1>4
      <4> QED BY <1>2, <1>5, <2>2, <4>1, <4>2, <4>3 DEF Copies
    <3> QED BY <3>1, <3>2
  <2> QED BY <2>3, <2>4
<1>15. CacheWhole'
  <2>1. SUFFICES ASSUME ~shared, world.warming # "unmarked", NEW v \in Urls \ {LocalPath}, tool'[v] # None,
                        ~(restored' = "partly" /\ v = u)
                 PROVE  WholeOrCut(tool[v], content[tool[v]])'
    BY <1>1, <1>2 DEF CacheWhole
  <2>2. tool \in [Urls -> Files \cup {None}]
    BY DEF LaunchInv, DiskTypes
  <2>3. CASE v # u
    <3>1. tool'[v] = tool[v] /\ tool[v] \in Files /\ tool[v] # f
      BY <1>4, <1>5, <2>1, <2>2, <2>3
    <3>2. WholeOrCut(tool[v], content[tool[v]])
      BY <1>1, <2>1, <2>3, <3>1 DEF LaunchInv, CacheWhole
    <3> QED BY <1>2, <1>5, <3>1, <3>2 DEF WholeOrCut
  <2>4. CASE v = u
    <3>1. restored # "no"
      BY <1>2, <2>1, <2>4
    <3> QED BY <1>1, <1>4, <1>5, <2>1, <2>4, <3>1 DEF WholeOrCut
  <2> QED BY <2>3, <2>4
<1>16. ExecWhole'
  BY <1>2 DEF LaunchInv, ExecWhole
<1> QED BY <1>7, <1>9, <1>10, <1>11, <1>12, <1>13, <1>14, <1>15, <1>16 DEF LaunchInv

LEMMA LaunchNext ==
  ASSUME LaunchInv, LaunchMove
  PROVE  LaunchInv'
<1>1. CASE UNCHANGED launchVars
  <2>1. UNCHANGED <<world, published, yesterday, outage, restored, tool, tmp, content, cutoff, hint, began, renewed,
                    pc, run, launched, shared>>
    BY <1>1 DEF launchVars, worldVars, diskVars, fileVars, hintVars
  <2>2. Sources' = Sources /\ Owed' = Owed /\ Oldest' = Oldest
    BY <2>1, SourcesStay DEF Owed, Oldest, Newest, OfferedOf
  <2>3. WorldTypes' /\ DiskTypes' /\ RunTypes' /\ NamesApart'
    BY <2>1 DEF LaunchInv, WorldTypes, DiskTypes, RunTypes, NamesApart
  <2>4. ASSUME NEW q \in Procs PROVE (Stand(pc[q], run[q]) /\ Recent(pc[q], run[q]))'
    BY <2>1, <2>2 DEF LaunchInv, Stand, Recent
  <2>5. HintRecent' /\ CacheWhole' /\ ExecWhole'
    BY <2>1, <2>2 DEF LaunchInv, HintRecent, CacheWhole, ExecWhole, WholeOrCut
  <2>6. Undisturbed'
    BY <2>1 DEF LaunchInv, Undisturbed, OneWriter, OneCopier, OnLocal, Writes, Copies, WholeOrCut
  <2> QED BY <2>3, <2>4, <2>5, <2>6 DEF LaunchInv
<1>2. CASE LaunchWorld
  BY <1>2, WorldKeeps, DayPassesKeeps, RestoreKeeps DEF LaunchWorld
<1>3. ASSUME NEW p \in Procs, LaunchStep(p) PROVE LaunchInv'
  BY <1>3, GateKeeps, BeginKeeps, ResolveKeeps, WriteHintKeeps, ApiFailsKeeps, TouchReadKeeps, TouchWriteKeeps,
     CreateKeeps, FallBackKeeps, RespondKeeps, ChunkKeeps, ResetKeeps, CheckKeeps, RenameKeeps, CopyKeeps,
     CopiedKeeps, ExecKeeps DEF LaunchStep
<1> QED BY <1>1, <1>2, <1>3, KillKeeps DEF LaunchMove

\* A launch takes no step of a command that runs.
LEMMA RunningStays ==
  ASSUME LaunchInv, NEW p \in Procs, LaunchStep(p) \/ Kill(p)
  PROVE  pc[p] # "running" /\ \A q \in Procs \ {p} : pc'[q] = pc[q]
<1>1. pc \in [Procs -> LaunchLabels]
  BY DEF LaunchInv, RunTypes
<1>2. CASE LaunchStep(p)
  <2>1. pc[p] # "running"
    BY <1>2 DEF LaunchStep, Gate, Begin, Resolve, WriteHint, ApiFails, TouchRead, TouchWrite, Create, FallBack,
         Respond, Chunk, Reset, Check, Rename, Copy, Copied, Exec
  <2>2. ASSUME AttemptFails(p) \/ NextSource(p) PROVE \E l : pc' = [pc EXCEPT ![p] = l]
    BY <2>2 DEF AttemptFails, NextSource, At
  <2>3. ASSUME NEW u, Found(p, u) \/ Missing(p, u) PROVE \E l : pc' = [pc EXCEPT ![p] = l]
    BY <2>3 DEF Found, Missing, At
  <2>4. UNCHANGED pc \/ \E l : pc' = [pc EXCEPT ![p] = l]
    <3>1. CASE Gate(p) \/ Resolve(p) \/ WriteHint(p) \/ ApiFails(p) \/ TouchRead(p) \/ TouchWrite(p)
      BY <3>1, <2>2, <2>3 DEF Gate, Resolve, WriteHint, ApiFails, TouchRead, TouchWrite, At
    <3>2. CASE Begin(p)
      BY <3>2, BeginTurns DEF SomeTurn, Turn
    <3>3. CASE Create(p) \/ FallBack(p) \/ Respond(p) \/ Chunk(p) \/ Reset(p)
      BY <3>3, <2>2, <2>3 DEF Create, FallBack, Respond, Chunk, Reset, At
    <3>4. CASE Check(p) \/ Rename(p) \/ Copy(p) \/ Copied(p) \/ Exec(p)
      BY <3>4, <2>2 DEF Check, Rename, Copy, Copied, Exec, At
    <3> QED BY <1>2, <3>1, <3>2, <3>3, <3>4 DEF LaunchStep
  <2> QED BY <1>1, <2>1, <2>4
<1>3. CASE Kill(p)
  BY <1>1, <1>3 DEF Kill, Resting, At
<1> QED BY <1>2, <1>3

LEMMA InTurnBegins == Init => InTurn
  BY ProvisionAssumption DEF Init, ExtractInit, StoreInit, InTurn

LEMMA InTurnNext ==
  ASSUME LaunchInv, TreeInv, StoreInv, InTurn, [Next]_vars
  PROVE  InTurn'
<1>1. /\ pc \in [Procs -> LaunchLabels] /\ ep \in [Procs -> Labels] /\ Extractors = Procs /\ Commands = Procs
      /\ sp \in [Procs -> {"idle", "dep", "loaded", "stopped", "gone"} \cup Working]
  BY ProvisionAssumption DEF LaunchInv, RunTypes, TreeInv, TreeTypes, StoreInv, StoreTypes
<1>2. ASSUME UNCHANGED <<extractFault, ep, sp>>,
             \A q \in Procs : pc[q] = "running" => pc'[q] = "running"
      PROVE  InTurn'
  BY <1>2 DEF InTurn, Extracted
<1>3. CASE UNCHANGED vars
  BY <1>2, <1>3 DEF vars, launchVars, treeVars, storeVars
<1>4. ASSUME NEW p \in Procs, LaunchStep(p) \/ Kill(p), UNCHANGED <<treeVars, storeVars>> PROVE InTurn'
  BY <1>2, <1>4, RunningStays DEF treeVars, storeVars
<1>5. ASSUME NEW p \in Procs, pc[p] = "running", ExtractStep(p) \/ ExtractKill(p), UNCHANGED <<launchVars, storeVars>>
      PROVE  InTurn'
  <2>1. /\ UNCHANGED <<pc, sp>> /\ (extractFault = "off" => extractFault' = "off")
        /\ ~Extracted(p) /\ \A q \in Procs \ {p} : ep'[q] = ep[q]
    <3>1. \E l : ep' = [ep EXCEPT ![p] = l]
      <4>1. CASE ExtractStep(p)
        <5>1. CASE UNCHANGED ep
          BY <1>1, <5>1
        <5> QED BY <4>1, <5>1 DEF ExtractStep, LookAtTree, WriteFile, LookForStale, Trash, Sweep, PublishTree, Adopt,
                     CleanUp, GoesTo
      <4>2. CASE ExtractKill(p)
        BY <4>2 DEF ExtractKill, GoesTo
      <4> QED BY <1>5, <4>1, <4>2
    <3>2. ~Extracted(p) /\ (extractFault = "off" => extractFault' = "off")
      <4>1. CASE ExtractKill(p)
        BY <4>1 DEF ExtractKill
      <4>2. CASE ExtractStep(p)
        BY <4>2 DEF ExtractStep, LookAtTree, WriteFile, LookForStale, Trash, Sweep, PublishTree, Adopt, CleanUp,
             Extracted
      <4> QED BY <1>5, <4>1, <4>2
    <3> QED BY <1>1, <1>5, <3>1, <3>2 DEF launchVars, storeVars
  <2>2. sp[p] = "idle"
    BY <2>1 DEF InTurn
  <2> QED BY <1>5, <2>1, <2>2 DEF InTurn, Extracted
<1>6. ASSUME NEW p \in Procs, UNCHANGED <<launchVars, treeVars>>,
             \/ StoreStep(p) /\ Running(p)
             \/ StoreKill(p)
      PROVE  InTurn'
  <2>1. UNCHANGED <<pc, ep, extractFault>> /\ (sp[p] # "idle" \/ Extracted(p))
    BY <1>6 DEF launchVars, treeVars, Running, StoreKill, Expanding
  <2>2. Extracted(p)
    BY <2>1 DEF InTurn
  <2>3. \A q \in Procs \ {p} : sp'[q] = sp[q]
    <3>1. CASE UNCHANGED sp
      BY <3>1
    <3>2. CASE \E l : sp' = [sp EXCEPT ![p] = l]
      BY <1>1, <3>2
    <3>3. CASE Enter(p) \/ LookAtMarker(p) \/ Expand(p) \/ Mark(p) \/ Load(p) \/ StoreKill(p)
      BY <3>2, <3>3 DEF Enter, LookAtMarker, Expand, Mark, Load, StoreKill, Goes
    <3>4. CASE Delete(p) \/ Present(p) \/ Unpack(p)
      BY <3>1, <3>2, <3>4 DEF Delete, Present, Unpack, Goes
    <3>5. CASE Fetch(p)
      BY <3>1, <3>2, <3>5 DEF Fetch, Fails, Goes
    <3>6. CASE Land(p) \/ Lose(p)
      BY <3>1, <3>6 DEF Land, Lose
    <3> QED BY <1>6, <3>3, <3>4, <3>5, <3>6 DEF StoreStep
  <2> QED BY <1>1, <2>1, <2>2, <2>3 DEF InTurn, Extracted
<1>7. ASSUME NEW p \in Procs, Again(p), Rerun(p) \/ (sp[p] = "idle" /\ UNCHANGED storeVars), ExtractAgain(p)
      PROVE  InTurn'
  <2>1. ep' = [ep EXCEPT ![p] = "cold"] /\ pc' = [pc EXCEPT ![p] = "start"] /\ UNCHANGED extractFault
    BY <1>7 DEF ExtractAgain, Again, GoesTo, At, History
  <2>2. sp'[p] = "idle" /\ \A q \in Procs \ {p} : sp'[q] = sp[q]
    BY <1>1, <1>7 DEF Rerun, Goes, storeVars
  <2> QED BY <1>1, <2>1, <2>2 DEF InTurn, Extracted
<1>8. CASE LaunchWorld /\ UNCHANGED <<treeVars, storeVars>>
  BY <1>2, <1>8 DEF LaunchWorld, Publish, Outage, DayPasses, Restore, treeVars, storeVars
<1>9. CASE Checkout /\ UNCHANGED <<launchVars, treeVars>>
  BY <1>2, <1>9 DEF Checkout, launchVars, treeVars
<1>10. ASSUME NEW p \in Procs, NameStep(p), UNCHANGED <<launchVars, treeVars, storeVars>> PROVE InTurn'
  BY <1>2, <1>10 DEF launchVars, treeVars, storeVars
<1>11. ASSUME NEW p \in Procs, Step(p) PROVE InTurn'
  BY <1>4, <1>5, <1>6, <1>10, <1>11 DEF Step
<1> QED BY <1>3, <1>4, <1>5, <1>6, <1>7, <1>8, <1>9, <1>11 DEF Next

LEMMA LaunchHolds == LaunchInv /\ StoreInv => LaunchSound
<1> SUFFICES ASSUME LaunchInv, StoreInv PROVE LaunchSound
  OBVIOUS
<1>1. \A p \in Procs : run[p].attempt \in 0..Attempts /\ run[p].source \in 1..(Len(Sources) + 1)
  <2>1. Len(Sources) \in Nat
    BY SourcesAre DEF LaunchInv
  <2>2. \A p \in Procs : run[p] \in Holds /\ run[p].source <= Len(Sources) + 1
    BY DEF LaunchInv, RunTypes, Stand
  <2> QED BY <2>1, <2>2 DEF Holds
<1>2. marker \in [Deps -> Versions \cup {NoVersion}]
  BY DEF StoreInv, StoreTypes
<1>3. ProvisionTypeOK
  BY <1>1, <1>2 DEF LaunchInv, DiskTypes, NamesApart, ProvisionTypeOK
<1>4. FreshEnough
  BY DEF LaunchInv, Recent, Owed, FreshEnough, Source
<1> QED BY <1>3, <1>4 DEF LaunchInv, LaunchSound

-----------------------------------------------------------------------------
\* Every command of a run of CI that is named after its job has a name of its own,
\* however many race and wherever they are killed, and one with a number is after one
\* with the plain name (reserve_task_name() in ci.rs), as long as dedup_dir() gives each
\* run a directory of its own.
THEOREM NamesAreSound == RunsAreTold /\ Spec => []NamesSound
<1>1. RunsAreTold /\ NamesInv /\ [Next]_vars => RunsAreTold' /\ NamesInv'
  <2>1. RunsAreTold => RunsAreTold'
    BY DEF RunsAreTold, RunOf
  <2> QED BY <2>1, Parts, NamesNext
<1> QED BY <1>1, NamesInit, NamesHold, PTL DEF Spec

\* What a command runs with of the store and of its own tasks is whole and as pinned,
\* however many extract, expand and are killed: an archive that is kept is the one its
\* integrity names and lacks at most a last chunk that is on its way or was lost
\* (disk_store.rs), a module is expanded before its marker says so, and the tree of tasks
\* comes to its place whole and stays there, or is being replaced by one who took it away
\* (builtins/mod.rs).  That he is still at it needs that the launch, the tasks and the
\* modules of a command come one after the other (InTurn).
THEOREM StoreIsSound == Spec => []StoreSound
<1> DEFINE Inv == LaunchInv /\ TreeInv /\ StoreInv /\ Archived /\ InTurn
<1>1. Init => Inv
  BY LaunchBegins, TreesInit, StoreBegins, ArchivesBegin, InTurnBegins
<1>2. Inv /\ [Next]_vars => Inv'
  BY Parts, LaunchNext, TreesNext, StoreNext, ArchivesNext, InTurnNext
<1>3. Inv => StoreSound
  BY TreesHold, StoreHolds DEF Archived, StoreSound
<1> QED BY <1>1, <1>2, <1>3, PTL DEF Spec

\* A launcher execs what was accepted, a whole tool or one that broke off in a download
\* whose length was not announced, unless two launchers wrote one file at once; and from an
\* unpinned source one that is at most a day old, or, on a day when an old hint was touched,
\* no older than what that day began with, whatever was killed or cut off before and however
\* far the restore of the runner's cache is.  No two names of the cache are of one file
\* (main.rs, cache.rs).
THEOREM LaunchIsSound == Spec => []LaunchSound
<1>1. LaunchInv /\ StoreInv /\ [Next]_vars => LaunchInv' /\ StoreInv'
  BY Parts, LaunchNext, StoreNext
<1> QED BY <1>1, LaunchBegins, StoreBegins, LaunchHolds, PTL DEF Spec
=============================================================================
