----------------------------- MODULE AuthProofs -----------------------------
(***************************************************************************)
(* What the authentication commands keep, for any number of processes,     *)
(* calls, deployments and sessions.                                        *)
(***************************************************************************)
EXTENDS Auth, TLAPS, FiniteSetTheorems, WellFoundedInduction

-----------------------------------------------------------------------------
(* Deployments: what the lists computed from the two files are made of.    *)

\* The lists a file may hold.
Lists == {list \in Seq(Deployment) : NamedOnce(list) /\ OneDefaultIn(list)}

\* A list whose positions may have gaps.
Listed(list, top) == DOMAIN list \subseteq 1..top /\ \A i \in DOMAIN list : list[i] \in Deployment

LEMMA Least ==
  ASSUME NEW S, S \subseteq Nat, S # {}
  PROVE  \E i \in S : \A j \in S : i <= j
<1> DEFINE R == OpToRel(<, Nat)
<1>1. PICK i \in S : \A j \in S : ~(<<j, i>> \in R)
  <2> HIDE DEF R
  <2> QED BY WFMin, NatLessThanWellFounded DEF R
<1>2. \A j \in S : i <= j
  <2> TAKE j \in S
  <2>1. i \in Nat /\ j \in Nat OBVIOUS
  <2>2. ~(j < i) BY <1>1, <2>1 DEF OpToRel
  <2> QED BY <2>1, <2>2
<1> QED BY <1>2

\* First picks the least of the positions.
LEMMA FirstIs ==
  ASSUME NEW list, NEW where, where \subseteq Nat, where # {}
  PROVE  \E i \in where : First(list, where) = list[i] /\ \A j \in where : i <= j
BY Least DEF First

LEMMA NamedIs ==
  ASSUME NEW list, NEW top \in Nat, Listed(list, top), NEW n, Has(list, n)
  PROVE  \E i \in DOMAIN list : TheOne(list, n) = list[i] /\ list[i].name = n
<1>1. Named(list, n) \subseteq Nat /\ Named(list, n) # {}
  BY DEF Named, Has, Listed
<1> QED BY <1>1, FirstIs DEF TheOne, Named

LEMMA FilesAreListed ==
  ASSUME NEW list \in Seq(Deployment)
  PROVE  Listed(list, Len(list)) /\ Len(list) \in Nat
BY DEF Listed

LEMMA SeedTyped == SeedDeployment \in Deployment
BY DeploymentsAssumption DEF SeedDeployment, Deployment

\* The overlay keeps the positions of the list below, and everything in it comes
\* from one of the two.
LEMMA OverlaidIs ==
  ASSUME NEW list, NEW top \in Nat, Listed(list, top), NEW entries \in Seq(Deployment)
  PROVE  LET o == Overlaid(list, top, entries) IN
         /\ Listed(o, top + Len(entries))
         /\ DOMAIN list \subseteq DOMAIN o
         /\ \A i \in DOMAIN list : o[i].name = list[i].name
         /\ \A i \in DOMAIN o : (i \in DOMAIN list /\ o[i] = list[i]) \/ \E k \in DOMAIN entries : o[i] = entries[k]
         /\ NamedOnce(list) /\ NamedOnce(entries) => NamedOnce(o)
<1> DEFINE new == {i \in DOMAIN entries : ~Has(list, entries[i].name)}
           o == Overlaid(list, top, entries)
<1>0. Listed(entries, Len(entries)) /\ Len(entries) \in Nat /\ DOMAIN entries = 1..Len(entries)
  BY FilesAreListed
<1>1. DOMAIN o = DOMAIN list \cup {top + k : k \in new}
  BY DEF Overlaid
<1>2. \A i \in DOMAIN list : i \in 1..top
  BY DEF Listed
<1>3. ASSUME NEW i \in DOMAIN list
      PROVE  /\ o[i].name = list[i].name
             /\ o[i] = list[i] \/ \E k \in DOMAIN entries : o[i] = entries[k]
  <2>1. o[i] = IF Has(entries, list[i].name) THEN TheOne(entries, list[i].name) ELSE list[i]
    BY DEF Overlaid
  <2>2. CASE Has(entries, list[i].name)
    <3>1. \E k \in DOMAIN entries : TheOne(entries, list[i].name) = entries[k] /\ entries[k].name = list[i].name
      BY <1>0, <2>2, NamedIs
    <3> QED BY <2>1, <2>2, <3>1
  <2>3. CASE ~Has(entries, list[i].name)
    BY <2>1, <2>3
  <2> QED BY <2>2, <2>3
<1>4. ASSUME NEW k \in new
      PROVE  top + k \notin DOMAIN list /\ o[top + k] = entries[k] /\ top + k \in 1..(top + Len(entries))
  <2>1. k \in 1..Len(entries) BY <1>0
  <2>2. top + k \notin DOMAIN list BY <1>2, <2>1
  <2>3. o[top + k] = entries[(top + k) - top] BY <2>2 DEF Overlaid
  <2> QED BY <1>0, <2>1, <2>2, <2>3
<1>5. \A i \in DOMAIN o : i \in DOMAIN list \/ \E k \in new : i = top + k
  BY <1>1
<1>6. \A i \in DOMAIN o : (i \in DOMAIN list /\ o[i] = list[i]) \/ \E k \in DOMAIN entries : o[i] = entries[k]
  BY <1>3, <1>4, <1>5
<1>7. Listed(o, top + Len(entries))
  <2>1. \A i \in DOMAIN o : i \in 1..(top + Len(entries)) BY <1>0, <1>2, <1>4, <1>5
  <2>2. \A i \in DOMAIN o : o[i] \in Deployment BY <1>0, <1>6 DEF Listed
  <2> QED BY <2>1, <2>2 DEF Listed
<1>8. ASSUME NamedOnce(list), NamedOnce(entries), NEW i \in DOMAIN o, NEW j \in DOMAIN o, o[i].name = o[j].name
      PROVE  i = j
  <2>1. CASE i \in DOMAIN list /\ j \in DOMAIN list
    BY <1>3, <1>8, <2>1 DEF NamedOnce
  <2>2. ASSUME NEW a \in DOMAIN list, NEW k \in new PROVE o[a].name # o[top + k].name
    <3>1. o[a].name = list[a].name /\ o[top + k] = entries[k] BY <1>3, <1>4
    <3>2. list[a].name # entries[k].name BY DEF Has, Named
    <3> QED BY <3>1, <3>2
  <2>3. ASSUME NEW k \in new, NEW l \in new, o[top + k].name = o[top + l].name PROVE k = l
    BY <1>4, <1>8, <2>3 DEF NamedOnce
  <2> QED BY <1>5, <1>8, <2>1, <2>2, <2>3
<1>9. NamedOnce(list) /\ NamedOnce(entries) => NamedOnce(o)
  BY <1>8 DEF NamedOnce
<1> QED BY <1>1, <1>3, <1>6, <1>7, <1>9

\* Where the deployments of a list come from.
FromFiles(all, below, user) ==
  \A i \in DOMAIN all :
    \E d \in Deployment :
      /\ d = SeedDeployment \/ (\E k \in DOMAIN below : d = below[k]) \/ (\E k \in DOMAIN user : d = user[k])
      /\ all[i] = d \/ (d.name = Seed /\ all[i] = [d EXCEPT !.default = FALSE])
      /\ d.name = Seed /\ ConfiguredDefault(all) => ~all[i].default

\* The list the commands work with: the account first, and every deployment out of
\* the account or one of the files, but for the default it lost.
LEMMA EffectiveIs ==
  ASSUME NEW below \in Seq(Deployment), NEW user \in Seq(Deployment)
  PROVE  LET all == Effective(below, user) IN
         /\ Listed(all, 1 + Len(below) + Len(user)) /\ 1 + Len(below) + Len(user) \in Nat
         /\ 1 \in DOMAIN all /\ all[1].name = Seed
         /\ FromFiles(all, below, user)
         /\ NamedOnce(below) /\ NamedOnce(user) => NamedOnce(all)
<1> DEFINE one == <<SeedDeployment>>
           two == Overlaid(one, 1, below)
           three == Overlaid(two, 1 + Len(below), user)
           all == Effective(below, user)
<1>1. /\ Listed(one, 1) /\ NamedOnce(one) /\ 1 \in DOMAIN one /\ one[1] = SeedDeployment
      /\ \A i \in DOMAIN one : one[i] = SeedDeployment
  <2>1. DOMAIN one = 1..1 /\ one[1] = SeedDeployment OBVIOUS
  <2>2. \A i \in DOMAIN one : i = 1 BY <2>1
  <2>3. \A i \in DOMAIN one : one[i] = SeedDeployment BY <2>1, <2>2
  <2> QED BY <2>1, <2>2, <2>3, SeedTyped DEF Listed, NamedOnce
<1>2. Len(below) \in Nat /\ Len(user) \in Nat /\ 1 + Len(below) \in Nat /\ 1 + Len(below) + Len(user) \in Nat
  OBVIOUS
<1>3. /\ Listed(two, 1 + Len(below)) /\ 1 \in DOMAIN two /\ two[1].name = Seed
      /\ \A i \in DOMAIN two : two[i] = SeedDeployment \/ \E k \in DOMAIN below : two[i] = below[k]
      /\ NamedOnce(below) => NamedOnce(two)
  <2> HIDE DEF one
  <2>1. /\ Listed(two, 1 + Len(below)) /\ DOMAIN one \subseteq DOMAIN two
        /\ \A i \in DOMAIN one : two[i].name = one[i].name
        /\ \A i \in DOMAIN two : (i \in DOMAIN one /\ two[i] = one[i]) \/ \E k \in DOMAIN below : two[i] = below[k]
        /\ NamedOnce(one) /\ NamedOnce(below) => NamedOnce(two)
    BY <1>1, OverlaidIs, SMTT(30)
  <2> HIDE DEF two
  <2>2. two[1].name = Seed BY <1>1, <2>1 DEF SeedDeployment
  <2> QED BY <1>1, <2>1, <2>2
<1>4. /\ Listed(three, 1 + Len(below) + Len(user)) /\ 1 \in DOMAIN three /\ three[1].name = Seed
      /\ \A i \in DOMAIN three :
           \/ three[i] = SeedDeployment \/ (\E k \in DOMAIN below : three[i] = below[k])
           \/ \E k \in DOMAIN user : three[i] = user[k]
      /\ NamedOnce(below) /\ NamedOnce(user) => NamedOnce(three)
  <2> HIDE DEF two
  <2>1. /\ Listed(three, 1 + Len(below) + Len(user)) /\ DOMAIN two \subseteq DOMAIN three
        /\ \A i \in DOMAIN two : three[i].name = two[i].name
        /\ \A i \in DOMAIN three : (i \in DOMAIN two /\ three[i] = two[i]) \/ \E k \in DOMAIN user : three[i] = user[k]
        /\ NamedOnce(two) /\ NamedOnce(user) => NamedOnce(three)
    BY <1>2, <1>3, OverlaidIs, SMTT(30)
  <2> HIDE DEF three
  <2> QED BY <1>3, <2>1
<1>5. all = [i \in DOMAIN three |->
               IF three[i].name = Seed /\ ConfiguredDefault(three)
               THEN [three[i] EXCEPT !.default = FALSE] ELSE three[i]]
  BY DEF Effective, Reconciled
<1> HIDE DEF three, all
<1>6. \A i \in DOMAIN three : three[i] \in Deployment BY <1>4 DEF Listed
<1>7. DOMAIN all = DOMAIN three BY <1>5
<1>8. ASSUME NEW i \in DOMAIN all
      PROVE  /\ all[i] \in Deployment /\ all[i].name = three[i].name
             /\ all[i] = three[i] \/ (three[i].name = Seed /\ all[i] = [three[i] EXCEPT !.default = FALSE])
             /\ three[i].name = Seed /\ ConfiguredDefault(three) => ~all[i].default
             /\ three[i].name # Seed => all[i] = three[i]
  <2>1. all[i] = IF three[i].name = Seed /\ ConfiguredDefault(three)
                 THEN [three[i] EXCEPT !.default = FALSE] ELSE three[i]
    BY <1>5, <1>7
  <2>2. three[i] \in Deployment BY <1>6, <1>7
  <2>3. /\ [three[i] EXCEPT !.default = FALSE] \in Deployment
        /\ [three[i] EXCEPT !.default = FALSE].name = three[i].name
        /\ ~[three[i] EXCEPT !.default = FALSE].default
    BY <2>2 DEF Deployment
  <2> QED BY <2>1, <2>2, <2>3
<1>9. ConfiguredDefault(all) <=> ConfiguredDefault(three)
  BY <1>7, <1>8 DEF ConfiguredDefault
<1>10. FromFiles(all, below, user)
  BY <1>4, <1>6, <1>7, <1>8, <1>9 DEF FromFiles
<1>11. Listed(all, 1 + Len(below) + Len(user)) BY <1>4, <1>7, <1>8 DEF Listed
<1>12. NamedOnce(below) /\ NamedOnce(user) => NamedOnce(all)
  BY <1>4, <1>7, <1>8 DEF NamedOnce
<1>13. all[1].name = Seed /\ 1 \in DOMAIN all BY <1>4, <1>7, <1>8
<1> QED BY <1>2, <1>10, <1>11, <1>12, <1>13 DEF all

Among(d, list) == \E i \in DOMAIN list : d = list[i]

\* What select_deployment gives out is of the list, and of the name it was given.
LEMMA SelectedIs ==
  ASSUME NEW list, NEW top \in Nat, Listed(list, top), Has(list, Seed), NEW n, NEW d \in Selected(list, n)
  PROVE  Among(d, list) /\ (n # "" => d.name = n) /\ d \in Deployment
<1>1. CASE n # ""
  <2>1. Has(list, n) /\ d = TheOne(list, n) BY <1>1 DEF Selected
  <2>2. \E i \in DOMAIN list : d = list[i] /\ list[i].name = n BY <2>1, NamedIs
  <2> QED BY <1>1, <2>2 DEF Listed, Among
<1>2. CASE n = "" /\ Defaults(list) # {}
  <2>1. d = First(list, Defaults(list)) BY <1>2 DEF Selected
  <2>2. Defaults(list) \subseteq Nat BY DEF Defaults, Listed
  <2>3. \E i \in Defaults(list) : d = list[i] BY <1>2, <2>1, <2>2, FirstIs
  <2> QED BY <1>2, <2>3 DEF Defaults, Listed, Among
<1>3. CASE n = "" /\ Defaults(list) = {}
  <2>1. d = TheOne(list, Seed) BY <1>3 DEF Selected
  <2>2. \E i \in DOMAIN list : d = list[i] BY <2>1, NamedIs
  <2> QED BY <1>3, <2>2 DEF Listed, Among
<1> QED BY <1>1, <1>2, <1>3

LEMMA SeedNamed == Seed # "" /\ Seed \in Names /\ Names \subseteq Profiles /\ DefaultProfile \in Profiles
                   /\ "" \notin Names /\ DefaultProfile \notin Names /\ "" \notin Profiles
BY DeploymentsAssumption DEF Seed, Profiles, DefaultProfile

LEMMA AccountIs ==
  ASSUME NEW list, NEW top \in Nat, Listed(list, top), Has(list, Seed), NEW n, NEW d \in SelectedAccount(list, n)
  PROVE  Among(d, list) /\ d.name = (IF n = "" THEN Seed ELSE n) /\ d \in Deployment
<1> DEFINE m == IF n = "" THEN Seed ELSE n
<1>1. d \in Selected(list, m) BY DEF SelectedAccount
<1>2. m # "" BY SeedNamed
<1> HIDE DEF m
<1>3. Among(d, list) /\ (m # "" => d.name = m) /\ d \in Deployment BY <1>1, SelectedIs
<1> QED BY <1>2, <1>3 DEF m

LEMMA OwnerIs ==
  ASSUME NEW list, NEW top \in Nat, Listed(list, top), NEW host, NEW d \in OwnerOf(list, host)
  PROVE  Among(d, list) /\ Owns(d, host) /\ d \in Deployment
<1>1. Owners(list, host) # {} /\ d = First(list, Owners(list, host)) BY DEF OwnerOf
<1>2. Owners(list, host) \subseteq Nat BY DEF Owners, Listed
<1>3. \E i \in Owners(list, host) : d = list[i] BY <1>1, <1>2, FirstIs
<1> QED BY <1>3 DEF Owners, Listed, Among

-----------------------------------------------------------------------------
(* Writing the user's file.                                                *)

LEMMA PutIs ==
  ASSUME NEW base \in Seq(Deployment), NEW d \in Deployment
  PROVE  LET put == Put(base, d) IN
         /\ put \in Seq(Deployment) /\ (NamedOnce(base) => NamedOnce(put))
         /\ \A i \in DOMAIN put : put[i] = d \/ (i \in DOMAIN base /\ put[i] = base[i] /\ base[i].name # d.name)
         /\ \A i \in DOMAIN base : base[i].name # d.name => i \in DOMAIN put /\ put[i] = base[i]
         /\ \E i \in DOMAIN put : put[i] = d
<1> DEFINE put == Put(base, d)
<1>1. CASE Has(base, d.name)
  <2>1. put = [i \in DOMAIN base |-> IF base[i].name = d.name THEN d ELSE base[i]] BY <1>1 DEF Put
  <2>2. PICK k \in DOMAIN base : base[k].name = d.name BY <1>1 DEF Has, Named
  <2>3. DOMAIN put = 1..Len(base) /\ DOMAIN put = DOMAIN base /\ Len(base) \in Nat BY <2>1
  <2>4. \A i \in DOMAIN base : put[i] = IF base[i].name = d.name THEN d ELSE base[i] BY <2>1
  <2>5. put \in Seq(Deployment) BY <2>1, <2>3
  <2> HIDE DEF put
  <2>6. NamedOnce(base) => NamedOnce(put) BY <2>3, <2>4 DEF NamedOnce
  <2> QED BY <2>2, <2>3, <2>4, <2>5, <2>6 DEF put
<1>2. CASE ~Has(base, d.name)
  <2>1. put = Append(base, d) BY <1>2 DEF Put
  <2>2. \A i \in DOMAIN base : base[i].name # d.name BY <1>2 DEF Has, Named
  <2>3. put \in Seq(Deployment) /\ DOMAIN put = 1..(Len(base) + 1) /\ DOMAIN base = 1..Len(base) /\ Len(base) \in Nat
    BY <2>1
  <2>4. \A i \in DOMAIN base : i \in DOMAIN put /\ put[i] = base[i] BY <2>1
  <2>5. put[Len(base) + 1] = d /\ Len(base) + 1 \in DOMAIN put BY <2>1
  <2>6. \A i \in DOMAIN put : i \in DOMAIN base \/ i = Len(base) + 1 BY <2>3
  <2> HIDE DEF put
  <2>7. NamedOnce(base) => NamedOnce(put) BY <2>2, <2>4, <2>5, <2>6 DEF NamedOnce
  <2> QED BY <2>2, <2>3, <2>4, <2>5, <2>6, <2>7 DEF put
<1> QED BY <1>1, <1>2

LEMMA NoneDefaultIs ==
  ASSUME NEW list \in Seq(Deployment)
  PROVE  LET none == NoneDefault(list) IN
         /\ none \in Seq(Deployment) /\ DOMAIN none = DOMAIN list
         /\ (NamedOnce(list) => NamedOnce(none))
         /\ \A i \in DOMAIN list : none[i].name = list[i].name /\ none[i].hosts = list[i].hosts /\ ~none[i].default
<1> DEFINE none == NoneDefault(list)
<1>1. none = [i \in 1..Len(list) |-> [list[i] EXCEPT !.default = FALSE]] /\ Len(list) \in Nat BY DEF NoneDefault
<1>2. \A i \in 1..Len(list) :
        /\ [list[i] EXCEPT !.default = FALSE] \in Deployment
        /\ none[i].name = list[i].name /\ none[i].hosts = list[i].hosts /\ ~none[i].default
  <2> TAKE i \in 1..Len(list)
  <2>1. list[i] \in Deployment OBVIOUS
  <2>2. none[i] = [list[i] EXCEPT !.default = FALSE] BY <1>1
  <2> HIDE DEF none
  <2> QED BY <2>1, <2>2 DEF Deployment
<1>3. none \in Seq(Deployment) BY <1>1, <1>2
<1>4. DOMAIN none = DOMAIN list BY <1>1
<1> HIDE DEF none
<1>5. NamedOnce(list) => NamedOnce(none) BY <1>1, <1>2, <1>4 DEF NamedOnce
<1> QED BY <1>1, <1>2, <1>3, <1>4, <1>5 DEF none

\* A written list names what the list before it named, or the new record.
Descends(written, list, d) ==
  \A i \in DOMAIN written :
    \/ written[i].name = d.name /\ written[i].hosts = d.hosts
    \/ \E j \in DOMAIN list : written[i].name = list[j].name /\ written[i].hosts = list[j].hosts

LEMMA UpsertIs ==
  ASSUME NEW list \in Lists, NEW d \in Deployment
  PROVE  LET up == Upsert(list, d) IN
         /\ up \in Lists /\ Descends(up, list, d)
         /\ ~d.default /\ Defaults(list) # {} => DefaultNames(up) = DefaultNames(list)
<1> DEFINE up == Upsert(list, d)
<1>1. list \in Seq(Deployment) /\ NamedOnce(list) /\ OneDefaultIn(list) BY DEF Lists
<1>2. PICK e \in Deployment :
        e = [d EXCEPT !.default = Claims(list, d)] /\ e.name = d.name /\ e.hosts = d.hosts /\ e.default = Claims(list, d)
  <2> DEFINE e == [d EXCEPT !.default = Claims(list, d)]
  <2>1. Claims(list, d) \in BOOLEAN BY DEF Claims, Deployment
  <2>2. e \in Deployment /\ e.name = d.name /\ e.hosts = d.hosts /\ e.default = Claims(list, d)
    BY <2>1 DEF Deployment
  <2> HIDE DEF e
  <2>3. \E f \in Deployment : f = e /\ f.name = d.name /\ f.hosts = d.hosts /\ f.default = Claims(list, d)
    BY <2>2
  <2> QED BY <2>3 DEF e
<1>3. PICK base \in Seq(Deployment) :
        /\ base = IF Claims(list, d) THEN NoneDefault(list) ELSE list
        /\ NamedOnce(base) /\ DOMAIN base = DOMAIN list
        /\ \A i \in DOMAIN base : base[i].name = list[i].name /\ base[i].hosts = list[i].hosts
        /\ Claims(list, d) => \A i \in DOMAIN base : ~base[i].default
        /\ ~Claims(list, d) => base = list
  BY <1>1, NoneDefaultIs
<1>4. up = Put(base, e) BY <1>2, <1>3 DEF Upsert
<1>5. up \in Seq(Deployment) /\ NamedOnce(up)
  BY <1>3, <1>4, PutIs
<1>5a. \A i \in DOMAIN up : up[i] = e \/ (i \in DOMAIN base /\ up[i] = base[i] /\ base[i].name # e.name)
  BY <1>4, PutIs
<1>5b. \A i \in DOMAIN base : base[i].name # e.name => i \in DOMAIN up /\ up[i] = base[i]
  BY <1>4, PutIs
<1>5c. \E i \in DOMAIN up : up[i] = e
  BY <1>4, PutIs
<1> HIDE DEF up
<1>6. ASSUME Claims(list, d) PROVE \A i \in Defaults(up) : up[i] = e
  BY <1>3, <1>5, <1>5a, <1>5b, <1>5c, <1>6 DEF Defaults
<1>7. ASSUME ~Claims(list, d)
      PROVE  /\ \A i \in Defaults(up) : i \in Defaults(list) /\ up[i] = list[i]
             /\ \A i \in Defaults(list) : i \in Defaults(up) /\ up[i] = list[i]
  <2>1. ~e.default /\ \A i \in Defaults(list) : list[i].name # d.name BY <1>2, <1>7 DEF Claims
  <2> QED BY <1>2, <1>3, <1>5, <1>5a, <1>5b, <1>5c, <1>7, <2>1 DEF Defaults
<1>8. OneDefaultIn(up)
  <2>1. ASSUME Claims(list, d) PROVE OneDefaultIn(up)
    <3>1. \A i, j \in Defaults(up) : up[i].name = up[j].name BY <1>6, <2>1
    <3> QED BY <1>5, <1>5a, <1>5b, <1>5c, <3>1 DEF OneDefaultIn, NamedOnce, Defaults
  <2>2. ASSUME ~Claims(list, d) PROVE OneDefaultIn(up)
    BY <1>1, <1>7, <2>2 DEF OneDefaultIn
  <2> QED BY <2>1, <2>2
<1>9. Descends(up, list, d)
  <2>1. ASSUME NEW i \in DOMAIN up
        PROVE  \/ up[i].name = d.name /\ up[i].hosts = d.hosts
               \/ \E j \in DOMAIN list : up[i].name = list[j].name /\ up[i].hosts = list[j].hosts
    <3>1. CASE up[i] = e BY <1>2, <3>1
    <3>2. CASE i \in DOMAIN base /\ up[i] = base[i] BY <1>3, <3>2
    <3> QED BY <1>5a, <3>1, <3>2
  <2> QED BY <2>1 DEF Descends
<1>10. ASSUME ~d.default, Defaults(list) # {} PROVE DefaultNames(up) = DefaultNames(list)
  <2>1. CASE ~Claims(list, d)
    BY <1>7, <2>1 DEF DefaultNames
  <2>2. CASE Claims(list, d)
    <3>1. PICK k \in Defaults(list) : list[k].name = d.name BY <1>10, <2>2 DEF Claims
    <3>2. DefaultNames(list) = {d.name} BY <1>1, <3>1 DEF DefaultNames, OneDefaultIn
    <3>3. \E i \in DOMAIN up : up[i] = e /\ e.default BY <1>2, <1>5, <1>5a, <1>5b, <1>5c, <2>2
    <3>4. \A i \in Defaults(up) : up[i].name = d.name BY <1>2, <1>6, <2>2
    <3>5. \E i \in Defaults(up) : up[i].name = d.name BY <1>2, <3>3 DEF Defaults
    <3>6. DefaultNames(up) = {d.name} BY <3>4, <3>5 DEF DefaultNames
    <3> QED BY <3>2, <3>6
  <2> QED BY <2>1, <2>2
<1>11. up \in Lists BY <1>5, <1>5a, <1>5b, <1>5c, <1>8 DEF Lists
<1> QED BY <1>9, <1>10, <1>11 DEF up

LEMMA DefaultSetIs ==
  ASSUME NEW list \in Lists, NEW n
  PROVE  /\ DefaultSet(list, n) \in Lists
         /\ DOMAIN DefaultSet(list, n) = DOMAIN list
         /\ \A i \in DOMAIN list : DefaultSet(list, n)[i].name = list[i].name /\ DefaultSet(list, n)[i].hosts = list[i].hosts
<1> DEFINE set == DefaultSet(list, n)
           with(i) == [list[i] EXCEPT !.default = (n # Seed /\ list[i].name = n)]
<1>1. list \in Seq(Deployment) /\ NamedOnce(list) /\ Len(list) \in Nat /\ DOMAIN list = 1..Len(list) BY DEF Lists
<1>2. set = [i \in DOMAIN list |-> with(i)] BY DEF DefaultSet
<1>3. ASSUME NEW i \in DOMAIN list
      PROVE  /\ with(i) \in Deployment /\ with(i).name = list[i].name /\ with(i).hosts = list[i].hosts
             /\ with(i).default => list[i].name = n
  <2>1. list[i] \in Deployment BY <1>1
  <2>2. (n # Seed /\ list[i].name = n) \in BOOLEAN OBVIOUS
  <2> QED BY <2>1, <2>2 DEF Deployment
<1> HIDE DEF with
<1>4. set \in Seq(Deployment) BY <1>1, <1>2, <1>3
<1>5. DOMAIN set = DOMAIN list /\ \A i \in DOMAIN list : set[i] = with(i) BY <1>2
<1> HIDE DEF set
<1>6. NamedOnce(set) BY <1>1, <1>3, <1>5 DEF NamedOnce
<1>7. OneDefaultIn(set) BY <1>1, <1>3, <1>5 DEF OneDefaultIn, NamedOnce, Defaults
<1>8. set \in Lists BY <1>4, <1>6, <1>7 DEF Lists
<1> QED BY <1>3, <1>5, <1>8 DEF set

LEMMA WithoutIs ==
  ASSUME NEW list \in Lists, NEW n, Has(list, n)
  PROVE  LET left == Without(list, n) IN
         /\ left \in Lists
         /\ \A i \in DOMAIN left : \E j \in DOMAIN list : left[i] = list[j]
         /\ n \notin DefaultNames(list) => DefaultNames(left) = DefaultNames(list)
<1> DEFINE left == Without(list, n)
           k == CHOOSE i \in Named(list, n) : TRUE
           from(i) == IF i < k THEN i ELSE i + 1
<1>1. list \in Seq(Deployment) /\ NamedOnce(list) /\ OneDefaultIn(list) /\ Len(list) \in Nat /\ DOMAIN list = 1..Len(list)
  BY DEF Lists
<1>2. k \in 1..Len(list) /\ list[k].name = n
  <2>1. k \in Named(list, n) BY DEF Has
  <2> QED BY <1>1, <2>1 DEF Named
<1>3. left = [i \in 1..(Len(list) - 1) |-> list[from(i)]] BY DEF Without
<1> HIDE DEF k
<1>4. \A i \in 1..(Len(list) - 1) : from(i) \in 1..Len(list) /\ from(i) # k BY <1>1, <1>2
<1>5. \A i, j \in 1..(Len(list) - 1) : from(i) = from(j) => i = j BY <1>1, <1>2
<1>6. \A j \in 1..Len(list) : j # k => \E i \in 1..(Len(list) - 1) : from(i) = j
  <2> TAKE j \in 1..Len(list)
  <2>1. CASE j < k
    <3>1. j \in 1..(Len(list) - 1) /\ from(j) = j BY <1>1, <1>2, <2>1
    <3> QED BY <3>1
  <2>2. CASE j > k
    <3>1. j - 1 \in 1..(Len(list) - 1) /\ from(j - 1) = j BY <1>1, <1>2, <2>2
    <3> QED BY <3>1
  <2> QED BY <1>1, <1>2, <2>1, <2>2
<1> HIDE DEF from
<1>7. DOMAIN left = 1..(Len(list) - 1) /\ \A i \in DOMAIN left : left[i] = list[from(i)] BY <1>3
<1>8. left \in Seq(Deployment) BY <1>1, <1>2, <1>3, <1>4
<1> HIDE DEF left
<1>9. NamedOnce(left) BY <1>1, <1>4, <1>5, <1>7 DEF NamedOnce
<1>10. OneDefaultIn(left) BY <1>1, <1>4, <1>5, <1>7 DEF OneDefaultIn, Defaults
<1>11. ASSUME n \notin DefaultNames(list) PROVE DefaultNames(left) = DefaultNames(list)
  <2>1. k \notin Defaults(list) BY <1>2, <1>11 DEF DefaultNames
  <2>2. \A i \in Defaults(left) : from(i) \in Defaults(list) /\ left[i] = list[from(i)] BY <1>1, <1>4, <1>7 DEF Defaults
  <2>3. \A j \in Defaults(list) : \E i \in Defaults(left) : left[i] = list[j] BY <1>1, <1>6, <1>7, <2>1 DEF Defaults
  <2> QED BY <2>2, <2>3 DEF DefaultNames
<1>12. left \in Lists BY <1>8, <1>9, <1>10 DEF Lists
<1>13. \A i \in DOMAIN left : \E j \in DOMAIN list : left[i] = list[j] BY <1>1, <1>4, <1>7
<1> QED BY <1>11, <1>12, <1>13 DEF left

-----------------------------------------------------------------------------
(* The inductive invariant of the calls: what they hold is well formed, the *)
(* entries are of sessions that were opened, the lists name nothing twice,  *)
(* and a call is where its command takes it.                                *)

Session == [name : Names, hosts : SUBSET Hosts, issuer : Issuers \cup {NoIssuer}, endpoint : BOOLEAN]
Files == {list \in Seq(Deployment) : NamedOnce(list)}

\* The entries of the sessions opened so far, each of its session's kind.
Kept(opened) ==
  {e \in Entry : e = NoEntry \/ /\ e.session \in DOMAIN opened
                                /\ e.prefer = opened[e.session].endpoint /\ e.id = e.prefer
                                /\ e.refresh = 0 <=> ~e.prefer}
Memory(opened) == [sel : Deployment, profile : Profiles \cup {""}, entry : Kept(opened),
                   map : [Profiles -> Kept(opened)], list : Lists]
\* What is cached was exchanged with the server it is cached for.
Exchanged(opened) ==
  {c \in [issuer : Issuers \cup {NoIssuer}, entry : Kept(opened)] :
     c.entry # NoEntry => opened[c.entry.session].issuer = c.issuer}
Answers == [is : {"none", "error", "ok", "token"}, session : 0..MaxSessions,
            profile : Profiles \cup {""}, host : Hosts \cup {""}]

Labels == {"select", "asked", "profile", "credLoad", "refresh", "credOpen", "clear", "credWrite",
           "confLoad", "confOpen", "confWrite", "probe", "owner", "apiEnv", "apiExchange",
           "ended", "crashed"}
Stopped == {"ended", "crashed"}
Ops == {"login", "logout", "logoutAll", "configure", "use", "remove", "token", "get"}
\* The commands that come to a label.
ComesTo(op, label) ==
  /\ label = "select" => op \in {"login", "configure", "logout"}
  /\ label \in {"asked", "profile"} => op \in {"login", "configure"}
  /\ label \in {"credLoad", "credOpen"} => op \in Ops \ {"logoutAll", "use"}
  /\ label = "credWrite" => op \in Ops \ {"use"}
  /\ label = "refresh" => op \in {"token", "get"}
  /\ label = "clear" => op = "logoutAll"
  /\ label \in {"confLoad", "confOpen", "confWrite"} => op \in {"configure", "use", "remove", "logout"}
  /\ label = "probe" => op = "configure"
  /\ label = "owner" => op = "get"
  /\ label \in {"apiEnv", "apiExchange"} => op = "token"

\* A call under way, where it is and what it holds.
FitsAt(calls, label, m) ==
  /\ label \notin Stopped =>
       /\ calls # <<>> /\ ComesTo(Head(calls).op, label)
       /\ Head(calls).op \in {"logout", "remove", "logoutAll"} => m.entry = NoEntry
       /\ Head(calls).op = "logoutAll" => m.map = Empty
  /\ label \in {"credLoad", "refresh", "credOpen", "credWrite"} /\ Head(calls).op # "logoutAll"
       => m.profile \in Profiles
  /\ label = "refresh" => m.entry.refresh # 0
  /\ label = "confLoad" /\ Head(calls).op = "configure" => m.sel.default = Head(calls).makeDefault
  /\ label \in {"refresh", "credOpen", "credWrite"} /\ Head(calls).op \in {"token", "get"}
       => m.entry # NoEntry

RunTyped ==
  /\ fault \in Faults /\ apiToken \in BOOLEAN /\ rotates \in BOOLEAN /\ backend \in {"keyring", "file"}
  /\ repo \in Files
FilesTyped ==
  /\ config \in [list : Lists, torn : BOOLEAN]
  /\ store \in [map : [Profiles -> Kept(sessions)], torn : BOOLEAN]
  /\ backend = "keyring" => ~store.torn
ServersTyped ==
  /\ sessions \in Seq(Session) /\ Len(sessions) <= MaxSessions
  /\ newest \in Seq(1..MaxTokens) /\ Len(newest) = Len(sessions)
CallsTyped ==
  /\ todo \in [Procs -> Seq(Calls)] /\ at \in [Procs -> Labels]
  /\ mem \in [Procs -> Memory(sessions)] /\ answer \in [Procs -> Answers]
  /\ \A p \in Procs : FitsAt(todo[p], at[p], mem[p]) /\ (at[p] = "credWrite" => backend = "file")
CacheTyped == cache \in [Procs -> Exchanged(sessions)]
RestTyped ==
  /\ port \in Procs \cup {NoProc} /\ intended \in [Profiles -> Kept(sessions)]
  /\ overlap \in BOOLEAN /\ cut \in BOOLEAN /\ respent \in BOOLEAN
Typed == RunTyped /\ FilesTyped /\ ServersTyped /\ CallsTyped /\ CacheTyped /\ RestTyped

-----------------------------------------------------------------------------
(* What the sets above give.                                               *)

LEMMA Constants ==
  /\ IsFiniteSet(Procs) /\ NoProc \notin Procs /\ MaxSessions \in Nat /\ MaxTokens \in Nat /\ MaxTokens >= 1
  /\ NoIssuer \notin Issuers
<1>1. IsFiniteSet(Procs) /\ NoProc \notin Procs BY AuthAssumption
<1>2. MaxSessions \in Nat /\ MaxTokens \in Nat \ {0} BY AuthAssumption
<1>3. NoIssuer \notin Issuers BY DeploymentsAssumption
<1> QED BY <1>1, <1>2, <1>3

LEMMA NoEntryKept == ASSUME NEW opened PROVE NoEntry \in Kept(opened) /\ Empty \in [Profiles -> Kept(opened)]
<1>1. NoEntry \in Entry BY Constants DEF NoEntry, Entry
<1>2. NoEntry \in Kept(opened) BY <1>1 DEF Kept
<1> QED BY <1>2 DEF Empty

LEMMA EmptyList == <<>> \in Lists
<1>1. <<>> \in Seq(Deployment) OBVIOUS
<1>2. DOMAIN <<>> = {} OBVIOUS
<1> QED BY <1>1, <1>2 DEF Lists, NamedOnce, OneDefaultIn, Defaults

LEMMA FreshTyped == ASSUME NEW opened PROVE Fresh \in Memory(opened)
BY NoEntryKept, EmptyList, SeedTyped DEF Fresh, Memory

\* The fields of a call.
LEMMA CallFields ==
  ASSUME NEW c \in Calls
  PROVE  /\ c.op \in Ops
         /\ c.op \in {"login", "logout"} => c.name \in Names \cup {""}
         /\ c.op = "login" => c.profile \in Profiles \cup {""}
         /\ c.op = "configure" => /\ c.name \in Names /\ c.host \in Hosts /\ c.makeDefault \in BOOLEAN
                                  /\ c.issuer \in Issuers \cup {""} /\ c.login \in BOOLEAN
         /\ c.op \in {"use", "remove"} => c.name \in Names
         /\ c.op = "token" => c.profile \in Profiles /\ c.required \in BOOLEAN
         /\ c.op = "get" => c.host \in Hosts
BY DEF Calls, Ops

LEMMA Growing ==
  ASSUME NEW opened, NEW later, Kept(opened) \subseteq Kept(later)
  PROVE  Memory(opened) \subseteq Memory(later) /\ [Profiles -> Kept(opened)] \subseteq [Profiles -> Kept(later)]
<1>1. ASSUME NEW m \in [Profiles -> Kept(opened)] PROVE m \in [Profiles -> Kept(later)]
  OBVIOUS
<1>2. ASSUME NEW m \in Memory(opened) PROVE m \in Memory(later)
  BY <1>1 DEF Memory
<1> QED BY <1>1, <1>2

\* Where a call starts, it fits.
LEMMA Starting ==
  ASSUME NEW calls \in Seq(Calls), NEW token \in BOOLEAN, NEW opened
  PROVE  /\ StartOf(calls, token) \in Labels \ {"credWrite"} /\ Start(calls, token) \in Memory(opened)
         /\ Start(calls, token).entry = NoEntry /\ Start(calls, token).map = Empty
         /\ Start(calls, token).list = <<>> /\ Start(calls, token).sel = SeedDeployment
         /\ FitsAt(calls, StartOf(calls, token), Start(calls, token))
         /\ StartOf(calls, token) \notin {"profile", "refresh", "credOpen"}
         /\ StartOf(calls, token) = "credLoad" => Head(calls).op = "token"
<1> DEFINE c == Head(calls)  m == Start(calls, token)  l == StartOf(calls, token)
<1>1. CASE calls = <<>>
  <2>1. l = "ended" /\ m = Fresh BY <1>1 DEF StartOf, Start
  <2>2. l \in Labels \ {"credWrite"} /\ l \in Stopped /\ l \notin {"credLoad", "refresh", "credOpen", "credWrite", "confLoad"}
    BY <2>1 DEF Labels, Stopped
  <2>3. FitsAt(calls, l, m) BY <2>2 DEF FitsAt
  <2>4. Fresh.entry = NoEntry /\ Fresh.map = Empty /\ Fresh.list = <<>> /\ Fresh.sel = SeedDeployment
    BY DEF Fresh
  <2> QED BY <2>1, <2>2, <2>3, <2>4, FreshTyped
<1>2. CASE calls # <<>>
  <2>1. c \in Calls BY <1>2
  <2>2. c.op \in Ops /\ (c.op = "token" => c.profile \in Profiles) BY <2>1, CallFields
  <2>3. /\ m \in Memory(opened) /\ m.entry = NoEntry /\ m.map = Empty /\ m.list = <<>> /\ m.sel = SeedDeployment
        /\ c.op = "token" => m.profile = c.profile
    <3>1. CASE c.op = "token"
      <4>1. m = [Fresh EXCEPT !.profile = c.profile] BY <1>2, <3>1 DEF Start
      <4>2. [Fresh EXCEPT !.profile = c.profile] \in Memory(opened)
        BY <2>2, <3>1, FreshTyped DEF Memory
      <4> HIDE DEF m, c
      <4> QED BY <4>1, <4>2 DEF Fresh
    <3>2. CASE c.op # "token"
      <4>1. m = Fresh BY <3>2 DEF Start
      <4> HIDE DEF m, c
      <4> QED BY <3>2, <4>1, FreshTyped DEF Fresh
    <3> QED BY <3>1, <3>2
  <2>4. /\ l \in Labels \ {"credWrite", "ended", "crashed", "refresh", "credOpen", "profile"} /\ ComesTo(c.op, l)
        /\ l = "credLoad" => c.op = "token"
        /\ l = "confLoad" => c.op # "configure"
    BY <1>2, <2>2 DEF StartOf, Ops, Labels, ComesTo
  <2> HIDE DEF c, m, l
  <2>5. FitsAt(calls, l, m)
    BY <1>2, <2>2, <2>3, <2>4 DEF FitsAt, c
  <2> QED BY <2>3, <2>4, <2>5 DEF m, l, c
<1> QED BY <1>1, <1>2

-----------------------------------------------------------------------------
(* How a call goes on keeps the calls well formed.                         *)

LEMMA Going ==
  ASSUME CallsTyped, NEW p \in Procs, NEW label \in Labels, NEW m, m \in Memory(sessions'),
         Kept(sessions) \subseteq Kept(sessions'), backend' = backend,
         GoTo(p, label, m), FitsAt(todo[p], label, m), label = "credWrite" => backend = "file"
  PROVE  CallsTyped'
<1>1. Memory(sessions) \subseteq Memory(sessions') BY Growing
<1>2. todo' = todo /\ answer' = answer /\ at' = [at EXCEPT ![p] = label] /\ mem' = [mem EXCEPT ![p] = m]
  BY DEF GoTo
<1>3. at' \in [Procs -> Labels] BY <1>2 DEF CallsTyped
<1>4. mem' \in [Procs -> Memory(sessions')] BY <1>1, <1>2 DEF CallsTyped
<1>5. ASSUME NEW q \in Procs PROVE FitsAt(todo'[q], at'[q], mem'[q]) /\ (at'[q] = "credWrite" => backend' = "file")
  <2>1. CASE q = p BY <1>2, <2>1 DEF CallsTyped
  <2>2. CASE q # p
    <3>1. at'[q] = at[q] /\ mem'[q] = mem[q] BY <1>2, <2>2 DEF CallsTyped
    <3> QED BY <1>2, <3>1 DEF CallsTyped
  <2> QED BY <2>1, <2>2
<1> QED BY <1>2, <1>3, <1>4, <1>5 DEF CallsTyped

LEMMA Ending ==
  ASSUME CallsTyped, apiToken \in BOOLEAN, NEW p \in Procs, NEW a \in Answers, todo[p] # <<>>,
         Kept(sessions) \subseteq Kept(sessions'), backend' = backend, Ends(p, a)
  PROVE  CallsTyped'
<1> DEFINE label == StartOf(Tail(todo[p]), apiToken)  m == Start(Tail(todo[p]), apiToken)
<1>0. Tail(todo[p]) \in Seq(Calls) BY DEF CallsTyped
<1>1. Memory(sessions) \subseteq Memory(sessions') BY Growing
<1>2. /\ todo' = [todo EXCEPT ![p] = Tail(todo[p])] /\ answer' = [answer EXCEPT ![p] = a]
      /\ at' = [at EXCEPT ![p] = label] /\ mem' = [mem EXCEPT ![p] = m]
  BY DEF Ends, CallsTyped
<1>3. /\ label \in Labels /\ label # "credWrite" /\ m \in Memory(sessions')
      /\ FitsAt(Tail(todo[p]), label, m)
  BY <1>0, Starting
<1> HIDE DEF label, m
<1>4. at' \in [Procs -> Labels] BY <1>2, <1>3 DEF CallsTyped
<1>5. mem' \in [Procs -> Memory(sessions')] BY <1>1, <1>2, <1>3 DEF CallsTyped
<1>6. todo' \in [Procs -> Seq(Calls)] BY <1>0, <1>2 DEF CallsTyped
<1>7. answer' \in [Procs -> Answers] BY <1>2 DEF CallsTyped
<1>8. ASSUME NEW q \in Procs PROVE FitsAt(todo'[q], at'[q], mem'[q]) /\ (at'[q] = "credWrite" => backend' = "file")
  <2>1. CASE q = p
    <3>1. todo'[q] = Tail(todo[p]) /\ at'[q] = label /\ mem'[q] = m BY <1>2, <2>1 DEF CallsTyped
    <3> QED BY <1>3, <3>1
  <2>2. CASE q # p
    <3>1. at'[q] = at[q] /\ mem'[q] = mem[q] /\ todo'[q] = todo[q] BY <1>2, <2>2 DEF CallsTyped
    <3> QED BY <3>1 DEF CallsTyped
  <2> QED BY <2>1, <2>2
<1> QED BY <1>4, <1>5, <1>6, <1>7, <1>8 DEF CallsTyped

LEMMA PlainAnswers ==
  NoAnswer \in Answers /\ [NoAnswer EXCEPT !.is = "error"] \in Answers /\ [NoAnswer EXCEPT !.is = "ok"] \in Answers
<1>1. 0 \in 0..MaxSessions BY Constants
<1>2. NoAnswer \in Answers BY <1>1 DEF NoAnswer, Answers
<1> QED BY <1>2 DEF Answers

LEMMA EndsPlainly ==
  ASSUME CallsTyped, apiToken \in BOOLEAN, NEW p \in Procs, at[p] \notin Stopped,
         sessions' = sessions, backend' = backend, Fails(p) \/ Done(p)
  PROVE  CallsTyped'
<1>1. todo[p] # <<>> BY DEF CallsTyped, FitsAt
<1>2. Kept(sessions) \subseteq Kept(sessions') OBVIOUS
<1>3. CASE Fails(p) BY <1>1, <1>2, <1>3, PlainAnswers, Ending DEF Fails
<1>4. CASE Done(p) BY <1>1, <1>2, <1>4, PlainAnswers, Ending DEF Done
<1> QED BY <1>3, <1>4

LEMMA HandingOut ==
  ASSUME CallsTyped, apiToken \in BOOLEAN, NEW p \in Procs, at[p] \notin Stopped, NEW e \in Entry,
         Kept(sessions) \subseteq Kept(sessions'), backend' = backend, HandOut(p, e)
  PROVE  CallsTyped'
<1> DEFINE host == IF Op(p) = "get" THEN Call(p).host ELSE ""
           a == [is |-> "token", session |-> e.session, profile |-> mem[p].profile, host |-> host]
<1>1. todo[p] # <<>> BY DEF CallsTyped, FitsAt
<1>2. Call(p) \in Calls BY <1>1 DEF CallsTyped, Call
<1>3. host \in Hosts \cup {""} BY <1>2, CallFields DEF Op
<1>4. mem[p].profile \in Profiles \cup {""} /\ e.session \in 0..MaxSessions BY DEF CallsTyped, Memory, Entry
<1> HIDE DEF host
<1>5. a \in Answers BY <1>3, <1>4 DEF Answers
<1>6. Ends(p, a) BY DEF HandOut, host
<1> HIDE DEF a
<1> QED BY <1>1, <1>5, <1>6, Ending

-----------------------------------------------------------------------------
(* Every step keeps it.                                                    *)

\* What holds of every step of a process, whatever it does.
Around == UNCHANGED envVars /\ overlap' \in BOOLEAN

LEMMA WatchedAround == ASSUME RestTyped, Watched PROVE Around
BY DEF Watched, Around, RestTyped

LEMMA AllIs ==
  ASSUME RunTyped, FilesTyped
  PROVE  /\ \E top \in Nat : Listed(All, top)
         /\ Has(All, Seed) /\ NamedOnce(All)
         /\ \A i \in DOMAIN All : All[i] \in Deployment
<1>1. repo \in Seq(Deployment) /\ NamedOnce(repo) /\ config.list \in Seq(Deployment) /\ NamedOnce(config.list)
  BY DEF RunTyped, FilesTyped, Files, Lists
<1>2. /\ Listed(All, 1 + Len(repo) + Len(config.list)) /\ 1 + Len(repo) + Len(config.list) \in Nat
      /\ 1 \in DOMAIN All /\ All[1].name = Seed /\ NamedOnce(All)
  BY <1>1, EffectiveIs DEF All
<1>3. Has(All, Seed) BY <1>2 DEF Has, Named
<1> QED BY <1>2, <1>3 DEF Listed

\* What a command selects, by the name in its call.
LEMMA AccountTyped ==
  ASSUME RunTyped, FilesTyped, NEW n, NEW d \in SelectedAccount(All, n)
  PROVE  d \in Deployment /\ d.name = (IF n = "" THEN Seed ELSE n) /\ Among(d, All)
<1>1. PICK top \in Nat : Listed(All, top) BY AllIs
<1>2. Has(All, Seed) BY AllIs
<1>3. d \in Deployment BY <1>1, <1>2, AccountIs
<1>4. d.name = (IF n = "" THEN Seed ELSE n) BY <1>1, <1>2, AccountIs
<1>5. Among(d, All) BY <1>1, <1>2, AccountIs
<1> QED BY <1>3, <1>4, <1>5

LEMMA DefaultTyped ==
  ASSUME RunTyped, FilesTyped, NEW d \in Selected(All, "")
  PROVE  d \in Deployment
BY AllIs, SelectedIs

LEMMA LoginProfileTyped ==
  ASSUME NEW d \in Deployment PROVE LoginProfile(d) \in Profiles
BY SeedNamed DEF LoginProfile, Deployment

\* A step that only moves its call on, and the port.
LEMMA QuietTyped ==
  ASSUME Typed, Around, CallsTyped', UNCHANGED <<store, config, idpVars, cache, histVars>>,
         port' \in Procs \cup {NoProc}
  PROVE  Typed'
<1>1. /\ fault' = fault /\ apiToken' = apiToken /\ rotates' = rotates /\ repo' = repo /\ backend' = backend
      /\ sessions' = sessions /\ newest' = newest /\ intended' = intended /\ cut' = cut /\ respent' = respent
      /\ store' = store /\ config' = config /\ cache' = cache
  BY DEF Around, envVars, idpVars, histVars
<1>2. RunTyped' BY <1>1 DEF Typed, RunTyped
<1>3. FilesTyped' BY <1>1 DEF Typed, FilesTyped
<1>4. ServersTyped' BY <1>1 DEF Typed, ServersTyped
<1>5. CacheTyped' BY <1>1 DEF Typed, CacheTyped
<1>6. RestTyped' BY <1>1 DEF Typed, RestTyped, Around
<1> QED BY <1>2, <1>3, <1>4, <1>5, <1>6 DEF Typed

\* The call at work and its memory.
LEMMA AtWork ==
  ASSUME Typed, NEW p \in Procs, at[p] \notin Stopped
  PROVE  /\ Call(p) \in Calls /\ Call(p) = Head(todo[p]) /\ Op(p) = Call(p).op /\ todo[p] # <<>> /\ todo[p] \in Seq(Calls)
         /\ mem[p] \in Memory(sessions) /\ ComesTo(Op(p), at[p]) /\ FitsAt(todo[p], at[p], mem[p])
         /\ apiToken \in BOOLEAN /\ CallsTyped /\ Op(p) \in Ops
         /\ Op(p) \in {"logout", "remove", "logoutAll"} => mem[p].entry = NoEntry
         /\ Op(p) = "logoutAll" => mem[p].map = Empty
<1>1. todo[p] # <<>> /\ todo[p] \in Seq(Calls) /\ mem[p] \in Memory(sessions) /\ FitsAt(todo[p], at[p], mem[p])
  BY DEF Typed, CallsTyped, FitsAt
<1>2. Head(todo[p]) \in Calls BY <1>1
<1>3. Call(p) = Head(todo[p]) /\ Op(p) = Head(todo[p]).op BY DEF Call, Op
<1>4. Op(p) \in Ops BY <1>2, <1>3, CallFields
<1>5. /\ ComesTo(Op(p), at[p])
      /\ Op(p) \in {"logout", "remove", "logoutAll"} => mem[p].entry = NoEntry
      /\ Op(p) = "logoutAll" => mem[p].map = Empty
  BY <1>1, <1>3 DEF FitsAt
<1> QED BY <1>1, <1>2, <1>3, <1>4, <1>5 DEF Typed, RunTyped

\* Of a move that keeps what the call holds but the deployment, profile and list.
LEMMA MovingOn ==
  ASSUME Typed, Around, UNCHANGED idpVars, NEW p \in Procs, at[p] \notin Stopped, NEW label \in Labels, NEW m \in Memory(sessions),
         GoTo(p, label, m), m.entry = mem[p].entry, m.map = mem[p].map, ComesTo(Op(p), label),
         label \in {"credLoad", "credOpen", "credWrite"} /\ Op(p) # "logoutAll" => m.profile \in Profiles,
         label \in {"credOpen", "credWrite"} /\ Op(p) \in {"token", "get"} => m.entry # NoEntry,
         label = "confLoad" /\ Op(p) = "configure" => m.sel.default = Call(p).makeDefault,
         label # "refresh", label = "credWrite" => backend = "file"
  PROVE  CallsTyped'
<1>1. FitsAt(todo[p], label, m)
  BY AtWork DEF FitsAt
<1>2. sessions' = sessions /\ backend' = backend BY DEF Around, envVars, idpVars
<1>3. CallsTyped BY DEF Typed
<1> HIDE DEF CallsTyped, GoTo, FitsAt
<1> QED BY <1>1, <1>2, <1>3, Going

LEMMA SelectTyped ==
  ASSUME Typed, Around, NEW p \in Procs, Select(p)
  PROVE  Typed'
<1>1. at[p] = "select" /\ at[p] \notin Stopped /\ Op(p) \in {"login", "configure"} BY DEF Select, Stopped
<1>2. UNCHANGED <<store, config, idpVars, cache, histVars>> BY DEF Select
<1>3. sessions' = sessions /\ backend' = backend BY <1>2 DEF Around, envVars, idpVars
<1>4. RunTyped /\ FilesTyped /\ port \in Procs \cup {NoProc} BY DEF Typed, RestTyped
<1>5. CASE Fails(p) /\ UNCHANGED port
  <2>1. CallsTyped' BY <1>1, <1>3, <1>5, AtWork, EndsPlainly
  <2> QED BY <1>2, <1>4, <1>5, <2>1, QuietTyped
<1>6. ASSUME NEW d \in SelectedAccount(All, NameOf(p)), GoTo(p, "asked", [mem[p] EXCEPT !.sel = d]), port' \in {p, port}
      PROVE  Typed'
  <2>1. d \in Deployment BY <1>4, AccountTyped
  <2>2. mem[p] \in Memory(sessions) BY <1>1, AtWork
  <2> DEFINE m == [mem[p] EXCEPT !.sel = d]
  <2>3. m \in Memory(sessions) /\ m.entry = mem[p].entry /\ m.map = mem[p].map BY <2>1, <2>2 DEF Memory
  <2> HIDE DEF m
  <2>4. "asked" \in Labels /\ ComesTo(Op(p), "asked") BY <1>1 DEF Labels, ComesTo
  <2>5. GoTo(p, "asked", m) BY <1>6 DEF m
  <2>6. CallsTyped' BY <1>1, <1>2, <2>3, <2>4, <2>5, MovingOn
  <2> QED BY <1>2, <1>4, <1>6, <2>6, QuietTyped
<1>7. \/ Fails(p) /\ UNCHANGED port
      \/ \E d \in SelectedAccount(All, NameOf(p)) : GoTo(p, "asked", [mem[p] EXCEPT !.sel = d]) /\ port' \in {p, port}
  BY DEF Select, Bind
<1> QED BY <1>5, <1>6, <1>7

LEMMA ProfileTyped ==
  ASSUME Typed, Around, NEW p \in Procs, Profile(p) \/ SelectLogout(p)
  PROVE  Typed'
<1>1. /\ at[p] \in {"profile", "select"} /\ at[p] \notin Stopped
      /\ at[p] = "select" => Op(p) = "logout"
  BY DEF Profile, SelectLogout, Stopped
<1>2. UNCHANGED <<store, config, idpVars, cache, port, histVars>> BY DEF Profile, SelectLogout
<1>3. sessions' = sessions /\ backend' = backend BY <1>2 DEF Around, envVars, idpVars
<1>4. RunTyped /\ FilesTyped /\ port \in Procs \cup {NoProc} BY DEF Typed, RestTyped
<1>5. CASE Fails(p)
  <2>1. CallsTyped' BY <1>1, <1>3, <1>5, AtWork, EndsPlainly
  <2> QED BY <1>2, <1>4, <2>1, QuietTyped
<1>6. ASSUME NEW d \in SelectedAccount(All, NameOf(p)), NEW m, m \in {[mem[p] EXCEPT !.profile = LoginProfile(d)],
                                                             [mem[p] EXCEPT !.sel = d, !.profile = LoginProfile(d)]},
             GoTo(p, "credLoad", m)
      PROVE  Typed'
  <2>1. d \in Deployment /\ LoginProfile(d) \in Profiles BY <1>4, AccountTyped, LoginProfileTyped
  <2>2. mem[p] \in Memory(sessions) /\ ComesTo(Op(p), at[p]) BY <1>1, AtWork
  <2>3. m \in Memory(sessions) /\ m.entry = mem[p].entry /\ m.map = mem[p].map /\ m.profile \in Profiles
    BY <1>6, <2>1, <2>2 DEF Memory
  <2>4. "credLoad" \in Labels /\ ComesTo(Op(p), "credLoad") BY <1>1, <2>2 DEF Labels, ComesTo, Ops
  <2>5. CallsTyped' BY <1>1, <1>2, <1>6, <2>3, <2>4, MovingOn
  <2> QED BY <1>2, <1>4, <2>5, QuietTyped
<1>7. \/ Fails(p)
      \/ \E d \in SelectedAccount(All, NameOf(p)) : \/ GoTo(p, "credLoad", [mem[p] EXCEPT !.profile = LoginProfile(d)])
                                                    \/ GoTo(p, "credLoad", [mem[p] EXCEPT !.sel = d, !.profile = LoginProfile(d)])
  BY DEF Profile, SelectLogout
<1> QED BY <1>5, <1>6, <1>7

LEMMA OwnerTyped ==
  ASSUME Typed, Around, NEW p \in Procs, Owner(p)
  PROVE  Typed'
<1>1. at[p] = "owner" /\ at[p] \notin Stopped BY DEF Owner, Stopped
<1>2. UNCHANGED <<store, config, idpVars, cache, port, histVars>> BY DEF Owner
<1>3. sessions' = sessions /\ backend' = backend BY <1>2 DEF Around, envVars, idpVars
<1>4. RunTyped /\ FilesTyped /\ port \in Procs \cup {NoProc} BY DEF Typed, RestTyped
<1>5. CASE Fails(p) \/ Done(p)
  <2>1. CallsTyped' BY <1>1, <1>3, <1>5, AtWork, EndsPlainly
  <2> QED BY <1>2, <1>4, <2>1, QuietTyped
<1>6. ASSUME NEW d \in OwnerOf(All, Call(p).host), GoTo(p, "credLoad", [mem[p] EXCEPT !.profile = d.name])
      PROVE  Typed'
  <2>1. d \in Deployment BY <1>4, AllIs, OwnerIs
  <2>2. d.name \in Profiles BY <2>1, SeedNamed DEF Deployment
  <2>3. mem[p] \in Memory(sessions) /\ ComesTo(Op(p), "owner") BY <1>1, AtWork
  <2> DEFINE m == [mem[p] EXCEPT !.profile = d.name]
  <2>4. m \in Memory(sessions) /\ m.entry = mem[p].entry /\ m.map = mem[p].map /\ m.profile \in Profiles
    BY <2>2, <2>3 DEF Memory
  <2> HIDE DEF m
  <2>5. GoTo(p, "credLoad", m) BY <1>6 DEF m
  <2>6. "credLoad" \in Labels /\ ComesTo(Op(p), "credLoad") BY <2>3 DEF Labels, ComesTo, Ops
  <2>7. CallsTyped' BY <1>1, <1>2, <2>4, <2>5, <2>6, MovingOn
  <2> QED BY <1>2, <1>4, <2>7, QuietTyped
<1> QED BY <1>5, <1>6 DEF Owner

LEMMA RefusedTyped ==
  ASSUME Typed, Around, NEW p \in Procs, Refused(p)
  PROVE  Typed'
<1>1. at[p] \notin Stopped /\ Fails(p) BY DEF Refused, Stopped
<1>2. UNCHANGED <<store, config, idpVars, cache, histVars>> BY DEF Refused
<1>3. sessions' = sessions /\ backend' = backend BY <1>2 DEF Around, envVars, idpVars
<1>4. port' \in Procs \cup {NoProc} BY DEF Typed, RestTyped, Refused, Freed
<1>5. CallsTyped' BY <1>1, <1>3, AtWork, EndsPlainly
<1> QED BY <1>2, <1>4, <1>5, QuietTyped

\* A new session leaves every entry of the sessions before it what it was.
LEMMA Opening ==
  ASSUME ServersTyped, NEW d \in Deployment, NEW endpoint \in BOOLEAN, NewSession(d, endpoint)
  PROVE  /\ ServersTyped' /\ Kept(sessions) \subseteq Kept(sessions') /\ Exchanged(sessions) \subseteq Exchanged(sessions')
         /\ FirstEntry(endpoint) \in Kept(sessions') /\ FirstEntry(endpoint) # NoEntry
         /\ FirstEntry(endpoint).session = Len(sessions) + 1 /\ Len(sessions') = Len(sessions) + 1
         /\ sessions'[Len(sessions) + 1] = [name |-> d.name, hosts |-> d.hosts, issuer |-> d.issuer, endpoint |-> endpoint]
         /\ \A s \in 1..Len(sessions) : s \in DOMAIN sessions' /\ sessions'[s] = sessions[s] /\ newest'[s] = newest[s]
         /\ newest'[Len(sessions) + 1] = 1
<1> DEFINE s == [name |-> d.name, hosts |-> d.hosts, issuer |-> d.issuer, endpoint |-> endpoint]
           e == FirstEntry(endpoint)
<1>1. s \in Session BY DEF Session, Deployment
<1>2. /\ sessions' = Append(sessions, s) /\ newest' = Append(newest, 1) /\ Len(sessions) < MaxSessions
      /\ sessions \in Seq(Session) /\ newest \in Seq(1..MaxTokens) /\ Len(newest) = Len(sessions)
  BY DEF NewSession, ServersTyped
<1>3. MaxSessions \in Nat /\ MaxTokens \in Nat /\ MaxTokens >= 1 /\ Len(sessions) \in Nat BY <1>2, Constants
<1> HIDE DEF s
<1>4. ServersTyped'
  <2>1. sessions' \in Seq(Session) /\ Len(sessions') = Len(sessions) + 1 BY <1>1, <1>2
  <2>2. 1 \in 1..MaxTokens BY <1>3
  <2>3. newest' \in Seq(1..MaxTokens) /\ Len(newest') = Len(newest) + 1 BY <1>2, <2>2
  <2> QED BY <1>2, <1>3, <2>1, <2>3 DEF ServersTyped
<1>5. /\ \A i \in 1..Len(sessions) : i \in DOMAIN sessions' /\ sessions'[i] = sessions[i]
      /\ Len(sessions) + 1 \in DOMAIN sessions' /\ sessions'[Len(sessions) + 1] = s /\ Len(sessions') = Len(sessions) + 1
      /\ DOMAIN sessions = 1..Len(sessions)
  BY <1>1, <1>2
<1>6. newest'[Len(sessions) + 1] = 1 /\ \A i \in 1..Len(sessions) : newest'[i] = newest[i]
  BY <1>2
<1>7. ASSUME NEW k \in Kept(sessions) PROVE k \in Kept(sessions')
  BY <1>5 DEF Kept
<1>8. ASSUME NEW c \in Exchanged(sessions) PROVE c \in Exchanged(sessions')
  <2>1. c.entry # NoEntry => c.entry.session \in DOMAIN sessions BY DEF Exchanged, Kept
  <2> QED BY <1>5, <1>7, <2>1 DEF Exchanged
<1>9. e \in Kept(sessions') /\ e # NoEntry /\ e.session = Len(sessions) + 1
  <2>1. e = [session |-> Len(sessions) + 1, token |-> 1, refresh |-> IF endpoint THEN 1 ELSE 0,
             prefer |-> endpoint, id |-> endpoint] BY DEF FirstEntry
  <2> HIDE DEF e
  <2>2. Len(sessions) + 1 \in 0..MaxSessions /\ 1 \in 0..MaxTokens /\ 0 \in 0..MaxTokens BY <1>2, <1>3
  <2>3. e \in Entry BY <2>1, <2>2 DEF Entry
  <2>4. e # NoEntry BY <1>3, <2>1 DEF NoEntry
  <2>5. e.refresh = 0 <=> ~endpoint BY <2>1
  <2>6. s.endpoint = endpoint BY DEF s
  <2> QED BY <1>5, <2>1, <2>3, <2>4, <2>5, <2>6 DEF Kept
<1> QED BY <1>4, <1>5, <1>6, <1>7, <1>8, <1>9 DEF s

\* What is kept stays kept when a session opens.
LEMMA GrowingTyped ==
  ASSUME Typed, Around, CallsTyped', ServersTyped', UNCHANGED <<store, config, histVars>>,
         Kept(sessions) \subseteq Kept(sessions'), cache' \in [Procs -> Exchanged(sessions')],
         port' \in Procs \cup {NoProc}
  PROVE  Typed'
<1>1. /\ fault' = fault /\ apiToken' = apiToken /\ rotates' = rotates /\ repo' = repo /\ backend' = backend
      /\ intended' = intended /\ cut' = cut /\ respent' = respent /\ store' = store /\ config' = config
  BY DEF Around, envVars, histVars
<1>2. [Profiles -> Kept(sessions)] \subseteq [Profiles -> Kept(sessions')] BY Growing
<1>3. RunTyped' BY <1>1 DEF Typed, RunTyped
<1>4. FilesTyped'
  <2>1. store \in [map : [Profiles -> Kept(sessions')], torn : BOOLEAN] BY <1>2 DEF Typed, FilesTyped
  <2> QED BY <1>1, <2>1 DEF Typed, FilesTyped
<1>5. RestTyped' BY <1>1, <1>2 DEF Typed, RestTyped, Around
<1> QED BY <1>3, <1>4, <1>5 DEF Typed, CacheTyped

LEMMA AnsweredTyped ==
  ASSUME Typed, Around, NEW p \in Procs, Answered(p)
  PROVE  Typed'
<1> DEFINE endpoint == WaitsForBrowser(p) /\ mem[p].sel.hosts # {}
           pinned == IF Op(p) = "configure" THEN Call(p).name ELSE Call(p).profile
           label == IF pinned = "" THEN "profile" ELSE "credLoad"
           m == [mem[p] EXCEPT !.entry = FirstEntry(endpoint), !.profile = pinned]
<1>1. /\ at[p] = "asked" /\ at[p] \notin Stopped /\ NewSession(mem[p].sel, endpoint) /\ GoTo(p, label, m)
      /\ Freed(p) /\ UNCHANGED <<store, config, expired, cache, histVars>>
  BY DEF Answered, CodeExchange, Stopped
<1>2. endpoint \in BOOLEAN BY DEF WaitsForBrowser
<1>3. /\ Call(p) \in Calls /\ Op(p) = Call(p).op /\ Op(p) \in {"login", "configure"} /\ mem[p] \in Memory(sessions)
      /\ todo[p] # <<>> /\ CallsTyped
  BY <1>1, AtWork DEF ComesTo
<1>4. pinned \in Profiles \cup {""} BY <1>3, CallFields, SeedNamed
<1>5. mem[p].sel \in Deployment BY <1>3 DEF Memory
<1> HIDE DEF endpoint, pinned
<1>6. /\ ServersTyped' /\ Kept(sessions) \subseteq Kept(sessions') /\ Exchanged(sessions) \subseteq Exchanged(sessions')
      /\ FirstEntry(endpoint) \in Kept(sessions')
  <2>1. ServersTyped BY DEF Typed
  <2> QED BY <1>1, <1>2, <1>5, <2>1, Opening
<1>7. m \in Memory(sessions') /\ m.profile = pinned
  <2>1. mem[p] \in Memory(sessions') BY <1>3, <1>6, Growing
  <2> QED BY <1>4, <1>6, <2>1 DEF Memory
<1>8. label \in Labels /\ FitsAt(todo[p], label, m) /\ label # "credWrite"
  <2>1. label \in {"profile", "credLoad"} /\ (label = "credLoad" => pinned \in Profiles) BY <1>4
  <2>2. Head(todo[p]).op \in {"login", "configure"} BY <1>3 DEF Op, Call
  <2> HIDE DEF label, m
  <2> QED BY <1>3, <1>7, <2>1, <2>2 DEF FitsAt, ComesTo, Labels, Stopped, Ops
<1> HIDE DEF label, m
<1>9. CallsTyped'
  <2>1. backend' = backend BY DEF Around, envVars
  <2> QED BY <1>1, <1>3, <1>6, <1>7, <1>8, <2>1, Going
<1>10. cache' \in [Procs -> Exchanged(sessions')] BY <1>1, <1>6 DEF Typed, CacheTyped
<1>11. port' \in Procs \cup {NoProc} BY <1>1 DEF Freed, Typed, RestTyped
<1> QED BY <1>1, <1>6, <1>9, <1>10, <1>11, GrowingTyped

LEMMA ProbeTyped ==
  ASSUME Typed, Around, NEW p \in Procs, Probe(p)
  PROVE  Typed'
<1>1. at[p] = "probe" /\ at[p] \notin Stopped BY DEF Probe, Stopped
<1>2. UNCHANGED <<store, config, idpVars, cache, port, histVars>> BY DEF Probe
<1>3. sessions' = sessions /\ backend' = backend BY <1>2 DEF Around, envVars, idpVars
<1>4. port \in Procs \cup {NoProc} BY DEF Typed, RestTyped
<1>5. /\ Call(p) \in Calls /\ Op(p) = Call(p).op /\ Op(p) = "configure" /\ mem[p] \in Memory(sessions)
      /\ todo[p] # <<>> /\ CallsTyped /\ Call(p) = Head(todo[p]) /\ todo[p] \in Seq(Calls) /\ FitsAt(todo[p], at[p], mem[p])
  BY <1>1, AtWork DEF ComesTo
<1>6. /\ Call(p).name \in Names /\ Call(p).host \in Hosts /\ Call(p).makeDefault \in BOOLEAN
      /\ Call(p).issuer \in Issuers \cup {""}
  BY <1>5, CallFields
<1>7. \A h \in DOMAIN Discovered : Discovered[h].issuers \subseteq Issuers /\ Discovered[h].hosts \subseteq Hosts
  BY AuthAssumption
<1>8. CASE Fails(p)
  <2>1. CallsTyped' BY <1>1, <1>3, <1>8, AtWork, EndsPlainly
  <2> QED BY <1>2, <1>4, <2>1, QuietTyped
<1>9. ASSUME NEW i \in Issuers, todo' = [todo EXCEPT ![p][1].issuer = i], UNCHANGED <<at, mem, answer>>
      PROVE  Typed'
  <2> DEFINE c == [Call(p) EXCEPT !.issuer = i]
             calls == [todo[p] EXCEPT ![1] = c]
  <2>1. c \in Calls /\ c.op = "configure"
    BY <1>5, <1>6 DEF Calls
  <2> HIDE DEF c
  <2>2. calls \in Seq(Calls) /\ calls # <<>> /\ Head(calls) = c BY <1>5, <2>1
  <2>3. todo' = [todo EXCEPT ![p] = calls] BY <1>5, <1>9 DEF c, CallsTyped
  <2> HIDE DEF calls
  <2>4. todo' \in [Procs -> Seq(Calls)] BY <1>5, <2>2, <2>3 DEF CallsTyped
  <2>5. FitsAt(calls, at[p], mem[p]) BY <1>1, <2>1, <2>2 DEF FitsAt, ComesTo
  <2>6. ASSUME NEW q \in Procs
        PROVE  FitsAt(todo'[q], at'[q], mem'[q]) /\ (at'[q] = "credWrite" => backend' = "file")
    <3>1. CASE q = p BY <1>1, <1>5, <1>9, <2>3, <2>5, <3>1 DEF CallsTyped
    <3>2. CASE q # p
      <4>1. todo'[q] = todo[q] BY <1>5, <2>3, <3>2 DEF CallsTyped
      <4> QED BY <1>3, <1>5, <1>9, <4>1 DEF CallsTyped
    <3> QED BY <3>1, <3>2
  <2>7. CallsTyped' BY <1>3, <1>5, <1>9, <2>4, <2>6 DEF CallsTyped
  <2> QED BY <1>2, <1>4, <2>7, QuietTyped
<1>10. ASSUME NEW i \in Issuers \cup {NoIssuer}, Call(p).host \in DOMAIN Discovered,
              NEW d, d = [name |-> Call(p).name, default |-> Call(p).makeDefault,
                          hosts |-> Discovered[Call(p).host].hosts \cup {Call(p).host}, issuer |-> i],
              GoTo(p, "confLoad", [mem[p] EXCEPT !.sel = d])
       PROVE  Typed'
  <2>1. d \in Deployment BY <1>6, <1>7, <1>10 DEF Deployment
  <2> DEFINE m == [mem[p] EXCEPT !.sel = d]
  <2>2. m \in Memory(sessions) /\ m.entry = mem[p].entry /\ m.map = mem[p].map /\ m.sel = d BY <1>5, <2>1 DEF Memory
  <2>2a. m.sel.default = Call(p).makeDefault BY <1>10, <2>2
  <2> HIDE DEF m
  <2>3. "confLoad" \in Labels /\ ComesTo(Op(p), "confLoad") BY <1>5 DEF Labels, ComesTo
  <2>4. GoTo(p, "confLoad", m) BY <1>10 DEF m
  <2>5. CallsTyped' BY <1>1, <1>2, <2>2, <2>3, <2>4, <2>2a, MovingOn
  <2> QED BY <1>2, <1>4, <2>5, QuietTyped
<1>11. \/ Fails(p)
       \/ \E i \in Issuers : todo' = [todo EXCEPT ![p][1].issuer = i] /\ UNCHANGED <<at, mem, answer>>
       \/ /\ Call(p).host \in DOMAIN Discovered
          /\ \E i \in Issuers \cup {NoIssuer} :
               GoTo(p, "confLoad", [mem[p] EXCEPT !.sel =
                 [name |-> Call(p).name, default |-> Call(p).makeDefault,
                  hosts |-> Discovered[Call(p).host].hosts \cup {Call(p).host}, issuer |-> i]])
  <2> DEFINE host == Call(p).host
             offered == Offered(host)
             from == Choices(offered, Call(p).issuer)
  <2>1. offered \subseteq Issuers BY <1>7 DEF Offered, IsDeployment
  <2>2. from \subseteq Issuers \cup {NoIssuer} BY <2>1 DEF Choices
  <2>3. \/ Fails(p)
        \/ \E i \in offered : todo' = [todo EXCEPT ![p][1].issuer = i] /\ UNCHANGED <<at, mem, answer>>
        \/ /\ host \in DOMAIN Discovered
           /\ \E i \in from : GoTo(p, "confLoad", [mem[p] EXCEPT !.sel =
                 [name |-> Call(p).name, default |-> Call(p).makeDefault,
                  hosts |-> Discovered[host].hosts \cup {host}, issuer |-> i]])
    BY DEF Probe, IsDeployment, Recorded
  <2> HIDE DEF offered, from
  <2> QED BY <2>1, <2>2, <2>3
<1> QED BY <1>8, <1>9, <1>10, <1>11

LEMMA ApiEnvTyped ==
  ASSUME Typed, Around, NEW p \in Procs, ApiEnv(p)
  PROVE  Typed'
<1>1. at[p] = "apiEnv" /\ at[p] \notin Stopped BY DEF ApiEnv, Stopped
<1>2. UNCHANGED <<store, config, idpVars, cache, port, histVars>> BY DEF ApiEnv
<1>3. sessions' = sessions /\ backend' = backend BY <1>2 DEF Around, envVars, idpVars
<1>4. RunTyped /\ FilesTyped /\ port \in Procs \cup {NoProc} BY DEF Typed, RestTyped
<1>5. mem[p] \in Memory(sessions) /\ Op(p) = "token" /\ CallsTyped /\ apiToken \in BOOLEAN BY <1>1, AtWork DEF ComesTo
<1>6. CASE Fails(p)
  <2>1. CallsTyped' BY <1>1, <1>3, <1>6, AtWork, EndsPlainly
  <2> QED BY <1>2, <1>4, <2>1, QuietTyped
<1>7. CASE HandOut(p, cache[p].entry)
  <2>1. cache[p].entry \in Entry BY DEF Typed, CacheTyped, Exchanged, Kept
  <2>2. CallsTyped' BY <1>1, <1>3, <1>5, <1>7, <2>1, HandingOut
  <2> QED BY <1>2, <1>4, <2>2, QuietTyped
<1>8. ASSUME NEW d \in Selected(All, ""), GoTo(p, "apiExchange", [mem[p] EXCEPT !.sel = d])
      PROVE  Typed'
  <2>1. d \in Deployment BY <1>4, DefaultTyped
  <2> DEFINE m == [mem[p] EXCEPT !.sel = d]
  <2>2. m \in Memory(sessions) /\ m.entry = mem[p].entry /\ m.map = mem[p].map BY <1>5, <2>1 DEF Memory
  <2> HIDE DEF m
  <2>3. GoTo(p, "apiExchange", m) BY <1>8 DEF m
  <2>4. "apiExchange" \in Labels /\ ComesTo(Op(p), "apiExchange") BY <1>5 DEF Labels, ComesTo
  <2>5. CallsTyped' BY <1>1, <1>2, <2>2, <2>3, <2>4, MovingOn
  <2> QED BY <1>2, <1>4, <2>5, QuietTyped
<1> QED BY <1>6, <1>7, <1>8 DEF ApiEnv, ResolvedEnv

LEMMA ApiExchangeTyped ==
  ASSUME Typed, Around, NEW p \in Procs, ApiExchange(p)
  PROVE  Typed'
<1>1. at[p] = "apiExchange" /\ at[p] \notin Stopped BY DEF ApiExchange, Stopped
<1>2. UNCHANGED <<store, config, port, histVars>> BY DEF ApiExchange
<1>3. mem[p] \in Memory(sessions) /\ CallsTyped /\ apiToken \in BOOLEAN BY <1>1, AtWork
<1>4. backend' = backend /\ port' \in Procs \cup {NoProc} BY <1>2 DEF Around, envVars, Typed, RestTyped
<1>5. CASE Fails(p) /\ UNCHANGED <<idpVars, cache>>
  <2>1. sessions' = sessions BY <1>5 DEF idpVars
  <2>2. CallsTyped' BY <1>1, <1>3, <1>4, <1>5, <2>1, EndsPlainly
  <2> QED BY <1>2, <1>4, <1>5, <2>2, QuietTyped
<1>6. CASE /\ NewSession(mem[p].sel, FALSE) /\ HandOut(p, FirstEntry(FALSE))
           /\ cache' = [cache EXCEPT ![p] = [issuer |-> mem[p].sel.issuer, entry |-> FirstEntry(FALSE)]]
  <2> DEFINE e == FirstEntry(FALSE)  x == [issuer |-> mem[p].sel.issuer, entry |-> e]
  <2>1. mem[p].sel \in Deployment BY <1>3 DEF Memory
  <2>2. /\ ServersTyped' /\ Kept(sessions) \subseteq Kept(sessions') /\ Exchanged(sessions) \subseteq Exchanged(sessions')
        /\ e \in Kept(sessions') /\ e.session = Len(sessions) + 1
        /\ sessions'[Len(sessions) + 1].issuer = mem[p].sel.issuer
    <3>1. ServersTyped /\ FALSE \in BOOLEAN /\ NewSession(mem[p].sel, FALSE) BY <1>6 DEF Typed
    <3>2. /\ ServersTyped' /\ Kept(sessions) \subseteq Kept(sessions') /\ Exchanged(sessions) \subseteq Exchanged(sessions')
          /\ e \in Kept(sessions') /\ e.session = Len(sessions) + 1
      BY <2>1, <3>1, Opening
    <3>3. sessions'[Len(sessions) + 1] = [name |-> mem[p].sel.name, hosts |-> mem[p].sel.hosts,
                                          issuer |-> mem[p].sel.issuer, endpoint |-> FALSE]
      BY <2>1, <3>1, Opening
    <3>4. sessions'[Len(sessions) + 1].issuer = mem[p].sel.issuer BY <3>3
    <3> QED BY <3>2, <3>4
  <2>3. cache' = [cache EXCEPT ![p] = x] BY <1>6
  <2>4. HandOut(p, e) BY <1>6
  <2> HIDE DEF e
  <2>5. x \in Exchanged(sessions') BY <2>1, <2>2 DEF Exchanged, Deployment
  <2> HIDE DEF x
  <2>6. cache' \in [Procs -> Exchanged(sessions')] BY <2>2, <2>3, <2>5 DEF Typed, CacheTyped
  <2>7. e \in Entry BY <2>2 DEF Kept
  <2>8. CallsTyped' BY <1>1, <1>3, <1>4, <2>2, <2>4, <2>7, HandingOut
  <2> QED BY <1>2, <1>4, <2>2, <2>6, <2>8, GrowingTyped
<1> QED BY <1>5, <1>6 DEF ApiExchange

LEMMA LoadedTyped ==
  ASSUME Typed PROVE Loaded \in [Profiles -> Kept(sessions)]
BY NoEntryKept DEF Typed, FilesTyped, Loaded

\* The place of an entry in a map of them.
LEMMA Placing ==
  ASSUME NEW K, NEW map \in [Profiles -> K], NEW e \in K, NEW n
  PROVE  [map EXCEPT ![n] = e] \in [Profiles -> K]
OBVIOUS

LEMMA KeptIs ==
  ASSUME NEW opened, NEW e \in Kept(opened)
  PROVE  e \in Entry /\ (e.refresh # 0 => e # NoEntry /\ e.prefer /\ e.id) /\ (e # NoEntry => e.session \in DOMAIN opened)
<1>1. e \in Entry /\ (e # NoEntry => e.session \in DOMAIN opened /\ e.id = e.prefer /\ (e.refresh = 0 <=> ~e.prefer))
  BY DEF Kept
<1>2. NoEntry.refresh = 0 BY DEF NoEntry
<1>3. e.refresh # 0 => e # NoEntry BY <1>2
<1>4. e.prefer \in BOOLEAN /\ e.id \in BOOLEAN BY <1>1 DEF Entry
<1> QED BY <1>1, <1>3, <1>4

LEMMA CredLoadTyped ==
  ASSUME Typed, Around, NEW p \in Procs, CredLoad(p)
  PROVE  Typed'
<1>1. at[p] = "credLoad" /\ at[p] \notin Stopped BY DEF CredLoad, Stopped
<1>2. UNCHANGED <<store, config, idpVars, cache, port, histVars>> BY DEF CredLoad
<1>3. sessions' = sessions /\ backend' = backend BY <1>2 DEF Around, envVars, idpVars
<1>4. port \in Procs \cup {NoProc} BY DEF Typed, RestTyped
<1>5. /\ mem[p] \in Memory(sessions) /\ CallsTyped /\ apiToken \in BOOLEAN /\ FitsAt(todo[p], at[p], mem[p])
      /\ Op(p) = Head(todo[p]).op /\ todo[p] # <<>> /\ Op(p) \in Ops \ {"logoutAll", "use"}
  BY <1>1, AtWork DEF ComesTo
<1>6. mem[p].profile \in Profiles BY <1>1, <1>5 DEF FitsAt
<1>7. Loaded \in [Profiles -> Kept(sessions)] BY LoadedTyped
<1> DEFINE e == Loaded[mem[p].profile]
<1>8. e \in Kept(sessions) /\ e \in Entry BY <1>6, <1>7, KeptIs
<1> HIDE DEF e
<1>9. CASE Fails(p) \/ Done(p)
  <2>1. CallsTyped' BY <1>1, <1>3, <1>9, <1>5, EndsPlainly
  <2> QED BY <1>2, <1>4, <2>1, QuietTyped
<1>10. CASE HandOut(p, e)
  <2>1. CallsTyped' BY <1>1, <1>3, <1>5, <1>8, <1>10, HandingOut
  <2> QED BY <1>2, <1>4, <2>1, QuietTyped
<1>11. CASE e # NoEntry /\ e.refresh # 0 /\ Op(p) \in {"token", "get"} /\ GoTo(p, "refresh", [mem[p] EXCEPT !.entry = e, !.map = Loaded])
  <2> DEFINE m == [mem[p] EXCEPT !.entry = e, !.map = Loaded]
  <2>1. m \in Memory(sessions) /\ m.entry = e /\ m.profile = mem[p].profile BY <1>5, <1>7, <1>8 DEF Memory
  <2> HIDE DEF m
  <2>2. GoTo(p, "refresh", m) BY <1>11 DEF m
  <2>3. "refresh" \in Labels /\ FitsAt(todo[p], "refresh", m)
    BY <1>5, <1>6, <1>11, <2>1 DEF FitsAt, ComesTo, Labels
  <2>4. CallsTyped' BY <1>3, <1>5, <2>1, <2>2, <2>3, Going
  <2> QED BY <1>2, <1>4, <2>4, QuietTyped
<1>12. CASE /\ Op(p) \in {"login", "configure", "logout", "remove"}
            /\ GoTo(p, "credOpen", [mem[p] EXCEPT !.map = [Loaded EXCEPT ![mem[p].profile] = mem[p].entry]])
  <2> DEFINE map == [Loaded EXCEPT ![mem[p].profile] = mem[p].entry]
             m == [mem[p] EXCEPT !.map = map]
  <2>1. mem[p].entry \in Kept(sessions) BY <1>5 DEF Memory
  <2>2. map \in [Profiles -> Kept(sessions)] BY <1>7, <2>1, Placing
  <2> HIDE DEF map
  <2>3. m \in Memory(sessions) /\ m.entry = mem[p].entry /\ m.profile = mem[p].profile BY <1>5, <2>2 DEF Memory
  <2> HIDE DEF m
  <2>4. GoTo(p, "credOpen", m) BY <1>12 DEF m, map
  <2>5. "credOpen" \in Labels /\ FitsAt(todo[p], "credOpen", m)
    BY <1>1, <1>5, <1>6, <1>12, <2>3 DEF FitsAt, ComesTo, Labels, Stopped
  <2>6. CallsTyped' BY <1>3, <1>5, <2>3, <2>4, <2>5, Going
  <2> QED BY <1>2, <1>4, <2>6, QuietTyped
<1>13. \/ Fails(p) \/ Done(p) \/ HandOut(p, e)
       \/ e # NoEntry /\ e.refresh # 0 /\ Op(p) \in {"token", "get"} /\ GoTo(p, "refresh", [mem[p] EXCEPT !.entry = e, !.map = Loaded])
       \/ /\ Op(p) \in {"login", "configure", "logout", "remove"}
          /\ GoTo(p, "credOpen", [mem[p] EXCEPT !.map = [Loaded EXCEPT ![mem[p].profile] = mem[p].entry]])
  <2>1. Classify(e) = "refresh" => e.refresh # 0 BY DEF Classify, CanRefresh
  <2> QED BY <2>1 DEF CredLoad, Serves, e
<1> QED BY <1>9, <1>10, <1>11, <1>12, <1>13

LEMMA RefreshTyped ==
  ASSUME Typed, Around, NEW p \in Procs, Refresh(p)
  PROVE  Typed'
<1> DEFINE e == mem[p].entry
<1>1. at[p] = "refresh" /\ at[p] \notin Stopped BY DEF Refresh, Stopped
<1>2. UNCHANGED <<store, config, cache, port, intended>> /\ sessions' = sessions BY DEF Refresh, idpVars
<1>3. backend' = backend BY DEF Around, envVars
<1>4. /\ mem[p] \in Memory(sessions) /\ CallsTyped /\ apiToken \in BOOLEAN /\ FitsAt(todo[p], at[p], mem[p])
      /\ Op(p) = Head(todo[p]).op /\ todo[p] # <<>> /\ Op(p) \in {"token", "get"}
  BY <1>1, AtWork DEF ComesTo
<1>5. mem[p].profile \in Profiles /\ e.refresh # 0 /\ e \in Kept(sessions)
  BY <1>1, <1>4 DEF FitsAt, Memory
<1>6. e \in Entry /\ e # NoEntry /\ e.prefer /\ e.id /\ e.session \in DOMAIN sessions BY <1>5, KeptIs
<1>7. newest \in Seq(1..MaxTokens) /\ Len(newest) = Len(sessions) /\ sessions \in Seq(Session) /\ DOMAIN newest = DOMAIN sessions
  BY DEF Typed, ServersTyped
<1>8. newest[e.session] \in 1..MaxTokens /\ MaxTokens \in Nat BY <1>6, <1>7, Constants
<1>9. ASSUME CallsTyped', ServersTyped', cut' \in BOOLEAN, respent' \in BOOLEAN PROVE Typed'
  <2>1. /\ fault' = fault /\ apiToken' = apiToken /\ rotates' = rotates /\ repo' = repo /\ backend' = backend
    BY DEF Around, envVars
  <2>2. RunTyped' BY <2>1 DEF Typed, RunTyped
  <2>3. FilesTyped' BY <1>2, <2>1 DEF Typed, FilesTyped
  <2>4. CacheTyped' BY <1>2 DEF Typed, CacheTyped
  <2>5. RestTyped' BY <1>2, <1>9 DEF Typed, RestTyped, Around
  <2> QED BY <1>9, <2>2, <2>3, <2>4, <2>5 DEF Typed
<1>10. rotates \in BOOLEAN /\ respent \in BOOLEAN /\ cut \in BOOLEAN BY DEF Typed, RunTyped, RestTyped
<1>11. ASSUME Fails(p) \/ Done(p) PROVE CallsTyped'
  BY <1>1, <1>2, <1>3, <1>4, <1>11, EndsPlainly
<1> DEFINE stale == rotates /\ e.refresh # newest[e.session]
           fresh(hasId) == [e EXCEPT !.token = newest[e.session] + 1, !.id = Bearer(e.prefer, hasId) = "id",
                              !.refresh = Merged(@, IF rotates THEN newest[e.session] + 1 ELSE 0)]
           m(hasId) == [mem[p] EXCEPT !.entry = fresh(hasId), !.map = [@ EXCEPT ![mem[p].profile] = fresh(hasId)]]
<1>12. \/ (Fails(p) \/ Done(p)) /\ respent' = (respent \/ stale) /\ UNCHANGED <<idpVars, cut>>
       \/ /\ newest[e.session] < MaxTokens /\ newest' = [newest EXCEPT ![e.session] = @ + 1] /\ respent' = respent
          /\ \/ (Fails(p) \/ Done(p)) /\ cut' = TRUE
             \/ \E hasId \in BOOLEAN : /\ Bearer(e.prefer, hasId) # "none" /\ cut' = cut
                                       /\ GoTo(p, "credOpen", m(hasId))
  BY DEF Refresh
<1>13. CASE (Fails(p) \/ Done(p)) /\ respent' = (respent \/ stale) /\ UNCHANGED <<idpVars, cut>>
  <2>1. ServersTyped' BY <1>13 DEF Typed, ServersTyped, idpVars
  <2>2. respent' \in BOOLEAN /\ cut' \in BOOLEAN BY <1>10, <1>13
  <2>3. CallsTyped' BY <1>11, <1>13
  <2> QED BY <1>9, <2>1, <2>2, <2>3
<1>14. ASSUME newest[e.session] < MaxTokens, newest' = [newest EXCEPT ![e.session] = @ + 1] PROVE ServersTyped'
  <2>1. newest' \in Seq(1..MaxTokens) /\ Len(newest') = Len(newest) BY <1>6, <1>7, <1>8, <1>14
  <2> QED BY <1>2, <1>7, <2>1 DEF Typed, ServersTyped
<1>15. ASSUME NEW hasId \in BOOLEAN, newest[e.session] < MaxTokens, Bearer(e.prefer, hasId) # "none"
       PROVE  fresh(hasId) \in Kept(sessions) /\ fresh(hasId) # NoEntry
  <2>1. Bearer(e.prefer, hasId) = "id" BY <1>6, <1>15 DEF Bearer
  <2> DEFINE r == Merged(e.refresh, IF rotates THEN newest[e.session] + 1 ELSE 0)
             t == newest[e.session] + 1
  <2>2. t \in 0..MaxTokens /\ t # 0 BY <1>8, <1>15
  <2>3. e.refresh \in 0..MaxTokens BY <1>6 DEF Entry
  <2>4. r \in 0..MaxTokens /\ r # 0 BY <1>5, <2>2, <2>3 DEF Merged
  <2>5. fresh(hasId) = [e EXCEPT !.token = t, !.id = TRUE, !.refresh = r] BY <2>1
  <2> DEFINE f == fresh(hasId)
  <2> HIDE DEF r, t, f
  <2>6. f = [e EXCEPT !.token = t, !.id = TRUE, !.refresh = r] BY <2>5 DEF f
  <2>7. f \in Entry /\ f.session = e.session /\ f.id = TRUE /\ f.prefer = e.prefer /\ f.refresh = r
    BY <1>6, <2>2, <2>4, <2>6 DEF Entry
  <2>8. e.prefer = sessions[e.session].endpoint BY <1>5, <1>6 DEF Kept
  <2>9. e.prefer = TRUE BY <1>6 DEF Entry
  <2>10. f \in Kept(sessions) BY <1>6, <2>4, <2>7, <2>8, <2>9 DEF Kept
  <2>11. f # NoEntry BY <2>4, <2>7 DEF NoEntry
  <2> QED BY <2>10, <2>11 DEF f
<1>16. CASE /\ newest[e.session] < MaxTokens /\ newest' = [newest EXCEPT ![e.session] = @ + 1] /\ respent' = respent
            /\ (Fails(p) \/ Done(p)) /\ cut' = TRUE
  BY <1>9, <1>10, <1>11, <1>14, <1>16
<1>17. ASSUME newest[e.session] < MaxTokens, newest' = [newest EXCEPT ![e.session] = @ + 1], respent' = respent,
              NEW hasId \in BOOLEAN, Bearer(e.prefer, hasId) # "none", cut' = cut, GoTo(p, "credOpen", m(hasId))
       PROVE  Typed'
  <2>1. fresh(hasId) \in Kept(sessions) /\ fresh(hasId) # NoEntry BY <1>15, <1>17
  <2> DEFINE f == fresh(hasId)  map == [mem[p].map EXCEPT ![mem[p].profile] = f]
             n == [mem[p] EXCEPT !.entry = f, !.map = map]
  <2>2. m(hasId) = n BY <1>4 DEF Memory
  <2>3. GoTo(p, "credOpen", n) BY <1>17, <2>2
  <2>4. f \in Kept(sessions) /\ f # NoEntry BY <2>1
  <2> HIDE DEF f, fresh, m
  <2>5. mem[p].map \in [Profiles -> Kept(sessions)] BY <1>4 DEF Memory
  <2>6. map \in [Profiles -> Kept(sessions)] BY <2>4, <2>5, Placing
  <2> HIDE DEF map
  <2>7. n \in Memory(sessions) /\ n.entry = f /\ n.profile = mem[p].profile BY <1>4, <2>4, <2>6 DEF Memory
  <2> HIDE DEF n
  <2>8. "credOpen" \in Labels /\ FitsAt(todo[p], "credOpen", n)
    BY <1>1, <1>4, <1>5, <2>4, <2>7 DEF FitsAt, ComesTo, Labels, Stopped, Ops
  <2>9. CallsTyped' BY <1>2, <1>3, <1>4, <2>3, <2>7, <2>8, Going
  <2>10. ServersTyped' BY <1>14, <1>17
  <2> QED BY <1>9, <1>10, <1>17, <2>9, <2>10
<1> HIDE DEF m, fresh, e, stale
<1> QED BY <1>12, <1>13, <1>16, <1>17

\* A save hands its map over: what it stores, and what should be stored, is kept.
LEMMA SavedTyped ==
  ASSUME Typed, Around, NEW p \in Procs, at[p] \in {"credOpen", "clear", "credWrite"}, Saved(p),
         UNCHANGED idpVars
  PROVE  CallsTyped' /\ intended' \in [Profiles -> Kept(sessions)] /\ cut' \in BOOLEAN /\ respent' \in BOOLEAN
<1>1. at[p] \notin Stopped BY DEF Stopped
<1>2. sessions' = sessions /\ backend' = backend BY DEF Around, envVars, idpVars
<1>3. /\ mem[p] \in Memory(sessions) /\ CallsTyped /\ apiToken \in BOOLEAN
      /\ Op(p) = Head(todo[p]).op /\ todo[p] # <<>>
  BY <1>1, AtWork
<1>4. mem[p].entry \in Kept(sessions) /\ mem[p].entry \in Entry BY <1>3, KeptIs DEF Memory
<1>5. intended' \in [Profiles -> Kept(sessions)]
  <2>1. intended \in [Profiles -> Kept(sessions)] /\ Empty \in [Profiles -> Kept(sessions)]
    BY NoEntryKept DEF Typed, RestTyped
  <2>2. [intended EXCEPT ![mem[p].profile] = mem[p].entry] \in [Profiles -> Kept(sessions)] BY <1>4, <2>1, Placing
  <2> QED BY <2>1, <2>2 DEF Saved
<1>6. cut' \in BOOLEAN /\ respent' \in BOOLEAN BY DEF Saved, Typed, RestTyped
<1>7. \/ HandOut(p, mem[p].entry) \/ Done(p)
      \/ Op(p) = "logout" /\ GoTo(p, "confLoad", mem[p])
  BY DEF Saved
<1>8. ASSUME HandOut(p, mem[p].entry) PROVE CallsTyped' BY <1>1, <1>2, <1>3, <1>4, <1>8, HandingOut
<1>9. ASSUME Done(p) PROVE CallsTyped' BY <1>1, <1>2, <1>3, <1>9, EndsPlainly
<1>10. ASSUME Op(p) = "logout", GoTo(p, "confLoad", mem[p]) PROVE CallsTyped'
  <2>1. "confLoad" \in Labels /\ ComesTo(Op(p), "confLoad") BY <1>10 DEF Labels, ComesTo
  <2> QED BY <1>1, <1>3, <1>10, <2>1, MovingOn
<1> QED BY <1>5, <1>6, <1>7, <1>8, <1>9, <1>10

LEMMA NotSavedTyped ==
  ASSUME Typed, Around, NEW p \in Procs, at[p] \notin Stopped, NotSaved(p), UNCHANGED idpVars
  PROVE  CallsTyped' /\ intended' \in [Profiles -> Kept(sessions)] /\ cut' \in BOOLEAN /\ respent' \in BOOLEAN
<1>1. sessions' = sessions /\ backend' = backend BY DEF Around, envVars, idpVars
<1>2. CallsTyped' BY <1>1, AtWork, EndsPlainly DEF NotSaved
<1> QED BY <1>2 DEF NotSaved, Typed, RestTyped

\* A step over the store or the configuration.
LEMMA WritingTyped ==
  ASSUME Typed, Around, CallsTyped', FilesTyped', UNCHANGED <<idpVars, cache, port>>,
         intended' \in [Profiles -> Kept(sessions)], cut' \in BOOLEAN, respent' \in BOOLEAN
  PROVE  Typed'
<1>1. /\ fault' = fault /\ apiToken' = apiToken /\ rotates' = rotates /\ repo' = repo /\ backend' = backend
      /\ sessions' = sessions /\ newest' = newest /\ cache' = cache
  BY DEF Around, envVars, idpVars
<1>2. RunTyped' BY <1>1 DEF Typed, RunTyped
<1>3. ServersTyped' BY <1>1 DEF Typed, ServersTyped
<1>4. CacheTyped' BY <1>1 DEF Typed, CacheTyped
<1>5. RestTyped' BY <1>1 DEF Typed, RestTyped, Around
<1> QED BY <1>2, <1>3, <1>4, <1>5 DEF Typed

LEMMA SaveTyped ==
  ASSUME Typed, Around, NEW p \in Procs, SaveKeyring(p) \/ OpenStore(p) \/ WriteStore(p)
  PROVE  Typed'
<1>1. /\ at[p] \in {"credOpen", "clear", "credWrite"} /\ at[p] \notin Stopped
      /\ UNCHANGED <<config, idpVars, cache, port>>
  BY DEF SaveKeyring, OpenStore, WriteStore, Stopped
<1>2. sessions' = sessions /\ backend' = backend BY <1>1 DEF Around, envVars, idpVars
<1>3. /\ mem[p] \in Memory(sessions) /\ CallsTyped /\ FitsAt(todo[p], at[p], mem[p])
      /\ Op(p) = Head(todo[p]).op /\ todo[p] # <<>>
  BY <1>1, AtWork
<1>4. /\ store \in [map : [Profiles -> Kept(sessions)], torn : BOOLEAN] /\ (backend = "keyring" => ~store.torn)
      /\ config \in [list : Lists, torn : BOOLEAN] /\ backend \in {"keyring", "file"}
  BY DEF Typed, FilesTyped, RunTyped
<1>5. mem[p].map \in [Profiles -> Kept(sessions)] BY <1>3 DEF Memory
<1>6. /\ [map |-> mem[p].map, torn |-> FALSE] \in [map : [Profiles -> Kept(sessions)], torn : BOOLEAN]
      /\ [store EXCEPT !.torn = TRUE] \in [map : [Profiles -> Kept(sessions)], torn : BOOLEAN]
  BY <1>4, <1>5
<1>7. ASSUME store' \in [map : [Profiles -> Kept(sessions)], torn : BOOLEAN], backend = "keyring" => ~store'.torn
      PROVE  FilesTyped'
  BY <1>1, <1>2, <1>4, <1>7 DEF FilesTyped
<1>8. CASE SaveKeyring(p)
  <2>1. /\ \/ store' = [map |-> mem[p].map, torn |-> FALSE] /\ Saved(p)
           \/ NotSaved(p) /\ store' = store
    BY <1>8 DEF SaveKeyring, Replace
  <2>2. FilesTyped' BY <1>4, <1>6, <1>7, <2>1
  <2>3. CallsTyped' /\ intended' \in [Profiles -> Kept(sessions)] /\ cut' \in BOOLEAN /\ respent' \in BOOLEAN
    BY <1>1, <2>1, SavedTyped, NotSavedTyped
  <2> QED BY <1>1, <2>2, <2>3, WritingTyped
<1>9. CASE WriteStore(p)
  <2>1. /\ at[p] = "credWrite"
        /\ \/ WriteOut(mem[p].map) /\ Saved(p)
           \/ NotSaved(p) /\ store' = store
    BY <1>9 DEF WriteStore
  <2>2. backend = "file" BY <2>1 DEF Typed, CallsTyped
  <2>3. FilesTyped' BY <1>4, <1>6, <1>7, <2>1, <2>2 DEF WriteOut
  <2>4. CallsTyped' /\ intended' \in [Profiles -> Kept(sessions)] /\ cut' \in BOOLEAN /\ respent' \in BOOLEAN
    BY <1>1, <2>1, SavedTyped, NotSavedTyped
  <2> QED BY <1>1, <2>3, <2>4, WritingTyped
<1>10. CASE OpenStore(p)
  <2>1. /\ at[p] \in {"credOpen", "clear"} /\ backend = "file" /\ store' = [store EXCEPT !.torn = TRUE]
        /\ GoTo(p, "credWrite", mem[p]) /\ UNCHANGED histVars
    BY <1>10 DEF OpenStore, Truncate
  <2>2. FilesTyped' BY <1>6, <1>7, <2>1
  <2>3. "credWrite" \in Labels /\ FitsAt(todo[p], "credWrite", mem[p])
    BY <1>3, <2>1 DEF FitsAt, ComesTo, Labels, Stopped, Ops
  <2>4. CallsTyped' BY <1>2, <1>3, <2>1, <2>3, Going
  <2>5. intended' \in [Profiles -> Kept(sessions)] /\ cut' \in BOOLEAN /\ respent' \in BOOLEAN
    BY <2>1 DEF histVars, Typed, RestTyped
  <2> QED BY <1>1, <2>2, <2>4, <2>5, WritingTyped
<1> QED BY <1>8, <1>9, <1>10

LEMMA WrittenTyped ==
  ASSUME Typed, NEW p \in Procs, at[p] = "confLoad", Op(p) = "remove" => Has(config.list, Call(p).name)
  PROVE  Written(p) \in Lists
<1>1. at[p] \notin Stopped BY DEF Stopped
<1>2. mem[p].sel \in Deployment /\ Op(p) \in {"configure", "use", "remove", "logout"}
  BY <1>1, AtWork DEF ComesTo, Memory
<1>3. config.list \in Lists BY DEF Typed, FilesTyped
<1>4. CASE Op(p) = "configure" BY <1>2, <1>3, <1>4, UpsertIs DEF Written
<1>5. CASE Op(p) = "use" BY <1>3, <1>5, DefaultSetIs DEF Written
<1>6. CASE Op(p) = "remove" BY <1>3, <1>6, WithoutIs DEF Written
<1>7. CASE Op(p) = "logout" BY <1>3, <1>7, DefaultSetIs DEF Written
<1> QED BY <1>2, <1>4, <1>5, <1>6, <1>7

LEMMA ConfLoadTyped ==
  ASSUME Typed, Around, NEW p \in Procs, ConfLoad(p)
  PROVE  Typed'
<1>1. at[p] = "confLoad" /\ at[p] \notin Stopped BY DEF ConfLoad, Stopped
<1>2. UNCHANGED <<store, config, idpVars, cache, port, histVars>> BY DEF ConfLoad
<1>3. sessions' = sessions /\ backend' = backend BY <1>2 DEF Around, envVars, idpVars
<1>4. port \in Procs \cup {NoProc} BY DEF Typed, RestTyped
<1>5. mem[p] \in Memory(sessions) /\ ComesTo(Op(p), "confLoad") BY <1>1, AtWork
<1>6. CASE Fails(p)
  <2>1. CallsTyped' BY <1>1, <1>3, <1>6, AtWork, EndsPlainly
  <2> QED BY <1>2, <1>4, <2>1, QuietTyped
<1>7. CASE /\ Op(p) = "remove" => Has(config.list, Call(p).name)
           /\ GoTo(p, "confOpen", [mem[p] EXCEPT !.list = Written(p)])
  <2>1. Written(p) \in Lists BY <1>1, <1>7, WrittenTyped
  <2> DEFINE m == [mem[p] EXCEPT !.list = Written(p)]
  <2>2. m \in Memory(sessions) /\ m.entry = mem[p].entry /\ m.map = mem[p].map BY <1>5, <2>1 DEF Memory
  <2> HIDE DEF m
  <2>3. GoTo(p, "confOpen", m) BY <1>7 DEF m
  <2>4. "confOpen" \in Labels /\ ComesTo(Op(p), "confOpen") BY <1>5 DEF Labels, ComesTo
  <2>5. CallsTyped' BY <1>1, <1>2, <2>2, <2>3, <2>4, MovingOn
  <2> QED BY <1>2, <1>4, <2>5, QuietTyped
<1> QED BY <1>6, <1>7 DEF ConfLoad

LEMMA ConfWriteTyped ==
  ASSUME Typed, Around, NEW p \in Procs, ConfOpen(p) \/ ConfWrite(p)
  PROVE  Typed'
<1>1. at[p] \in {"confOpen", "confWrite"} /\ at[p] \notin Stopped BY DEF ConfOpen, ConfWrite, CannotLogIn, Stopped
<1>2. UNCHANGED <<store, idpVars, cache, port, histVars>> BY DEF ConfOpen, ConfWrite, CannotLogIn
<1>3. sessions' = sessions /\ backend' = backend BY <1>2 DEF Around, envVars, idpVars
<1>4. /\ mem[p] \in Memory(sessions) /\ ComesTo(Op(p), at[p]) /\ Call(p) \in Calls /\ Op(p) = Call(p).op
  BY <1>1, AtWork
<1>5. /\ intended' \in [Profiles -> Kept(sessions)] /\ cut' \in BOOLEAN /\ respent' \in BOOLEAN
      /\ config \in [list : Lists, torn : BOOLEAN] /\ mem[p].list \in Lists
  BY <1>2, <1>4 DEF histVars, Typed, RestTyped, FilesTyped, Memory
<1>6. config' \in [list : Lists, torn : BOOLEAN]
  <2>1. config' \in {config, [config EXCEPT !.torn = TRUE], [list |-> mem[p].list, torn |-> FALSE]}
    BY DEF ConfOpen, ConfWrite, CannotLogIn
  <2>2. [config EXCEPT !.torn = TRUE] \in [list : Lists, torn : BOOLEAN] BY <1>5
  <2>3. [list |-> mem[p].list, torn |-> FALSE] \in [list : Lists, torn : BOOLEAN] BY <1>5
  <2> QED BY <1>5, <2>1, <2>2, <2>3
<1>7. FilesTyped' BY <1>2, <1>3, <1>6 DEF Typed, FilesTyped
<1>8. \/ Fails(p) \/ Done(p)
      \/ GoTo(p, "confWrite", mem[p])
      \/ Op(p) = "configure" /\ GoTo(p, "select", mem[p])
      \/ Op(p) = "remove" /\ GoTo(p, "credLoad", [mem[p] EXCEPT !.profile = Call(p).name])
  BY DEF ConfOpen, ConfWrite, CannotLogIn
<1>9. CASE Fails(p) \/ Done(p)
  <2>1. CallsTyped' BY <1>1, <1>3, <1>9, AtWork, EndsPlainly
  <2> QED BY <1>2, <1>5, <1>7, <2>1, WritingTyped
<1>10. CASE GoTo(p, "confWrite", mem[p])
  <2>1. "confWrite" \in Labels /\ ComesTo(Op(p), "confWrite") BY <1>1, <1>4 DEF Labels, ComesTo
  <2>2. CallsTyped' BY <1>1, <1>2, <1>4, <1>10, <2>1, MovingOn
  <2> QED BY <1>2, <1>5, <1>7, <2>2, WritingTyped
<1>11. CASE Op(p) = "configure" /\ GoTo(p, "select", mem[p])
  <2>1. "select" \in Labels /\ ComesTo(Op(p), "select") BY <1>11 DEF Labels, ComesTo
  <2>2. CallsTyped' BY <1>1, <1>2, <1>4, <1>11, <2>1, MovingOn
  <2> QED BY <1>2, <1>5, <1>7, <2>2, WritingTyped
<1>12. CASE Op(p) = "remove" /\ GoTo(p, "credLoad", [mem[p] EXCEPT !.profile = Call(p).name])
  <2>1. Call(p).name \in Profiles BY <1>4, <1>12, CallFields, SeedNamed
  <2> DEFINE m == [mem[p] EXCEPT !.profile = Call(p).name]
  <2>2. m \in Memory(sessions) /\ m.entry = mem[p].entry /\ m.map = mem[p].map /\ m.profile \in Profiles
    BY <1>4, <2>1 DEF Memory
  <2> HIDE DEF m
  <2>3. GoTo(p, "credLoad", m) BY <1>12 DEF m
  <2>4. "credLoad" \in Labels /\ ComesTo(Op(p), "credLoad") BY <1>12 DEF Labels, ComesTo, Ops
  <2>5. CallsTyped' BY <1>1, <1>2, <2>2, <2>3, <2>4, MovingOn
  <2> QED BY <1>2, <1>5, <1>7, <2>5, WritingTyped
<1> QED BY <1>8, <1>9, <1>10, <1>11, <1>12

LEMMA CrashTyped ==
  ASSUME Typed, Around, NEW p \in Procs, Crash(p)
  PROVE  Typed'
<1>1. /\ at' = [at EXCEPT ![p] = "crashed"] /\ todo' = [todo EXCEPT ![p] = <<>>] /\ mem' = mem /\ answer' = answer
      /\ UNCHANGED <<store, config, idpVars, cache, intended, respent>> /\ Freed(p)
  BY DEF Crash
<1>2. sessions' = sessions /\ backend' = backend BY <1>1 DEF Around, envVars, idpVars
<1>3. CallsTyped BY DEF Typed
<1>4. at' \in [Procs -> Labels] /\ todo' \in [Procs -> Seq(Calls)]
  <2>1. "crashed" \in Labels /\ <<>> \in Seq(Calls) BY DEF Labels
  <2> QED BY <1>1, <1>3, <2>1 DEF CallsTyped
<1>5. ASSUME NEW q \in Procs PROVE FitsAt(todo'[q], at'[q], mem'[q]) /\ (at'[q] = "credWrite" => backend' = "file")
  <2>1. CASE q = p
    <3>1. at'[q] = "crashed" BY <1>1, <1>3, <2>1 DEF CallsTyped
    <3> QED BY <3>1 DEF FitsAt, Stopped
  <2>2. CASE q # p
    <3>1. at'[q] = at[q] /\ todo'[q] = todo[q] BY <1>1, <1>3, <2>2 DEF CallsTyped
    <3> QED BY <1>1, <1>2, <1>3, <3>1 DEF CallsTyped
  <2> QED BY <2>1, <2>2
<1>6. CallsTyped' BY <1>1, <1>2, <1>3, <1>4, <1>5 DEF CallsTyped
<1>7. port' \in Procs \cup {NoProc} BY <1>1 DEF Freed, Typed, RestTyped
<1>8. cut' \in BOOLEAN
  <2>1. cut \in BOOLEAN BY DEF Typed, RestTyped
  <2> QED BY <2>1 DEF Crash
<1>9. RunTyped' /\ FilesTyped' /\ ServersTyped' /\ CacheTyped'
  <2>1. /\ fault' = fault /\ apiToken' = apiToken /\ rotates' = rotates /\ repo' = repo /\ newest' = newest
    BY <1>1 DEF Around, envVars, idpVars
  <2> QED BY <1>1, <1>2, <2>1 DEF Typed, RunTyped, FilesTyped, ServersTyped, CacheTyped
<1>10. RestTyped' BY <1>1, <1>2, <1>7, <1>8 DEF Typed, RestTyped, Around
<1> QED BY <1>6, <1>9, <1>10 DEF Typed

LEMMA ExpireTyped ==
  ASSUME Typed, Around, NEW s, Expire(s)
  PROVE  Typed'
<1>1. UNCHANGED <<store, config, idpVars, procVars, cache, port, histVars>> BY DEF Expire
<1>2. CallsTyped' BY <1>1 DEF Typed, CallsTyped, idpVars, procVars, Around, envVars
<1>3. port' \in Procs \cup {NoProc} BY <1>1 DEF Typed, RestTyped
<1> QED BY <1>1, <1>2, <1>3, QuietTyped

-----------------------------------------------------------------------------
(* The invariant.                                                          *)

\* The steps of a process, one by one.
LEMMA StepsAre ==
  ASSUME NEW p \in Procs, Step(p) \/ Callback(p) \/ Denied(p) \/ Crash(p)
  PROVE  \/ Select(p) \/ Answered(p) \/ Refused(p) \/ Profile(p) \/ SelectLogout(p)
         \/ Probe(p) \/ Owner(p) \/ ApiEnv(p) \/ ApiExchange(p) \/ CredLoad(p) \/ Refresh(p)
         \/ SaveKeyring(p) \/ OpenStore(p) \/ WriteStore(p) \/ ConfLoad(p) \/ ConfOpen(p) \/ ConfWrite(p)
         \/ Crash(p)
BY DEF Step, Callback, Denied

LEMMA InitTyped == Init => Typed
<1> SUFFICES ASSUME Init PROVE Typed OBVIOUS
<1>1. PICK w \in Worlds :
        /\ fault = w.fault /\ apiToken = w.apiToken /\ rotates = w.rotates /\ backend = w.backend
        /\ repo = w.repo /\ config = [list |-> w.user, torn |-> FALSE] /\ todo = w.calls
  BY DEF Init
<1>2. w \in World /\ NamedOnce(w.repo) /\ NamedOnce(w.user) /\ OneDefaultIn(w.user)
  BY AuthAssumption
<1>3. RunTyped BY <1>1, <1>2 DEF RunTyped, World, Files
<1>4. todo \in [Procs -> Seq(Calls)] BY <1>1, <1>2 DEF World
<1>5. sessions = <<>> /\ newest = <<>> /\ store = [map |-> Empty, torn |-> FALSE] BY DEF Init
<1>6. FilesTyped
  <2>1. w.user \in Lists BY <1>2 DEF World, Lists
  <2>2. Empty \in [Profiles -> Kept(sessions)] BY NoEntryKept
  <2> QED BY <1>1, <1>5, <2>1, <2>2 DEF FilesTyped
<1>7. ServersTyped BY <1>5, Constants DEF ServersTyped
<1>8. CallsTyped
  <2>1. /\ at = [p \in Procs |-> StartOf(todo[p], apiToken)] /\ mem = [p \in Procs |-> Start(todo[p], apiToken)]
        /\ answer = [p \in Procs |-> NoAnswer]
    BY DEF Init
  <2>2. ASSUME NEW p \in Procs
        PROVE  /\ StartOf(todo[p], apiToken) \in Labels \ {"credWrite"} /\ Start(todo[p], apiToken) \in Memory(sessions)
               /\ FitsAt(todo[p], StartOf(todo[p], apiToken), Start(todo[p], apiToken))
    <3>1. todo[p] \in Seq(Calls) /\ apiToken \in BOOLEAN BY <1>3, <1>4 DEF RunTyped
    <3> QED BY <3>1, Starting
  <2>3. at \in [Procs -> Labels] BY <2>1, <2>2
  <2>4. mem \in [Procs -> Memory(sessions)] BY <2>1, <2>2
  <2>5. answer \in [Procs -> Answers] BY <2>1, PlainAnswers
  <2>6. ASSUME NEW p \in Procs PROVE FitsAt(todo[p], at[p], mem[p]) /\ at[p] # "credWrite"
    BY <2>1, <2>2
  <2> QED BY <1>4, <2>3, <2>4, <2>5, <2>6 DEF CallsTyped
<1>9. CacheTyped
  <2>1. NoCache \in Exchanged(sessions) BY NoEntryKept DEF NoCache, Exchanged
  <2> QED BY <2>1 DEF Init, CacheTyped
<1>10. RestTyped BY NoEntryKept DEF Init, RestTyped
<1> QED BY <1>3, <1>6, <1>7, <1>8, <1>9, <1>10 DEF Typed

LEMMA NextTyped == Typed /\ [Next]_vars => Typed'
<1> SUFFICES ASSUME Typed, [Next]_vars PROVE Typed' OBVIOUS
<1>1. Watched => Around BY WatchedAround DEF Typed
<1>2. ASSUME NEW p \in Procs, Step(p) \/ Callback(p) \/ Denied(p) \/ Crash(p), Watched PROVE Typed'
  <2>1. Around BY <1>1, <1>2
  <2> QED BY <1>2, <2>1, StepsAre, SelectTyped, AnsweredTyped, RefusedTyped, ProfileTyped, ProbeTyped, OwnerTyped,
             ApiEnvTyped, ApiExchangeTyped, CredLoadTyped, RefreshTyped, SaveTyped, ConfLoadTyped, ConfWriteTyped, CrashTyped
<1>3. ASSUME NEW s, Expire(s), Watched PROVE Typed'
  BY <1>1, <1>3, ExpireTyped
<1>4. CASE UNCHANGED vars
  <2>1. UNCHANGED <<envVars, store, config, idpVars, procVars, cache, port, histVars, overlap>> BY <1>4 DEF vars
  <2>2. Around BY <2>1 DEF Around, Typed, RestTyped
  <2>3. CallsTyped' BY <2>1 DEF Typed, CallsTyped, idpVars, procVars, envVars
  <2>4. port' \in Procs \cup {NoProc} BY <2>1 DEF Typed, RestTyped
  <2> QED BY <2>1, <2>2, <2>3, <2>4, QuietTyped
<1> QED BY <1>2, <1>3, <1>4 DEF Next, Rest

LEMMA AlwaysTyped == Spec => []Typed
<1>1. Init => Typed BY InitTyped
<1>2. Typed /\ [Next]_vars => Typed' BY NextTyped
<1> QED BY <1>1, <1>2, PTL DEF Spec

-----------------------------------------------------------------------------
(* A step moves one process.                                               *)

Stays(q) == todo'[q] = todo[q] /\ at'[q] = at[q] /\ mem'[q] = mem[q] /\ answer'[q] = answer[q]
Alone(p) == \A q \in Procs \ {p} : Stays(q)

LEMMA GoingAlone ==
  ASSUME CallsTyped, NEW p \in Procs, NEW label, NEW m, GoTo(p, label, m)
  PROVE  Alone(p) /\ at'[p] = label /\ mem'[p] = m /\ todo'[p] = todo[p] /\ answer'[p] = answer[p]
BY DEF CallsTyped, GoTo, Alone, Stays

LEMMA EndingAlone ==
  ASSUME CallsTyped, NEW p \in Procs, NEW a, Ends(p, a)
  PROVE  /\ Alone(p) /\ at'[p] = StartOf(Tail(todo[p]), apiToken) /\ mem'[p] = Start(Tail(todo[p]), apiToken)
         /\ todo'[p] = Tail(todo[p]) /\ answer'[p] = a
BY DEF CallsTyped, Ends, Alone, Stays

\* How a step can move its process.
Moves(p) ==
  \/ \E label, m : GoTo(p, label, m)
  \/ \E a : Ends(p, a)
  \/ at[p] = "probe" /\ (\E i : todo' = [todo EXCEPT ![p][1].issuer = i]) /\ UNCHANGED <<at, mem, answer>>
  \/ Crash(p)

LEMMA FormsMove ==
  ASSUME NEW p \in Procs
  PROVE  /\ Fails(p) => \E a : Ends(p, a)
         /\ Done(p) => \E a : Ends(p, a)
         /\ \A e : HandOut(p, e) => \E a : Ends(p, a)
         /\ Saved(p) => (\E label, m : GoTo(p, label, m)) \/ \E a : Ends(p, a)
BY DEF Fails, Done, HandOut, Saved

LEMMA StepsMove ==
  ASSUME NEW p \in Procs, Step(p) \/ Callback(p) \/ Denied(p) \/ Crash(p)
  PROVE  Moves(p)
<1> DEFINE G == \E label, m : GoTo(p, label, m)
           E == \E a : Ends(p, a)
<1>f. Fails(p) => E BY FormsMove
<1>d. Done(p) => E BY FormsMove
<1>h. \A e : HandOut(p, e) => E BY FormsMove
<1>s. Saved(p) => G \/ E BY FormsMove
<1>g. \A label, m : GoTo(p, label, m) => G OBVIOUS
<1>q. G => Moves(p) BY DEF Moves
<1>e. E => Moves(p) BY DEF Moves
<1> HIDE DEF G, E
<1>1. Select(p) => G \/ E BY <1>f, <1>g DEF Select, Bind
<1>2. Answered(p) => G \/ E BY <1>g DEF Answered, CodeExchange
<1>3. Refused(p) => G \/ E BY <1>f DEF Refused
<1>4. Profile(p) => G \/ E BY <1>f, <1>g DEF Profile
<1>5. SelectLogout(p) => G \/ E BY <1>f, <1>g DEF SelectLogout
<1>6. Probe(p) => G \/ E \/ (at[p] = "probe" /\ (\E i : todo' = [todo EXCEPT ![p][1].issuer = i]) /\ UNCHANGED <<at, mem, answer>>)
  BY <1>f, <1>g DEF Probe
<1>7. Owner(p) => G \/ E BY <1>f, <1>d, <1>g DEF Owner
<1>8. ApiEnv(p) => G \/ E BY <1>f, <1>h, <1>g DEF ApiEnv
<1>9. ApiExchange(p) => G \/ E BY <1>f, <1>h DEF ApiExchange
<1>10. CredLoad(p) => G \/ E BY <1>f, <1>d, <1>h, <1>g DEF CredLoad, Serves
<1>11. Refresh(p) => G \/ E BY <1>f, <1>d, <1>g DEF Refresh
<1>12. SaveKeyring(p) => G \/ E BY <1>f, <1>s DEF SaveKeyring, NotSaved
<1>13. OpenStore(p) => G \/ E BY <1>g DEF OpenStore
<1>14. WriteStore(p) => G \/ E BY <1>f, <1>s DEF WriteStore, NotSaved
<1>15. ConfLoad(p) => G \/ E BY <1>f, <1>g DEF ConfLoad
<1>16. ConfOpen(p) => G \/ E BY <1>g DEF ConfOpen
<1>17. ConfWrite(p) => G \/ E BY <1>f, <1>d, <1>g DEF ConfWrite, CannotLogIn
<1>18. Crash(p) => Moves(p) BY DEF Moves
<1>19. at[p] = "probe" /\ (\E i : todo' = [todo EXCEPT ![p][1].issuer = i]) /\ UNCHANGED <<at, mem, answer>> => Moves(p)
  BY DEF Moves
<1> QED BY StepsAre, <1>1, <1>2, <1>3, <1>4, <1>5, <1>6, <1>7, <1>8, <1>9, <1>10, <1>11, <1>12, <1>13, <1>14,
           <1>15, <1>16, <1>17, <1>18, <1>19, <1>q, <1>e

LEMMA StepsAlone ==
  ASSUME Typed, NEW p \in Procs, Step(p) \/ Callback(p) \/ Denied(p) \/ Crash(p)
  PROVE  Alone(p)
<1>0. CallsTyped BY DEF Typed
<1>1. Moves(p) BY StepsMove
<1>2. ASSUME NEW label, NEW m, GoTo(p, label, m) PROVE Alone(p) BY <1>0, <1>2, GoingAlone
<1>3. ASSUME NEW a, Ends(p, a) PROVE Alone(p) BY <1>0, <1>3, EndingAlone
<1>4. ASSUME NEW i, todo' = [todo EXCEPT ![p][1].issuer = i], UNCHANGED <<at, mem, answer>> PROVE Alone(p)
  BY <1>0, <1>4 DEF Alone, Stays, CallsTyped
<1>5. CASE Crash(p) BY <1>0, <1>5 DEF Crash, Alone, Stays, CallsTyped
<1> QED BY <1>1, <1>2, <1>3, <1>4, <1>5 DEF Moves

-----------------------------------------------------------------------------
(* What follows of the files, the entries and the cache.                   *)

LEMMA TypesHold == Typed => AuthTypeOK
<1> SUFFICES ASSUME Typed PROVE AuthTypeOK OBVIOUS
<1>1. Kept(sessions) \subseteq Entry BY DEF Kept
<1>2. [Profiles -> Kept(sessions)] \subseteq [Profiles -> Entry] BY <1>1
<1>3. StoreTypeOK BY <1>2 DEF Typed, RunTyped, FilesTyped, StoreTypeOK
<1>4. config \in [list : Seq(Deployment), torn : BOOLEAN] BY DEF Typed, FilesTyped, Lists
<1>5. Memory(sessions) \subseteq [sel : Deployment, profile : Profiles \cup {""}, entry : Entry,
                                  map : [Profiles -> Entry], list : Seq(Deployment)]
  BY <1>1, <1>2 DEF Memory, Lists
<1>6. \A s \in DOMAIN newest : newest[s] \in 1..MaxTokens
  <2>1. newest \in Seq(1..MaxTokens) BY DEF Typed, ServersTyped
  <2> DEFINE T == 1..MaxTokens
  <2> HIDE DEF T
  <2>2. newest \in Seq(T) BY <2>1 DEF T
  <2>3. \A s \in DOMAIN newest : newest[s] \in T BY <2>2
  <2> QED BY <2>3 DEF T
<1>7. mem \in [Procs -> [sel : Deployment, profile : Profiles \cup {""}, entry : Entry,
                         map : [Profiles -> Entry], list : Seq(Deployment)]]
  BY <1>5 DEF Typed, CallsTyped
<1>8. at \in [Procs -> {"select", "asked", "profile", "credLoad", "refresh", "credOpen", "clear",
       "credWrite", "confLoad", "confOpen", "confWrite", "probe", "owner", "apiEnv",
       "apiExchange", "ended", "crashed"}]
  BY DEF Typed, CallsTyped, Labels
<1>9. intended \in [Profiles -> Entry] /\ port \in Procs \cup {NoProc} BY <1>2 DEF Typed, RestTyped
<1>10. rotates \in BOOLEAN /\ apiToken \in BOOLEAN /\ Len(newest) = Len(sessions) BY DEF Typed, RunTyped, ServersTyped
<1> QED BY <1>3, <1>4, <1>6, <1>7, <1>8, <1>9, <1>10 DEF AuthTypeOK

LEMMA KindsHold == Typed => SessionsKeepKind
<1> SUFFICES ASSUME Typed, NEW n \in Profiles, store.map[n] # NoEntry
             PROVE  LET e == store.map[n] IN
                    /\ e.prefer = sessions[e.session].endpoint /\ e.id = e.prefer
                    /\ e.refresh = 0 <=> ~e.prefer
  BY DEF SessionsKeepKind
<1>1. store.map[n] \in Kept(sessions) BY DEF Typed, FilesTyped
<1> QED BY <1>1 DEF Kept

LEMMA DefaultsHold == Typed => OneDefault
BY DEF Typed, FilesTyped, Lists, OneDefault

LEMMA StatusHolds == Typed => StatusShowsSelection
<1> SUFFICES ASSUME Typed, Defaults(repo) = {}, NEW i \in DOMAIN All
             PROVE  MarkedDefault(All, All[i]) = (\E d \in Selected(All, "") : d.name = All[i].name)
  BY DEF StatusShowsSelection
<1>1. /\ repo \in Seq(Deployment) /\ NamedOnce(repo) /\ config.list \in Seq(Deployment) /\ NamedOnce(config.list)
      /\ OneDefaultIn(config.list)
  BY DEF Typed, RunTyped, FilesTyped, Files, Lists
<1> DEFINE top == 1 + Len(repo) + Len(config.list)
<1>2. PICK all : all = All OBVIOUS
<1>3. /\ Listed(all, top) /\ top \in Nat /\ 1 \in DOMAIN all /\ all[1].name = Seed
      /\ FromFiles(all, repo, config.list) /\ NamedOnce(all)
  BY <1>1, <1>2, EffectiveIs DEF All
<1> HIDE DEF top
<1>4. \A j \in DOMAIN all : all[j] \in Deployment /\ j \in Nat BY <1>3 DEF Listed
\* What has the default is the account, when none was configured, or what the user
\* marked.
<1>5. ASSUME NEW j \in Defaults(all)
      PROVE  \/ all[j].name = Seed /\ ~ConfiguredDefault(all)
             \/ all[j].name # Seed /\ \E k \in Defaults(config.list) : all[j] = config.list[k]
  <2>1. j \in DOMAIN all /\ all[j].default = TRUE BY <1>4 DEF Defaults, Deployment
  <2>2. PICK d \in Deployment :
          /\ d = SeedDeployment \/ (\E k \in DOMAIN repo : d = repo[k]) \/ (\E k \in DOMAIN config.list : d = config.list[k])
          /\ all[j] = d \/ (d.name = Seed /\ all[j] = [d EXCEPT !.default = FALSE])
          /\ d.name = Seed /\ ConfiguredDefault(all) => ~all[j].default
    BY <1>3, <2>1 DEF FromFiles
  <2>3. ~[d EXCEPT !.default = FALSE].default BY DEF Deployment
  <2>4. all[j] = d BY <2>1, <2>2, <2>3
  <2>5. CASE d = SeedDeployment
    BY <2>1, <2>2, <2>4, <2>5 DEF SeedDeployment
  <2>6. CASE \E k \in DOMAIN repo : d = repo[k]
    BY <2>1, <2>4, <2>6 DEF Defaults
  <2>7. CASE \E k \in DOMAIN config.list : d = config.list[k]
    BY <2>1, <2>2, <2>4, <2>7 DEF Defaults
  <2> QED BY <2>2, <2>5, <2>6, <2>7
<1>6. ASSUME NEW j \in Defaults(all), NEW k \in Defaults(all) PROVE j = k
  <2>1. j \in DOMAIN all /\ k \in DOMAIN all /\ all[j].default /\ all[k].default BY DEF Defaults
  <2>2. CASE all[j].name = Seed /\ all[k].name = Seed BY <1>3, <2>1, <2>2 DEF NamedOnce
  <2>3. CASE all[j].name # Seed /\ all[k].name # Seed
    <3>1. all[j] = all[k] BY <1>1, <1>5, <2>3 DEF OneDefaultIn
    <3> QED BY <1>3, <2>1, <3>1 DEF NamedOnce
  <2>4. CASE all[j].name # Seed /\ all[k].name = Seed
    BY <1>5, <2>1, <2>4 DEF ConfiguredDefault
  <2>5. CASE all[j].name = Seed /\ all[k].name # Seed
    BY <1>5, <2>1, <2>5 DEF ConfiguredDefault
  <2> QED BY <2>2, <2>3, <2>4, <2>5
<1>7. all[i].default \in BOOLEAN /\ i \in DOMAIN all BY <1>2, <1>4 DEF Deployment
<1>8. CASE Defaults(all) = {}
  <2>1. Selected(all, "") = {TheOne(all, Seed)} BY <1>8 DEF Selected
  <2>2. Has(all, Seed) BY <1>3 DEF Has, Named
  <2>3. TheOne(all, Seed).name = Seed BY <1>3, <2>2, NamedIs
  <2>4. ~ConfiguredDefault(all) /\ all[i].default = FALSE BY <1>7, <1>8 DEF ConfiguredDefault, Defaults
  <2>5. MarkedDefault(all, all[i]) <=> all[i].name = Seed BY <2>4 DEF MarkedDefault
  <2>6. (\E d \in Selected(all, "") : d.name = all[i].name) <=> all[i].name = Seed BY <2>1, <2>3
  <2>7. MarkedDefault(all, all[i]) \in BOOLEAN BY <1>7 DEF MarkedDefault
  <2> QED BY <1>2, <2>5, <2>6, <2>7
<1>9. CASE Defaults(all) # {}
  <2>1. Selected(all, "") = {First(all, Defaults(all))} BY <1>9 DEF Selected
  <2>2. Defaults(all) \subseteq Nat BY <1>4 DEF Defaults
  <2>3. PICK k \in Defaults(all) : First(all, Defaults(all)) = all[k] BY <1>9, <2>2, FirstIs
  <2>4. k \in DOMAIN all /\ all[k].default BY DEF Defaults
  <2>5. (\E d \in Selected(all, "") : d.name = all[i].name) <=> i = k
    <3>1. (\E d \in Selected(all, "") : d.name = all[i].name) <=> all[k].name = all[i].name BY <2>1, <2>3
    <3>2. all[k].name = all[i].name => i = k BY <1>3, <1>7, <2>4 DEF NamedOnce
    <3> QED BY <3>1, <3>2
  <2>6. all[i].default <=> i = k BY <1>6, <1>7, <2>4 DEF Defaults
  <2>7. ASSUME all[i].name = Seed PROVE ~ConfiguredDefault(all) <=> i = k
    <3>1. CASE i = k BY <1>5, <2>7, <3>1
    <3>2. CASE i # k
      <4>1. all[k].name # Seed BY <1>3, <1>7, <2>4, <2>7, <3>2 DEF NamedOnce
      <4> QED BY <2>4, <3>2, <4>1 DEF ConfiguredDefault
    <3> QED BY <3>1, <3>2
  <2>8. MarkedDefault(all, all[i]) <=> i = k BY <2>6, <2>7 DEF MarkedDefault
  <2>9. MarkedDefault(all, all[i]) \in BOOLEAN BY <1>7 DEF MarkedDefault
  <2> QED BY <1>2, <2>5, <2>8, <2>9
<1> QED BY <1>8, <1>9

\* One default, and `auth status` and the commands agree on it, whatever configure,
\* use, logout and remove do to the file, in whatever interleaving (auth.rs:176-210).
THEOREM DefaultStaysOne == Spec => []DefaultIsOne
<1>1. Typed => DefaultIsOne BY DefaultsHold, StatusHolds DEF DefaultIsOne
<1> QED BY <1>1, AlwaysTyped, PTL

-----------------------------------------------------------------------------
(* What a step leaves alone.                                               *)

\* The default moves only by a command that says so.
LEMMA DefaultStep ==
  ASSUME Typed, [Next]_vars, NEW p \in Procs, at[p] = "confLoad", at'[p] = "confOpen",
         DefaultNames(mem'[p].list) # DefaultNames(config.list)
  PROVE  \/ Op(p) = "use" \/ Op(p) = "logout"
         \/ Op(p) = "remove" /\ Call(p).name \in DefaultNames(config.list)
         \/ Op(p) = "configure" /\ (Call(p).makeDefault \/ Defaults(config.list) = {})
<1>1. at[p] \notin Stopped BY DEF Stopped
<1>2. CallsTyped /\ config.list \in Lists BY DEF Typed, FilesTyped
<1>3. ConfLoad(p)
  <2>1. ASSUME UNCHANGED at PROVE FALSE BY <2>1
  <2>2. PICK q \in Procs : Step(q) \/ Callback(q) \/ Denied(q) \/ Crash(q)
    BY <2>1 DEF Next, Rest, vars, procVars, Expire
  <2>3. q = p
    <3>1. Alone(q) BY <2>2, StepsAlone
    <3> QED BY <3>1 DEF Alone, Stays
  <2>4. ~Crash(p) BY <1>2 DEF Crash, CallsTyped
  <2> QED BY <2>2, <2>3, <2>4, StepsAre DEF Select, Answered, CodeExchange, Refused, Profile, SelectLogout, Probe, Owner, ApiEnv,
       ApiExchange, CredLoad, Refresh, SaveKeyring, OpenStore, WriteStore, ConfOpen, ConfWrite, CannotLogIn
<1>4. /\ Op(p) \in {"configure", "use", "remove", "logout"} /\ mem[p] \in Memory(sessions) /\ Call(p) \in Calls
      /\ Op(p) = Call(p).op /\ FitsAt(todo[p], at[p], mem[p]) /\ Call(p) = Head(todo[p]) /\ todo[p] \in Seq(Calls)
  BY <1>1, AtWork DEF ComesTo
<1>5. /\ Op(p) = "remove" => Has(config.list, Call(p).name)
      /\ mem'[p].list = Written(p)
  <2>1. CASE Fails(p)
    <3>1. at'[p] = StartOf(Tail(todo[p]), apiToken) BY <1>2, <2>1, EndingAlone DEF Fails
    <3>2. StartOf(Tail(todo[p]), apiToken) # "confOpen"
      <4>1. Tail(todo[p]) = <<>> \/ Head(Tail(todo[p])).op \in Ops
        <5>1. Tail(todo[p]) \in Seq(Calls) BY <1>1, <1>4, AtWork
        <5>2. Tail(todo[p]) # <<>> => Head(Tail(todo[p])) \in Calls BY <5>1
        <5> QED BY <5>2, CallFields
      <4> QED BY <4>1 DEF StartOf, Ops
    <3> QED BY <3>1, <3>2
  <2>2. CASE /\ Op(p) = "remove" => Has(config.list, Call(p).name)
             /\ GoTo(p, "confOpen", [mem[p] EXCEPT !.list = Written(p)])
    <3>1. mem'[p] = [mem[p] EXCEPT !.list = Written(p)] BY <1>2, <2>2, GoingAlone
    <3> QED BY <1>4, <2>2, <3>1 DEF Memory
  <2> QED BY <1>3, <2>1, <2>2 DEF ConfLoad
<1>6. CASE Op(p) = "remove"
  BY <1>2, <1>5, <1>6, WithoutIs DEF Written
<1>7. CASE Op(p) = "configure"
  <2>1. mem[p].sel \in Deployment /\ mem[p].sel.default = Call(p).makeDefault BY <1>4, <1>7 DEF Memory, FitsAt
  <2>2. DefaultNames(Upsert(config.list, mem[p].sel)) # DefaultNames(config.list) BY <1>5, <1>7 DEF Written
  <2> QED BY <1>2, <1>7, <2>1, <2>2, UpsertIs
<1> QED BY <1>4, <1>6, <1>7

\* A cached exchange serves the issuer it was made with.
LEMMA ApiTokenStep ==
  ASSUME Typed, [Next]_vars, NEW p \in Procs, at[p] = "apiEnv", todo'[p] # todo[p], at'[p] # "crashed",
         answer'[p].is = "token"
  PROVE  \E d \in Selected(All, "") : d.issuer = sessions[answer'[p].session].issuer
<1>1. CallsTyped BY DEF Typed
<1>2. ApiEnv(p)
  <2>1. ASSUME UNCHANGED todo PROVE FALSE BY <2>1
  <2>2. PICK q \in Procs : Step(q) \/ Callback(q) \/ Denied(q) \/ Crash(q)
    BY <2>1 DEF Next, Rest, vars, procVars, Expire
  <2>3. q = p
    <3>1. Alone(q) BY <2>2, StepsAlone
    <3> QED BY <3>1 DEF Alone, Stays
  <2>4. ~Crash(p) BY <1>1 DEF Crash, CallsTyped
  <2> QED BY <2>2, <2>3, <2>4, StepsAre DEF Select, Answered, CodeExchange, Refused, Profile, SelectLogout, Probe, Owner,
       ApiExchange, CredLoad, Refresh, SaveKeyring, OpenStore, WriteStore, ConfLoad, ConfOpen, ConfWrite, CannotLogIn
<1>3. \/ Fails(p)
      \/ \E d \in Selected(All, "") : \/ CacheServes(cache[p], d.issuer) /\ HandOut(p, cache[p].entry)
                                      \/ \E m : GoTo(p, "apiExchange", m)
  BY <1>2 DEF ApiEnv, ResolvedEnv
<1>4. ~Fails(p)
  <2>1. ASSUME Fails(p) PROVE answer'[p].is = "error"
    <3>1. answer'[p] = [NoAnswer EXCEPT !.is = "error"] BY <1>1, <2>1, EndingAlone DEF Fails
    <3> QED BY <3>1 DEF NoAnswer
  <2> QED BY <2>1
<1>5. ASSUME NEW m, GoTo(p, "apiExchange", m) PROVE FALSE
  BY <1>1, <1>5, GoingAlone
<1>6. PICK d \in Selected(All, "") : CacheServes(cache[p], d.issuer) /\ HandOut(p, cache[p].entry)
  BY <1>3, <1>4, <1>5
<1>7. answer'[p].session = cache[p].entry.session
  <2> DEFINE a == [is |-> "token", session |-> cache[p].entry.session, profile |-> mem[p].profile,
                   host |-> IF Op(p) = "get" THEN Call(p).host ELSE ""]
  <2>1. answer'[p] = a BY <1>1, <1>6, EndingAlone DEF HandOut
  <2>2. a.session = cache[p].entry.session OBVIOUS
  <2> HIDE DEF a
  <2> QED BY <2>1, <2>2
<1>8. cache[p].entry # NoEntry /\ cache[p].issuer = d.issuer BY <1>6 DEF CacheServes
<1>9. sessions[cache[p].entry.session].issuer = cache[p].issuer BY <1>8 DEF Typed, CacheTyped, Exchanged
<1> QED BY <1>7, <1>8, <1>9

-----------------------------------------------------------------------------
(* No login is lost: the calls that hold a copy of the map.  While no two   *)
(* overlap, the one there is holds what is stored, with its own entry in    *)
(* it; while moreover no save was cut off, what is stored is intended, and  *)
(* the sessions of the stored entries, and of the logins that are yet to    *)
(* be stored, are apart, so that a refresh makes one of them newer only.    *)

Pending(p) == at[p] \in {"profile", "credLoad", "credOpen", "credWrite"} /\ Op(p) \in {"login", "configure"}
Renewed(p) == at[p] \in {"credOpen", "credWrite"} /\ Op(p) \in {"token", "get"}
Writes == \E p \in Procs : at[p] = "credWrite"
Clean == ~overlap /\ ~cut

\* The map a call holds, over what is stored.
Held(p) ==
  /\ at[p] = "refresh" => mem[p].map = store.map /\ mem[p].entry = store.map[mem[p].profile]
  /\ at[p] \in {"credOpen", "credWrite"} /\ Op(p) # "logoutAll" =>
       mem[p].map = [store.map EXCEPT ![mem[p].profile] = mem[p].entry]

Sole == ~overlap => \A p, q \in Holding(at) : p = q
MapsHeld == ~overlap /\ (~cut \/ backend = "keyring") => \A p \in Holding(at) : Held(p)
StoreIntended == Clean => store.map = intended /\ (store.torn <=> Writes)
Apart ==
  Clean =>
    /\ \A n, m \in Profiles : intended[n] # NoEntry /\ intended[n].session = intended[m].session => n = m
    /\ \A p \in Procs : Pending(p) => /\ mem[p].entry # NoEntry
                                      /\ \A n \in Profiles : intended[n].session # mem[p].entry.session
    /\ \A p, q \in Procs : Pending(p) /\ Pending(q) /\ mem[p].entry.session = mem[q].entry.session => p = q
    /\ \A p \in Procs : Renewed(p) => intended[mem[p].profile].session = mem[p].entry.session
Newest ==
  Clean /\ rotates =>
    /\ \A n \in Profiles :
         intended[n].refresh # 0 /\ (\A p \in Procs : Renewed(p) => mem[p].profile # n)
           => intended[n].refresh = newest[intended[n].session]
    /\ \A p \in Procs : (Pending(p) \/ Renewed(p)) /\ mem[p].entry.refresh # 0
           => mem[p].entry.refresh = newest[mem[p].entry.session]
Unspent == Clean => ~respent
Logins == Sole /\ MapsHeld /\ StoreIntended /\ Apart /\ Newest /\ Unspent

\* Two calls that hold the map, or one that does and one that clears it, overlap.
LEMMA Solo ==
  ASSUME RestTyped, Watched, ~overlap', NEW a \in Holding(at') \cup Clearing, NEW b \in Holding(at') \cup Clearing
  PROVE  ~overlap /\ a = b
<1> DEFINE S == Holding(at') \cup Clearing
<1>1. ~overlap /\ ~(Cardinality(S) > 1) BY DEF Watched, RestTyped
<1>2. S \subseteq Procs BY DEF Holding, Clearing
<1>3. IsFiniteSet(S) BY <1>2, Constants, FS_Subset
<1> HIDE DEF S
<1>4. ASSUME a # b PROVE FALSE
  <2>1. a \in S /\ b \in S \ {a} BY <1>4 DEF S
  <2>2. IsFiniteSet(S \ {a}) /\ Cardinality(S \ {a}) = Cardinality(S) - 1 BY <1>3, <2>1, FS_RemoveElement
  <2>3. Cardinality(S \ {a}) # 0 BY <2>1, <2>2, FS_EmptySet
  <2>4. Cardinality(S) \in Nat /\ Cardinality(S \ {a}) \in Nat BY <1>3, <2>2, FS_CardinalityType
  <2> QED BY <1>1, <2>2, <2>3, <2>4
<1> QED BY <1>1, <1>4

LEMMA SoleAfter ==
  ASSUME RestTyped, Watched PROVE Sole'
BY Solo DEF Sole

\* Once there was an overlap, or a save that was cut off, there was.
LEMMA Latched ==
  ASSUME Typed, Watched, NEW p \in Procs, Step(p) \/ Callback(p) \/ Denied(p) \/ Crash(p)
  PROVE  (~overlap' => ~overlap) /\ (~cut' => ~cut) /\ UNCHANGED envVars
<1>1. UNCHANGED envVars /\ (~overlap' => ~overlap) BY DEF Watched
<1>2. ~cut' => ~cut
  BY StepsAre DEF Select, Answered, CodeExchange, Refused, Profile, SelectLogout, Probe, Owner, ApiEnv, ApiExchange, CredLoad, Refresh,
     SaveKeyring, OpenStore, WriteStore, ConfLoad, ConfOpen, ConfWrite, CannotLogIn, Crash, Saved, NotSaved, histVars
<1> QED BY <1>1, <1>2

\* What concerns the logins of a process that a step leaves alone.
LEMMA Untouched ==
  ASSUME NEW p, Alone(p), NEW q \in Procs, q # p
  PROVE  /\ at'[q] = at[q] /\ mem'[q] = mem[q] /\ todo'[q] = todo[q]
         /\ Op(q)' = Op(q) /\ (Pending(q)' <=> Pending(q)) /\ (Renewed(q)' <=> Renewed(q))
BY DEF Alone, Stays, Op, Call, Pending, Renewed

\* A step that takes no part in the logins.
\* A step after which the logins that are stored, and those that are yet to be, are
\* as they were.  The servers' sessions may have grown.
Steady(p) ==
  /\ UNCHANGED <<intended, rotates>>
  /\ Clean' => Clean /\ respent' = respent
  /\ Pending(p)' => Pending(p) /\ mem'[p].entry = mem[p].entry
  /\ Renewed(p)' <=> Renewed(p)
  /\ Renewed(p) => mem'[p] = mem[p]
  /\ \A s \in DOMAIN sessions : newest'[s] = newest[s]

LEMMA SteadyKeeps ==
  ASSUME Typed, Logins, NEW p \in Procs, Alone(p), Steady(p)
  PROVE  Apart' /\ Newest' /\ Unspent'
<1>0. intended' = intended /\ rotates' = rotates BY DEF Steady
<1>1. \A q \in Procs \ {p} :
        /\ at'[q] = at[q] /\ mem'[q] = mem[q] /\ Op(q)' = Op(q) /\ (Pending(q)' <=> Pending(q)) /\ (Renewed(q)' <=> Renewed(q))
  BY Untouched
<1>2. (Renewed(p)' <=> Renewed(p)) /\ (Renewed(p) => mem'[p] = mem[p]) BY DEF Steady
<1>3. Pending(p)' => Pending(p) /\ mem'[p].entry = mem[p].entry BY DEF Steady
<1>4. Clean' => Clean /\ respent' = respent BY DEF Steady
<1>5. \A q \in Procs : Pending(q)' => Pending(q) /\ mem'[q].entry = mem[q].entry BY <1>1, <1>3
<1>6. \A q \in Procs : Renewed(q)' => Renewed(q) /\ mem'[q] = mem[q] BY <1>1, <1>2
<1>7. \A q \in Procs : Renewed(q) => Renewed(q)' /\ mem'[q] = mem[q] BY <1>1, <1>2
<1>10. Apart'
  <2> SUFFICES ASSUME Clean' PROVE Apart' BY DEF Apart
  <2>1. Apart /\ Clean BY <1>4 DEF Logins
  <2>2. \A n, m \in Profiles : intended'[n] # NoEntry /\ intended'[n].session = intended'[m].session => n = m
    BY <1>0, <2>1 DEF Apart
  <2>3. \A q \in Procs : Pending(q)' => mem'[q].entry # NoEntry /\ \A n \in Profiles : intended'[n].session # mem'[q].entry.session
    BY <1>0, <1>5, <2>1 DEF Apart
  <2>4. \A q, r \in Procs : Pending(q)' /\ Pending(r)' /\ mem'[q].entry.session = mem'[r].entry.session => q = r
    BY <1>5, <2>1 DEF Apart
  <2>5. \A q \in Procs : Renewed(q)' => intended'[mem'[q].profile].session = mem'[q].entry.session
    BY <1>0, <1>6, <2>1 DEF Apart
  <2> QED BY <2>2, <2>3, <2>4, <2>5 DEF Apart
<1>11. Newest'
  <2> SUFFICES ASSUME Clean', rotates' PROVE Newest' BY DEF Newest
  <2>1. Newest /\ Clean /\ rotates BY <1>0, <1>4 DEF Logins
  <2>2. \A s \in DOMAIN sessions : newest'[s] = newest[s] BY DEF Steady
  <2>3. ASSUME NEW e \in Kept(sessions), e.refresh # 0 PROVE newest'[e.session] = newest[e.session]
    BY <2>2, <2>3, KeptIs
  <2>4. ASSUME NEW n \in Profiles, intended'[n].refresh # 0, \A q \in Procs : Renewed(q)' => mem'[q].profile # n
        PROVE  intended'[n].refresh = newest'[intended'[n].session]
    <3>1. intended[n] \in Kept(sessions) /\ intended[n].refresh # 0 BY <1>0, <2>4 DEF Typed, RestTyped
    <3>2. \A q \in Procs : Renewed(q) => mem[q].profile # n BY <1>7, <2>4
    <3>3. intended[n].refresh = newest[intended[n].session] BY <2>1, <3>1, <3>2 DEF Newest
    <3> QED BY <1>0, <2>3, <3>1, <3>3
  <2>5. ASSUME NEW q \in Procs, Pending(q)' \/ Renewed(q)', mem'[q].entry.refresh # 0
        PROVE  mem'[q].entry.refresh = newest'[mem'[q].entry.session]
    <3>1. (Pending(q) \/ Renewed(q)) /\ mem'[q].entry = mem[q].entry BY <1>5, <1>6, <2>5
    <3>2. mem[q].entry \in Kept(sessions) BY DEF Typed, CallsTyped, Memory
    <3>3. mem[q].entry.refresh = newest[mem[q].entry.session] BY <2>1, <2>5, <3>1 DEF Newest
    <3> QED BY <2>3, <2>5, <3>1, <3>2, <3>3
  <2> QED BY <2>4, <2>5 DEF Newest
<1>12. Unspent' BY <1>4 DEF Logins, Unspent
<1> QED BY <1>10, <1>11, <1>12

\* Where the step neither writes the store nor holds it open, the store is as
\* intended still,
LEMMA StoreKeeps ==
  ASSUME Logins, NEW p \in Procs, Alone(p), UNCHANGED <<store, intended>>, Clean' => Clean,
         at[p] # "credWrite", at'[p] # "credWrite"
  PROVE  StoreIntended'
<1>1. \A q \in Procs \ {p} : at'[q] = at[q] BY Untouched
<1>2. Writes' <=> Writes BY <1>1 DEF Writes
<1> QED BY <1>2 DEF Logins, StoreIntended

\* and what the others hold of it is what it is.
LEMMA HeldKeeps ==
  ASSUME Logins, NEW p \in Procs, Alone(p), UNCHANGED <<store, backend>>, ~overlap' => ~overlap, ~cut' => ~cut,
         at'[p] \notin {"refresh", "credOpen", "credWrite"}
  PROVE  MapsHeld'
<1>1. \A q \in Procs \ {p} : at'[q] = at[q] /\ mem'[q] = mem[q] /\ Op(q)' = Op(q) BY Untouched
<1> SUFFICES ASSUME ~overlap', ~cut' \/ backend' = "keyring", NEW q \in Holding(at') PROVE Held(q)'
  BY DEF MapsHeld
<1>2. q \in Procs /\ q # p BY DEF Holding
<1>3. q \in Holding(at) /\ at'[q] = at[q] /\ mem'[q] = mem[q] /\ Op(q)' = Op(q) BY <1>1, <1>2 DEF Holding
<1>4. Held(q) BY <1>3 DEF Logins, MapsHeld
<1> QED BY <1>3, <1>4 DEF Held

\* After a save that was cut off nothing is claimed of the logins.
LEMMA CutKeeps == ASSUME cut' PROVE StoreIntended' /\ Apart' /\ Newest' /\ Unspent'
BY DEF Clean, StoreIntended, Apart, Newest, Unspent

\* A step that takes no part in the logins.
Aside(p) == Steady(p) /\ UNCHANGED <<store, backend, cut>> /\ at[p] # "credWrite"
            /\ at'[p] \notin {"refresh", "credOpen", "credWrite"}

LEMMA AsideKeeps ==
  ASSUME Typed, Logins, NEW p \in Procs, Alone(p), Aside(p), Watched
  PROVE  Logins'
<1>1. Sole' /\ (~overlap' => ~overlap) BY SoleAfter DEF Typed, Watched
<1>2. /\ UNCHANGED <<store, backend, cut, intended>> /\ at[p] # "credWrite"
      /\ at'[p] \notin {"refresh", "credOpen", "credWrite"} /\ (Clean' => Clean)
  BY DEF Aside, Steady
<1>3. Apart' /\ Newest' /\ Unspent' BY SteadyKeeps DEF Aside
<1>4. StoreIntended' BY <1>2, StoreKeeps
<1>5. MapsHeld' BY <1>1, <1>2, HeldKeeps
<1> QED BY <1>1, <1>3, <1>4, <1>5 DEF Logins

-----------------------------------------------------------------------------
(* The steps that take no part.                                            *)

\* The files, the credentials and the servers' sessions are as they were.
Undisturbed ==
  /\ UNCHANGED <<store, backend, rotates, intended, cut, respent>>
  /\ \A s \in DOMAIN sessions : newest'[s] = newest[s]

LEMMA UndisturbedIs ==
  ASSUME Watched, UNCHANGED <<store, idpVars, histVars>> PROVE Undisturbed
BY DEF Watched, envVars, idpVars, histVars, Undisturbed

LEMMA UndisturbedClean == ASSUME Undisturbed, Watched PROVE Clean' => Clean
BY DEF Undisturbed, Watched, Clean

\* The next call starts without a credential.
LEMMA EndsQuietly ==
  ASSUME Typed, NEW p \in Procs, at[p] \notin Stopped, NEW a, Ends(p, a)
  PROVE  /\ at'[p] \notin {"profile", "refresh", "credOpen", "credWrite", "crashed"}
         /\ ~Pending(p)' /\ ~Renewed(p)' /\ todo'[p] # todo[p]
<1>1. Tail(todo[p]) \in Seq(Calls) /\ todo[p] \in Seq(Calls) /\ todo[p] # <<>> /\ apiToken \in BOOLEAN
  BY AtWork DEF Typed, RunTyped
<1>2. at'[p] = StartOf(Tail(todo[p]), apiToken) /\ todo'[p] = Tail(todo[p])
  BY DEF Ends, Typed, CallsTyped
<1>3. at'[p] \notin {"profile", "refresh", "credOpen"} BY <1>1, <1>2, Starting
<1>4. at'[p] # "credWrite" BY <1>1, <1>2, Starting
<1>5. at'[p] = "credLoad" => Head(todo'[p]).op = "token" BY <1>1, <1>2, Starting
<1>6. at'[p] # "crashed"
  <2>1. Tail(todo[p]) # <<>> => Head(Tail(todo[p])) \in Calls BY <1>1
  <2>2. Tail(todo[p]) # <<>> => Head(Tail(todo[p])).op \in Ops BY <2>1, CallFields
  <2> QED BY <1>2, <2>2 DEF StartOf, Ops
<1>7. todo'[p] # todo[p]
  <2>1. Len(Tail(todo[p])) # Len(todo[p]) BY <1>1
  <2> QED BY <1>2, <2>1
<1> QED BY <1>3, <1>4, <1>5, <1>6, <1>7 DEF Pending, Renewed, Op, Call

LEMMA EndsAside ==
  ASSUME Typed, NEW p \in Procs, at[p] \notin Stopped, at[p] # "credWrite", ~Renewed(p), Watched, Undisturbed,
         NEW a, Ends(p, a)
  PROVE  Aside(p)
<1>1. /\ at'[p] \notin {"profile", "refresh", "credOpen", "credWrite", "crashed"}
      /\ ~Pending(p)' /\ ~Renewed(p)'
  BY EndsQuietly
<1> QED BY <1>1, UndisturbedClean DEF Aside, Steady, Undisturbed

LEMMA GoesAside ==
  ASSUME Typed, NEW p \in Procs, at[p] # "credWrite", ~Renewed(p), Watched, Undisturbed,
         NEW label, NEW m, GoTo(p, label, m), label \notin {"refresh", "credOpen", "credWrite"},
         \/ label \notin {"profile", "credLoad"} \/ Op(p) \notin {"login", "configure"}
         \/ Pending(p) /\ m.entry = mem[p].entry
  PROVE  Aside(p)
<1>1. at'[p] = label /\ mem'[p] = m /\ Op(p)' = Op(p)
  BY DEF GoTo, Typed, CallsTyped, Op, Call
<1>2. ~Renewed(p)' BY <1>1 DEF Renewed
<1>3. Pending(p)' => Pending(p) /\ mem'[p].entry = mem[p].entry BY <1>1 DEF Pending
<1> QED BY <1>1, <1>2, <1>3, UndisturbedClean DEF Aside, Steady, Undisturbed

LEMMA QuietAside ==
  ASSUME Typed, NEW p \in Procs, Watched,
         Select(p) \/ Refused(p) \/ SelectLogout(p) \/ Probe(p) \/ Owner(p) \/ ApiEnv(p) \/ Profile(p)
         \/ ConfLoad(p) \/ ConfOpen(p) \/ ConfWrite(p)
  PROVE  Aside(p)
<1>1. UNCHANGED <<store, idpVars, histVars>>
  BY DEF Select, Refused, SelectLogout, Probe, Owner, ApiEnv, Profile, ConfLoad, ConfOpen, ConfWrite, CannotLogIn
<1>2. Undisturbed BY <1>1, UndisturbedIs
<1>3. /\ at[p] \notin Stopped /\ at[p] \notin {"refresh", "credOpen", "credWrite", "credLoad", "clear"}
      /\ at[p] \in {"select", "asked", "profile", "probe", "owner", "apiEnv", "confLoad", "confOpen", "confWrite"}
  BY DEF Select, Refused, SelectLogout, Probe, Owner, ApiEnv, Profile, ConfLoad, ConfOpen, ConfWrite, CannotLogIn, Stopped
<1>4. at[p] # "credWrite" /\ ~Renewed(p) BY <1>3 DEF Renewed
<1>5. ASSUME NEW a, Ends(p, a) PROVE Aside(p) BY <1>2, <1>3, <1>4, <1>5, EndsAside
<1>6. Fails(p) => Aside(p) BY <1>5 DEF Fails
<1>7. Done(p) => Aside(p) BY <1>5 DEF Done
<1>8. \A e : HandOut(p, e) => Aside(p) BY <1>5 DEF HandOut
<1>9. ASSUME NEW label, NEW m, GoTo(p, label, m),
             label \in {"asked", "apiExchange", "confLoad", "confOpen", "confWrite", "select"}
      PROVE  Aside(p)
  BY <1>2, <1>4, <1>9, GoesAside
<1>10. ASSUME NEW label, NEW m, GoTo(p, label, m), label = "credLoad", Op(p) \in {"logout", "get", "remove"}
       PROVE  Aside(p)
  BY <1>2, <1>4, <1>10, GoesAside
<1>11. CASE Select(p) BY <1>6, <1>9, <1>11 DEF Select, Bind
<1>12. CASE Refused(p) BY <1>6, <1>12 DEF Refused
<1>13. CASE SelectLogout(p) BY <1>6, <1>10, <1>13 DEF SelectLogout
<1>14. CASE Owner(p)
  <2>1. Op(p) = "get" BY <1>3, <1>14, AtWork DEF Owner, ComesTo
  <2> QED BY <1>6, <1>7, <1>10, <1>14, <2>1 DEF Owner
<1>15. CASE ApiEnv(p) BY <1>6, <1>8, <1>9, <1>15 DEF ApiEnv
<1>16. CASE Profile(p)
  <2>1. at[p] = "profile" /\ Op(p) \in {"login", "configure"} BY <1>3, <1>16, AtWork DEF Profile, ComesTo
  <2>2. Pending(p) BY <2>1 DEF Pending
  <2>3. mem[p] \in Memory(sessions) BY <1>3, AtWork
  <2>4. ASSUME NEW n, GoTo(p, "credLoad", [mem[p] EXCEPT !.profile = n]) PROVE Aside(p)
    <3> DEFINE m == [mem[p] EXCEPT !.profile = n]
    <3>1. m.entry = mem[p].entry BY <2>3 DEF Memory
    <3>2. GoTo(p, "credLoad", m) BY <2>4
    <3> HIDE DEF m
    <3> QED BY <1>2, <1>4, <2>2, <3>1, <3>2, GoesAside
  <2> QED BY <1>6, <1>16, <2>4 DEF Profile
<1>17. CASE ConfLoad(p) BY <1>6, <1>9, <1>17 DEF ConfLoad
<1>18. CASE ConfOpen(p) BY <1>9, <1>18 DEF ConfOpen
<1>19. CASE ConfWrite(p)
  <2>1. \/ Fails(p) \/ Done(p) \/ GoTo(p, "select", mem[p])
        \/ Op(p) = "remove" /\ GoTo(p, "credLoad", [mem[p] EXCEPT !.profile = Call(p).name])
    BY <1>19 DEF ConfWrite, CannotLogIn
  <2> QED BY <1>6, <1>7, <1>9, <1>10, <2>1
<1>20. CASE Probe(p)
  <2>1. CASE /\ UNCHANGED <<at, mem, answer>> /\ at[p] = "probe"
    <3>1. at'[p] = "probe" /\ mem'[p] = mem[p] BY <2>1
    <3>2. ~Pending(p)' /\ ~Renewed(p)' BY <3>1 DEF Pending, Renewed
    <3> QED BY <1>1, <1>2, <1>4, <3>1, <3>2, UndisturbedClean DEF Aside, Steady, Undisturbed
  <2>2. Fails(p) \/ (\E m : GoTo(p, "confLoad", m)) \/ (UNCHANGED <<at, mem, answer>> /\ at[p] = "probe")
    BY <1>20 DEF Probe
  <2> QED BY <1>6, <1>9, <2>1, <2>2
<1> QED BY <1>11, <1>12, <1>13, <1>14, <1>15, <1>16, <1>17, <1>18, <1>19, <1>20

\* The exchange of the API token opens a session of its own, which is not stored.
LEMMA ApiExchangeAside ==
  ASSUME Typed, NEW p \in Procs, Watched, ApiExchange(p)
  PROVE  Aside(p)
<1>1. at[p] \notin Stopped /\ at[p] # "credWrite" /\ ~Renewed(p) BY DEF ApiExchange, Stopped, Renewed
<1>2. UNCHANGED <<store, histVars>> BY DEF ApiExchange
<1>3. \A s \in DOMAIN sessions : newest'[s] = newest[s]
  <2>1. DOMAIN newest = DOMAIN sessions /\ newest \in Seq(1..MaxTokens) BY DEF Typed, ServersTyped
  <2>2. CASE newest' = newest BY <2>2
  <2>3. CASE newest' = Append(newest, 1) BY <2>1, <2>3
  <2> QED BY <2>2, <2>3 DEF ApiExchange, NewSession, idpVars
<1>4. Undisturbed BY <1>2, <1>3 DEF Undisturbed, Watched, envVars, histVars
<1>5. PICK a : Ends(p, a) BY DEF ApiExchange, HandOut, Fails
<1> QED BY <1>1, <1>4, <1>5, EndsAside

\* So does a login's, for its profile, which has a session of its own then.
LEMMA AnsweredLogins ==
  ASSUME Typed, Logins, NEW p \in Procs, Alone(p), Watched, Answered(p)
  PROVE  Logins'
<1>1. at[p] = "asked" /\ at[p] \notin Stopped /\ at[p] # "credWrite" /\ ~Renewed(p) BY DEF Answered, CodeExchange, Stopped, Renewed
<1>2. UNCHANGED <<store, histVars>> BY DEF Answered, CodeExchange
<1>3. PICK endpoint, pinned, label :
        /\ label \in {"profile", "credLoad"}
        /\ NewSession(mem[p].sel, endpoint)
        /\ GoTo(p, label, [mem[p] EXCEPT !.entry = FirstEntry(endpoint), !.profile = pinned])
  <2> DEFINE endpoint == WaitsForBrowser(p) /\ mem[p].sel.hosts # {}
             pinned == IF Op(p) = "configure" THEN Call(p).name ELSE Call(p).profile
             label == IF pinned = "" THEN "profile" ELSE "credLoad"
  <2>1. /\ NewSession(mem[p].sel, endpoint)
        /\ GoTo(p, label, [mem[p] EXCEPT !.entry = FirstEntry(endpoint), !.profile = pinned])
    BY DEF Answered, CodeExchange
  <2>2. label \in {"profile", "credLoad"} OBVIOUS
  <2> HIDE DEF endpoint, pinned, label
  <2> QED BY <2>1, <2>2
<1>4. mem[p] \in Memory(sessions) /\ Op(p) \in {"login", "configure"} BY <1>1, AtWork DEF ComesTo
<1> DEFINE e == FirstEntry(endpoint)
           new == Len(sessions) + 1
<1>5. /\ newest' = Append(newest, 1) /\ Len(newest) = Len(sessions) /\ Len(sessions) \in Nat
      /\ DOMAIN sessions = 1..Len(sessions) /\ newest \in Seq(1..MaxTokens)
  BY <1>3 DEF NewSession, Typed, ServersTyped
<1>6. newest'[new] = 1 /\ \A s \in DOMAIN sessions : newest'[s] = newest[s] BY <1>5
<1>7. e.session = new /\ (e.refresh # 0 => e.refresh = 1) /\ e # NoEntry
  <2>1. e.session = new /\ (e.refresh # 0 => e.refresh = 1) BY DEF FirstEntry
  <2>2. NoEntry.session = 0 BY DEF NoEntry
  <2> HIDE DEF e
  <2> QED BY <1>5, <2>1, <2>2
<1>8. /\ at'[p] = label /\ mem'[p].entry = e /\ Op(p)' = Op(p)
      /\ label \in {"profile", "credLoad"}
  <2> DEFINE m == [mem[p] EXCEPT !.entry = e, !.profile = pinned]
  <2>1. m.entry = e BY <1>4 DEF Memory
  <2> HIDE DEF m, e
  <2>2. GoTo(p, label, m) BY <1>3 DEF m, e
  <2>3. at'[p] = label /\ mem'[p] = m /\ todo'[p] = todo[p] BY <2>2, GoingAlone DEF Typed
  <2> QED BY <1>3, <2>1, <2>3 DEF Op, Call
<1> HIDE DEF e
\* Everything that is there is of an older session.
<1>9. \A k \in Kept(sessions) : k.session < new /\ (k # NoEntry => k.session \in DOMAIN sessions)
  <2> TAKE k \in Kept(sessions)
  <2>1. k # NoEntry => k.session \in DOMAIN sessions BY KeptIs
  <2>2. NoEntry.session = 0 BY DEF NoEntry
  <2> QED BY <1>5, <2>1, <2>2
<1>10. intended \in [Profiles -> Kept(sessions)] /\ \A q \in Procs : mem[q].entry \in Kept(sessions)
  BY DEF Typed, RestTyped, CallsTyped, Memory
<1>11. \A q \in Procs \ {p} :
         /\ at'[q] = at[q] /\ mem'[q] = mem[q] /\ (Pending(q)' <=> Pending(q)) /\ (Renewed(q)' <=> Renewed(q))
  BY Untouched
<1>12. ~Renewed(p)' BY <1>8 DEF Renewed
<1>13. /\ UNCHANGED <<store, backend, intended, cut, respent, rotates>> /\ (~overlap' => ~overlap) /\ Sole'
  BY <1>2, SoleAfter DEF histVars, envVars, Watched, Typed
<1>14. Clean' => Clean BY <1>13 DEF Clean
<1>15. StoreIntended' BY <1>1, <1>8, <1>13, <1>14, StoreKeeps
<1>16. MapsHeld' BY <1>8, <1>13, HeldKeeps
<1>17. Apart'
  <2> SUFFICES ASSUME Clean' PROVE Apart' BY DEF Apart
  <2>1. Apart /\ Clean BY <1>14 DEF Logins
  <2>2. \A n, m \in Profiles : intended'[n] # NoEntry /\ intended'[n].session = intended'[m].session => n = m
    BY <1>13, <2>1 DEF Apart
  <2>3. ASSUME NEW q \in Procs, Pending(q)'
        PROVE  mem'[q].entry # NoEntry /\ \A n \in Profiles : intended'[n].session # mem'[q].entry.session
    <3>1. CASE q = p
      <4>1. \A n \in Profiles : intended[n].session < new BY <1>9, <1>10
      <4>2. \A n \in Profiles : intended[n].session \in Nat BY <1>5, <1>9, <1>10, KeptIs, Constants DEF Entry
      <4> QED BY <1>5, <1>7, <1>8, <1>13, <3>1, <4>1, <4>2
    <3>2. CASE q # p BY <1>11, <1>13, <2>1, <2>3, <3>2 DEF Apart
    <3> QED BY <3>1, <3>2
  <2>4. ASSUME NEW q \in Procs, NEW r \in Procs, Pending(q)', Pending(r)', mem'[q].entry.session = mem'[r].entry.session
        PROVE  q = r
    <3>1. \A k \in Procs \ {p} : mem'[k].entry.session < new /\ mem'[k].entry.session \in Nat
      BY <1>5, <1>9, <1>10, <1>11, KeptIs, Constants DEF Entry
    <3>2. mem'[p].entry.session = new /\ new \in Nat BY <1>5, <1>7, <1>8
    <3>3. q = p <=> r = p BY <2>4, <3>1, <3>2
    <3>4. CASE q # p /\ r # p BY <1>11, <2>1, <2>4, <3>4 DEF Apart
    <3> QED BY <3>3, <3>4
  <2>5. \A q \in Procs : Renewed(q)' => intended'[mem'[q].profile].session = mem'[q].entry.session
    BY <1>11, <1>12, <1>13, <2>1 DEF Apart
  <2> QED BY <2>2, <2>3, <2>4, <2>5 DEF Apart
<1>18. Newest'
  <2> SUFFICES ASSUME Clean', rotates' PROVE Newest' BY DEF Newest
  <2>1. Newest /\ Clean /\ rotates BY <1>13, <1>14 DEF Logins
  <2>2. ASSUME NEW k \in Kept(sessions), k.refresh # 0 PROVE newest'[k.session] = newest[k.session]
    BY <1>6, <2>2, KeptIs
  <2>3. ASSUME NEW n \in Profiles, intended'[n].refresh # 0, \A q \in Procs : Renewed(q)' => mem'[q].profile # n
        PROVE  intended'[n].refresh = newest'[intended'[n].session]
    <3>1. \A q \in Procs : Renewed(q) => mem[q].profile # n BY <1>1, <1>11, <2>3
    <3>2. intended[n].refresh = newest[intended[n].session] BY <1>13, <2>1, <2>3, <3>1 DEF Newest
    <3> QED BY <1>10, <1>13, <2>2, <2>3, <3>2
  <2>4. ASSUME NEW q \in Procs, Pending(q)' \/ Renewed(q)', mem'[q].entry.refresh # 0
        PROVE  mem'[q].entry.refresh = newest'[mem'[q].entry.session]
    <3>1. CASE q = p BY <1>6, <1>7, <1>8, <2>4, <3>1
    <3>2. CASE q # p
      <4>1. (Pending(q) \/ Renewed(q)) /\ mem'[q] = mem[q] BY <1>11, <2>4, <3>2
      <4>2. mem[q].entry.refresh = newest[mem[q].entry.session] BY <2>1, <2>4, <4>1 DEF Newest
      <4> QED BY <1>10, <2>2, <2>4, <4>1, <4>2
    <3> QED BY <3>1, <3>2
  <2> QED BY <2>3, <2>4 DEF Newest
<1>19. Unspent' BY <1>13, <1>14 DEF Logins, Unspent
<1> QED BY <1>13, <1>15, <1>16, <1>17, <1>18, <1>19 DEF Logins

-----------------------------------------------------------------------------
(* The steps of those who hold the map.                                    *)

\* A call that starts to hold the map, without another that does, holds what is
\* stored: only one that writes it leaves it unreadable.
LEMMA LoadsTheStore ==
  ASSUME Typed, Logins, NEW p \in Procs, Alone(p), Watched, at[p] # "credWrite", p \in Holding(at'),
         ~overlap', ~cut \/ backend = "keyring"
  PROVE  Loaded = store.map /\ \A q \in Holding(at') : q = p
<1>1. ~overlap /\ \A q \in Holding(at') : q = p BY Solo DEF Typed
<1>2. ~store.torn
  <2>1. CASE backend = "keyring" BY <2>1 DEF Typed, FilesTyped
  <2>2. CASE ~cut
    <3>1. store.torn => Writes BY <1>1, <2>2 DEF Logins, StoreIntended, Clean
    <3>2. ASSUME Writes PROVE FALSE
      <4>1. PICK q \in Procs : at[q] = "credWrite" BY <3>2 DEF Writes
      <4>2. q # p /\ at'[q] = at[q] BY <4>1, Untouched
      <4>3. q \in Holding(at') BY <4>1, <4>2 DEF Holding
      <4> QED BY <1>1, <4>2, <4>3
    <3> QED BY <3>1, <3>2
  <2> QED BY <2>1, <2>2
<1> QED BY <1>1, <1>2 DEF Loaded

LEMMA CredLoadLogins ==
  ASSUME Typed, Logins, NEW p \in Procs, Alone(p), Watched, CredLoad(p)
  PROVE  Logins'
<1>1. at[p] = "credLoad" /\ at[p] \notin Stopped /\ at[p] # "credWrite" /\ ~Renewed(p) BY DEF CredLoad, Stopped, Renewed
<1>2. UNCHANGED <<store, idpVars, histVars>> BY DEF CredLoad
<1>3. Undisturbed BY <1>2, UndisturbedIs
<1>4. ASSUME NEW a, Ends(p, a) PROVE Logins'
  <2>1. Aside(p) BY <1>1, <1>3, <1>4, EndsAside
  <2> QED BY <2>1, AsideKeeps
<1>5. Fails(p) => Logins' BY <1>4 DEF Fails
<1>6. Done(p) => Logins' BY <1>4 DEF Done
<1>7. \A e : HandOut(p, e) => Logins' BY <1>4 DEF HandOut
<1>8. Sole' /\ (~overlap' => ~overlap) /\ UNCHANGED <<store, backend, cut, intended, respent, rotates>>
  BY <1>3, SoleAfter DEF Typed, Watched, Undisturbed
<1>9. Clean' => Clean BY <1>3, UndisturbedClean
<1>10. mem[p] \in Memory(sessions) /\ Loaded \in [Profiles -> Kept(sessions)]
       /\ (Op(p) # "logoutAll" => mem[p].profile \in Profiles)
  BY <1>1, AtWork, LoadedTyped DEF FitsAt
<1>11. CASE Op(p) \in {"token", "get"} /\ GoTo(p, "refresh", [mem[p] EXCEPT !.entry = Loaded[mem[p].profile], !.map = Loaded])
  <2> DEFINE m == [mem[p] EXCEPT !.entry = Loaded[mem[p].profile], !.map = Loaded]
  <2>1. m.entry = Loaded[m.profile] /\ m.map = Loaded BY <1>10 DEF Memory
  <2> HIDE DEF m
  <2>2. at'[p] = "refresh" /\ mem'[p] = m BY <1>11, GoingAlone DEF m, Typed
  <2>3. ~Pending(p)' /\ ~Renewed(p)' BY <2>2 DEF Pending, Renewed
  <2>4. Apart' /\ Newest' /\ Unspent'
    <3>1. Steady(p) BY <1>1, <1>3, <1>9, <2>3 DEF Steady, Undisturbed
    <3> QED BY <3>1, SteadyKeeps
  <2>5. StoreIntended' BY <1>1, <1>8, <1>9, <2>2, StoreKeeps
  <2>6. MapsHeld'
    <3> SUFFICES ASSUME ~overlap', ~cut' \/ backend' = "keyring", NEW q \in Holding(at') PROVE Held(q)'
      BY DEF MapsHeld
    <3>1. p \in Holding(at') BY <2>2 DEF Holding
    <3>2. Loaded = store.map /\ q = p BY <1>1, <1>8, <3>1, LoadsTheStore
    <3> QED BY <1>8, <2>1, <2>2, <3>2 DEF Held
  <2> QED BY <1>8, <2>4, <2>5, <2>6 DEF Logins
<1>12. CASE /\ Op(p) \in {"login", "configure", "logout", "remove"}
            /\ GoTo(p, "credOpen", [mem[p] EXCEPT !.map = [Loaded EXCEPT ![mem[p].profile] = mem[p].entry]])
  <2> DEFINE m == [mem[p] EXCEPT !.map = [Loaded EXCEPT ![mem[p].profile] = mem[p].entry]]
  <2>1. m.map = [Loaded EXCEPT ![m.profile] = m.entry] /\ m.entry = mem[p].entry BY <1>10 DEF Memory
  <2> HIDE DEF m
  <2>2. at'[p] = "credOpen" /\ mem'[p] = m /\ Op(p)' = Op(p)
    BY <1>12, GoingAlone DEF m, Typed, Op, Call
  <2>3. ~Renewed(p)' BY <1>12, <2>2 DEF Renewed
  <2>4. Pending(p)' => Pending(p) BY <1>1, <2>2 DEF Pending
  <2>5. Apart' /\ Newest' /\ Unspent'
    <3>1. Steady(p) BY <1>1, <1>3, <1>9, <2>1, <2>2, <2>3, <2>4 DEF Steady, Undisturbed
    <3> QED BY <3>1, SteadyKeeps
  <2>6. StoreIntended' BY <1>1, <1>8, <1>9, <2>2, StoreKeeps
  <2>7. MapsHeld'
    <3> SUFFICES ASSUME ~overlap', ~cut' \/ backend' = "keyring", NEW q \in Holding(at') PROVE Held(q)'
      BY DEF MapsHeld
    <3>1. p \in Holding(at') BY <2>2 DEF Holding
    <3>2. Loaded = store.map /\ q = p BY <1>1, <1>8, <3>1, LoadsTheStore
    <3> QED BY <1>8, <2>1, <2>2, <3>2 DEF Held
  <2> QED BY <1>8, <2>5, <2>6, <2>7 DEF Logins
<1> QED BY <1>5, <1>6, <1>7, <1>11, <1>12 DEF CredLoad, Serves

\* One call alone holds the map.
LEMMA HoldsAlone ==
  ASSUME Logins, ~overlap, NEW p \in Holding(at), NEW q \in Procs, q # p
  PROVE  at[q] \notin {"refresh", "credOpen", "credWrite"} /\ ~Renewed(q)
BY DEF Logins, Sole, Holding, Renewed

\* What a call refreshes is what is stored, and its refresh token the newest.
LEMMA RefreshesTheStored ==
  ASSUME Typed, Logins, Clean, NEW p \in Procs, at[p] = "refresh"
  PROVE  /\ mem[p].profile \in Profiles /\ mem[p].entry = intended[mem[p].profile] /\ mem[p].entry.refresh # 0
         /\ rotates => mem[p].entry.refresh = newest[mem[p].entry.session]
<1>1. p \in Holding(at) /\ ~overlap /\ ~cut BY DEF Holding, Clean
<1>2. Held(p) BY <1>1 DEF Logins, MapsHeld
<1>3. mem[p].entry = intended[mem[p].profile] BY <1>2 DEF Held, Logins, StoreIntended
<1>4. at[p] \notin Stopped BY DEF Stopped
<1>5. mem[p].profile \in Profiles /\ mem[p].entry.refresh # 0
  BY <1>4, AtWork DEF FitsAt, ComesTo
<1>6. ASSUME NEW q \in Procs PROVE ~Renewed(q)
  <2>1. CASE q = p BY <2>1 DEF Renewed
  <2>2. CASE q # p BY <1>1, <2>2, HoldsAlone
  <2> QED BY <2>1, <2>2
<1>7. rotates => mem[p].entry.refresh = newest[mem[p].entry.session]
  BY <1>3, <1>5, <1>6 DEF Logins, Newest
<1> QED BY <1>3, <1>5, <1>7

\* How a refresh goes.
Refreshed(p, m, fresh) ==
  /\ mem[p].entry.session \in DOMAIN newest /\ newest' = [newest EXCEPT ![mem[p].entry.session] = @ + 1]
  /\ respent' = respent /\ cut' = cut /\ GoTo(p, "credOpen", m)
  /\ fresh.session = mem[p].entry.session /\ fresh.refresh # 0
  /\ rotates => fresh.refresh = newest'[mem[p].entry.session]
  /\ m.entry = fresh /\ m.profile = mem[p].profile /\ m.map = [mem[p].map EXCEPT ![mem[p].profile] = fresh]
  /\ m.sel = mem[p].sel /\ m.list = mem[p].list

LEMMA RefreshIs ==
  ASSUME Typed, NEW p \in Procs, Refresh(p)
  PROVE  \/ /\ \E a : Ends(p, a)
            /\ \/ /\ respent' = (respent \/ (rotates /\ mem[p].entry.refresh # newest[mem[p].entry.session]))
                  /\ UNCHANGED <<newest, cut>>
               \/ cut'
         \/ \E m, fresh : Refreshed(p, m, fresh)
<1> DEFINE e == mem[p].entry
           stale == rotates /\ e.refresh # newest[e.session]
           fresh(hasId) == [e EXCEPT !.token = newest[e.session] + 1, !.id = Bearer(e.prefer, hasId) = "id",
                              !.refresh = Merged(@, IF rotates THEN newest[e.session] + 1 ELSE 0)]
           m(hasId) == [mem[p] EXCEPT !.entry = fresh(hasId), !.map = [@ EXCEPT ![mem[p].profile] = fresh(hasId)]]
<1>1. at[p] \notin Stopped /\ at[p] = "refresh" BY DEF Refresh, Stopped
<1>2. mem[p] \in Memory(sessions) /\ e.refresh # 0 BY <1>1, AtWork DEF FitsAt
<1>3. e \in Kept(sessions) BY <1>2 DEF Memory
<1>4. e \in Entry /\ e.session \in DOMAIN sessions BY <1>2, <1>3, KeptIs
<1>5. /\ DOMAIN newest = DOMAIN sessions /\ newest \in Seq(1..MaxTokens) /\ MaxTokens \in Nat
  BY Constants DEF Typed, ServersTyped
<1>6. e.session \in DOMAIN newest /\ newest[e.session] \in Nat BY <1>4, <1>5
<1>7. \/ (Fails(p) \/ Done(p)) /\ respent' = (respent \/ stale) /\ UNCHANGED <<idpVars, cut>>
      \/ /\ newest' = [newest EXCEPT ![e.session] = @ + 1] /\ respent' = respent
         /\ \/ (Fails(p) \/ Done(p)) /\ cut' = TRUE
            \/ \E hasId \in BOOLEAN : cut' = cut /\ GoTo(p, "credOpen", m(hasId))
  BY DEF Refresh
<1>8. Fails(p) \/ Done(p) => \E a : Ends(p, a) BY DEF Fails, Done
<1>9. ASSUME newest' = [newest EXCEPT ![e.session] = @ + 1], respent' = respent, cut' = cut,
             NEW hasId \in BOOLEAN, GoTo(p, "credOpen", m(hasId))
      PROVE  \E n, f : Refreshed(p, n, f)
  <2> DEFINE f == fresh(hasId)  n == m(hasId)
             r == Merged(e.refresh, IF rotates THEN newest[e.session] + 1 ELSE 0)
  <2>1. r # 0 /\ (rotates => r = newest[e.session] + 1) BY <1>2, <1>6 DEF Merged
  <2>2. f.session = e.session /\ f.refresh = r BY <1>4 DEF Entry
  <2>3. /\ n.entry = f /\ n.profile = mem[p].profile /\ n.map = [mem[p].map EXCEPT ![mem[p].profile] = f]
        /\ n.sel = mem[p].sel /\ n.list = mem[p].list
    BY <1>2 DEF Memory
  <2>4. newest'[e.session] = newest[e.session] + 1 BY <1>6, <1>9
  <2>5. GoTo(p, "credOpen", n) BY <1>9
  <2> HIDE DEF f, n, r
  <2>6. Refreshed(p, n, f) BY <1>6, <1>9, <2>1, <2>2, <2>3, <2>4, <2>5 DEF Refreshed
  <2> QED BY <2>6
<1>10. ASSUME (Fails(p) \/ Done(p)) /\ respent' = (respent \/ stale) /\ UNCHANGED <<idpVars, cut>>
       PROVE  (\E a : Ends(p, a)) /\ respent' = (respent \/ stale) /\ UNCHANGED <<newest, cut>>
  BY <1>8, <1>10 DEF idpVars
<1> HIDE DEF m, fresh
<1> QED BY <1>7, <1>8, <1>9, <1>10

LEMMA RefreshLogins ==
  ASSUME Typed, Logins, NEW p \in Procs, Alone(p), Watched, Refresh(p)
  PROVE  Logins'
<1>1. at[p] = "refresh" /\ at[p] \notin Stopped /\ at[p] # "credWrite" /\ ~Renewed(p) /\ ~Pending(p)
      /\ p \in Holding(at)
  BY DEF Refresh, Stopped, Renewed, Pending, Holding
<1>2. UNCHANGED <<store, intended, backend, rotates>> BY DEF Refresh, Watched, envVars
<1>3. Sole' /\ (~overlap' => ~overlap) BY SoleAfter DEF Typed, Watched
<1>4. ASSUME NEW a, Ends(p, a), \/ /\ respent' = (respent \/ (rotates /\ mem[p].entry.refresh # newest[mem[p].entry.session]))
                                   /\ UNCHANGED <<newest, cut>>
                                \/ cut'
      PROVE  Logins'
  <2>1. at'[p] \notin {"refresh", "credOpen", "credWrite"} /\ ~Pending(p)' /\ ~Renewed(p)' BY <1>1, <1>4, EndsQuietly
  <2>2. CASE cut'
    <3>1. MapsHeld' BY <1>2, <1>3, <2>1, <2>2, HeldKeeps
    <3> QED BY <1>3, <2>2, <3>1, CutKeeps DEF Logins
  <2>3. CASE /\ respent' = (respent \/ (rotates /\ mem[p].entry.refresh # newest[mem[p].entry.session]))
             /\ UNCHANGED <<newest, cut>>
    <3>1. Clean' => Clean BY <1>3, <2>3 DEF Clean
    <3>2. Clean' => respent' = respent
      <4>1. Clean' => (rotates => mem[p].entry.refresh = newest[mem[p].entry.session])
        BY <1>1, <3>1, RefreshesTheStored
      <4>2. respent \in BOOLEAN BY DEF Typed, RestTyped
      <4> QED BY <2>3, <4>1, <4>2
    <3>3. Steady(p) BY <1>1, <1>2, <2>1, <2>3, <3>1, <3>2 DEF Steady
    <3>4. Aside(p) BY <1>1, <1>2, <2>1, <2>3, <3>3 DEF Aside
    <3> QED BY <3>4, AsideKeeps
  <2> QED BY <1>4, <2>2, <2>3
<1>5. ASSUME NEW m, NEW fresh, Refreshed(p, m, fresh) PROVE Logins'
  <2> DEFINE e == mem[p].entry  n == mem[p].profile
  <2>1. /\ e.session \in DOMAIN newest /\ newest' = [newest EXCEPT ![e.session] = @ + 1]
        /\ respent' = respent /\ cut' = cut /\ GoTo(p, "credOpen", m)
        /\ fresh.session = e.session /\ fresh.refresh # 0
        /\ rotates => fresh.refresh = newest'[e.session]
        /\ m.entry = fresh /\ m.profile = n /\ m.map = [mem[p].map EXCEPT ![n] = fresh]
    BY <1>5 DEF Refreshed
  <2>2. at'[p] = "credOpen" /\ mem'[p] = m /\ Op(p)' = Op(p) /\ Op(p) \in {"token", "get"}
    BY <1>1, <2>1, GoingAlone, AtWork DEF Typed, Op, Call, ComesTo
  <2>3. ~Pending(p)' /\ Renewed(p)' BY <2>2 DEF Pending, Renewed
  <2>4. Clean' => Clean BY <1>3, <2>1 DEF Clean
  <2>5. \A q \in Procs \ {p} : /\ at'[q] = at[q] /\ mem'[q] = mem[q]
                               /\ (Pending(q)' <=> Pending(q)) /\ (Renewed(q)' <=> Renewed(q))
    BY Untouched
  <2>6. Clean => \A q \in Procs \ {p} : ~Renewed(q) BY <1>1, HoldsAlone DEF Clean
  <2>7. Clean => n \in Profiles /\ e = intended[n] /\ e.refresh # 0 BY <1>1, RefreshesTheStored
  <2>8. StoreIntended' BY <1>1, <1>2, <2>2, <2>4, StoreKeeps
  <2>9. Unspent' BY <2>1, <2>4 DEF Logins, Unspent
  <2>10. MapsHeld'
    <3> SUFFICES ASSUME ~overlap', ~cut' \/ backend' = "keyring", NEW q \in Holding(at') PROVE Held(q)'
      BY DEF MapsHeld
    <3>1. p \in Holding(at') BY <2>2 DEF Holding
    <3>2. q = p BY <3>1, <1>3 DEF Sole
    <3>3. Held(p) BY <1>1, <1>2, <1>3, <2>1 DEF Logins, MapsHeld
    <3>4. mem[p].map = store.map BY <1>1, <3>3 DEF Held
    <3>5. m.map = [store.map EXCEPT ![m.profile] = m.entry] BY <2>1, <3>4
    <3> QED BY <1>2, <2>2, <3>2, <3>5 DEF Held
  <2>11. Apart'
    <3> SUFFICES ASSUME Clean' PROVE Apart' BY DEF Apart
    <3>1. Apart /\ Clean BY <2>4 DEF Logins
    <3>2. \A k, l \in Profiles : intended'[k] # NoEntry /\ intended'[k].session = intended'[l].session => k = l
      BY <1>2, <3>1 DEF Apart
    <3>3. \A q \in Procs : Pending(q)' => Pending(q) /\ mem'[q].entry = mem[q].entry BY <2>3, <2>5
    <3>4. \A q \in Procs : Pending(q)' => mem'[q].entry # NoEntry /\ \A k \in Profiles : intended'[k].session # mem'[q].entry.session
      BY <1>2, <3>1, <3>3 DEF Apart
    <3>5. \A q, r \in Procs : Pending(q)' /\ Pending(r)' /\ mem'[q].entry.session = mem'[r].entry.session => q = r
      BY <3>1, <3>3 DEF Apart
    <3>6. \A q \in Procs : Renewed(q)' => intended'[mem'[q].profile].session = mem'[q].entry.session
      <4> TAKE q \in Procs
      <4>1. CASE q = p
        <5>1. mem'[p].profile = n /\ mem'[p].entry.session = e.session BY <2>1, <2>2
        <5> QED BY <1>2, <2>7, <3>1, <4>1, <5>1
      <4>2. CASE q # p BY <2>5, <2>6, <3>1, <4>2
      <4> QED BY <4>1, <4>2
    <3> QED BY <3>2, <3>4, <3>5, <3>6 DEF Apart
  <2>12. Newest'
    <3> SUFFICES ASSUME Clean', rotates' PROVE Newest' BY DEF Newest
    <3>1. Newest /\ Apart /\ Clean /\ rotates BY <1>2, <2>4 DEF Logins
    <3>2. \A s : s # e.session => newest'[s] = newest[s]
      <4>1. newest \in Seq(1..MaxTokens) BY DEF Typed, ServersTyped
      <4> QED BY <2>1, <4>1
    <3>3. \A q \in Procs : ~Renewed(q)
      <4> TAKE q \in Procs
      <4> QED BY <1>1, <2>6, <3>1
    <3>4. ASSUME NEW k \in Profiles, intended'[k].refresh # 0, \A q \in Procs : Renewed(q)' => mem'[q].profile # k
          PROVE  intended'[k].refresh = newest'[intended'[k].session]
      <4>1. mem'[p].profile = n BY <2>1, <2>2
      <4>2. k # n BY <2>3, <3>4, <4>1
      <4>3. intended[k].refresh = newest[intended[k].session] BY <1>2, <3>1, <3>3, <3>4 DEF Newest
      <4>4. intended[k] # NoEntry
        <5>1. intended[k] \in Kept(sessions) BY DEF Typed, RestTyped
        <5> QED BY <1>2, <3>4, <5>1, KeptIs
      <4>5. intended[k].session # e.session BY <2>7, <3>1, <4>2, <4>4 DEF Apart
      <4> QED BY <1>2, <3>2, <4>3, <4>5
    <3>5. ASSUME NEW q \in Procs, Pending(q)' \/ Renewed(q)', mem'[q].entry.refresh # 0
          PROVE  mem'[q].entry.refresh = newest'[mem'[q].entry.session]
      <4>1. CASE q = p
        <5>1. mem'[q].entry = fresh BY <2>1, <2>2, <4>1
        <5> QED BY <2>1, <3>1, <5>1
      <4>2. CASE q # p
        <5>1. Pending(q) /\ mem'[q] = mem[q] BY <2>5, <3>3, <3>5, <4>2
        <5>2. mem[q].entry.refresh = newest[mem[q].entry.session] BY <3>1, <3>5, <5>1 DEF Newest
        <5>3. mem[q].entry.session # e.session BY <2>7, <3>1, <5>1 DEF Apart
        <5> QED BY <3>2, <5>1, <5>2, <5>3
      <4> QED BY <4>1, <4>2
    <3> QED BY <3>4, <3>5 DEF Newest
  <2> QED BY <1>3, <2>8, <2>9, <2>10, <2>11, <2>12 DEF Logins
<1> QED BY <1>4, <1>5, RefreshIs

\* A save by a call that alone holds the map: what should be stored then is what it
\* writes, and its session is apart from the others' as it was.
LEMMA SavesItsMap ==
  ASSUME Typed, Logins, Clean, NEW p \in Procs, Saved(p),
         \/ at[p] = "clear"
         \/ at[p] \in {"credOpen", "credWrite"}
  PROVE  intended' = mem[p].map
<1>1. at[p] \notin Stopped BY DEF Stopped
<1>2. CASE Op(p) = "logoutAll"
  BY <1>1, <1>2, AtWork DEF Saved
<1>3. CASE Op(p) # "logoutAll"
  <2>1. at[p] \in {"credOpen", "credWrite"} BY <1>1, <1>3, AtWork DEF ComesTo
  <2>2. p \in Holding(at) /\ ~overlap /\ ~cut BY <2>1 DEF Holding, Clean
  <2>3. Held(p) BY <2>2 DEF Logins, MapsHeld
  <2>4. mem[p].map = [intended EXCEPT ![mem[p].profile] = mem[p].entry]
    BY <1>3, <2>1, <2>3 DEF Held, Logins, StoreIntended
  <2> QED BY <1>3, <2>4 DEF Saved
<1> QED BY <1>2, <1>3

LEMMA SessionIs ==
  ASSUME NEW opened \in Seq(Session), NEW k \in Kept(opened)
  PROVE  (k # NoEntry <=> k.session # 0) /\ (k = NoEntry => k.refresh = 0)
<1>1. NoEntry.session = 0 /\ NoEntry.refresh = 0 BY DEF NoEntry
<1>2. k # NoEntry => k.session \in 1..Len(opened) BY KeptIs
<1> QED BY <1>1, <1>2

LEMMA SavedKeeps ==
  ASSUME Typed, Logins, NEW p \in Procs, Alone(p), Saved(p), at[p] \in {"clear", "credOpen", "credWrite"},
         \A q \in Procs \ {p} : at[q] \notin {"refresh", "credOpen", "credWrite"},
         UNCHANGED <<newest, rotates>>, Clean' => Clean
  PROVE  Apart' /\ Newest' /\ Unspent'
<1> DEFINE e == mem[p].entry  n == mem[p].profile
<1>1. at[p] \notin Stopped /\ sessions \in Seq(Session) BY DEF Stopped, Typed, ServersTyped
<1>2. /\ Op(p) \in Ops \ {"use"} /\ (Op(p) \in {"logout", "remove", "logoutAll"} => e = NoEntry)
      /\ (Op(p) # "logoutAll" => at[p] \in {"credOpen", "credWrite"} /\ n \in Profiles)
  <2>1. Op(p) \in Ops BY <1>1, AtWork
  <2>2. Op(p) # "use" BY <1>1, AtWork DEF ComesTo
  <2>3. Op(p) \in {"logout", "remove", "logoutAll"} => e = NoEntry BY <1>1, AtWork
  <2>4. Op(p) # "logoutAll" => at[p] \in {"credOpen", "credWrite"} BY <1>1, AtWork DEF ComesTo
  <2>5. Op(p) # "logoutAll" => n \in Profiles
    <3>1. FitsAt(todo[p], at[p], mem[p]) /\ Op(p) = Head(todo[p]).op BY <1>1, AtWork
    <3> QED BY <2>4, <3>1 DEF FitsAt
  <2> QED BY <2>1, <2>2, <2>3, <2>4, <2>5
<1>3. /\ e \in Kept(sessions) /\ intended \in [Profiles -> Kept(sessions)]
      /\ \A q \in Procs : mem[q].entry \in Kept(sessions)
  BY DEF Typed, CallsTyped, RestTyped, Memory
<1>4. e = NoEntry \/ Pending(p) \/ Renewed(p) BY <1>2 DEF Pending, Renewed, Ops
<1>5. ~Renewed(p)' /\ ~Pending(p)'
  <2>1. \/ HandOut(p, e) \/ Done(p) \/ GoTo(p, "confLoad", mem[p]) BY DEF Saved
  <2>2. ASSUME NEW a, Ends(p, a) PROVE ~Renewed(p)' /\ ~Pending(p)' BY <1>1, <2>2, EndsQuietly
  <2>3. ASSUME GoTo(p, "confLoad", mem[p]) PROVE ~Renewed(p)' /\ ~Pending(p)'
    <3>1. at'[p] = "confLoad" BY <2>3, GoingAlone DEF Typed
    <3> QED BY <3>1 DEF Renewed, Pending
  <2>4. HandOut(p, e) => ~Renewed(p)' /\ ~Pending(p)' BY <2>2 DEF HandOut
  <2>5. Done(p) => ~Renewed(p)' /\ ~Pending(p)' BY <2>2 DEF Done
  <2> QED BY <2>1, <2>3, <2>4, <2>5
<1>6. \A q \in Procs \ {p} : mem'[q] = mem[q] /\ (Pending(q)' <=> Pending(q)) /\ (Renewed(q)' <=> Renewed(q)) /\ ~Renewed(q)
  BY Untouched DEF Renewed
<1>7. \A q \in Procs : ~Renewed(q)' BY <1>5, <1>6
<1>8. \A q \in Procs : Pending(q)' => q # p /\ Pending(q) /\ mem'[q] = mem[q] BY <1>5, <1>6
<1>9. \/ Op(p) = "logoutAll" /\ intended' = Empty
      \/ Op(p) # "logoutAll" /\ n \in Profiles /\ intended' = [intended EXCEPT ![n] = e]
  BY <1>2 DEF Saved
<1>10. \A k \in Profiles : \/ intended'[k] = NoEntry
                           \/ k = n /\ intended'[k] = e /\ e # NoEntry
                           \/ k # n /\ intended'[k] = intended[k]
  BY <1>3, <1>9 DEF Empty
<1> HIDE DEF e, n
<1>11. Apart'
  <2> SUFFICES ASSUME Clean' PROVE Apart' BY DEF Apart
  <2>1. Apart BY DEF Logins
  <2>2. Clean OBVIOUS
  \* No other entry is of the session of the one that is saved.
  <2>3. ASSUME NEW k \in Profiles, k # n, e # NoEntry, n \in Profiles PROVE intended[k].session # e.session
    <3>1. CASE Pending(p) BY <2>1, <2>2, <3>1 DEF Apart, e
    <3>2. CASE Renewed(p)
      <4>1. intended[n].session = e.session BY <2>1, <2>2, <3>2 DEF Apart, e, n
      <4>2. intended[n] # NoEntry
        <5>1. intended[n] \in Kept(sessions) BY <1>3, <2>3
        <5>2. e.session # 0 BY <1>1, <1>3, <2>3, SessionIs
        <5> QED BY <1>1, <4>1, <5>1, <5>2, SessionIs
      <4> QED BY <2>1, <2>2, <2>3, <4>1, <4>2 DEF Apart
    <3> QED BY <1>4, <2>3, <3>1, <3>2
  <2>4. ASSUME NEW q \in Procs, Pending(q), q # p, e # NoEntry, n \in Profiles PROVE mem[q].entry.session # e.session
    <3>1. CASE Pending(p) BY <2>1, <2>2, <2>4, <3>1 DEF Apart, e
    <3>2. CASE Renewed(p)
      <4>1. intended[n].session = e.session BY <2>1, <2>2, <3>2 DEF Apart, e, n
      <4>2. intended[n].session # mem[q].entry.session BY <2>1, <2>2, <2>4 DEF Apart
      <4> QED BY <4>1, <4>2
    <3> QED BY <1>4, <2>4, <3>1, <3>2
  <2>5. ASSUME NEW k \in Profiles, NEW l \in Profiles, intended'[k] # NoEntry, intended'[k].session = intended'[l].session
        PROVE  k = l
    <3>1. intended[k] \in Kept(sessions) /\ intended[l] \in Kept(sessions) BY <1>3
    <3>2. intended'[l] # NoEntry
      <4>1. intended'[k].session # 0 BY <1>1, <1>3, <1>10, <2>5, <3>1, SessionIs
      <4>2. NoEntry.session = 0 BY DEF NoEntry
      <4> QED BY <2>5, <4>1, <4>2
    <3>3. CASE k = n /\ l # n
      <4>1. intended'[k] = e /\ e # NoEntry /\ intended'[l] = intended[l] BY <1>10, <2>5, <3>2, <3>3
      <4> QED BY <2>3, <2>5, <3>3, <4>1
    <3>4. CASE k # n /\ l = n
      <4>1. intended'[l] = e /\ e # NoEntry /\ intended'[k] = intended[k] BY <1>10, <2>5, <3>2, <3>4
      <4> QED BY <2>3, <2>5, <3>4, <4>1
    <3>5. CASE k # n /\ l # n
      <4>1. intended'[l] = intended[l] /\ intended'[k] = intended[k] BY <1>10, <2>5, <3>2, <3>5
      <4> QED BY <2>1, <2>2, <2>5, <4>1 DEF Apart
    <3> QED BY <3>3, <3>4, <3>5
  <2>6. ASSUME NEW q \in Procs, Pending(q)'
        PROVE  mem'[q].entry # NoEntry /\ \A k \in Profiles : intended'[k].session # mem'[q].entry.session
    <3>1. q # p /\ Pending(q) /\ mem'[q] = mem[q] BY <1>8, <2>6
    <3>2. mem[q].entry # NoEntry /\ \A k \in Profiles : intended[k].session # mem[q].entry.session
      BY <2>1, <2>2, <3>1 DEF Apart
    <3>3. ASSUME NEW k \in Profiles PROVE intended'[k].session # mem[q].entry.session
      <4>1. CASE intended'[k] = NoEntry
        <5>1. mem[q].entry.session # 0 BY <1>1, <1>3, <3>2, SessionIs
        <5> QED BY <4>1, <5>1 DEF NoEntry
      <4>2. CASE k = n /\ intended'[k] = e /\ e # NoEntry BY <2>4, <3>1, <4>2
      <4>3. CASE intended'[k] = intended[k] BY <3>2, <4>3
      <4> QED BY <1>10, <4>1, <4>2, <4>3
    <3> QED BY <3>1, <3>2, <3>3
  <2>7. \A q, r \in Procs : Pending(q)' /\ Pending(r)' /\ mem'[q].entry.session = mem'[r].entry.session => q = r
    BY <1>8, <2>1, <2>2 DEF Apart
  <2> QED BY <1>7, <2>5, <2>6, <2>7 DEF Apart
<1>12. Newest'
  <2> SUFFICES ASSUME Clean', rotates' PROVE Newest' BY DEF Newest
  <2>1. Newest /\ Clean /\ rotates BY DEF Logins
  <2>2. ASSUME NEW k \in Profiles, intended'[k].refresh # 0
        PROVE  intended'[k].refresh = newest'[intended'[k].session]
    <3>1. CASE intended'[k] = NoEntry
      <4>1. NoEntry.refresh = 0 BY DEF NoEntry
      <4> QED BY <2>2, <3>1, <4>1
    <3>2. CASE intended'[k] = e /\ e # NoEntry
      <4>1. e.refresh = newest[e.session] BY <1>4, <2>1, <2>2, <3>2 DEF Newest, e
      <4> QED BY <3>2, <4>1
    <3>3. CASE k # n /\ intended'[k] = intended[k]
      <4>1. \A q \in Procs : Renewed(q) => mem[q].profile # k
        BY <1>6, <3>3 DEF n
      <4>2. intended[k].refresh = newest[intended[k].session] BY <2>1, <2>2, <3>3, <4>1 DEF Newest
      <4> QED BY <3>3, <4>2
    <3> QED BY <1>10, <3>1, <3>2, <3>3
  <2>3. ASSUME NEW q \in Procs, Pending(q)' \/ Renewed(q)', mem'[q].entry.refresh # 0
        PROVE  mem'[q].entry.refresh = newest'[mem'[q].entry.session]
    <3>1. Pending(q) /\ mem'[q] = mem[q] BY <1>7, <1>8, <2>3
    <3> QED BY <2>1, <2>3, <3>1 DEF Newest
  <2> QED BY <2>2, <2>3 DEF Newest
<1>13. Unspent' BY DEF Saved, Logins, Unspent
<1> QED BY <1>11, <1>12, <1>13

\* Once it is saved, nobody holds the map.
LEMMA NobodyHolds ==
  ASSUME Typed, Logins, NEW p \in Procs, Alone(p), Watched, Saved(p), ~overlap',
         at[p] \in {"clear", "credOpen", "credWrite"}
  PROVE  /\ \A q \in Procs \ {p} : at[q] \notin {"refresh", "credOpen", "credWrite"}
         /\ at'[p] \notin {"refresh", "credOpen", "credWrite"}
<1>1. at[p] \notin Stopped BY DEF Stopped
<1>2. /\ at'[p] \notin {"refresh", "credOpen", "credWrite", "crashed"}
      /\ Op(p) \notin {"logout"} => todo'[p] # todo[p]
  <2>1. \/ HandOut(p, mem[p].entry) \/ Done(p) \/ (Op(p) = "logout" /\ GoTo(p, "confLoad", mem[p])) BY DEF Saved
  <2>2. ASSUME NEW a, Ends(p, a)
        PROVE  at'[p] \notin {"refresh", "credOpen", "credWrite", "crashed"} /\ todo'[p] # todo[p]
    BY <1>1, <2>2, EndsQuietly
  <2>3. ASSUME GoTo(p, "confLoad", mem[p]) PROVE at'[p] = "confLoad" BY <2>3, GoingAlone DEF Typed
  <2>4. CASE HandOut(p, mem[p].entry) BY <2>2, <2>4 DEF HandOut
  <2>5. CASE Done(p) BY <2>2, <2>5 DEF Done
  <2> QED BY <2>1, <2>3, <2>4, <2>5
<1>3. ASSUME NEW q \in Procs \ {p}, at[q] \in {"refresh", "credOpen", "credWrite"} PROVE FALSE
  <2>1. at'[q] = at[q] BY Untouched
  <2>2. q \in Holding(at') /\ q \in Holding(at) BY <1>3, <2>1 DEF Holding
  <2>3. CASE at[p] = "clear"
    <3>1. Op(p) = "logoutAll" BY <1>1, <2>3, AtWork DEF ComesTo
    <3>2. p \in Clearing BY <1>2, <2>3, <3>1 DEF Clearing
    <3> QED BY <2>2, <3>2, Solo DEF Typed
  <2>4. CASE at[p] # "clear"
    <3>1. p \in Holding(at) /\ ~overlap BY <2>4, Solo, <2>2 DEF Holding, Typed
    <3> QED BY <2>2, <3>1 DEF Logins, Sole
  <2> QED BY <2>3, <2>4
<1> QED BY <1>2, <1>3

LEMMA SavedLogins ==
  ASSUME Typed, Logins, NEW p \in Procs, Alone(p), Watched, Saved(p), UNCHANGED idpVars,
         at[p] \in {"clear", "credOpen", "credWrite"},
         \/ store' = [map |-> mem[p].map, torn |-> FALSE]
         \/ at[p] = "credWrite" /\ ~store.torn
  PROVE  Logins'
<1>1. Sole' /\ (~overlap' => ~overlap) /\ UNCHANGED <<newest, rotates, cut, respent, backend>>
  BY SoleAfter DEF Typed, Watched, idpVars, envVars, Saved
<1>2. Clean' => Clean BY <1>1 DEF Clean
<1>3. ASSUME ~overlap' PROVE /\ \A q \in Procs \ {p} : at[q] \notin {"refresh", "credOpen", "credWrite"}
                             /\ Holding(at') = {}
  <2>1. /\ \A q \in Procs \ {p} : at[q] \notin {"refresh", "credOpen", "credWrite"}
        /\ at'[p] \notin {"refresh", "credOpen", "credWrite"}
    BY <1>3, NobodyHolds
  <2>2. \A q \in Procs \ {p} : at'[q] = at[q] BY Untouched
  <2> QED BY <2>1, <2>2 DEF Holding
<1>4. MapsHeld' BY <1>3 DEF MapsHeld
<1>5. StoreIntended'
  <2> SUFFICES ASSUME Clean' PROVE StoreIntended' BY DEF StoreIntended
  <2>1. intended' = mem[p].map BY <1>2, SavesItsMap
  <2>2. at[p] = "credWrite" => store.torn
    <3>1. at[p] = "credWrite" => Writes BY DEF Writes
    <3> QED BY <1>2, <3>1 DEF Logins, StoreIntended
  <2>3. store'.map = mem[p].map /\ ~store'.torn BY <2>2
  <2>4. ~Writes'
    <3>1. Holding(at') = {} BY <1>3 DEF Clean
    <3> QED BY <3>1 DEF Writes, Holding
  <2> QED BY <2>1, <2>3, <2>4 DEF StoreIntended
<1>6. CASE Clean'
  <2>1. \A q \in Procs \ {p} : at[q] \notin {"refresh", "credOpen", "credWrite"} BY <1>3, <1>6 DEF Clean
  <2>2. Apart' /\ Newest' /\ Unspent' BY <1>1, <1>2, <2>1, SavedKeeps
  <2> QED BY <1>1, <1>4, <1>5, <2>2 DEF Logins
<1>7. CASE ~Clean'
  <2>1. Apart' /\ Newest' /\ Unspent' BY <1>7 DEF Apart, Newest, Unspent
  <2> QED BY <1>1, <1>4, <1>5, <2>1 DEF Logins
<1> QED BY <1>6, <1>7

LEMMA SaveLogins ==
  ASSUME Typed, Logins, NEW p \in Procs, Alone(p), Watched, SaveKeyring(p) \/ OpenStore(p) \/ WriteStore(p)
  PROVE  Logins'
<1>1. at[p] \in {"clear", "credOpen", "credWrite"} /\ at[p] \notin Stopped /\ UNCHANGED idpVars
  BY DEF SaveKeyring, OpenStore, WriteStore, Stopped
<1>2. Sole' /\ (~overlap' => ~overlap) /\ UNCHANGED <<rotates, backend>>
  BY SoleAfter DEF Typed, Watched, envVars
<1>3. CASE NotSaved(p) /\ UNCHANGED store
  <2>1. cut' /\ at'[p] \notin {"refresh", "credOpen", "credWrite"}
    <3>1. at'[p] \notin {"refresh", "credOpen", "credWrite"} BY <1>1, <1>3, EndsQuietly DEF NotSaved, Fails
    <3> QED BY <1>3, <3>1 DEF NotSaved
  <2>2. MapsHeld' BY <1>2, <1>3, <2>1, HeldKeeps
  <2> QED BY <1>2, <2>1, <2>2, CutKeeps DEF Logins
<1>4. CASE SaveKeyring(p)
  <2>1. \/ NotSaved(p) /\ UNCHANGED store
        \/ Saved(p) /\ store' = [map |-> mem[p].map, torn |-> FALSE]
    BY <1>4 DEF SaveKeyring, Replace
  <2> QED BY <1>1, <1>3, <2>1, SavedLogins
<1>5. CASE WriteStore(p)
  <2>1. /\ at[p] = "credWrite"
        /\ \/ NotSaved(p) /\ UNCHANGED store
           \/ Saved(p) /\ WriteOut(mem[p].map)
    BY <1>5 DEF WriteStore
  <2> QED BY <1>1, <1>3, <2>1, SavedLogins DEF WriteOut
<1>6. CASE OpenStore(p)
  <2>1. /\ at[p] \in {"credOpen", "clear"} /\ backend = "file" /\ store' = [store EXCEPT !.torn = TRUE]
        /\ GoTo(p, "credWrite", mem[p]) /\ UNCHANGED <<intended, cut, respent, newest>>
    BY <1>6 DEF OpenStore, Truncate, histVars, idpVars
  <2>2. at'[p] = "credWrite" /\ mem'[p] = mem[p] /\ Op(p)' = Op(p)
    BY <2>1, GoingAlone DEF Typed, Op, Call
  <2>3. Clean' => Clean BY <1>2, <2>1 DEF Clean
  <2>4. (Pending(p)' => Pending(p)) /\ (Renewed(p)' <=> Renewed(p))
    <3>1. at[p] = "clear" => Op(p) = "logoutAll" BY <1>1, AtWork DEF ComesTo
    <3> QED BY <2>1, <2>2, <3>1 DEF Pending, Renewed
  <2>5. Apart' /\ Newest' /\ Unspent'
    <3>1. Steady(p) BY <1>2, <2>1, <2>2, <2>3, <2>4 DEF Steady
    <3> QED BY <3>1, SteadyKeeps
  <2>6. store'.map = store.map /\ store'.torn
    <3>1. store \in [map : [Profiles -> Kept(sessions)], torn : BOOLEAN] BY DEF Typed, FilesTyped
    <3> QED BY <2>1, <3>1
  <2>7. StoreIntended'
    <3>1. Writes' BY <2>2 DEF Writes
    <3> QED BY <2>1, <2>3, <2>6, <3>1 DEF Logins, StoreIntended
  <2>8. MapsHeld'
    <3> SUFFICES ASSUME ~overlap', ~cut' \/ backend' = "keyring", NEW q \in Holding(at') PROVE Held(q)'
      BY DEF MapsHeld
    <3>1. p \in Holding(at') BY <2>2 DEF Holding
    <3>2. q = p BY <3>1, <1>2 DEF Sole
    <3>3. CASE at[p] = "clear"
      <4>1. Op(p) = "logoutAll" BY <1>1, <3>3, AtWork DEF ComesTo
      <4> QED BY <2>2, <3>2, <4>1 DEF Held
    <3>4. CASE at[p] = "credOpen"
      <4>1. p \in Holding(at) BY <3>4 DEF Holding
      <4>2. Held(p) BY <1>2, <2>1, <4>1 DEF Logins, MapsHeld
      <4> QED BY <2>2, <2>6, <3>2, <3>4, <4>2 DEF Held
    <3> QED BY <2>1, <3>3, <3>4
  <2> QED BY <1>2, <2>5, <2>7, <2>8 DEF Logins
<1> QED BY <1>4, <1>5, <1>6

LEMMA CrashLogins ==
  ASSUME Typed, Logins, NEW p \in Procs, Alone(p), Watched, Crash(p)
  PROVE  Logins'
<1>1. at'[p] = "crashed" BY DEF Crash, Typed, CallsTyped
<1>2. /\ UNCHANGED <<store, intended, respent, newest, mem, backend, rotates>>
      /\ cut' = (cut \/ at[p] = "credWrite" \/ (at[p] = "credOpen" /\ Op(p) \in {"token", "get"}))
  BY DEF Crash, idpVars, Watched, envVars
<1>3. Sole' /\ (~overlap' => ~overlap) BY SoleAfter DEF Typed, Watched
<1>4. cut \in BOOLEAN /\ (~cut' => ~cut /\ at[p] # "credWrite" /\ ~Renewed(p)) BY <1>2 DEF Typed, RestTyped, Renewed
<1>5. ~Pending(p)' /\ ~Renewed(p)' BY <1>1 DEF Pending, Renewed
<1>6. MapsHeld' BY <1>1, <1>2, <1>3, <1>4, HeldKeeps
<1>7. CASE cut' BY <1>3, <1>6, <1>7, CutKeeps DEF Logins
<1>8. CASE ~cut'
  <2>1. Clean' => Clean BY <1>3, <1>4 DEF Clean
  <2>2. Steady(p) BY <1>2, <1>4, <1>5, <1>8, <2>1 DEF Steady
  <2>3. Apart' /\ Newest' /\ Unspent' BY <2>2, SteadyKeeps
  <2>4. StoreIntended' BY <1>1, <1>2, <1>4, <1>8, <2>1, StoreKeeps
  <2> QED BY <1>3, <1>6, <2>3, <2>4 DEF Logins
<1> QED BY <1>7, <1>8

\* A bearer's expiry, and the end, leave the logins alone.
LEMMA IdleLogins ==
  ASSUME Logins, UNCHANGED <<store, intended, cut, respent, newest, at, mem, todo, backend, rotates>>,
         ~overlap' => ~overlap
  PROVE  Logins'
<1>1. Clean' => Clean BY DEF Clean
<1>2. \A q : (Pending(q)' <=> Pending(q)) /\ (Renewed(q)' <=> Renewed(q)) /\ Op(q)' = Op(q)
  BY DEF Pending, Renewed, Op, Call
<1>3. Holding(at') = Holding(at) /\ (Writes' <=> Writes) BY DEF Holding, Writes
<1>4. Sole' BY <1>3 DEF Logins, Sole
<1>5. MapsHeld'
  <2>1. \A q : Held(q)' <=> Held(q) BY <1>2 DEF Held
  <2> QED BY <1>3, <2>1 DEF Logins, MapsHeld
<1>6. StoreIntended' BY <1>1, <1>3 DEF Logins, StoreIntended
<1>7. Apart' BY <1>1, <1>2 DEF Logins, Apart
<1>8. Newest' BY <1>1, <1>2 DEF Logins, Newest
<1>9. Unspent' BY <1>1 DEF Logins, Unspent
<1> QED BY <1>4, <1>5, <1>6, <1>7, <1>8, <1>9 DEF Logins

LEMMA InitLogins == Init => Logins
<1> SUFFICES ASSUME Init PROVE Logins OBVIOUS
<1>1. Typed BY InitTyped
<1>2. \A p \in Procs : at[p] \notin {"profile", "refresh", "credOpen", "credWrite"}
                       /\ (at[p] = "credLoad" => Head(todo[p]).op = "token")
  <2> TAKE p \in Procs
  <2>1. at[p] = StartOf(todo[p], apiToken) /\ todo[p] \in Seq(Calls) /\ apiToken \in BOOLEAN
    BY <1>1 DEF Init, Typed, CallsTyped, RunTyped
  <2>2. at[p] \notin {"profile", "refresh", "credOpen"} BY <2>1, Starting
  <2>3. at[p] # "credWrite" BY <2>1, Starting
  <2>4. at[p] = "credLoad" => Head(todo[p]).op = "token" BY <2>1, Starting
  <2> QED BY <2>2, <2>3, <2>4
<1>3. \A p \in Procs : ~Pending(p) /\ ~Renewed(p) BY <1>2 DEF Pending, Renewed, Op, Call
<1>4. Holding(at) = {} /\ ~Writes BY <1>2 DEF Holding, Writes
<1>5. intended = Empty /\ store = [map |-> Empty, torn |-> FALSE] /\ ~respent BY DEF Init
<1>6. \A n \in Profiles : intended[n] = NoEntry /\ intended[n].refresh = 0 BY <1>5 DEF Empty, NoEntry
<1>7. Sole /\ MapsHeld BY <1>4 DEF Sole, MapsHeld
<1>8. StoreIntended BY <1>4, <1>5 DEF StoreIntended
<1>9. Apart BY <1>3, <1>6 DEF Apart
<1>10. Newest BY <1>3, <1>6 DEF Newest
<1> QED BY <1>5, <1>7, <1>8, <1>9, <1>10 DEF Logins, Unspent

LEMMA NextLogins == Typed /\ Logins /\ [Next]_vars => Logins'
<1> SUFFICES ASSUME Typed, Logins, [Next]_vars PROVE Logins' OBVIOUS
<1>1. ASSUME NEW p \in Procs, Step(p) \/ Callback(p) \/ Denied(p) \/ Crash(p), Watched PROVE Logins'
  <2>1. Alone(p) BY <1>1, StepsAlone
  <2>2. CASE Select(p) \/ Refused(p) \/ SelectLogout(p) \/ Probe(p) \/ Owner(p) \/ ApiEnv(p) \/ Profile(p)
             \/ ConfLoad(p) \/ ConfOpen(p) \/ ConfWrite(p)
    <3>1. Aside(p) BY <1>1, <2>2, QuietAside
    <3> QED BY <1>1, <2>1, <3>1, AsideKeeps
  <2>3. CASE ApiExchange(p)
    <3>1. Aside(p) BY <1>1, <2>3, ApiExchangeAside
    <3> QED BY <1>1, <2>1, <3>1, AsideKeeps
  <2>4. CASE Answered(p) BY <1>1, <2>1, <2>4, AnsweredLogins
  <2>5. CASE CredLoad(p) BY <1>1, <2>1, <2>5, CredLoadLogins
  <2>6. CASE Refresh(p) BY <1>1, <2>1, <2>6, RefreshLogins
  <2>7. CASE SaveKeyring(p) \/ OpenStore(p) \/ WriteStore(p) BY <1>1, <2>1, <2>7, SaveLogins
  <2>8. CASE Crash(p) BY <1>1, <2>1, <2>8, CrashLogins
  <2> QED BY <1>1, <2>2, <2>3, <2>4, <2>5, <2>6, <2>7, <2>8, StepsAre
<1>2. ASSUME NEW s \in DOMAIN sessions, Expire(s), Watched PROVE Logins'
  <2>1. UNCHANGED <<store, intended, cut, respent, newest, at, mem, todo, backend, rotates>> /\ (~overlap' => ~overlap)
    BY <1>2 DEF Expire, Watched, envVars, idpVars, procVars, histVars
  <2> QED BY <2>1, IdleLogins
<1>3. CASE UNCHANGED vars
  <2>1. UNCHANGED <<store, intended, cut, respent, newest, at, mem, todo, backend, rotates>> /\ (~overlap' => ~overlap)
    BY <1>3 DEF vars, envVars, idpVars, procVars, histVars
  <2> QED BY <2>1, IdleLogins
<1> QED BY <1>1, <1>2, <1>3 DEF Next, Rest

LEMMA AlwaysLogins == Spec => []Logins
<1>1. Init => Logins BY InitLogins
<1>2. Typed /\ Logins /\ [Next]_vars => Logins' BY NextLogins
<1> QED BY <1>1, <1>2, AlwaysTyped, PTL DEF Spec

\* No login is lost and no refresh token presented twice as long as the calls do
\* not overlap and none is cut off in a save, whatever else they do
\* (auth.rs:1691, credential_store.rs:170).
THEOREM LoginsAreKept == Spec => []LoginsKept
<1>1. ASSUME Typed, Logins PROVE LoginsKept
  <2>1. AuthTypeOK BY <1>1, TypesHold
  <2>2. LoginsSurvive
    <3>1. store \in [map : [Profiles -> Kept(sessions)], torn : BOOLEAN] BY <1>1 DEF Typed, FilesTyped
    <3>2. ASSUME Clean, \A p \in Procs : at[p] # "credWrite" PROVE store = [map |-> intended, torn |-> FALSE]
      <4>1. store.map = intended /\ ~store.torn BY <1>1, <3>2 DEF Logins, StoreIntended, Writes
      <4> QED BY <3>1, <4>1
    <3> QED BY <3>2 DEF LoginsSurvive, Clean
  <2>3. SpentOnce BY <1>1 DEF Logins, Unspent, Clean, SpentOnce
  <2> QED BY <2>1, <2>2, <2>3 DEF LoginsKept
<1> QED BY <1>1, AlwaysTyped, AlwaysLogins, PTL

\* Without an overlap, a save to the keyring replaces the entry it is about.
LEMMA KeyringStep ==
  ASSUME Typed, Logins, [Next]_vars, backend = "keyring", ~overlap
  PROVE  \/ Cardinality({n \in Profiles : store.map[n] # store'.map[n]}) <= 1
         \/ \E p \in Procs : at[p] = "clear"
<1> DEFINE changed == {n \in Profiles : store.map[n] # store'.map[n]}
<1>1. CASE store' = store
  <2>1. changed = {} BY <1>1
  <2>2. Cardinality(changed) = 0 BY <2>1, FS_EmptySet
  <2> QED BY <2>2
<1>2. CASE store' # store
  <2>1. PICK p \in Procs : Step(p) \/ Callback(p) \/ Denied(p) \/ Crash(p)
    BY <1>2 DEF Next, Rest, vars, Expire
  <2>2. SaveKeyring(p) \/ OpenStore(p) \/ WriteStore(p)
    BY <1>2, <2>1, StepsAre DEF Select, Answered, CodeExchange, Refused, Profile, SelectLogout, Probe, Owner, ApiEnv, ApiExchange,
       CredLoad, Refresh, ConfLoad, ConfOpen, ConfWrite, CannotLogIn, Crash
  <2>3. ~OpenStore(p) /\ ~WriteStore(p)
    <3>1. at[p] # "credWrite" BY DEF Typed, CallsTyped
    <3> QED BY <3>1 DEF OpenStore, Truncate, WriteStore
  <2>4. at[p] \in {"credOpen", "clear"} /\ store' = [map |-> mem[p].map, torn |-> FALSE]
    BY <1>2, <2>2, <2>3 DEF SaveKeyring, Replace
  <2>5. CASE at[p] = "clear" BY <2>5
  <2>6. CASE at[p] = "credOpen"
    <3>1. at[p] \notin Stopped /\ p \in Holding(at) BY <2>6 DEF Stopped, Holding
    <3>2. Op(p) # "logoutAll" BY <2>6, <3>1, AtWork DEF ComesTo
    <3>3. Held(p) BY <3>1 DEF Logins, MapsHeld
    <3>4. mem[p].map = [store.map EXCEPT ![mem[p].profile] = mem[p].entry] BY <2>6, <3>2, <3>3 DEF Held
    <3>5. store.map \in [Profiles -> Kept(sessions)] BY DEF Typed, FilesTyped
    <3>6. store'.map = mem[p].map BY <2>4
    <3>7. changed \subseteq {mem[p].profile} BY <3>4, <3>5, <3>6
    <3> HIDE DEF changed
    <3>8. changed = {} \/ changed = {mem[p].profile} BY <3>7
    <3>9. Cardinality({}) = 0 /\ Cardinality({mem[p].profile}) = 1 BY FS_EmptySet, FS_Singleton
    <3>10. Cardinality(changed) \in {0, 1} BY <3>8, <3>9
    <3> QED BY <3>10 DEF changed
  <2> QED BY <2>4, <2>5, <2>6
<1> QED BY <1>1, <1>2

\* A step changes the credential, the default and the token it is about, and no
\* other (KeyringStore::save, apply_set_default, the cache of auth.rs:1074).
THEOREM StepsKeep == Spec => StepsKeepTheRest
<1>1. Typed /\ Logins /\ [Next]_vars =>
        [backend = "keyring" /\ ~overlap =>
           Cardinality({n \in Profiles : store.map[n] # store'.map[n]}) <= 1
           \/ \E p \in Procs : at[p] = "clear"]_vars
  BY KeyringStep
<1>2. Typed /\ [Next]_vars =>
        [\A p \in Procs :
           /\ at[p] = "confLoad" /\ at'[p] = "confOpen"
           /\ DefaultNames(mem'[p].list) # DefaultNames(config.list)
           => \/ Op(p) = "use" \/ Op(p) = "logout"
              \/ Op(p) = "remove" /\ Call(p).name \in DefaultNames(config.list)
              \/ Op(p) = "configure" /\ (Call(p).makeDefault \/ Defaults(config.list) = {})]_vars
  BY DefaultStep
<1>3. Typed /\ [Next]_vars =>
        [\A p \in Procs :
           at[p] = "apiEnv" /\ todo'[p] # todo[p] /\ at'[p] # "crashed" /\ answer'[p].is = "token"
           => \E d \in Selected(All, "") : d.issuer = sessions[answer'[p].session].issuer]_vars
  BY ApiTokenStep
<1>4. Spec => KeyringKeepsOthers
  BY <1>1, AlwaysTyped, AlwaysLogins, PTL DEF Spec, KeyringKeepsOthers
<1>5. Spec => DefaultKeeps
  BY <1>2, AlwaysTyped, PTL DEF Spec, DefaultKeeps
<1>6. Spec => ApiTokenMatches
  BY <1>3, AlwaysTyped, PTL DEF Spec, ApiTokenMatches
<1> QED BY <1>4, <1>5, <1>6 DEF StepsKeepTheRest

-----------------------------------------------------------------------------
(* A token is handed out for the hosts it was issued for.  Where every file *)
(* means the same hosts by a name, so do the lists a call holds; a session  *)
(* is of the hosts of the deployment it was opened at; and a login is       *)
(* stored under the name of this deployment.                                *)

HostsOf == CHOOSE hosts \in [Names -> SUBSET Hosts] : Agree(hosts)

SaysHosts(list) == \A i \in DOMAIN list : list[i].hosts = HostsOf[list[i].name]
\* An entry under the name of a deployment is of a session at its hosts.
Of(e, n, opened) == n \in Names /\ e # NoEntry => opened[e.session].hosts = HostsOf[n]
MapOf(map, opened) == \A n \in Profiles : Of(map[n], n, opened)
Serving(n, host) == n \in Names /\ \E h \in HostsOf[n] : h = host \/ <<host, h>> \in Under

\* What remains to be called means what the files do.
CallAgrees(c) ==
  /\ c.op = "configure" /\ c.host \in DOMAIN Discovered =>
       HostsOf[c.name] = Discovered[c.host].hosts \cup {c.host}
  /\ c.op = "login" /\ c.profile \in Names => c.profile = IF c.name = "" THEN Seed ELSE c.name
Agreed(calls) == \A i \in DOMAIN calls : CallAgrees(calls[i])
\* The account a login is at.
AccountOf(c) == IF c.op \in {"login", "logout", "configure"} /\ c.name # "" THEN c.name ELSE Seed

Carries == {"credLoad", "refresh", "credOpen", "credWrite"}
OwnsAt(calls, label, m, opened) ==
  /\ SaysHosts(m.list) /\ m.sel.hosts = HostsOf[m.sel.name] /\ MapOf(m.map, opened) /\ Agreed(calls)
  /\ label = "asked" => m.sel.name = AccountOf(Head(calls))
  /\ label = "profile" => m.entry # NoEntry /\ opened[m.entry.session].hosts = HostsOf[AccountOf(Head(calls))]
  /\ label = "owner" => m.entry = NoEntry
  /\ label \in Carries => Of(m.entry, m.profile, opened)
  /\ label \in Carries /\ Head(calls).op = "get" => Serving(m.profile, Head(calls).host)
AnswerOwns(a, opened) ==
  a.is = "token" /\ a.host # "" =>
    /\ a.session \in DOMAIN opened
    /\ \E h \in opened[a.session].hosts : h = a.host \/ <<a.host, h>> \in Under

FilesOwn == SaysHosts(repo) /\ SaysHosts(config.list) /\ MapOf(store.map, sessions)
CallsOwn == \A p \in Procs : OwnsAt(todo[p], at[p], mem[p], sessions) /\ AnswerOwns(answer[p], sessions)
Owning == HostsAgree => FilesOwn /\ CallsOwn

-----------------------------------------------------------------------------
(* What follows of the hosts of a name.                                    *)

LEMMA HostsOfIs ==
  ASSUME HostsAgree PROVE HostsOf \in [Names -> SUBSET Hosts] /\ Agree(HostsOf)
BY DEF HostsAgree, HostsOf

LEMMA SeedOwns == ASSUME HostsAgree PROVE HostsOf[Seed] = {} /\ SeedDeployment.hosts = HostsOf[SeedDeployment.name]
<1>1. HostsOf[Seed] = {} BY HostsOfIs DEF Agree
<1> QED BY <1>1 DEF SeedDeployment

\* The sessions opened so far stay what they are.
Grows == \A s \in DOMAIN sessions : s \in DOMAIN sessions' /\ sessions'[s] = sessions[s]

LEMMA EntryGrows ==
  ASSUME Grows, NEW e \in Kept(sessions), NEW n PROVE Of(e, n, sessions) => Of(e, n, sessions')
<1>1. e # NoEntry => e.session \in DOMAIN sessions BY KeptIs
<1> QED BY <1>1 DEF Of, Grows

LEMMA MapGrows ==
  ASSUME Grows, NEW map \in [Profiles -> Kept(sessions)], MapOf(map, sessions) PROVE MapOf(map, sessions')
<1>1. ASSUME NEW n \in Profiles PROVE Of(map[n], n, sessions')
  <2>1. map[n] \in Kept(sessions) /\ Of(map[n], n, sessions) BY DEF MapOf
  <2> QED BY <2>1, EntryGrows
<1> QED BY <1>1 DEF MapOf

LEMMA CallGrows ==
  ASSUME Grows, NEW calls, NEW label, NEW m \in Memory(sessions), OwnsAt(calls, label, m, sessions)
  PROVE  OwnsAt(calls, label, m, sessions')
<1>1. m.entry \in Kept(sessions) /\ m.map \in [Profiles -> Kept(sessions)] BY DEF Memory
<1>2. m.entry # NoEntry => m.entry.session \in DOMAIN sessions BY <1>1, KeptIs
<1>3. MapOf(m.map, sessions') BY <1>1, MapGrows DEF OwnsAt
<1>4. label = "profile" => m.entry # NoEntry /\ sessions'[m.entry.session].hosts = HostsOf[AccountOf(Head(calls))]
  BY <1>2 DEF OwnsAt, Grows
<1>5. label \in Carries => Of(m.entry, m.profile, sessions') BY <1>1, EntryGrows DEF OwnsAt
<1>6. /\ SaysHosts(m.list) /\ m.sel.hosts = HostsOf[m.sel.name] /\ Agreed(calls)
      /\ label = "asked" => m.sel.name = AccountOf(Head(calls))
      /\ label = "owner" => m.entry = NoEntry
      /\ label \in Carries /\ Head(calls).op = "get" => Serving(m.profile, Head(calls).host)
  BY DEF OwnsAt
<1> QED BY <1>3, <1>4, <1>5, <1>6 DEF OwnsAt

LEMMA AnswerGrows ==
  ASSUME Grows, NEW a, AnswerOwns(a, sessions) PROVE AnswerOwns(a, sessions')
BY DEF AnswerOwns, Grows

LEMMA EmptyOwns == ASSUME NEW opened PROVE MapOf(Empty, opened) /\ SaysHosts(<<>>)
BY DEF MapOf, Of, Empty, SaysHosts

\* Where a call starts.
LEMMA StartingOwns ==
  ASSUME HostsAgree, NEW calls \in Seq(Calls), NEW token \in BOOLEAN, NEW opened, Agreed(calls)
  PROVE  OwnsAt(calls, StartOf(calls, token), Start(calls, token), opened)
<1> DEFINE l == StartOf(calls, token)  m == Start(calls, token)
<1>1. m.entry = NoEntry /\ m.map = Empty /\ m.list = <<>> /\ m.sel = SeedDeployment BY Starting
<1>2. l \notin {"profile", "refresh", "credOpen", "asked"}
  <2>1. l \notin {"profile", "refresh", "credOpen"} BY Starting
  <2>2. l # "asked"
    <3>1. calls # <<>> => Head(calls) \in Calls OBVIOUS
    <3>2. calls # <<>> => Head(calls).op \in Ops BY <3>1, CallFields
    <3> QED BY <3>2 DEF StartOf, Ops
  <2> QED BY <2>1, <2>2
<1>3. l # "credWrite" BY Starting
<1>4. l = "credLoad" => Head(calls).op = "token" BY Starting
<1> HIDE DEF l, m
<1>5. SaysHosts(m.list) /\ m.sel.hosts = HostsOf[m.sel.name] /\ MapOf(m.map, opened)
  BY <1>1, SeedOwns, EmptyOwns
<1>6. Of(m.entry, m.profile, opened) BY <1>1 DEF Of
<1> QED BY <1>1, <1>2, <1>3, <1>4, <1>5, <1>6 DEF OwnsAt, Carries, l, m

LEMMA GoingOwns ==
  ASSUME Typed, CallsOwn, Grows, NEW p \in Procs, NEW label, NEW m, GoTo(p, label, m),
         OwnsAt(todo[p], label, m, sessions')
  PROVE  CallsOwn'
<1>1. /\ Alone(p) /\ at'[p] = label /\ mem'[p] = m /\ todo'[p] = todo[p] /\ answer'[p] = answer[p]
  BY GoingAlone DEF Typed
<1> SUFFICES ASSUME NEW q \in Procs
             PROVE  OwnsAt(todo'[q], at'[q], mem'[q], sessions') /\ AnswerOwns(answer'[q], sessions')
  BY DEF CallsOwn
<1>2. OwnsAt(todo[q], at[q], mem[q], sessions) /\ AnswerOwns(answer[q], sessions) BY DEF CallsOwn
<1>3. mem[q] \in Memory(sessions) BY DEF Typed, CallsTyped
<1>4. AnswerOwns(answer[q], sessions') BY <1>2, AnswerGrows
<1>5. OwnsAt(todo[q], at[q], mem[q], sessions') BY <1>2, <1>3, CallGrows
<1>6. CASE q = p BY <1>1, <1>4, <1>6
<1>7. CASE q # p
  <2>1. todo'[q] = todo[q] /\ at'[q] = at[q] /\ mem'[q] = mem[q] /\ answer'[q] = answer[q]
    BY <1>1, <1>7 DEF Alone, Stays
  <2> QED BY <1>4, <1>5, <2>1
<1> QED BY <1>6, <1>7

LEMMA EndingOwns ==
  ASSUME HostsAgree, Typed, CallsOwn, Grows, NEW p \in Procs, at[p] \notin Stopped, NEW a, Ends(p, a),
         AnswerOwns(a, sessions')
  PROVE  CallsOwn'
<1>0. todo[p] \in Seq(Calls) /\ todo[p] # <<>> /\ apiToken \in BOOLEAN BY AtWork
<1>1. /\ Alone(p) /\ at'[p] = StartOf(Tail(todo[p]), apiToken) /\ mem'[p] = Start(Tail(todo[p]), apiToken)
      /\ todo'[p] = Tail(todo[p]) /\ answer'[p] = a
  BY EndingAlone DEF Typed
<1>2. Tail(todo[p]) \in Seq(Calls) /\ Agreed(Tail(todo[p]))
  <2>1. Agreed(todo[p]) BY DEF CallsOwn, OwnsAt
  <2>2. Tail(todo[p]) \in Seq(Calls) BY <1>0
  <2>3. \A i \in DOMAIN Tail(todo[p]) : i + 1 \in DOMAIN todo[p] /\ Tail(todo[p])[i] = todo[p][i + 1] BY <1>0
  <2> QED BY <2>1, <2>2, <2>3 DEF Agreed
<1> SUFFICES ASSUME NEW q \in Procs
             PROVE  OwnsAt(todo'[q], at'[q], mem'[q], sessions') /\ AnswerOwns(answer'[q], sessions')
  BY DEF CallsOwn
<1>3. CASE q = p
  <2>1. OwnsAt(Tail(todo[p]), StartOf(Tail(todo[p]), apiToken), Start(Tail(todo[p]), apiToken), sessions')
    BY <1>0, <1>2, StartingOwns
  <2> QED BY <1>1, <1>3, <2>1
<1>4. CASE q # p
  <2>1. todo'[q] = todo[q] /\ at'[q] = at[q] /\ mem'[q] = mem[q] /\ answer'[q] = answer[q]
    BY <1>1, <1>4 DEF Alone, Stays
  <2>2. OwnsAt(todo[q], at[q], mem[q], sessions) /\ AnswerOwns(answer[q], sessions) BY DEF CallsOwn
  <2>3. mem[q] \in Memory(sessions) BY DEF Typed, CallsTyped
  <2>4. AnswerOwns(answer[q], sessions') BY <2>2, AnswerGrows
  <2>5. OwnsAt(todo[q], at[q], mem[q], sessions') BY <2>2, <2>3, CallGrows
  <2> QED BY <2>1, <2>4, <2>5
<1> QED BY <1>3, <1>4

\* A call that ends without a token.
LEMMA PlainlyOwns ==
  ASSUME HostsAgree, Typed, CallsOwn, Grows, NEW p \in Procs, at[p] \notin Stopped, Fails(p) \/ Done(p)
  PROVE  CallsOwn'
<1>1. [NoAnswer EXCEPT !.is = "error"].is # "token" /\ [NoAnswer EXCEPT !.is = "ok"].is # "token" BY DEF NoAnswer
<1>2. AnswerOwns([NoAnswer EXCEPT !.is = "error"], sessions') /\ AnswerOwns([NoAnswer EXCEPT !.is = "ok"], sessions')
  BY <1>1 DEF AnswerOwns
<1>3. CASE Fails(p) BY <1>2, <1>3, EndingOwns DEF Fails
<1>4. CASE Done(p) BY <1>2, <1>4, EndingOwns DEF Done
<1> QED BY <1>3, <1>4

\* A call that ends with one: the helper's is at the hosts of the profile it serves.
LEMMA HandingOwns ==
  ASSUME HostsAgree, Typed, CallsOwn, Grows, NEW p \in Procs, at[p] \notin Stopped, NEW e, HandOut(p, e),
         Op(p) = "get" => /\ e \in Kept(sessions) /\ e # NoEntry /\ Of(e, mem[p].profile, sessions)
                          /\ Serving(mem[p].profile, Call(p).host)
  PROVE  CallsOwn'
<1> DEFINE host == IF Op(p) = "get" THEN Call(p).host ELSE ""
           a == [is |-> "token", session |-> e.session, profile |-> mem[p].profile, host |-> host]
<1>1. a.session = e.session /\ a.host = host OBVIOUS
<1>2. Ends(p, a) BY DEF HandOut
<1> HIDE DEF a
<1>3. ASSUME Op(p) = "get"
      PROVE  e.session \in DOMAIN sessions' /\ \E h \in sessions'[e.session].hosts : h = host \/ <<host, h>> \in Under
  <2>1. e.session \in DOMAIN sessions BY <1>3, KeptIs
  <2>2. sessions[e.session].hosts = HostsOf[mem[p].profile] /\ \E h \in HostsOf[mem[p].profile] : h = host \/ <<host, h>> \in Under
    BY <1>3 DEF Of, Serving
  <2> QED BY <2>1, <2>2 DEF Grows
<1>4. AnswerOwns(a, sessions') BY <1>1, <1>3 DEF AnswerOwns
<1> QED BY <1>2, <1>4, EndingOwns

-----------------------------------------------------------------------------
(* Every step keeps that.                                                  *)

LEMMA AllOwns ==
  ASSUME HostsAgree, Typed, FilesOwn PROVE SaysHosts(All)
<1>1. repo \in Seq(Deployment) /\ config.list \in Seq(Deployment)
  BY DEF Typed, RunTyped, FilesTyped, Files, Lists
<1>2. FromFiles(All, repo, config.list) BY <1>1, EffectiveIs DEF All
<1> SUFFICES ASSUME NEW i \in DOMAIN All PROVE All[i].hosts = HostsOf[All[i].name] BY DEF SaysHosts
<1>3. PICK d \in Deployment :
        /\ d = SeedDeployment \/ (\E k \in DOMAIN repo : d = repo[k]) \/ (\E k \in DOMAIN config.list : d = config.list[k])
        /\ All[i] = d \/ (d.name = Seed /\ All[i] = [d EXCEPT !.default = FALSE])
  BY <1>2 DEF FromFiles
<1>4. d.hosts = HostsOf[d.name]
  <2>1. SeedDeployment.hosts = HostsOf[SeedDeployment.name] BY SeedOwns
  <2> QED BY <1>3, <2>1 DEF FilesOwn, SaysHosts
<1>5. All[i].hosts = d.hosts /\ All[i].name = d.name
  <2>1. [d EXCEPT !.default = FALSE].hosts = d.hosts /\ [d EXCEPT !.default = FALSE].name = d.name BY DEF Deployment
  <2> QED BY <1>3, <2>1
<1> QED BY <1>4, <1>5

\* What a step can do to the files and the servers.
LEMMA StepsFiles ==
  ASSUME Typed, NEW p \in Procs, Step(p) \/ Callback(p) \/ Denied(p) \/ Crash(p)
  PROVE  Grows /\ config'.list \in {config.list, mem[p].list} /\ store'.map \in {store.map, mem[p].map}
<1>1. sessions' = sessions \/ \E s : sessions' = Append(sessions, s)
  <2>1. \A d, endpoint : NewSession(d, endpoint) => \E s : sessions' = Append(sessions, s) BY DEF NewSession
  <2> QED BY <2>1, StepsAre DEF Select, Answered, CodeExchange, Refused, Profile, SelectLogout, Probe, Owner, ApiEnv, ApiExchange, CredLoad, Refresh,
     SaveKeyring, OpenStore, WriteStore, ConfLoad, ConfOpen, ConfWrite, CannotLogIn, Crash, idpVars
<1>2. Grows
  <2>1. sessions \in Seq(Session) BY DEF Typed, ServersTyped
  <2>2. ASSUME NEW s, sessions' = Append(sessions, s) PROVE Grows BY <2>1, <2>2 DEF Grows
  <2> QED BY <1>1, <2>2 DEF Grows
<1>3. config' \in {config, [config EXCEPT !.torn = TRUE], [list |-> mem[p].list, torn |-> FALSE]}
  BY StepsAre DEF Select, Answered, CodeExchange, Refused, Profile, SelectLogout, Probe, Owner, ApiEnv, ApiExchange, CredLoad, Refresh,
     SaveKeyring, OpenStore, WriteStore, ConfLoad, ConfOpen, ConfWrite, CannotLogIn, Crash
<1>4. store' \in {store, [store EXCEPT !.torn = TRUE], [map |-> mem[p].map, torn |-> FALSE]}
  BY StepsAre DEF Select, Answered, CodeExchange, Refused, Profile, SelectLogout, Probe, Owner, ApiEnv, ApiExchange, CredLoad, Refresh,
     SaveKeyring, OpenStore, WriteStore, ConfLoad, ConfOpen, ConfWrite, CannotLogIn, Crash, Replace, Truncate, WriteOut
<1>5. [config EXCEPT !.torn = TRUE].list = config.list /\ [store EXCEPT !.torn = TRUE].map = store.map
  BY DEF Typed, FilesTyped
<1>6. config'.list \in {config.list, mem[p].list}
  <2>1. CASE config' = [list |-> mem[p].list, torn |-> FALSE]
    <3>1. config'.list = mem[p].list BY <2>1
    <3> QED BY <3>1
  <2>2. CASE config' # [list |-> mem[p].list, torn |-> FALSE] BY <1>3, <1>5, <2>2
  <2> QED BY <2>1, <2>2
<1>7. store'.map \in {store.map, mem[p].map}
  <2>1. CASE store' = [map |-> mem[p].map, torn |-> FALSE]
    <3>1. store'.map = mem[p].map BY <2>1
    <3> QED BY <3>1
  <2>2. CASE store' # [map |-> mem[p].map, torn |-> FALSE] BY <1>4, <1>5, <2>2
  <2> QED BY <2>1, <2>2
<1> QED BY <1>2, <1>6, <1>7

LEMMA FilesStillOwn ==
  ASSUME Typed, FilesOwn, CallsOwn, NEW p \in Procs, Step(p) \/ Callback(p) \/ Denied(p) \/ Crash(p), UNCHANGED envVars,
         repo' = repo
  PROVE  FilesOwn'
<1>1. Grows /\ config'.list \in {config.list, mem[p].list} /\ store'.map \in {store.map, mem[p].map} BY StepsFiles
<1>2. mem[p].map \in [Profiles -> Kept(sessions)] /\ store.map \in [Profiles -> Kept(sessions)]
  BY DEF Typed, CallsTyped, FilesTyped, Memory
<1>3. MapOf(mem[p].map, sessions) /\ SaysHosts(mem[p].list) BY DEF CallsOwn, OwnsAt
<1>4. MapOf(store'.map, sessions') BY <1>1, <1>2, <1>3, MapGrows DEF FilesOwn
<1>5. SaysHosts(config'.list) BY <1>1, <1>3 DEF FilesOwn
<1> QED BY <1>4, <1>5 DEF FilesOwn

\* What a call is at, and what it holds, before the step.
LEMMA OwnWork ==
  ASSUME CallsOwn, NEW p \in Procs
  PROVE  /\ SaysHosts(mem[p].list) /\ mem[p].sel.hosts = HostsOf[mem[p].sel.name] /\ MapOf(mem[p].map, sessions)
         /\ Agreed(todo[p])
         /\ at[p] = "asked" => mem[p].sel.name = AccountOf(Call(p))
         /\ at[p] = "profile" => mem[p].entry # NoEntry /\ sessions[mem[p].entry.session].hosts = HostsOf[AccountOf(Call(p))]
         /\ at[p] = "owner" => mem[p].entry = NoEntry
         /\ at[p] \in Carries => Of(mem[p].entry, mem[p].profile, sessions)
         /\ at[p] \in Carries /\ Op(p) = "get" => Serving(mem[p].profile, Call(p).host)
BY DEF CallsOwn, OwnsAt, Call, Op

\* The call at work agrees with the files, and the name it gives is the account's.
LEMMA CallOwns ==
  ASSUME Typed, CallsOwn, NEW p \in Procs, at[p] \notin Stopped
  PROVE  CallAgrees(Call(p)) /\ AccountOf(Call(p)) = (IF NameOf(p) = "" THEN Seed ELSE NameOf(p))
<1>1. todo[p] \in Seq(Calls) /\ todo[p] # <<>> /\ Call(p) = Head(todo[p]) BY AtWork
<1>2. 1 \in DOMAIN todo[p] /\ Head(todo[p]) = todo[p][1] BY <1>1
<1>3. CallAgrees(Call(p)) BY <1>1, <1>2 DEF CallsOwn, OwnsAt, Agreed
<1>4. AccountOf(Call(p)) = (IF NameOf(p) = "" THEN Seed ELSE NameOf(p)) BY DEF AccountOf, NameOf, Op
<1> QED BY <1>3, <1>4

\* A step that takes its call on with the same map and list, and without a profile's
\* entry.
LEMMA MovingOwns ==
  ASSUME Typed, CallsOwn, Grows, NEW p \in Procs, NEW label, NEW m \in Memory(sessions), GoTo(p, label, m),
         SaysHosts(m.list), m.sel.hosts = HostsOf[m.sel.name], MapOf(m.map, sessions),
         label \notin Carries \cup {"profile", "owner"},
         label = "asked" => m.sel.name = AccountOf(Call(p))
  PROVE  CallsOwn'
<1>1. Agreed(todo[p]) BY OwnWork
<1>2. OwnsAt(todo[p], label, m, sessions) BY <1>1 DEF OwnsAt, Call
<1>3. OwnsAt(todo[p], label, m, sessions') BY <1>2, CallGrows
<1> QED BY <1>3, GoingOwns

\* And one that takes an entry along.
LEMMA CarryingOwns ==
  ASSUME Typed, CallsOwn, Grows, NEW p \in Procs, NEW label \in Carries, NEW m \in Memory(sessions), GoTo(p, label, m),
         m.list = mem[p].list, m.sel.hosts = HostsOf[m.sel.name], MapOf(m.map, sessions),
         Of(m.entry, m.profile, sessions), Op(p) = "get" => Serving(m.profile, Call(p).host)
  PROVE  CallsOwn'
<1>1. Agreed(todo[p]) /\ SaysHosts(m.list) BY OwnWork
<1>2. OwnsAt(todo[p], label, m, sessions)
  BY <1>1 DEF OwnsAt, Carries, Call, Op
<1>3. OwnsAt(todo[p], label, m, sessions') BY <1>2, CallGrows
<1> QED BY <1>3, GoingOwns

LEMMA SelectOwns ==
  ASSUME HostsAgree, Typed, FilesOwn, CallsOwn, Grows, NEW p \in Procs, Select(p)
  PROVE  CallsOwn'
<1>1. at[p] \notin Stopped /\ RunTyped /\ FilesTyped BY DEF Select, Stopped, Typed
<1>2. \/ Fails(p)
      \/ \E d \in SelectedAccount(All, NameOf(p)) : GoTo(p, "asked", [mem[p] EXCEPT !.sel = d])
  BY DEF Select, Bind
<1>3. ASSUME NEW d \in SelectedAccount(All, NameOf(p)), GoTo(p, "asked", [mem[p] EXCEPT !.sel = d]) PROVE CallsOwn'
  <2>1. d \in Deployment /\ d.name = AccountOf(Call(p)) /\ Among(d, All) BY <1>1, AccountTyped, CallOwns
  <2>2. d.hosts = HostsOf[d.name] BY <2>1, AllOwns DEF Among, SaysHosts
  <2> DEFINE m == [mem[p] EXCEPT !.sel = d]
  <2>3. m \in Memory(sessions) /\ m.map = mem[p].map /\ m.list = mem[p].list /\ m.sel = d
    BY <1>1, <2>1, AtWork DEF Memory
  <2>4. GoTo(p, "asked", m) BY <1>3
  <2> HIDE DEF m
  <2>5. SaysHosts(m.list) /\ MapOf(m.map, sessions) BY <2>3, OwnWork
  <2> QED BY <2>1, <2>2, <2>3, <2>4, <2>5, MovingOwns DEF Carries
<1> QED BY <1>1, <1>2, <1>3, PlainlyOwns

LEMMA AnsweredOwns ==
  ASSUME HostsAgree, Typed, FilesOwn, CallsOwn, Grows, NEW p \in Procs, Answered(p)
  PROVE  CallsOwn'
<1> DEFINE endpoint == WaitsForBrowser(p) /\ mem[p].sel.hosts # {}
           pinned == IF Op(p) = "configure" THEN Call(p).name ELSE Call(p).profile
           label == IF pinned = "" THEN "profile" ELSE "credLoad"
           e == FirstEntry(endpoint)
           m == [mem[p] EXCEPT !.entry = e, !.profile = pinned]
<1>1. /\ at[p] = "asked" /\ at[p] \notin Stopped /\ NewSession(mem[p].sel, endpoint) /\ GoTo(p, label, m)
  BY DEF Answered, CodeExchange, Stopped
<1>2. endpoint \in BOOLEAN BY DEF WaitsForBrowser
<1>3. /\ Call(p) \in Calls /\ Op(p) = Call(p).op /\ Op(p) \in {"login", "configure"} /\ mem[p] \in Memory(sessions)
      /\ todo[p] # <<>> /\ CallsTyped /\ Call(p) = Head(todo[p])
  BY <1>1, AtWork DEF ComesTo
<1>4. mem[p].sel \in Deployment /\ ServersTyped BY <1>3 DEF Memory, Typed
<1>5. /\ mem[p].sel.name = AccountOf(Call(p)) /\ mem[p].sel.hosts = HostsOf[mem[p].sel.name] /\ CallAgrees(Call(p))
      /\ SaysHosts(mem[p].list) /\ MapOf(mem[p].map, sessions) /\ Agreed(todo[p])
  BY <1>1, OwnWork, CallOwns
\* A pinned profile is the account's, if it is a deployment's at all.
<1>6. pinned \in Names => pinned = AccountOf(Call(p))
  <2>1. Op(p) = "configure" => Call(p).name # "" BY <1>3, CallFields, SeedNamed
  <2> QED BY <1>3, <1>5, <2>1 DEF CallAgrees, AccountOf
<1> HIDE DEF endpoint, pinned
<1>7. e # NoEntry /\ sessions'[e.session].hosts = mem[p].sel.hosts
  <2>1. e # NoEntry /\ e.session = Len(sessions) + 1 BY <1>1, <1>2, <1>4, Opening
  <2>2. sessions'[Len(sessions) + 1] = [name |-> mem[p].sel.name, hosts |-> mem[p].sel.hosts,
                                        issuer |-> mem[p].sel.issuer, endpoint |-> endpoint]
    BY <1>1, <1>2, <1>4, Opening
  <2>3. sessions'[Len(sessions) + 1].hosts = mem[p].sel.hosts BY <2>2
  <2> QED BY <2>1, <2>3
<1> HIDE DEF e
<1>8. /\ m.entry = e /\ m.profile = pinned /\ m.sel = mem[p].sel /\ m.list = mem[p].list /\ m.map = mem[p].map
  BY <1>3 DEF Memory
<1> HIDE DEF m
<1>9. MapOf(m.map, sessions')
  <2>1. mem[p].map \in [Profiles -> Kept(sessions)] BY <1>3 DEF Memory
  <2> QED BY <1>5, <1>8, <2>1, MapGrows
<1>10. Of(m.entry, m.profile, sessions') BY <1>5, <1>6, <1>7, <1>8 DEF Of
<1>11. label \in {"profile", "credLoad"} OBVIOUS
<1> HIDE DEF label
<1>12. OwnsAt(todo[p], label, m, sessions')
  BY <1>3, <1>5, <1>7, <1>8, <1>9, <1>10, <1>11 DEF OwnsAt, Carries
<1> QED BY <1>1, <1>12, GoingOwns

LEMMA ProfileOwns ==
  ASSUME HostsAgree, Typed, FilesOwn, CallsOwn, Grows, NEW p \in Procs, Profile(p) \/ SelectLogout(p)
  PROVE  CallsOwn'
<1>1. /\ at[p] \in {"profile", "select"} /\ at[p] \notin Stopped /\ RunTyped /\ FilesTyped
      /\ at[p] = "select" => Op(p) = "logout"
  BY DEF Profile, SelectLogout, Stopped, Typed
<1>2. \/ Fails(p)
      \/ \E d \in SelectedAccount(All, NameOf(p)) :
           \/ at[p] = "profile" /\ GoTo(p, "credLoad", [mem[p] EXCEPT !.profile = LoginProfile(d)])
           \/ at[p] = "select" /\ GoTo(p, "credLoad", [mem[p] EXCEPT !.sel = d, !.profile = LoginProfile(d)])
  BY DEF Profile, SelectLogout
<1>3. ASSUME NEW d \in SelectedAccount(All, NameOf(p)),
             NEW m, m = [mem[p] EXCEPT !.profile = LoginProfile(d)] \/ m = [mem[p] EXCEPT !.sel = d, !.profile = LoginProfile(d)],
             GoTo(p, "credLoad", m)
      PROVE  CallsOwn'
  <2>1. d \in Deployment /\ d.name = AccountOf(Call(p)) /\ Among(d, All) BY <1>1, AccountTyped, CallOwns
  <2>2. d.hosts = HostsOf[d.name] BY <2>1, AllOwns DEF Among, SaysHosts
  <2>3. mem[p] \in Memory(sessions) BY <1>1, AtWork
  <2>4. LoginProfile(d) \in Profiles BY <2>1, LoginProfileTyped
  <2>5. /\ m \in Memory(sessions) /\ m.map = mem[p].map /\ m.list = mem[p].list /\ m.entry = mem[p].entry
        /\ m.profile = LoginProfile(d) /\ m.sel \in {d, mem[p].sel}
    BY <1>3, <2>1, <2>3, <2>4 DEF Memory
  <2>6. LoginProfile(d) \in Names => LoginProfile(d) = AccountOf(Call(p)) BY <2>1, SeedNamed DEF LoginProfile
  <2>7. Of(mem[p].entry, LoginProfile(d), sessions)
    <3>1. CASE at[p] = "profile" BY <2>6, <3>1, OwnWork DEF Of
    <3>2. CASE at[p] = "select"
      <4>1. mem[p].entry = NoEntry BY <1>1, <3>2, AtWork
      <4> QED BY <4>1 DEF Of
    <3> QED BY <1>1, <3>1, <3>2
  <2>8. Op(p) # "get" BY <1>1, AtWork DEF ComesTo
  <2>9. m.sel.hosts = HostsOf[m.sel.name] BY <2>2, <2>5, OwnWork
  <2>10. MapOf(m.map, sessions) BY <2>5, OwnWork
  <2> QED BY <1>3, <2>5, <2>7, <2>8, <2>9, <2>10, CarryingOwns DEF Carries
<1> QED BY <1>1, <1>2, <1>3, PlainlyOwns

LEMMA OwnerOwns ==
  ASSUME HostsAgree, Typed, FilesOwn, CallsOwn, Grows, NEW p \in Procs, Owner(p)
  PROVE  CallsOwn'
<1>1. at[p] = "owner" /\ at[p] \notin Stopped /\ RunTyped /\ FilesTyped BY DEF Owner, Stopped, Typed
<1>2. \/ Fails(p) \/ Done(p)
      \/ \E d \in OwnerOf(All, Call(p).host) : GoTo(p, "credLoad", [mem[p] EXCEPT !.profile = d.name])
  BY DEF Owner
<1>3. ASSUME NEW d \in OwnerOf(All, Call(p).host), GoTo(p, "credLoad", [mem[p] EXCEPT !.profile = d.name]) PROVE CallsOwn'
  <2>1. d \in Deployment /\ Owns(d, Call(p).host) /\ Among(d, All) BY <1>1, AllIs, OwnerIs
  <2>2. d.hosts = HostsOf[d.name] /\ d.name \in Names BY <2>1, AllOwns DEF Among, SaysHosts, Deployment
  <2>3. Serving(d.name, Call(p).host) BY <2>1, <2>2 DEF Serving, Owns
  <2> DEFINE m == [mem[p] EXCEPT !.profile = d.name]
  <2>4. d.name \in Profiles /\ mem[p] \in Memory(sessions) BY <1>1, <2>2, SeedNamed, AtWork
  <2>5. /\ m \in Memory(sessions) /\ m.map = mem[p].map /\ m.list = mem[p].list /\ m.entry = mem[p].entry
        /\ m.profile = d.name /\ m.sel = mem[p].sel
    BY <2>4 DEF Memory
  <2>6. GoTo(p, "credLoad", m) BY <1>3
  <2> HIDE DEF m
  <2>7. Of(m.entry, m.profile, sessions) BY <1>1, <2>5, OwnWork DEF Of
  <2>8. m.sel.hosts = HostsOf[m.sel.name] BY <2>5, OwnWork
  <2>9. MapOf(m.map, sessions) BY <2>5, OwnWork
  <2> QED BY <2>3, <2>5, <2>6, <2>7, <2>8, <2>9, CarryingOwns DEF Carries
<1> QED BY <1>1, <1>2, <1>3, PlainlyOwns

\* A configure records the hosts its server names.
LEMMA ProbeOwns ==
  ASSUME HostsAgree, Typed, FilesOwn, CallsOwn, Grows, sessions' = sessions, NEW p \in Procs, Probe(p)
  PROVE  CallsOwn'
<1>1. at[p] = "probe" /\ at[p] \notin Stopped BY DEF Probe, Stopped
<1>2. /\ Call(p) \in Calls /\ Op(p) = Call(p).op /\ Op(p) = "configure" /\ mem[p] \in Memory(sessions)
      /\ todo[p] # <<>> /\ Call(p) = Head(todo[p]) /\ todo[p] \in Seq(Calls)
  BY <1>1, AtWork DEF ComesTo
<1>3. CallAgrees(Call(p)) BY <1>1, CallOwns
<1> DEFINE recorded(i) == [name |-> Call(p).name, default |-> Call(p).makeDefault,
                           hosts |-> Discovered[Call(p).host].hosts \cup {Call(p).host}, issuer |-> i]
<1>4. \/ Fails(p)
      \/ \E i : todo' = [todo EXCEPT ![p][1].issuer = i] /\ UNCHANGED <<at, mem, answer>>
      \/ Call(p).host \in DOMAIN Discovered /\ \E i : GoTo(p, "confLoad", [mem[p] EXCEPT !.sel = recorded(i)])
  BY DEF Probe, IsDeployment, Recorded
<1>5. ASSUME NEW i, todo' = [todo EXCEPT ![p][1].issuer = i], UNCHANGED <<at, mem, answer>> PROVE CallsOwn'
  <2> DEFINE c == [Call(p) EXCEPT !.issuer = i]
             calls == [todo[p] EXCEPT ![1] = c]
  <2>1. \A k \in DOMAIN calls : k \in DOMAIN todo[p] /\ calls[k] = (IF k = 1 THEN c ELSE todo[p][k]) OBVIOUS
  <2>2. c.op = "configure" /\ c.name = Call(p).name /\ c.host = Call(p).host
    BY <1>2 DEF Calls
  <2>3. CallAgrees(c) BY <1>2, <1>3, <2>2 DEF CallAgrees
  <2> HIDE DEF c
  <2>4. Agreed(todo[p]) BY OwnWork
  <2>5. Agreed(calls) BY <2>1, <2>3, <2>4 DEF Agreed
  <2>6. todo' = [todo EXCEPT ![p] = calls]
    <3>1. Call(p) = todo[p][1] BY <1>2
    <3> QED BY <1>5, <3>1 DEF c
  <2> HIDE DEF calls
  <2> SUFFICES ASSUME NEW q \in Procs
               PROVE  OwnsAt(todo'[q], at'[q], mem'[q], sessions') /\ AnswerOwns(answer'[q], sessions')
    BY DEF CallsOwn
  <2>7. OwnsAt(todo[q], at[q], mem[q], sessions) /\ AnswerOwns(answer[q], sessions) BY DEF CallsOwn
  <2>8. CASE q # p
    <3>1. todo'[q] = todo[q] BY <2>6, <2>8 DEF Typed, CallsTyped
    <3> QED BY <1>5, <2>7, <3>1
  <2>9. CASE q = p
    <3>1. todo'[p] = calls BY <2>6 DEF Typed, CallsTyped
    <3>2. OwnsAt(calls, at[p], mem[p], sessions) BY <1>1, <2>5, <2>7, <2>9 DEF OwnsAt, Carries
    <3> QED BY <1>5, <2>7, <2>9, <3>1, <3>2
  <2> QED BY <2>8, <2>9
<1>6. ASSUME NEW i, Call(p).host \in DOMAIN Discovered, GoTo(p, "confLoad", [mem[p] EXCEPT !.sel = recorded(i)])
      PROVE  CallsOwn'
  <2> DEFINE d == recorded(i)  m == [mem[p] EXCEPT !.sel = d]
  <2>1. d.hosts = HostsOf[d.name]
    <3>1. d.hosts = Discovered[Call(p).host].hosts \cup {Call(p).host} /\ d.name = Call(p).name OBVIOUS
    <3> HIDE DEF d
    <3> QED BY <1>2, <1>3, <1>6, <3>1 DEF CallAgrees
  <2> HIDE DEF d
  <2>2. m.map = mem[p].map /\ m.list = mem[p].list /\ m.sel = d BY <1>2 DEF Memory
  <2>3. GoTo(p, "confLoad", m) BY <1>6 DEF d
  <2> HIDE DEF m
  <2>4. SaysHosts(m.list) /\ MapOf(m.map, sessions) /\ Agreed(todo[p]) BY <2>2, OwnWork
  <2>5. OwnsAt(todo[p], "confLoad", m, sessions) BY <2>1, <2>2, <2>4 DEF OwnsAt, Carries
  <2>6. OwnsAt(todo[p], "confLoad", m, sessions') BY <2>5
  <2> QED BY <2>3, <2>6, GoingOwns
<1> HIDE DEF recorded
<1> QED BY <1>1, <1>4, <1>5, <1>6, PlainlyOwns

\* The API token's bearers are for no host.
LEMMA ApiOwns ==
  ASSUME HostsAgree, Typed, FilesOwn, CallsOwn, Grows, NEW p \in Procs, ApiEnv(p) \/ ApiExchange(p)
  PROVE  CallsOwn'
<1>1. at[p] \in {"apiEnv", "apiExchange"} /\ at[p] \notin Stopped /\ RunTyped /\ FilesTyped
  BY DEF ApiEnv, ApiExchange, Stopped, Typed
<1>2. mem[p] \in Memory(sessions) /\ Op(p) = "token" BY <1>1, AtWork DEF ComesTo
<1>3. \/ Fails(p) \/ (\E e : HandOut(p, e))
      \/ \E d \in Selected(All, "") : GoTo(p, "apiExchange", [mem[p] EXCEPT !.sel = d])
  BY DEF ApiEnv, ApiExchange, ResolvedEnv
<1>4. ASSUME NEW d \in Selected(All, ""), GoTo(p, "apiExchange", [mem[p] EXCEPT !.sel = d]) PROVE CallsOwn'
  <2>1. d \in Deployment /\ Among(d, All) BY <1>1, AllIs, SelectedIs
  <2>2. d.hosts = HostsOf[d.name] BY <2>1, AllOwns DEF Among, SaysHosts
  <2> DEFINE m == [mem[p] EXCEPT !.sel = d]
  <2>3. m \in Memory(sessions) /\ m.map = mem[p].map /\ m.list = mem[p].list /\ m.sel = d
    BY <1>2, <2>1 DEF Memory
  <2>4. GoTo(p, "apiExchange", m) BY <1>4
  <2> HIDE DEF m
  <2>5. SaysHosts(m.list) /\ MapOf(m.map, sessions) BY <2>3, OwnWork
  <2> QED BY <2>2, <2>3, <2>4, <2>5, MovingOwns DEF Carries
<1>5. ASSUME NEW e, HandOut(p, e) PROVE CallsOwn' BY <1>1, <1>2, <1>5, HandingOwns
<1> QED BY <1>1, <1>3, <1>4, <1>5, PlainlyOwns

\* What is loaded under a name is of its hosts.
LEMMA LoadedOwns ==
  ASSUME Typed, FilesOwn PROVE MapOf(Loaded, sessions)
BY EmptyOwns DEF FilesOwn, Loaded

\* An entry placed under its name leaves the map of the others' hosts.
LEMMA PlacingOwns ==
  ASSUME NEW opened, NEW map \in [Profiles -> Kept(opened)], MapOf(map, opened), NEW e, NEW n, Of(e, n, opened)
  PROVE  MapOf([map EXCEPT ![n] = e], opened)
<1> SUFFICES ASSUME NEW k \in Profiles PROVE Of([map EXCEPT ![n] = e][k], k, opened) BY DEF MapOf
<1>1. CASE k = n BY <1>1
<1>2. CASE k # n
  <2>1. [map EXCEPT ![n] = e][k] = map[k] BY <1>2
  <2> QED BY <2>1 DEF MapOf
<1> QED BY <1>1, <1>2

LEMMA CredLoadOwns ==
  ASSUME HostsAgree, Typed, FilesOwn, CallsOwn, Grows, NEW p \in Procs, CredLoad(p)
  PROVE  CallsOwn'
<1>1. at[p] = "credLoad" /\ at[p] \notin Stopped /\ at[p] \in Carries BY DEF CredLoad, Stopped, Carries
<1>2. /\ mem[p] \in Memory(sessions) /\ FitsAt(todo[p], at[p], mem[p])
      /\ Op(p) = Head(todo[p]).op /\ todo[p] # <<>> /\ Op(p) \in Ops \ {"logoutAll", "use"}
  BY <1>1, AtWork DEF ComesTo
<1>3. mem[p].profile \in Profiles BY <1>1, <1>2 DEF FitsAt
<1>4. Loaded \in [Profiles -> Kept(sessions)] /\ MapOf(Loaded, sessions) BY LoadedTyped, LoadedOwns
<1> DEFINE e == Loaded[mem[p].profile]
<1>5. e \in Kept(sessions) /\ Of(e, mem[p].profile, sessions) BY <1>3, <1>4 DEF MapOf
<1>6. /\ Of(mem[p].entry, mem[p].profile, sessions) /\ mem[p].sel.hosts = HostsOf[mem[p].sel.name]
      /\ Op(p) = "get" => Serving(mem[p].profile, Call(p).host)
  BY <1>1, OwnWork
<1>7. \/ Fails(p) \/ Done(p) \/ (e # NoEntry /\ HandOut(p, e))
      \/ GoTo(p, "refresh", [mem[p] EXCEPT !.entry = e, !.map = Loaded])
      \/ GoTo(p, "credOpen", [mem[p] EXCEPT !.map = [Loaded EXCEPT ![mem[p].profile] = mem[p].entry]])
  BY DEF CredLoad, Serves
<1> HIDE DEF e
<1>8. CASE e # NoEntry /\ HandOut(p, e) BY <1>1, <1>5, <1>6, <1>8, HandingOwns
<1>9. CASE GoTo(p, "refresh", [mem[p] EXCEPT !.entry = e, !.map = Loaded])
  <2> DEFINE m == [mem[p] EXCEPT !.entry = e, !.map = Loaded]
  <2>1. /\ m \in Memory(sessions) /\ m.entry = e /\ m.profile = mem[p].profile /\ m.map = Loaded
        /\ m.list = mem[p].list /\ m.sel = mem[p].sel
    BY <1>2, <1>4, <1>5 DEF Memory
  <2>2. GoTo(p, "refresh", m) BY <1>9
  <2> HIDE DEF m
  <2> QED BY <1>4, <1>5, <1>6, <2>1, <2>2, CarryingOwns DEF Carries
<1>10. CASE GoTo(p, "credOpen", [mem[p] EXCEPT !.map = [Loaded EXCEPT ![mem[p].profile] = mem[p].entry]])
  <2> DEFINE map == [Loaded EXCEPT ![mem[p].profile] = mem[p].entry]
             m == [mem[p] EXCEPT !.map = map]
  <2>1. mem[p].entry \in Kept(sessions) BY <1>2 DEF Memory
  <2>2. map \in [Profiles -> Kept(sessions)] BY <1>4, <2>1, Placing
  <2>3. MapOf(map, sessions) BY <1>4, <1>6, PlacingOwns
  <2> HIDE DEF map
  <2>4. /\ m \in Memory(sessions) /\ m.entry = mem[p].entry /\ m.profile = mem[p].profile /\ m.map = map
        /\ m.list = mem[p].list /\ m.sel = mem[p].sel
    BY <1>2, <2>2 DEF Memory
  <2>5. GoTo(p, "credOpen", m) BY <1>10 DEF map
  <2> HIDE DEF m
  <2> QED BY <1>6, <2>3, <2>4, <2>5, CarryingOwns DEF Carries
<1> QED BY <1>1, <1>7, <1>8, <1>9, <1>10, PlainlyOwns

\* A refreshed bearer is of the session of the one before it.
LEMMA RefreshOwns ==
  ASSUME HostsAgree, Typed, Typed', FilesOwn, CallsOwn, Grows, NEW p \in Procs, Refresh(p)
  PROVE  CallsOwn'
<1>1. at[p] = "refresh" /\ at[p] \notin Stopped /\ at[p] \in Carries BY DEF Refresh, Stopped, Carries
<1>2. /\ mem[p] \in Memory(sessions) /\ mem[p].entry.refresh # 0 /\ sessions' = sessions
  BY <1>1, AtWork DEF FitsAt, Refresh, idpVars
<1>3. mem[p].entry \in Kept(sessions) /\ mem[p].map \in [Profiles -> Kept(sessions)] BY <1>2 DEF Memory
<1>4. mem[p].entry # NoEntry BY <1>2, <1>3, KeptIs
<1>5. /\ Of(mem[p].entry, mem[p].profile, sessions) /\ mem[p].sel.hosts = HostsOf[mem[p].sel.name]
      /\ MapOf(mem[p].map, sessions)
  BY <1>1, OwnWork
<1>6. ASSUME NEW m, NEW fresh, Refreshed(p, m, fresh) PROVE CallsOwn'
  <2>1. /\ GoTo(p, "credOpen", m) /\ fresh.session = mem[p].entry.session
        /\ m.entry = fresh /\ m.profile = mem[p].profile /\ m.map = [mem[p].map EXCEPT ![mem[p].profile] = fresh]
        /\ m.sel = mem[p].sel /\ m.list = mem[p].list
    BY <1>6 DEF Refreshed
  <2>2. m \in Memory(sessions)
    <3>1. mem'[p] = m BY <2>1, GoingAlone DEF Typed
    <3> QED BY <1>2, <3>1 DEF Typed, CallsTyped
  <2>3. Of(fresh, mem[p].profile, sessions) /\ Of(fresh, m.profile, sessions) BY <1>4, <1>5, <2>1 DEF Of
  <2>4. MapOf(m.map, sessions)
    <3>1. MapOf([mem[p].map EXCEPT ![mem[p].profile] = fresh], sessions) BY <1>3, <1>5, <2>3, PlacingOwns
    <3> QED BY <2>1, <3>1
  <2>5. Op(p) = "get" => Serving(m.profile, Call(p).host) BY <1>1, <2>1, OwnWork
  <2> QED BY <1>5, <2>1, <2>2, <2>3, <2>4, <2>5, CarryingOwns DEF Carries
<1>7. Refresh(p) => Fails(p) \/ Done(p) \/ \E m, fresh : Refreshed(p, m, fresh)
  <2>1. ASSUME NEW a, Ends(p, a), ~Fails(p), ~Done(p), Refresh(p) PROVE \E m, fresh : Refreshed(p, m, fresh)
    <3>1. PICK m : GoTo(p, "credOpen", m) BY <2>1 DEF Refresh
    <3>2. at'[p] = "credOpen" BY <3>1, GoingAlone DEF Typed
    <3> QED BY <1>1, <2>1, <3>2, EndsQuietly
  <2> QED BY <2>1, RefreshIs
<1> QED BY <1>1, <1>6, <1>7, PlainlyOwns

\* A save hands out the entry it stored, or leaves the call's memory as it is.
LEMMA SaveOwns ==
  ASSUME HostsAgree, Typed, FilesOwn, CallsOwn, Grows, NEW p \in Procs,
         SaveKeyring(p) \/ OpenStore(p) \/ WriteStore(p)
  PROVE  CallsOwn'
<1>1. at[p] \in {"credOpen", "clear", "credWrite"} /\ at[p] \notin Stopped
  BY DEF SaveKeyring, OpenStore, WriteStore, Stopped
<1>2. /\ mem[p] \in Memory(sessions) /\ FitsAt(todo[p], at[p], mem[p]) /\ ComesTo(Op(p), at[p])
      /\ Op(p) = Head(todo[p]).op /\ todo[p] # <<>>
      /\ Op(p) = "logoutAll" => mem[p].entry = NoEntry
  BY <1>1, AtWork
<1>3. /\ SaysHosts(mem[p].list) /\ mem[p].sel.hosts = HostsOf[mem[p].sel.name] /\ MapOf(mem[p].map, sessions)
      /\ at[p] \in Carries => Of(mem[p].entry, mem[p].profile, sessions)
      /\ at[p] \in Carries /\ Op(p) = "get" => Serving(mem[p].profile, Call(p).host)
  BY OwnWork
<1>4. \/ Fails(p) \/ Done(p) \/ (Op(p) \in {"token", "get"} /\ HandOut(p, mem[p].entry))
      \/ GoTo(p, "confLoad", mem[p])
      \/ at[p] \in {"credOpen", "clear"} /\ GoTo(p, "credWrite", mem[p])
  BY DEF SaveKeyring, OpenStore, WriteStore, Saved, NotSaved
<1>5. CASE Op(p) \in {"token", "get"} /\ HandOut(p, mem[p].entry)
  <2>1. at[p] \in {"credOpen", "credWrite"} BY <1>1, <1>2, <1>5 DEF ComesTo
  <2>2. at[p] \in Carries BY <2>1 DEF Carries
  <2>3. mem[p].entry \in Kept(sessions) BY <1>2 DEF Memory
  <2>4. mem[p].entry # NoEntry BY <1>1, <1>2, <1>5, <2>1 DEF FitsAt
  <2> QED BY <1>1, <1>3, <1>5, <2>2, <2>3, <2>4, HandingOwns
<1>6. CASE GoTo(p, "confLoad", mem[p]) BY <1>2, <1>3, <1>6, MovingOwns DEF Carries
<1>7. CASE at[p] \in {"credOpen", "clear"} /\ GoTo(p, "credWrite", mem[p])
  <2>1. "credWrite" \in Carries BY DEF Carries
  <2>2. CASE at[p] = "credOpen"
    <3>1. at[p] \in Carries BY <2>2 DEF Carries
    <3> QED BY <1>2, <1>3, <1>7, <2>1, <3>1, CarryingOwns
  <2>3. CASE at[p] = "clear"
    <3>1. Op(p) = "logoutAll" BY <1>2, <2>3 DEF ComesTo
    <3>2. Of(mem[p].entry, mem[p].profile, sessions) BY <1>2, <3>1 DEF Of
    <3> QED BY <1>2, <1>3, <1>7, <2>1, <3>1, <3>2, CarryingOwns
  <2> QED BY <1>7, <2>2, <2>3
<1> QED BY <1>1, <1>4, <1>5, <1>6, <1>7, PlainlyOwns

\* The list a command writes names hosts as the list before it and its record do.
LEMMA WrittenOwns ==
  ASSUME Typed, FilesOwn, CallsOwn, NEW p \in Procs, at[p] = "confLoad", Op(p) = "remove" => Has(config.list, Call(p).name)
  PROVE  SaysHosts(Written(p))
<1>1. at[p] \notin Stopped BY DEF Stopped
<1>2. mem[p].sel \in Deployment /\ Op(p) \in {"configure", "use", "remove", "logout"}
  BY <1>1, AtWork DEF ComesTo, Memory
<1>3. config.list \in Lists /\ SaysHosts(config.list) /\ mem[p].sel.hosts = HostsOf[mem[p].sel.name]
  BY OwnWork DEF Typed, FilesTyped, FilesOwn
<1>4. CASE Op(p) = "configure"
  <2>1. Written(p) = Upsert(config.list, mem[p].sel) BY <1>4 DEF Written
  <2>2. Descends(Written(p), config.list, mem[p].sel) BY <1>2, <1>3, <2>1, UpsertIs
  <2> QED BY <1>3, <2>2 DEF Descends, SaysHosts
<1>5. ASSUME NEW n, Written(p) = DefaultSet(config.list, n) PROVE SaysHosts(Written(p))
  BY <1>3, <1>5, DefaultSetIs DEF SaysHosts
<1>6. CASE Op(p) = "remove"
  <2>1. Written(p) = Without(config.list, Call(p).name) BY <1>6 DEF Written
  <2>2. \A i \in DOMAIN Written(p) : \E j \in DOMAIN config.list : Written(p)[i] = config.list[j]
    BY <1>3, <1>6, <2>1, WithoutIs
  <2> QED BY <1>3, <2>2 DEF SaysHosts
<1>7. CASE Op(p) = "use" BY <1>5, <1>7 DEF Written
<1>8. CASE Op(p) = "logout" BY <1>5, <1>8 DEF Written
<1> QED BY <1>2, <1>4, <1>6, <1>7, <1>8

LEMMA ConfOwns ==
  ASSUME HostsAgree, Typed, FilesOwn, CallsOwn, Grows, NEW p \in Procs, ConfLoad(p) \/ ConfOpen(p) \/ ConfWrite(p)
  PROVE  CallsOwn'
<1>1. at[p] \in {"confLoad", "confOpen", "confWrite"} /\ at[p] \notin Stopped
  BY DEF ConfLoad, ConfOpen, ConfWrite, CannotLogIn, Stopped
<1>2. /\ mem[p] \in Memory(sessions) /\ Call(p) \in Calls /\ Op(p) = Call(p).op
      /\ Op(p) \in {"logout", "remove", "logoutAll"} => mem[p].entry = NoEntry
  BY <1>1, AtWork
<1>3. SaysHosts(mem[p].list) /\ mem[p].sel.hosts = HostsOf[mem[p].sel.name] /\ MapOf(mem[p].map, sessions)
  BY OwnWork
<1>4. \/ Fails(p) \/ Done(p)
      \/ /\ at[p] = "confLoad" /\ (Op(p) = "remove" => Has(config.list, Call(p).name))
         /\ GoTo(p, "confOpen", [mem[p] EXCEPT !.list = Written(p)])
      \/ GoTo(p, "confWrite", mem[p]) \/ GoTo(p, "select", mem[p])
      \/ Op(p) = "remove" /\ GoTo(p, "credLoad", [mem[p] EXCEPT !.profile = Call(p).name])
  BY DEF ConfLoad, ConfOpen, ConfWrite, CannotLogIn
<1>5. CASE /\ at[p] = "confLoad" /\ (Op(p) = "remove" => Has(config.list, Call(p).name))
           /\ GoTo(p, "confOpen", [mem[p] EXCEPT !.list = Written(p)])
  <2> DEFINE m == [mem[p] EXCEPT !.list = Written(p)]
  <2>1. Written(p) \in Lists /\ SaysHosts(Written(p)) BY <1>5, WrittenTyped, WrittenOwns
  <2>2. m \in Memory(sessions) /\ m.list = Written(p) /\ m.map = mem[p].map /\ m.sel = mem[p].sel
    BY <1>2, <2>1 DEF Memory
  <2>3. GoTo(p, "confOpen", m) BY <1>5
  <2> HIDE DEF m
  <2> QED BY <1>3, <2>1, <2>2, <2>3, MovingOwns DEF Carries
<1>6. CASE GoTo(p, "confWrite", mem[p]) BY <1>2, <1>3, <1>6, MovingOwns DEF Carries
<1>7. CASE GoTo(p, "select", mem[p]) BY <1>2, <1>3, <1>7, MovingOwns DEF Carries
<1>8. CASE Op(p) = "remove" /\ GoTo(p, "credLoad", [mem[p] EXCEPT !.profile = Call(p).name])
  <2> DEFINE m == [mem[p] EXCEPT !.profile = Call(p).name]
  <2>1. Call(p).name \in Profiles BY <1>2, <1>8, CallFields, SeedNamed
  <2>2. /\ m \in Memory(sessions) /\ m.list = mem[p].list /\ m.map = mem[p].map /\ m.sel = mem[p].sel
        /\ m.entry = mem[p].entry
    BY <1>2, <2>1 DEF Memory
  <2>3. GoTo(p, "credLoad", m) BY <1>8
  <2> HIDE DEF m
  <2>4. "credLoad" \in Carries /\ Of(m.entry, m.profile, sessions) BY <1>2, <1>8, <2>2 DEF Carries, Of
  <2> QED BY <1>3, <1>8, <2>2, <2>3, <2>4, CarryingOwns
<1> QED BY <1>1, <1>4, <1>5, <1>6, <1>7, <1>8, PlainlyOwns

\* A process that is killed holds nothing more.
LEMMA CrashOwns ==
  ASSUME Typed, CallsOwn, Grows, NEW p \in Procs, Crash(p)
  PROVE  CallsOwn'
<1>1. /\ at' = [at EXCEPT ![p] = "crashed"] /\ todo' = [todo EXCEPT ![p] = <<>>] /\ mem' = mem /\ answer' = answer
  BY DEF Crash
<1> SUFFICES ASSUME NEW q \in Procs
             PROVE  OwnsAt(todo'[q], at'[q], mem'[q], sessions') /\ AnswerOwns(answer'[q], sessions')
  BY DEF CallsOwn
<1>2. OwnsAt(todo[q], at[q], mem[q], sessions) /\ AnswerOwns(answer[q], sessions) BY DEF CallsOwn
<1>3. mem[q] \in Memory(sessions) /\ todo \in [Procs -> Seq(Calls)] /\ at \in [Procs -> Labels]
  BY DEF Typed, CallsTyped
<1>4. AnswerOwns(answer[q], sessions') BY <1>2, AnswerGrows
<1>5. CASE q = p
  <2>1. Agreed(<<>>) BY DEF Agreed
  <2>2. OwnsAt(<<>>, "crashed", mem[q], sessions) BY <1>2, <2>1 DEF OwnsAt, Carries
  <2>3. OwnsAt(<<>>, "crashed", mem[q], sessions') BY <1>3, <2>2, CallGrows
  <2>4. todo'[q] = <<>> /\ at'[q] = "crashed" BY <1>1, <1>3, <1>5
  <2> QED BY <1>1, <1>4, <2>3, <2>4
<1>6. CASE q # p
  <2>1. todo'[q] = todo[q] /\ at'[q] = at[q] BY <1>1, <1>3, <1>6
  <2>2. OwnsAt(todo[q], at[q], mem[q], sessions') BY <1>2, <1>3, CallGrows
  <2> QED BY <1>1, <1>4, <2>1, <2>2
<1> QED BY <1>5, <1>6

LEMMA InitOwns == Init => Owning
<1> SUFFICES ASSUME Init, HostsAgree PROVE FilesOwn /\ CallsOwn BY DEF Owning
<1>1. PICK w \in Worlds : /\ apiToken = w.apiToken /\ repo = w.repo /\ config = [list |-> w.user, torn |-> FALSE]
                          /\ todo = w.calls
  BY DEF Init
<1>2. w \in World BY AuthAssumption
<1>3. /\ store = [map |-> Empty, torn |-> FALSE] /\ answer = [p \in Procs |-> NoAnswer]
      /\ at = [p \in Procs |-> StartOf(todo[p], apiToken)] /\ mem = [p \in Procs |-> Start(todo[p], apiToken)]
  BY DEF Init
<1>4. /\ \A i \in DOMAIN w.repo : w.repo[i].hosts = HostsOf[w.repo[i].name]
      /\ \A i \in DOMAIN w.user : w.user[i].hosts = HostsOf[w.user[i].name]
      /\ \A p \in Procs : \A i \in DOMAIN w.calls[p] : CallAgrees(w.calls[p][i])
  BY HostsOfIs DEF Agree, CallAgrees
<1>5. FilesOwn
  <2>1. config.list = w.user /\ store.map = Empty BY <1>1, <1>3
  <2> QED BY <1>1, <1>4, <2>1, EmptyOwns DEF FilesOwn, SaysHosts
<1>6. ASSUME NEW p \in Procs
      PROVE  OwnsAt(todo[p], at[p], mem[p], sessions) /\ AnswerOwns(answer[p], sessions)
  <2>1. todo[p] \in Seq(Calls) /\ apiToken \in BOOLEAN BY <1>1, <1>2 DEF World
  <2>2. Agreed(todo[p]) BY <1>1, <1>4 DEF Agreed
  <2>3. OwnsAt(todo[p], StartOf(todo[p], apiToken), Start(todo[p], apiToken), sessions) BY <2>1, <2>2, StartingOwns
  <2>4. AnswerOwns(NoAnswer, sessions) BY DEF AnswerOwns, NoAnswer
  <2> QED BY <1>3, <2>3, <2>4
<1> QED BY <1>5, <1>6 DEF CallsOwn

LEMMA NextOwns == Typed /\ Typed' /\ Owning /\ [Next]_vars => Owning'
<1> SUFFICES ASSUME Typed, Typed', Owning, [Next]_vars, HostsAgree PROVE FilesOwn' /\ CallsOwn'
  BY DEF Owning, HostsAgree, Agree
<1>1. FilesOwn /\ CallsOwn BY DEF Owning
<1>2. ASSUME NEW p \in Procs, Step(p) \/ Callback(p) \/ Denied(p) \/ Crash(p), Watched PROVE FilesOwn' /\ CallsOwn'
  <2>1. UNCHANGED envVars /\ repo' = repo BY <1>2 DEF Watched, envVars
  <2>2. Grows BY <1>2, StepsFiles
  <2>3. FilesOwn' BY <1>1, <1>2, <2>1, FilesStillOwn
  <2>4. CASE Refused(p)
    <3>1. at[p] \notin Stopped /\ Fails(p) BY <2>4 DEF Refused, Stopped
    <3>2. CallsOwn' BY <1>1, <2>2, <3>1, PlainlyOwns
    <3> QED BY <2>3, <3>2
  <2>5. CASE Probe(p)
    <3>1. sessions' = sessions BY <2>5 DEF Probe, idpVars
    <3>2. CallsOwn' BY <1>1, <2>2, <2>5, <3>1, ProbeOwns
    <3> QED BY <2>3, <3>2
  <2>6. CASE ~Refused(p) /\ ~Probe(p)
    <3>1. CallsOwn'
      BY <1>1, <1>2, <2>2, <2>6, StepsAre, SelectOwns, AnsweredOwns, ProfileOwns, OwnerOwns, ApiOwns,
         CredLoadOwns, RefreshOwns, SaveOwns, ConfOwns, CrashOwns
    <3> QED BY <2>3, <3>1
  <2> QED BY <2>4, <2>5, <2>6
<1>3. ASSUME UNCHANGED <<repo, store, config, sessions, procVars>> PROVE FilesOwn' /\ CallsOwn'
  BY <1>1, <1>3 DEF FilesOwn, CallsOwn, procVars
<1>4. ASSUME NEW s, Expire(s), Watched PROVE FilesOwn' /\ CallsOwn'
  BY <1>3, <1>4 DEF Expire, Watched, envVars, idpVars
<1>5. CASE UNCHANGED vars BY <1>3, <1>5 DEF vars, envVars, idpVars
<1> QED BY <1>2, <1>4, <1>5 DEF Next, Rest

LEMMA AlwaysOwning == Spec => []Owning
<1>1. Init => Owning BY InitOwns
<1>2. Typed /\ Typed' /\ Owning /\ [Next]_vars => Owning' BY NextOwns
<1> QED BY <1>1, <1>2, AlwaysTyped, PTL DEF Spec

\* What is stored keeps its session's kind, and where a name means the same hosts
\* everywhere a bearer the helper hands out for a host was issued to a login at a
\* deployment that serves this host (auth.rs:1691, :2471).
THEOREM TokensAlwaysFit == Spec => []TokensFit
<1>1. ASSUME Typed, Owning PROVE TokensFit
  <2>1. SessionsKeepKind BY <1>1, KindsHold
  <2>2. AnswersAreOwners BY <1>1 DEF Owning, CallsOwn, AnswerOwns, AnswersAreOwners
  <2> QED BY <2>1, <2>2 DEF TokensFit
<1> QED BY <1>1, AlwaysTyped, AlwaysOwning, PTL
=============================================================================
