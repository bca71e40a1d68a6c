--------------------------- MODULE RuntimeProofs ---------------------------
(***************************************************************************)
(* Proofs about Runtime, of every program: that a file is loaded once, in  *)
(* the module it belongs to (LoadsSound), that what is deferred, timed,    *)
(* shared and exported is carried through a task (TaskCarried), and that   *)
(* no command hides another (CommandsAreUnique).                           *)
(*                                                                         *)
(* LoaderInv is inductive by itself: the frames of the load stack are the  *)
(* files being loaded, each once, and the scopes are those of the frames   *)
(* that pushed one (Depths says which frame has pushed how many so far).   *)
(* FoundInv adds what has been found, and by whom: where the run is        *)
(* (Control), the task, feature and trait maps, and whose instance a type  *)
(* has.  TaskInv adds the exporters, the deferred callables and the phase  *)
(* log; CommandsSound, that the tree of commands was accepted.  Three      *)
(* lemmas about every step carry these: who may change a variable          *)
(* (Owners), how the phases follow each other (Onward), and that what is   *)
(* loaded stays as it is (LoadedStays, in EvaluateKeeps).                  *)
(***************************************************************************)
EXTENDS Runtime, TLAPS, WellFoundedInduction

----------------------------------------------------------------------------
(* Operators.                                                              *)

\* HashMap::insert: the key has the value, and no other entry changes.
LEMMA WithIs ==
  ASSUME NEW map, NEW key, NEW value
  PROVE  /\ DOMAIN With(map, key, value) = DOMAIN map \cup {key}
         /\ With(map, key, value)[key] = value
         /\ \A k \in DOMAIN map : k # key => With(map, key, value)[k] = map[k]
BY DEF With

\* Moving on to the next load leaves what a frame is about as it is.
Frame(X) == [file : X, next : Nat, scoped : BOOLEAN]

LEMMA AdvancedIs ==
  ASSUME NEW X, NEW fs \in Seq(Frame(X)), fs # << >>
  PROVE  /\ Advanced(fs) \in Seq(Frame(X)) /\ Len(Advanced(fs)) = Len(fs)
         /\ \A i \in 1..Len(fs) : /\ Advanced(fs)[i].file = fs[i].file
                                  /\ Advanced(fs)[i].scoped = fs[i].scoped
<1>1. Len(fs) \in 1..Len(fs)
  OBVIOUS
<1>2. PICK fr \in Frame(X) : fr = fs[Len(fs)]
  BY <1>1
<1>3. PICK top \in Frame(X) : /\ top = [fr EXCEPT !.next = fr.next + 1]
                              /\ top.file = fr.file /\ top.scoped = fr.scoped
  <2>1. fr.next + 1 \in Nat
    BY DEF Frame
  <2>2. [fr EXCEPT !.next = fr.next + 1] = [file |-> fr.file, next |-> fr.next + 1, scoped |-> fr.scoped]
    BY DEF Frame
  <2>3. [file |-> fr.file, next |-> fr.next + 1, scoped |-> fr.scoped] \in Frame(X)
    BY <2>1 DEF Frame
  <2> QED BY <2>2, <2>3
<1>4. Advanced(fs) = [fs EXCEPT ![Len(fs)] = top]
  BY <1>1, <1>2, <1>3 DEF Advanced
<1>5. [fs EXCEPT ![Len(fs)] = top] \in Seq(Frame(X)) /\ Len([fs EXCEPT ![Len(fs)] = top]) = Len(fs)
  BY <1>1
<1>6. \A i \in 1..Len(fs) : [fs EXCEPT ![Len(fs)] = top][i] = IF i = Len(fs) THEN top ELSE fs[i]
  BY <1>1
<1> QED BY <1>2, <1>3, <1>4, <1>5, <1>6

\* A sequence over a set is one over a larger set.
LEMMA SeqWidens ==
  ASSUME NEW A, NEW B, A \subseteq B, NEW s \in Seq(A)
  PROVE  s \in Seq(B)
<1>1. Len(s) \in Nat /\ s = [i \in 1..Len(s) |-> s[i]] /\ \A i \in 1..Len(s) : s[i] \in B
  OBVIOUS
<1> QED BY <1>1

\* All but the last.
LEMMA FrontIs ==
  ASSUME NEW X, NEW s \in Seq(X), s # << >>
  PROVE  /\ Front(s) \in Seq(X) /\ Len(Front(s)) = Len(s) - 1
         /\ \A i \in 1..Len(s) - 1 : Front(s)[i] = s[i]
<1>1. Len(s) \in Nat /\ Len(s) >= 1
  OBVIOUS
<1>2. Front(s) = [i \in 1..Len(s) - 1 |-> s[i]]
  BY <1>1 DEF Front
<1> QED BY <1>1, <1>2

\* The smallest of some numbers.
LEMMA MinIs ==
  ASSUME NEW S \in SUBSET Nat, S # {}
  PROVE  Min(S) \in S /\ \A k \in S : Min(S) <= k
<1>1. \E x \in S : \A y \in S : x <= y
  <2> DEFINE R == OpToRel(<, Nat)
  <2>1. PICK x \in S : \A y \in S : ~(<<y, x>> \in R)
    <3> HIDE DEF R
    <3> QED BY WFMin, NatLessThanWellFounded DEF R
  <2>2. \A y \in S : x <= y
    <3> TAKE y \in S
    <3>1. x \in Nat /\ y \in Nat
      OBVIOUS
    <3>2. ~(y < x)
      BY <2>1, <3>1 DEF OpToRel
    <3> QED BY <3>1, <3>2
  <2> QED BY <2>2
<1> QED BY <1>1 DEF Min
----------------------------------------------------------------------------
(* The loader.                                                             *)

\* The files on the stack are those being loaded, each once.
StackSound ==
    /\ \E X : frames \in Seq(Frame(X))
    /\ \E X : scopes \in Seq(X)
    /\ \A i \in 1..Len(frames) : Loading(frames[i].file)
    /\ \A i, j \in 1..Len(frames) : frames[i].file = frames[j].file => i = j

\* d[i] scopes have been pushed by the first i frames, and a file that is not
\* embedded is loaded under a scope of its own module.
Depths(d, fs, sc) ==
    /\ d \in [0..Len(fs) -> 0..Len(sc)]
    /\ d[0] = 0 /\ d[Len(fs)] = Len(sc)
    /\ \A i \in 1..Len(fs) : d[i] = d[i - 1] + (IF fs[i].scoped THEN 1 ELSE 0)
    /\ \A i, j \in 0..Len(fs) : i <= j => d[i] <= d[j]
    /\ \A i \in 1..Len(fs) :
          fs[i].file.mod # Std => d[i] >= 1 /\ sc[d[i]] = fs[i].file.mod
Aligned == \E d : Depths(d, frames, scopes)

\* The modules made so far are those in the cache.
CacheSound ==
    /\ made \in Nat
    /\ \A f \in DOMAIN cache : /\ cache[f].state \in {"Loading", "Loaded"}
                               /\ Loaded(f) => Module(f) \in 1..made

GotSound == OneModulePerFile /\ \A e \in DOMAIN got : got[e] \in 1..made

LoaderErrors == {"unresolved", "cycle", "broken"}
FailureSound == frames # << >> => failure \in LoaderErrors \cup {""}

LoaderInv == StackSound /\ Aligned /\ CacheSound /\ GotSound /\ FailureSound

\* What is loaded stays what it is.
LoadedStays == \A f : Loaded(f) => Loaded(f)' /\ Module(f)' = Module(f)

\* The scope of a file is its module's, and no scope outlives the stack.
LEMMA AlignedIsHome == StackSound /\ Aligned => ScopeIsHome
<1> SUFFICES ASSUME StackSound, Aligned PROVE ScopeIsHome
  OBVIOUS
<1>1. PICK X : frames \in Seq(Frame(X))
  BY DEF StackSound
<1>2. PICK Y : scopes \in Seq(Y)
  BY DEF StackSound
<1>3. PICK d : Depths(d, frames, scopes)
  BY DEF Aligned
<1>4. ASSUME frames # << >>, Top.file.mod # Std PROVE CurrentModule = Top.file.mod
  <2>1. Len(frames) \in 1..Len(frames)
    BY <1>1, <1>4
  <2>2. scopes[d[Len(frames)]] = frames[Len(frames)].file.mod
    BY <1>3, <1>4, <2>1 DEF Depths, Top
  <2> QED BY <1>3, <2>2 DEF Depths, Top, CurrentModule
<1>5. ASSUME frames = << >> PROVE scopes = << >>
  <2>1. Len(scopes) = 0
    BY <1>3, <1>5 DEF Depths
  <2> QED BY <1>2, <2>1
<1> QED BY <1>4, <1>5 DEF ScopeIsHome

\* The fs change, but neither their files nor what they pushed.
LEMMA AlignedStays ==
  ASSUME NEW fs, NEW sc, NEW fs2, NEW d, Depths(d, fs, sc),
         Len(fs2) = Len(fs), Len(fs) \in Nat,
         \A i \in 1..Len(fs) : fs2[i].file = fs[i].file /\ fs2[i].scoped = fs[i].scoped
  PROVE  Depths(d, fs2, sc)
<1>1. d \in [0..Len(fs2) -> 0..Len(sc)] /\ d[0] = 0 /\ d[Len(fs2)] = Len(sc)
  BY DEF Depths
<1>2. \A i, j \in 0..Len(fs2) : i <= j => d[i] <= d[j]
  BY DEF Depths
<1>3. \A i \in 1..Len(fs2) : d[i] = d[i - 1] + (IF fs2[i].scoped THEN 1 ELSE 0)
  BY DEF Depths
<1>4. \A i \in 1..Len(fs2) : fs2[i].file.mod # Std => d[i] >= 1 /\ sc[d[i]] = fs2[i].file.mod
  BY DEF Depths
<1> QED BY <1>1, <1>2, <1>3, <1>4 DEF Depths

\* A frame is pushed, with the scope of its file's module unless that is embedded.
LEMMA AlignedPush ==
  ASSUME NEW fs, NEW sc, NEW d, Depths(d, fs, sc), NEW fr, NEW fs2, NEW sc2, NEW scope,
         Len(fs) \in Nat, Len(sc) \in Nat,
         Len(fs2) = Len(fs) + 1, fs2[Len(fs) + 1] = fr, \A i \in 1..Len(fs) : fs2[i] = fs[i],
         \A i \in 1..Len(sc) : sc2[i] = sc[i],
         fr.scoped \in BOOLEAN,
         fr.scoped => /\ Len(sc2) = Len(sc) + 1 /\ sc2[Len(sc) + 1] = scope
                      /\ scope = fr.file.mod,
         ~fr.scoped => Len(sc2) = Len(sc) /\ fr.file.mod = Std
  PROVE  \E e : Depths(e, fs2, sc2)
<1>3. Depths(d, fs, sc)
  OBVIOUS
<1> DEFINE n == Len(fs)
           e == [i \in 0..n + 1 |-> IF i <= n THEN d[i] ELSE Len(sc2)]
<1>4. n \in Nat /\ Len(sc) \in Nat
  OBVIOUS
<1>5. Len(fs2) = n + 1 /\ fs2[n + 1] = fr /\ \A i \in 1..n : fs2[i] = fs[i]
  OBVIOUS
<1>6. /\ Len(sc2) = Len(sc) + (IF fr.scoped THEN 1 ELSE 0)
      /\ \A i \in 1..Len(sc) : sc2[i] = sc[i]
      /\ fr.scoped => sc2[Len(sc2)] = scope
  <2>1. CASE fr.scoped
    BY <2>1
  <2>2. CASE ~fr.scoped
    BY <1>4, <2>2
  <2> QED BY <2>1, <2>2
<1>8. Len(sc2) \in Nat /\ Len(sc2) >= Len(sc)
  BY <1>4, <1>6
<1>7. /\ d[n] = Len(sc) /\ \A i \in 0..n : d[i] \in 0..Len(sc)
      /\ \A i \in 0..n : e[i] = d[i]
      /\ e[n + 1] = Len(sc2)
  <2>1. d[n] = Len(sc) /\ \A i \in 0..n : d[i] \in 0..Len(sc)
    BY <1>3 DEF Depths
  <2>2. \A i \in 0..n : i \in 0..n + 1 /\ i <= n
    BY <1>4
  <2>3. n + 1 \in 0..n + 1 /\ ~(n + 1 <= n)
    BY <1>4
  <2> QED BY <2>1, <2>2, <2>3
<1>10. e \in [0..n + 1 -> 0..Len(sc2)]
  <2> SUFFICES ASSUME NEW i \in 0..n + 1
               PROVE  (IF i <= n THEN d[i] ELSE Len(sc2)) \in 0..Len(sc2)
    OBVIOUS
  <2>1. CASE i <= n
    <3>1. d[i] \in 0..Len(sc)
      BY <1>4, <1>7, <2>1
    <3> QED BY <1>4, <1>8, <2>1, <3>1
  <2>2. CASE ~(i <= n)
    BY <1>8, <2>2
  <2> QED BY <2>1, <2>2
<1> HIDE DEF e
<1>9. Depths(e, fs2, sc2)
  <2>1. e \in [0..Len(fs2) -> 0..Len(sc2)]
    BY <1>5, <1>10
  <2>2. e[0] = 0 /\ e[Len(fs2)] = Len(sc2)
    BY <1>3, <1>4, <1>5, <1>7 DEF Depths
  <2>3. \A i \in 1..Len(fs2) : e[i] = e[i - 1] + (IF fs2[i].scoped THEN 1 ELSE 0)
    <3> TAKE i \in 1..Len(fs2)
    <3>1. CASE i \in 1..n
      <4>5. i \in 0..n /\ i - 1 \in 0..n
        BY <1>4, <3>1
      <4>1. e[i] = d[i] /\ e[i - 1] = d[i - 1]
        BY <1>7, <4>5
      <4>2. fs2[i] = fs[i]
        BY <1>5, <3>1
      <4>3. d[i] = d[i - 1] + (IF fs[i].scoped THEN 1 ELSE 0)
        BY <1>3, <3>1 DEF Depths
      <4> QED BY <4>1, <4>2, <4>3
    <3>2. CASE i = n + 1
      <4>1. e[i - 1] = Len(sc)
        BY <1>4, <1>7, <3>2
      <4> QED BY <1>5, <1>6, <1>7, <3>2, <4>1
    <3> QED BY <1>4, <1>5, <3>1, <3>2
  <2>4. \A i, j \in 0..Len(fs2) : i <= j => e[i] <= e[j]
    <3> TAKE i, j \in 0..Len(fs2)
    <3> HAVE i <= j
    <3>1. CASE j <= n
      BY <1>3, <1>4, <1>5, <1>7, <3>1 DEF Depths
    <3>2. CASE j = n + 1
      BY <1>4, <1>5, <1>7, <1>8, <3>2
    <3> QED BY <1>4, <1>5, <3>1, <3>2
  <2>5. \A i \in 1..Len(fs2) :
           fs2[i].file.mod # Std => e[i] >= 1 /\ sc2[e[i]] = fs2[i].file.mod
    <3> TAKE i \in 1..Len(fs2)
    <3> HAVE fs2[i].file.mod # Std
    <3>1. CASE i \in 1..n
      <4>1. d[i] >= 1 /\ sc[d[i]] = fs[i].file.mod
        BY <1>3, <1>5, <3>1 DEF Depths
      <4>2. d[i] \in 1..Len(sc) /\ e[i] = d[i]
        BY <1>4, <1>7, <3>1, <4>1
      <4> QED BY <1>5, <1>6, <3>1, <4>1, <4>2
    <3>2. CASE i = n + 1
      <4>1. fs2[i] = fr
        BY <1>5, <3>2
      <4>2. fr.scoped /\ scope = fr.file.mod
        BY <4>1
      <4>3. sc2[Len(sc2)] = fs2[i].file.mod /\ Len(sc2) >= 1
        BY <1>4, <1>6, <4>1, <4>2
      <4>4. e[i] = Len(sc2)
        BY <1>7, <3>2
      <4> QED BY <4>3, <4>4
    <3>3. i \in 1..n \/ i = n + 1
      BY <1>4, <1>5
    <3> QED BY <3>1, <3>2, <3>3
  <2> QED BY <2>1, <2>2, <2>3, <2>4, <2>5 DEF Depths
<1> QED BY <1>9

\* The top frame is popped, with the scope it pushed.
LEMMA AlignedPop ==
  ASSUME NEW X, NEW fs \in Seq(Frame(X)), NEW Y, NEW sc \in Seq(Y), NEW d, Depths(d, fs, sc),
         fs # << >>, NEW fs2, Len(fs2) = Len(fs) - 1,
         \A i \in 1..Len(fs) - 1 : fs2[i].file = fs[i].file /\ fs2[i].scoped = fs[i].scoped,
         NEW sc2, sc2 = IF fs[Len(fs)].scoped THEN Front(sc) ELSE sc
  PROVE  sc2 \in Seq(Y) /\ \E e : Depths(e, fs2, sc2)
<1>3. Depths(d, fs, sc)
  OBVIOUS
<1> DEFINE n == Len(fs) - 1
           e == [i \in 0..n |-> d[i]]
<1>4. n \in Nat /\ Len(fs) = n + 1 /\ Len(sc) \in Nat /\ Len(fs2) = n
  OBVIOUS
<1>5. fs[Len(fs)].scoped \in BOOLEAN
  <2>1. fs[Len(fs)] \in Frame(X)
    BY <1>4
  <2> QED BY <2>1 DEF Frame
<1>6. /\ \A i \in 0..n + 1 : d[i] \in 0..Len(sc)
      /\ d[n + 1] = Len(sc) /\ d[n + 1] = d[n] + (IF fs[Len(fs)].scoped THEN 1 ELSE 0)
      /\ \A i \in 0..n : d[i] <= d[n]
  <2>1. \A i \in 0..n + 1 : d[i] \in 0..Len(sc)
    BY <1>3, <1>4 DEF Depths
  <2>2. n + 1 \in 1..Len(fs) /\ n + 1 - 1 = n
    BY <1>4
  <2>3. d[n + 1] = Len(sc) /\ d[n + 1] = d[n] + (IF fs[Len(fs)].scoped THEN 1 ELSE 0)
    BY <1>3, <1>4, <2>2 DEF Depths
  <2>4. \A i \in 0..n : d[i] <= d[n]
    BY <1>3, <1>4 DEF Depths
  <2> QED BY <2>1, <2>3, <2>4
<1>7. /\ sc2 \in Seq(Y) /\ Len(sc2) = d[n]
      /\ \A i \in 1..d[n] : sc2[i] = sc[i]
  <2>1. CASE fs[Len(fs)].scoped
    <3>1. d[n] \in Nat /\ Len(sc) = d[n] + 1
      BY <1>4, <1>6, <2>1
    <3>2. sc # << >> /\ sc2 = Front(sc)
      BY <2>1, <3>1
    <3>3. sc2 \in Seq(Y) /\ Len(sc2) = Len(sc) - 1 /\ \A i \in 1..Len(sc) - 1 : sc2[i] = sc[i]
      BY <3>2, FrontIs
    <3> QED BY <3>1, <3>3
  <2>2. CASE ~fs[Len(fs)].scoped
    <3>1. d[n] \in 0..Len(sc) /\ Len(sc) = d[n] + 0
      BY <1>4, <1>6, <2>2
    <3>2. sc2 = sc
      BY <2>2
    <3> QED BY <1>4, <3>1, <3>2
  <2> QED BY <1>5, <2>1, <2>2
<1>8. \A i \in 0..n : e[i] = d[i] /\ d[i] \in 0..d[n]
  <2>1. \A i \in 0..n : i \in 0..n + 1 /\ n \in 0..n + 1
    BY <1>4
  <2>2. \A i \in 0..n : d[i] \in 0..d[n]
    BY <1>4, <1>6, <2>1
  <2> QED BY <2>2
<1>9. e \in [0..n -> 0..d[n]]
  BY <1>8
<1> HIDE DEF e
<1>10. Depths(e, fs2, sc2)
  <2>1. e \in [0..Len(fs2) -> 0..Len(sc2)]
    BY <1>4, <1>7, <1>9
  <2>2. e[0] = 0 /\ e[Len(fs2)] = Len(sc2)
    BY <1>3, <1>4, <1>7, <1>8 DEF Depths
  <2>3. \A i \in 1..Len(fs2) : e[i] = e[i - 1] + (IF fs2[i].scoped THEN 1 ELSE 0)
    <3> TAKE i \in 1..Len(fs2)
    <3>1. i \in 1..n /\ i \in 0..n /\ i - 1 \in 0..n /\ i \in 1..Len(fs)
      BY <1>4
    <3>2. e[i] = d[i] /\ e[i - 1] = d[i - 1]
      BY <1>8, <3>1
    <3> QED BY <1>3, <3>1, <3>2 DEF Depths
  <2>4. \A i, j \in 0..Len(fs2) : i <= j => e[i] <= e[j]
    BY <1>3, <1>4, <1>8 DEF Depths
  <2>5. \A i \in 1..Len(fs2) :
           fs2[i].file.mod # Std => e[i] >= 1 /\ sc2[e[i]] = fs2[i].file.mod
    <3> TAKE i \in 1..Len(fs2)
    <3> HAVE fs2[i].file.mod # Std
    <3>1. i \in 1..n /\ i \in 0..n /\ i \in 1..Len(fs)
      BY <1>4
    <3>2. d[i] >= 1 /\ sc[d[i]] = fs[i].file.mod
      BY <1>3, <3>1 DEF Depths
    <3>3. d[i] \in 1..d[n] /\ e[i] = d[i]
      BY <1>4, <1>6, <1>8, <3>1, <3>2
    <3> QED BY <1>7, <3>1, <3>2, <3>3
  <2> QED BY <2>1, <2>2, <2>3, <2>4, <2>5 DEF Depths
<1> QED BY <1>7, <1>10

\* A file that is not in the cache yet is entered.
LEMMA EnterKeeps ==
  ASSUME StackSound, Aligned, CacheSound, GotSound, NEW f, NEW scoped \in BOOLEAN, NEW scope,
         ~Loaded(f), \A i \in 1..Len(frames) : frames[i].file # f,
         Enter(f, scoped), scopes' = (IF scoped THEN Append(scopes, scope) ELSE scopes),
         IF scoped THEN scope = f.mod ELSE f.mod = Std,
         UNCHANGED <<made, got>>
  PROVE  StackSound' /\ Aligned' /\ CacheSound' /\ GotSound' /\ LoadedStays
<1> DEFINE fr == [file |-> f, next |-> 1, scoped |-> scoped]
           entry == [state |-> "Loading", module |-> 0]
<1>1. PICK X : frames \in Seq(Frame(X))
  BY DEF StackSound
<1>2. PICK Y : scopes \in Seq(Y)
  BY DEF StackSound
<1>3. PICK d : Depths(d, frames, scopes)
  BY DEF Aligned
<1>4. fr.file = f /\ fr.scoped = scoped
  OBVIOUS
<1>5. frames' = Append(frames, fr) /\ cache' = With(cache, f, entry)
  BY DEF Enter
<1>6. /\ DOMAIN cache' = DOMAIN cache \cup {f} /\ cache'[f].state = "Loading"
      /\ \A g \in DOMAIN cache : g # f => cache'[g] = cache[g]
  BY <1>5 DEF With, entry
<1>7. frames \in Seq(Frame(X \cup {f})) /\ fr \in Frame(X \cup {f})
  <2>1. Frame(X) \subseteq Frame(X \cup {f}) /\ fr \in Frame(X \cup {f})
    BY DEF Frame
  <2> QED BY <1>1, <2>1, SeqWidens
<1> HIDE DEF fr, entry
<1>8. LoadedStays
  BY <1>6 DEF LoadedStays, Loaded, Module
<1>9. StackSound'
  <2>1. \E Z : frames' \in Seq(Frame(Z))
    BY <1>5, <1>7
  <2>2. \E Z : scopes' \in Seq(Z)
    <3>1. scopes \in Seq(Y \cup {scope}) /\ scope \in Y \cup {scope}
      BY <1>2
    <3>2. scopes' \in Seq(Y \cup {scope})
      BY <3>1
    <3> QED BY <3>2
  <2>3. /\ Len(frames') = Len(frames) + 1 /\ Len(frames) \in Nat
        /\ frames'[Len(frames) + 1] = fr
        /\ \A i \in 1..Len(frames) : frames'[i] = frames[i]
    BY <1>5, <1>7
  <2>4. \A i \in 1..Len(frames') :
           frames'[i].file \in DOMAIN cache' /\ cache'[frames'[i].file].state = "Loading"
    <3> TAKE i \in 1..Len(frames')
    <3>1. CASE i \in 1..Len(frames)
      <4>1. Loading(frames[i].file) /\ frames[i].file # f
        BY <3>1 DEF StackSound
      <4>2. cache'[frames[i].file] = cache[frames[i].file] /\ frames[i].file \in DOMAIN cache'
        BY <1>6, <4>1 DEF Loading
      <4>3. cache[frames[i].file].state = "Loading" /\ frames'[i] = frames[i]
        BY <2>3, <3>1, <4>1 DEF Loading
      <4> QED BY <4>2, <4>3
    <3>2. CASE i = Len(frames) + 1
      <4>1. frames'[i].file = f
        BY <1>4, <2>3, <3>2
      <4> QED BY <1>6, <4>1
    <3> QED BY <2>3, <3>1, <3>2
  <2>5. \A i, j \in 1..Len(frames') : frames'[i].file = frames'[j].file => i = j
    <3> TAKE i, j \in 1..Len(frames')
    <3>1. \A k \in 1..Len(frames') : k \in 1..Len(frames) \/ k = Len(frames) + 1
      BY <2>3
    <3>2. \A k \in 1..Len(frames) : frames'[k].file # f
      BY <2>3
    <3>3. frames'[Len(frames) + 1].file = f
      BY <1>4, <2>3
    <3>4. CASE i \in 1..Len(frames) /\ j \in 1..Len(frames)
      BY <2>3, <3>4 DEF StackSound
    <3>5. CASE i = Len(frames) + 1 /\ j \in 1..Len(frames)
      BY <3>2, <3>3, <3>5
    <3>6. CASE j = Len(frames) + 1 /\ i \in 1..Len(frames)
      BY <3>2, <3>3, <3>6
    <3> QED BY <3>1, <3>4, <3>5, <3>6
  <2> QED BY <2>1, <2>2, <2>4, <2>5 DEF StackSound, Loading
<1>10. Aligned'
  <2> DEFINE pushed == Append(frames, fr)
  <2>1. /\ Len(frames) \in Nat /\ Len(scopes) \in Nat /\ Len(pushed) = Len(frames) + 1
        /\ pushed[Len(frames) + 1] = fr /\ \A i \in 1..Len(frames) : pushed[i] = frames[i]
    BY <1>1, <1>2, <1>7
  <2> HIDE DEF pushed
  <2>2. /\ \A i \in 1..Len(scopes) : scopes'[i] = scopes[i]
        /\ scoped => Len(scopes') = Len(scopes) + 1 /\ scopes'[Len(scopes) + 1] = scope
        /\ ~scoped => Len(scopes') = Len(scopes)
    BY <1>2
  <2>3. PICK after : after = scopes'
    OBVIOUS
  <2>4. PICK frame : frame = fr /\ frame.file = f /\ frame.scoped = scoped
    BY <1>4
  <2>5. /\ \A i \in 1..Len(scopes) : after[i] = scopes[i]
        /\ frame.scoped => /\ Len(after) = Len(scopes) + 1 /\ after[Len(scopes) + 1] = scope
                           /\ scope = frame.file.mod
        /\ ~frame.scoped => Len(after) = Len(scopes) /\ frame.file.mod = Std
    BY <2>2, <2>3, <2>4
  <2>6. \E e : Depths(e, pushed, after)
    BY <1>3, <2>1, <2>4, <2>5, AlignedPush
  <2> QED BY <1>5, <2>3, <2>6 DEF Aligned, pushed
<1>11. CacheSound'
  BY <1>6, <1>8 DEF CacheSound, Loaded, Module
<1>12. GotSound'
  <2> SUFFICES ASSUME NEW e \in DOMAIN got
               PROVE  /\ got[e] \in 1..made /\ Loaded(e[2])' /\ got[e] = Module(e[2])'
                      /\ Loaded(e[1])' => got[e] < Module(e[1])'
    BY DEF GotSound, OneModulePerFile
  <2>1. Loaded(e[1])' => Loaded(e[1]) /\ Module(e[1])' = Module(e[1])
    BY <1>6 DEF Loaded, Module
  <2> QED BY <1>8, <2>1 DEF GotSound, OneModulePerFile, LoadedStays
<1> QED BY <1>8, <1>9, <1>10, <1>11, <1>12

\* A load is answered: the file on top has one more module, and it is being loaded.
LEMMA ReceivedKeeps ==
  ASSUME CacheSound, NEW parent, NEW child, NEW module, got' = Received(parent, child, module),
         \A e \in DOMAIN got : /\ got[e] \in 1..made'
                               /\ Loaded(e[2])' /\ got[e] = Module(e[2])'
                               /\ Loaded(e[1])' => got[e] < Module(e[1])',
         Loaded(child)', module = Module(child)', module \in 1..made', Loading(parent)'
  PROVE  GotSound'
<1>1. DOMAIN got' = DOMAIN got \cup {<<parent, child>>}
  BY DEF With, Received
<1>2. got'[<<parent, child>>] = module
  BY DEF With, Received
<1>3. \A e \in DOMAIN got : e # <<parent, child>> => got'[e] = got[e]
  BY DEF With, Received
<1>4. ~Loaded(parent)'
  BY DEF Loading, Loaded
<1> SUFFICES ASSUME NEW e \in DOMAIN got'
             PROVE  /\ got'[e] \in 1..made' /\ Loaded(e[2])' /\ got'[e] = Module(e[2])'
                    /\ Loaded(e[1])' => got'[e] < Module(e[1])'
  BY DEF GotSound, OneModulePerFile
<1>5. CASE e = <<parent, child>>
  BY <1>2, <1>4, <1>5
<1>6. CASE e # <<parent, child>>
  BY <1>1, <1>3, <1>6
<1> QED BY <1>5, <1>6

\* Frames are advanced or popped: those that are left are still being loaded.
LEMMA StackKeeps ==
  ASSUME StackSound, \E Z : frames' \in Seq(Frame(Z)), \E Z : scopes' \in Seq(Z),
         Len(frames') <= Len(frames),
         \A i \in 1..Len(frames') : /\ frames'[i].file = frames[i].file
                                    /\ frames'[i].file \in DOMAIN cache'
                                    /\ cache'[frames'[i].file].state = "Loading"
  PROVE  StackSound'
<1>1. Len(frames) \in Nat /\ Len(frames') \in Nat
  BY DEF StackSound
<1>2. \A i \in 1..Len(frames') : i \in 1..Len(frames)
  BY <1>1
<1>3. \A i, j \in 1..Len(frames') : frames'[i].file = frames'[j].file => i = j
  BY <1>2 DEF StackSound
<1> QED BY <1>3 DEF StackSound, Loading

\* A pop takes the top frame and what it pushed.
LEMMA PopKeeps ==
  ASSUME StackSound, Aligned, frames # << >>, scopes' = PopScope,
         \E Z : frames' \in Seq(Frame(Z)),
         Len(frames') = Len(frames) - 1,
         \A i \in 1..Len(frames) - 1 : /\ frames'[i].file = frames[i].file
                                       /\ frames'[i].scoped = frames[i].scoped,
         \A g \in DOMAIN cache : g # Top.file => g \in DOMAIN cache' /\ cache'[g] = cache[g]
  PROVE  StackSound' /\ Aligned'
<1>1. PICK X : frames \in Seq(Frame(X))
  BY DEF StackSound
<1>2. PICK Y : scopes \in Seq(Y)
  BY DEF StackSound
<1>3. PICK d : Depths(d, frames, scopes)
  BY DEF Aligned
<1>4. PICK fs2, sc2 : fs2 = frames' /\ sc2 = scopes'
  OBVIOUS
<1>5. /\ Len(fs2) = Len(frames) - 1
      /\ \A i \in 1..Len(frames) - 1 : fs2[i].file = frames[i].file /\ fs2[i].scoped = frames[i].scoped
      /\ sc2 = IF frames[Len(frames)].scoped THEN Front(scopes) ELSE scopes
  BY <1>4 DEF PopScope, Top
<1>6. sc2 \in Seq(Y) /\ \E e : Depths(e, fs2, sc2)
  <2>1. PICK fs \in Seq(Frame(X)), sc \in Seq(Y) : fs = frames /\ sc = scopes
    BY <1>1, <1>2
  <2>2. /\ fs # << >> /\ Depths(d, fs, sc) /\ Len(fs2) = Len(fs) - 1
        /\ \A i \in 1..Len(fs) - 1 : fs2[i].file = fs[i].file /\ fs2[i].scoped = fs[i].scoped
        /\ sc2 = IF fs[Len(fs)].scoped THEN Front(sc) ELSE sc
    BY <1>3, <1>5, <2>1
  <2> QED BY <2>2, AlignedPop
<1>7. \A i \in 1..Len(frames') : /\ frames'[i].file = frames[i].file
                                 /\ frames'[i].file \in DOMAIN cache'
                                 /\ cache'[frames'[i].file].state = "Loading"
  <2> TAKE i \in 1..Len(frames')
  <2>1. i \in 1..Len(frames) /\ i \in 1..Len(frames) - 1 /\ i # Len(frames) /\ Len(frames) \in 1..Len(frames)
    BY <1>1
  <2>2. frames[i].file # Top.file /\ Loading(frames[i].file)
    BY <2>1 DEF StackSound, Top
  <2>3. /\ frames'[i].file = frames[i].file /\ frames[i].file \in DOMAIN cache
        /\ cache[frames[i].file].state = "Loading"
    BY <2>1, <2>2 DEF Loading
  <2> QED BY <2>2, <2>3
<1>8. StackSound'
  <2>1. Len(frames') <= Len(frames)
    BY <1>1
  <2>2. \E Z : scopes' \in Seq(Z)
    BY <1>4, <1>6
  <2> QED BY <1>7, <2>1, <2>2, StackKeeps
<1> QED BY <1>4, <1>6, <1>8 DEF Aligned

\* The file a load leads to is evaluated under the scope of its module.
LEMMA ScopeOfTarget ==
  ASSUME NEW l
  PROVE  /\ LoadKind(l) = "std" => Target(l).mod = Std
         /\ LoadKind(l) # "std" => Target(l).mod = ScopeFor(l)
<1>1. LoadKind(l) \in {"std", "spec", "rel", "sub"}
  BY DEF LoadKind, PathKind
<1>2. CASE LoadKind(l) = "std"
  BY <1>2 DEF Target
<1>3. CASE LoadKind(l) = "spec"
  BY <1>3 DEF Target, ScopeFor
<1>4. CASE LoadKind(l) = "sub"
  BY <1>4 DEF Target, ScopeFor
<1>5. CASE LoadKind(l) = "rel"
  BY <1>5 DEF Target, ScopeFor
<1> QED BY <1>1, <1>2, <1>3, <1>4, <1>5

\* The file on top is being loaded.
LEMMA TopIsLoading ==
  ASSUME StackSound, frames # << >>
  PROVE  /\ Len(frames) \in Nat \ {0} /\ Loading(Top.file) /\ ~Loaded(Top.file)
         /\ \A i \in 1..Len(frames) - 1 : frames[i].file # Top.file
<1>1. Len(frames) \in Nat \ {0}
  BY DEF StackSound
<1>2. Loading(Top.file)
  BY <1>1 DEF StackSound, Top
<1>3. \A i \in 1..Len(frames) - 1 : frames[i].file # Top.file
  BY <1>1 DEF StackSound, Top
<1> QED BY <1>1, <1>2, <1>3 DEF Loading, Loaded

\* What GotSound says of the loads answered so far survives whatever leaves the
\* loaded modules as they are.
LEMMA GotStays ==
  ASSUME CacheSound, GotSound, LoadedStays, made' \in Nat, made <= made',
         \A f \in DOMAIN cache' : Loaded(f)' =>
             (Loaded(f) /\ Module(f)' = Module(f)) \/ Module(f)' = made + 1
  PROVE  \A e \in DOMAIN got : /\ got[e] \in 1..made'
                               /\ Loaded(e[2])' /\ got[e] = Module(e[2])'
                               /\ Loaded(e[1])' => got[e] < Module(e[1])'
<1> TAKE e \in DOMAIN got
<1>1. got[e] \in 1..made /\ Loaded(e[2]) /\ got[e] = Module(e[2]) /\ made \in Nat
  BY DEF GotSound, OneModulePerFile, CacheSound
<1>2. Loaded(e[2])' /\ Module(e[2])' = Module(e[2])
  BY <1>1 DEF LoadedStays
<1>3. ASSUME Loaded(e[1])' PROVE got[e] < Module(e[1])'
  <2>1. CASE Loaded(e[1]) /\ Module(e[1])' = Module(e[1])
    BY <2>1 DEF GotSound, OneModulePerFile
  <2>2. CASE Module(e[1])' = made + 1
    BY <1>1, <2>2
  <2> QED BY <1>3, <2>1, <2>2 DEF Loaded
<1> QED BY <1>1, <1>2, <1>3

\* A load statement: it fails, is answered from the cache, or enters a file.
LEMMA LoadKeeps ==
  ASSUME LoaderInv, Load
  PROVE  LoaderInv' /\ LoadedStays
<1> DEFINE l == NextLoad
           f == Target(l)
<1>1. /\ StackSound /\ Aligned /\ CacheSound /\ GotSound /\ failure = "" /\ frames # << >>
      /\ UNCHANGED <<program, made>>
  BY DEF LoaderInv, Load
<1>2. /\ Len(frames) \in Nat \ {0} /\ Loading(Top.file) /\ ~Loaded(Top.file)
      /\ \A i \in 1..Len(frames) - 1 : frames[i].file # Top.file
  BY <1>1, TopIsLoading
<1>3. ASSUME failure' \in LoaderErrors, UNCHANGED <<cache, frames, scopes, got>>
      PROVE  LoaderInv' /\ LoadedStays
  <2>1. StackSound' /\ Aligned' /\ LoadedStays
    BY <1>1, <1>3 DEF StackSound, Aligned, LoadedStays, Loading, Loaded, Module
  <2>2. CacheSound' /\ GotSound'
    BY <1>1, <1>3 DEF CacheSound, GotSound, OneModulePerFile, Loaded, Module
  <2> QED BY <1>3, <2>1, <2>2 DEF LoaderInv, FailureSound
<1>4. ASSUME Hit(f), got' = Received(Top.file, f, Module(f)), frames' = Advanced(frames),
             UNCHANGED <<cache, scopes, failure, blamed>>
      PROVE  LoaderInv' /\ LoadedStays
  <2>1. PICK X : frames \in Seq(Frame(X))
    BY <1>1 DEF StackSound
  <2>2. PICK fs : fs \in Seq(Frame(X)) /\ fs = frames /\ fs # << >>
    BY <1>1, <2>1
  <2>3. /\ Advanced(fs) \in Seq(Frame(X)) /\ Len(Advanced(fs)) = Len(fs)
        /\ \A i \in 1..Len(fs) : /\ Advanced(fs)[i].file = fs[i].file
                                 /\ Advanced(fs)[i].scoped = fs[i].scoped
    BY <2>2, AdvancedIs
  <2>4. /\ frames' \in Seq(Frame(X)) /\ Len(frames') = Len(frames)
        /\ \A i \in 1..Len(frames) : frames'[i].file = frames[i].file /\ frames'[i].scoped = frames[i].scoped
    BY <1>4, <2>2, <2>3
  <2>5. LoadedStays
    BY <1>4 DEF LoadedStays, Loaded, Module
  <2>6. StackSound'
    <3>1. \A i \in 1..Len(frames') : /\ frames'[i].file = frames[i].file
                                     /\ frames'[i].file \in DOMAIN cache'
                                     /\ cache'[frames'[i].file].state = "Loading"
      BY <1>1, <1>4, <2>4 DEF StackSound, Loading
    <3>2. \E Z : scopes' \in Seq(Z)
      BY <1>1, <1>4 DEF StackSound
    <3>3. (\E Z : frames' \in Seq(Frame(Z))) /\ Len(frames') <= Len(frames)
      BY <1>2, <2>4
    <3> QED BY <1>1, <3>1, <3>2, <3>3, StackKeeps
  <2>7. Aligned'
    <3>1. PICK d : Depths(d, frames, scopes)
      BY <1>1 DEF Aligned
    <3>2. PICK fs2 : fs2 = frames'
      OBVIOUS
    <3>3. Depths(d, fs2, scopes)
      BY <1>2, <2>4, <3>1, <3>2, AlignedStays
    <3> QED BY <1>4, <3>2, <3>3 DEF Aligned
  <2>8. CacheSound'
    BY <1>1, <1>4 DEF CacheSound, Loaded, Module
  <2>9. GotSound'
    <3>1. Loaded(f) /\ Module(f) \in 1..made /\ made' = made /\ made \in Nat
      BY <1>1, <1>4 DEF Hit, Loaded, CacheSound
    <3>2. \A g \in DOMAIN cache' : Loaded(g)' =>
             (Loaded(g) /\ Module(g)' = Module(g)) \/ Module(g)' = made + 1
      BY <1>4 DEF Loaded, Module
    <3>3. \A e \in DOMAIN got : /\ got[e] \in 1..made'
                                /\ Loaded(e[2])' /\ got[e] = Module(e[2])'
                                /\ Loaded(e[1])' => got[e] < Module(e[1])'
      <4>1. made' \in Nat /\ made <= made'
        BY <3>1
      <4> QED BY <1>1, <2>5, <3>2, <4>1, GotStays
    <3>4. PICK child, parent, module : /\ child = f /\ parent = Top.file /\ module = Module(f)
                                       /\ got' = Received(parent, child, module)
      BY <1>4
    <3>5. Loaded(child)' /\ module = Module(child)' /\ module \in 1..made' /\ Loading(parent)'
      BY <1>2, <1>4, <3>1, <3>4 DEF Loaded, Loading, Module
    <3> QED BY <1>1, <3>3, <3>4, <3>5, ReceivedKeeps
  <2>10. FailureSound'
    BY <1>1, <1>4 DEF FailureSound
  <2> QED BY <2>5, <2>6, <2>7, <2>8, <2>9, <2>10 DEF LoaderInv
<1>5. ASSUME ~Hit(f), ~Cyclic(f), Enter(f, LoadKind(l) # "std"),
             scopes' = (IF LoadKind(l) = "std" THEN scopes ELSE PushScope(ScopeFor(l))),
             UNCHANGED <<got, failure, blamed>>
      PROVE  LoaderInv' /\ LoadedStays
  <2>0. PICK scoped \in BOOLEAN : scoped = (LoadKind(l) # "std")
    <3>1. (LoadKind(l) # "std") \in BOOLEAN
      OBVIOUS
    <3> QED BY <3>1
  <2>1. PICK file, scope : /\ file = f /\ scope = ScopeFor(l) /\ scoped = (LoadKind(l) # "std")
                           /\ Enter(file, scoped)
    BY <1>5, <2>0
  <2>2. IF scoped THEN scope = file.mod ELSE file.mod = Std
    BY <2>1, ScopeOfTarget
  <2>3. ~Loaded(file) /\ \A i \in 1..Len(frames) : frames[i].file # file
    BY <1>1, <1>5, <2>1 DEF Hit, Cyclic, StackSound
  <2>4. scopes' = (IF scoped THEN Append(scopes, scope) ELSE scopes)
    BY <1>5, <2>1 DEF PushScope
  <2>5. StackSound' /\ Aligned' /\ CacheSound' /\ GotSound' /\ LoadedStays
    BY <1>1, <1>5, <2>1, <2>2, <2>3, <2>4, EnterKeeps
  <2> QED BY <1>1, <1>5, <2>5 DEF LoaderInv, FailureSound
<1>6. \/ failure' \in LoaderErrors /\ UNCHANGED <<cache, frames, scopes, got>>
      \/ /\ Hit(f) /\ got' = Received(Top.file, f, Module(f)) /\ frames' = Advanced(frames)
         /\ UNCHANGED <<cache, scopes, failure, blamed>>
      \/ /\ ~Hit(f) /\ ~Cyclic(f) /\ Enter(f, LoadKind(l) # "std")
         /\ scopes' = (IF LoadKind(l) = "std" THEN scopes ELSE PushScope(ScopeFor(l)))
         /\ UNCHANGED <<got, failure, blamed>>
  BY DEF Load, LoaderErrors
<1> QED BY <1>3, <1>4, <1>5, <1>6

\* A file is done: it is in the cache for good, and the file below has it.
LEMMA FreezeKeeps ==
  ASSUME LoaderInv, Freeze
  PROVE  LoaderInv' /\ LoadedStays
<1> DEFINE n == Len(frames) - 1
<1>1. /\ StackSound /\ Aligned /\ CacheSound /\ GotSound /\ failure = "" /\ frames # << >>
      /\ made \in Nat
  BY DEF LoaderInv, Freeze, CacheSound
<1>2. /\ Len(frames) \in Nat \ {0} /\ Loading(Top.file) /\ ~Loaded(Top.file)
      /\ \A i \in 1..n : frames[i].file # Top.file
  BY <1>1, TopIsLoading
<1>3. scopes' = PopScope /\ UNCHANGED <<program, failure, blamed>>
  BY DEF Freeze
<1>12. made \in Nat /\ made' = made + 1
  BY <1>1 DEF Freeze
<1>4. /\ DOMAIN cache' = DOMAIN cache \cup {Top.file}
      /\ cache'[Top.file].state = "Loaded" /\ cache'[Top.file].module = made + 1
      /\ \A g \in DOMAIN cache : g # Top.file => cache'[g] = cache[g]
  <2>1. cache' = With(cache, Top.file, [state |-> "Loaded", module |-> made + 1])
    BY DEF Freeze
  <2> QED BY <2>1 DEF With
<1>5. PICK X : frames \in Seq(Frame(X))
  BY <1>1 DEF StackSound
<1>6. /\ Front(frames) \in Seq(Frame(X)) /\ Len(Front(frames)) = n
      /\ \A i \in 1..n : Front(frames)[i] = frames[i]
  <2>1. PICK fs \in Seq(Frame(X)) : fs = frames /\ fs # << >>
    BY <1>1, <1>5
  <2>2. Front(fs) \in Seq(Frame(X)) /\ Len(Front(fs)) = Len(fs) - 1 /\ \A i \in 1..Len(fs) - 1 : Front(fs)[i] = fs[i]
    BY <2>1, FrontIs
  <2> QED BY <2>1, <2>2
<1>7. LoadedStays
  BY <1>2, <1>4 DEF LoadedStays, Loaded, Module
<1>8. CacheSound'
  <2>1. made' \in Nat /\ \A m \in 1..made : m \in 1..made'
    BY <1>12
  <2>2. made + 1 \in 1..made'
    BY <1>12
  <2>3. \A f \in DOMAIN cache' : cache'[f].state \in {"Loading", "Loaded"}
    BY <1>1, <1>4 DEF CacheSound
  <2>4. \A f \in DOMAIN cache' : cache'[f].state = "Loaded" => cache'[f].module \in 1..made'
    <3> TAKE f \in DOMAIN cache'
    <3>1. CASE f = Top.file
      BY <1>4, <2>2, <3>1
    <3>2. CASE f # Top.file
      BY <1>1, <1>4, <2>1, <3>2 DEF CacheSound, Loaded, Module
    <3> QED BY <3>1, <3>2
  <2> QED BY <2>1, <2>3, <2>4 DEF CacheSound, Loaded, Module
<1>9. \A e \in DOMAIN got : /\ got[e] \in 1..made'
                            /\ Loaded(e[2])' /\ got[e] = Module(e[2])'
                            /\ Loaded(e[1])' => got[e] < Module(e[1])'
  <2>1. \A g \in DOMAIN cache' : Loaded(g)' =>
           (Loaded(g) /\ Module(g)' = Module(g)) \/ Module(g)' = made + 1
    BY <1>4 DEF Loaded, Module
  <2>2. made' \in Nat /\ made <= made'
    BY <1>12
  <2> QED BY <1>1, <1>7, <2>1, <2>2, GotStays
<1>10. CASE Front(frames) = << >>
  <2>1. frames' = Front(frames) /\ got' = got
    BY <1>10 DEF Freeze
  <2>2. StackSound' /\ Aligned'
    <3>1. \A i \in 1..Len(frames) - 1 : /\ frames'[i].file = frames[i].file
                                        /\ frames'[i].scoped = frames[i].scoped
      BY <1>6, <2>1
    <3>2. \A g \in DOMAIN cache : g # Top.file => g \in DOMAIN cache' /\ cache'[g] = cache[g]
      BY <1>4
    <3>3. \E Z : frames' \in Seq(Frame(Z))
      BY <1>6, <2>1
    <3>4. Len(frames') = Len(frames) - 1
      BY <1>6, <2>1
    <3> QED BY <1>1, <1>3, <3>1, <3>2, <3>3, <3>4, PopKeeps
  <2>3. GotSound'
    BY <1>9, <2>1 DEF GotSound, OneModulePerFile
  <2> QED BY <1>1, <1>3, <1>7, <1>8, <2>2, <2>3 DEF LoaderInv, FailureSound
<1>11. CASE Front(frames) # << >>
  <2>1. frames' = Advanced(Front(frames)) /\ got' = Received(Last(Front(frames)).file, Top.file, made + 1)
    BY <1>11 DEF Freeze
  <2>2. n \in 1..n
    BY <1>2, <1>6, <1>11
  <2>3. /\ frames' \in Seq(Frame(X)) /\ Len(frames') = n
        /\ \A i \in 1..n : /\ frames'[i].file = frames[i].file
                           /\ frames'[i].scoped = frames[i].scoped
    <3>1. PICK fs \in Seq(Frame(X)) : fs = Front(frames) /\ fs # << >>
      BY <1>6, <1>11
    <3>2. /\ Advanced(fs) \in Seq(Frame(X)) /\ Len(Advanced(fs)) = Len(fs)
          /\ \A i \in 1..Len(fs) : /\ Advanced(fs)[i].file = fs[i].file
                                   /\ Advanced(fs)[i].scoped = fs[i].scoped
      BY <3>1, AdvancedIs
    <3> QED BY <1>6, <2>1, <3>1, <3>2
  <2>4. StackSound' /\ Aligned'
    <3>1. \A g \in DOMAIN cache : g # Top.file => g \in DOMAIN cache' /\ cache'[g] = cache[g]
      BY <1>4
    <3>2. \E Z : frames' \in Seq(Frame(Z))
      BY <2>3
    <3> QED BY <1>1, <1>3, <2>3, <3>1, <3>2, PopKeeps
  <2>5. GotSound'
    <3>0. Last(Front(frames)) = frames[n]
      BY <1>6, <2>2 DEF Last
    <3>1. PICK child, parent, module : /\ child = Top.file /\ parent = frames[n].file
                                       /\ module = made + 1 /\ got' = Received(parent, child, module)
      BY <2>1, <3>0
    <3>2. n \in 1..Len(frames)
      BY <1>2, <2>2
    <3>3. parent # Top.file /\ Loading(parent)
      BY <1>1, <1>2, <2>2, <3>1, <3>2 DEF StackSound
    <3>5. parent \in DOMAIN cache' /\ cache'[parent].state = "Loading"
      BY <1>4, <3>3 DEF Loading
    <3>6. module \in 1..made'
      BY <1>12, <3>1
    <3>4. Loaded(child)' /\ module = Module(child)' /\ module \in 1..made' /\ Loading(parent)'
      BY <1>4, <3>1, <3>5, <3>6 DEF Loaded, Loading, Module
    <3> QED BY <1>1, <1>9, <3>1, <3>4, ReceivedKeeps
  <2> QED BY <1>1, <1>3, <1>7, <1>8, <2>4, <2>5 DEF LoaderInv, FailureSound
<1> QED BY <1>10, <1>11

\* A file fails.
LEMMA BreakKeeps ==
  ASSUME LoaderInv, Break
  PROVE  LoaderInv' /\ LoadedStays
<1>1. failure' \in LoaderErrors /\ UNCHANGED <<cache, frames, scopes, made, got>>
  BY DEF Break, LoaderErrors
<1>2. StackSound' /\ Aligned' /\ LoadedStays
  BY <1>1 DEF LoaderInv, StackSound, Aligned, LoadedStays, Loading, Loaded, Module
<1>3. CacheSound' /\ GotSound'
  BY <1>1 DEF LoaderInv, CacheSound, GotSound, OneModulePerFile, Loaded, Module
<1> QED BY <1>1, <1>2, <1>3 DEF LoaderInv, FailureSound

\* An error leaves a file: nothing of it stays in the cache or on the stacks.
LEMMA UnwindKeeps ==
  ASSUME LoaderInv, Unwind
  PROVE  LoaderInv' /\ LoadedStays
<1> DEFINE n == Len(frames) - 1
<1>1. /\ StackSound /\ Aligned /\ CacheSound /\ GotSound /\ FailureSound /\ frames # << >>
      /\ frames' = Front(frames) /\ scopes' = PopScope /\ made \in Nat
      /\ UNCHANGED <<program, made, got, failure, blamed>>
  BY DEF LoaderInv, Unwind, CacheSound
<1>2. /\ Len(frames) \in Nat \ {0} /\ Loading(Top.file) /\ ~Loaded(Top.file)
      /\ \A i \in 1..n : frames[i].file # Top.file
  BY <1>1, TopIsLoading
<1>3. /\ DOMAIN cache' = DOMAIN cache \ {Top.file}
      /\ \A g \in DOMAIN cache : g # Top.file => cache'[g] = cache[g]
  BY DEF Unwind
<1>4. LoadedStays
  BY <1>2, <1>3 DEF LoadedStays, Loaded, Module
<1>5. PICK X : frames \in Seq(Frame(X))
  BY <1>1 DEF StackSound
<1>6. /\ Front(frames) \in Seq(Frame(X)) /\ Len(Front(frames)) = n
      /\ \A i \in 1..n : Front(frames)[i] = frames[i]
  <2>1. PICK fs \in Seq(Frame(X)) : fs = frames /\ fs # << >>
    BY <1>1, <1>5
  <2>2. Front(fs) \in Seq(Frame(X)) /\ Len(Front(fs)) = Len(fs) - 1 /\ \A i \in 1..Len(fs) - 1 : Front(fs)[i] = fs[i]
    BY <2>1, FrontIs
  <2> QED BY <2>1, <2>2
<1>7. StackSound' /\ Aligned'
  <2>1. \A i \in 1..Len(frames) - 1 : /\ frames'[i].file = frames[i].file
                                      /\ frames'[i].scoped = frames[i].scoped
    BY <1>1, <1>6
  <2>2. \A g \in DOMAIN cache : g # Top.file => g \in DOMAIN cache' /\ cache'[g] = cache[g]
    BY <1>3
  <2>3. \E Z : frames' \in Seq(Frame(Z))
    BY <1>1, <1>6
  <2>4. Len(frames') = Len(frames) - 1
    BY <1>1, <1>6
  <2> QED BY <1>1, <2>1, <2>2, <2>3, <2>4, PopKeeps
<1>8. CacheSound'
  BY <1>1, <1>3 DEF CacheSound, Loaded, Module
<1>9. GotSound'
  <2>1. \A g \in DOMAIN cache' : Loaded(g)' =>
           (Loaded(g) /\ Module(g)' = Module(g)) \/ Module(g)' = made + 1
    BY <1>3 DEF Loaded, Module
  <2>2. \A e \in DOMAIN got : /\ got[e] \in 1..made'
                              /\ Loaded(e[2])' /\ got[e] = Module(e[2])'
                              /\ Loaded(e[1])' => got[e] < Module(e[1])'
    <3>1. made' \in Nat /\ made <= made'
      BY <1>1
    <3> QED BY <1>1, <1>4, <2>1, <3>1, GotStays
  <2> QED BY <1>1, <2>2 DEF GotSound, OneModulePerFile
<1>10. FailureSound'
  BY <1>1 DEF FailureSound
<1> QED BY <1>4, <1>7, <1>8, <1>9, <1>10 DEF LoaderInv

----------------------------------------------------------------------------
(* Sequences that only grow, shrink from the front, or change in one place. *)

LEMMA IsSequenceOf ==
  ASSUME NEW s, IsSequence(s)
  PROVE  \E X : s \in Seq(X)
<1>1. Len(s) \in Nat /\ s = [i \in 1..Len(s) |-> s[i]]
  BY DEF IsSequence
<1>2. [i \in 1..Len(s) |-> s[i]] \in [1..Len(s) -> {s[i] : i \in 1..Len(s)}]
  OBVIOUS
<1>3. s \in [1..Len(s) -> {s[i] : i \in 1..Len(s)}]
  BY <1>1, <1>2
<1>4. s \in Seq({s[i] : i \in 1..Len(s)})
  BY <1>1, <1>3
<1> QED BY <1>4

LEMMA SequenceIs ==
  ASSUME NEW X, NEW s \in Seq(X)
  PROVE  IsSequence(s)
BY DEF IsSequence

LEMMA TwoSequences ==
  ASSUME NEW s, NEW t, IsSequence(s), IsSequence(t)
  PROVE  \E X : s \in Seq(X) /\ t \in Seq(X)
<1>1. PICK A : s \in Seq(A)
  BY IsSequenceOf
<1>2. PICK B : t \in Seq(B)
  BY IsSequenceOf
<1>3. A \subseteq A \cup B /\ B \subseteq A \cup B
  OBVIOUS
<1>4. s \in Seq(A \cup B) /\ t \in Seq(A \cup B)
  BY <1>1, <1>2, <1>3, SeqWidens
<1> QED BY <1>4

\* One sequence after the other.
LEMMA JoinIs ==
  ASSUME NEW s, NEW t, IsSequence(s), IsSequence(t)
  PROVE  /\ IsSequence(s \o t) /\ Len(s \o t) = Len(s) + Len(t)
         /\ Len(s) \in Nat /\ Len(t) \in Nat
         /\ \A i \in 1..Len(s) : (s \o t)[i] = s[i]
         /\ \A i \in 1..Len(s \o t) : i \in 1..Len(s) \/ \E j \in 1..Len(t) : i = Len(s) + j /\ (s \o t)[i] = t[j]
<1>1. PICK X : s \in Seq(X) /\ t \in Seq(X)
  BY TwoSequences
<1>2. s \o t \in Seq(X) /\ Len(s \o t) = Len(s) + Len(t) /\ Len(s) \in Nat /\ Len(t) \in Nat
  BY <1>1
<1>3. \A i \in 1..Len(s) : (s \o t)[i] = s[i]
  BY <1>1
<1>4. \A i \in 1..Len(s \o t) : i \in 1..Len(s) \/ \E j \in 1..Len(t) : i = Len(s) + j /\ (s \o t)[i] = t[j]
  <2> TAKE i \in 1..Len(s \o t)
  <2>1. CASE i \in 1..Len(s)
    BY <2>1
  <2>2. CASE i \notin 1..Len(s)
    <3>1. i - Len(s) \in 1..Len(t) /\ i = Len(s) + (i - Len(s))
      BY <1>2, <2>2
    <3>2. (s \o t)[i] = t[i - Len(s)]
      BY <1>1, <1>2, <2>2, <3>1
    <3> QED BY <3>1, <3>2
  <2> QED BY <2>1, <2>2
<1> QED BY <1>2, <1>3, <1>4, SequenceIs

\* One more at the end.
LEMMA AppendIs ==
  ASSUME NEW s, IsSequence(s), NEW x
  PROVE  /\ IsSequence(Append(s, x)) /\ Len(Append(s, x)) = Len(s) + 1 /\ Len(s) \in Nat
         /\ Append(s, x)[Len(s) + 1] = x
         /\ \A i \in 1..Len(s) : Append(s, x)[i] = s[i]
<1>1. PICK A : s \in Seq(A)
  BY IsSequenceOf
<1>2. A \subseteq A \cup {x}
  OBVIOUS
<1>3. s \in Seq(A \cup {x}) /\ x \in A \cup {x}
  BY <1>1, <1>2, SeqWidens
<1>4. IsSequence(Append(s, x))
  <2>1. Append(s, x) \in Seq(A \cup {x})
    BY <1>3
  <2> QED BY <2>1, SequenceIs
<1>5. /\ Len(Append(s, x)) = Len(s) + 1 /\ Len(s) \in Nat
      /\ Append(s, x)[Len(s) + 1] = x /\ \A i \in 1..Len(s) : Append(s, x)[i] = s[i]
  BY <1>3
<1> QED BY <1>4, <1>5

\* One is replaced.
LEMMA ChangedIs ==
  ASSUME NEW s, IsSequence(s), NEW k \in 1..Len(s), NEW x
  PROVE  /\ IsSequence([s EXCEPT ![k] = x]) /\ Len([s EXCEPT ![k] = x]) = Len(s) /\ Len(s) \in Nat
         /\ [s EXCEPT ![k] = x][k] = x
         /\ \A i \in 1..Len(s) : i # k => [s EXCEPT ![k] = x][i] = s[i]
<1>1. PICK A : s \in Seq(A)
  BY IsSequenceOf
<1>2. A \subseteq A \cup {x}
  OBVIOUS
<1>3. s \in Seq(A \cup {x}) /\ x \in A \cup {x}
  BY <1>1, <1>2, SeqWidens
<1>4. [s EXCEPT ![k] = x] \in Seq(A \cup {x}) /\ Len([s EXCEPT ![k] = x]) = Len(s)
  BY <1>3
<1>5. IsSequence([s EXCEPT ![k] = x])
  BY <1>4, SequenceIs
<1>6. \A i \in 1..Len(s) : [s EXCEPT ![k] = x][i] = IF i = k THEN x ELSE s[i]
  BY <1>3
<1> QED BY <1>3, <1>4, <1>5, <1>6

\* The first one is taken.
LEMMA TailIs ==
  ASSUME NEW s, IsSequence(s), s # << >>
  PROVE  /\ IsSequence(Tail(s)) /\ Len(Tail(s)) = Len(s) - 1 /\ Len(s) \in Nat \ {0}
         /\ Head(s) = s[1]
         /\ \A i \in 1..Len(s) - 1 : Tail(s)[i] = s[i + 1]
<1>1. PICK A : s \in Seq(A)
  BY IsSequenceOf
<1>2. Tail(s) \in Seq(A) /\ Len(Tail(s)) = Len(s) - 1 /\ Len(s) \in Nat \ {0}
  BY <1>1
<1>3. IsSequence(Tail(s))
  BY <1>2, SequenceIs
<1> QED BY <1>1, <1>2, <1>3

\* Two sequences of the same length and the same elements.
LEMMA SameSequence ==
  ASSUME NEW s, NEW t, IsSequence(s), IsSequence(t), Len(s) = Len(t),
         \A i \in 1..Len(s) : s[i] = t[i]
  PROVE  s = t
<1>1. s = [i \in 1..Len(s) |-> s[i]] /\ t = [i \in 1..Len(t) |-> t[i]]
  BY DEF IsSequence
<1> QED BY <1>1

LEMMA EmptyIsSequence == IsSequence(<< >>) /\ Len(<< >>) = 0
BY DEF IsSequence

\* A sequence given element by element.
LEMMA ListIs ==
  ASSUME NEW n \in Nat, NEW t, t = [i \in 1..n |-> t[i]]
  PROVE  IsSequence(t) /\ Len(t) = n
<1>1. [i \in 1..n |-> t[i]] \in Seq({t[i] : i \in 1..n}) /\ Len([i \in 1..n |-> t[i]]) = n
  OBVIOUS
<1> QED BY <1>1, SequenceIs


----------------------------------------------------------------------------
(* Where the run is.                                                       *)

Reading == {"scripts", "modules", "configs"}
Earlier == Reading \cup {"commands", "features", "exporters"}

Where ==
    /\ program \in Programs
    /\ phase \in Earlier \cup {"task", "deferred"} \cup Final
    /\ implFailed \in BOOLEAN
    /\ phase \notin Reading => frames = << >>

Counted ==
    /\ at \in Nat /\ op \in Nat /\ now \in Nat
    /\ phase \in Reading => at >= 1

\* What a module uses are files of its own.
InModules ==
    phase = "modules" =>
       /\ at <= Len(program.modules) => entries \subseteq program.modules[at].tasks
       /\ using # << >> =>
             /\ at <= Len(program.modules) /\ using[1].file.mod = program.modules[at].name
             /\ using[1].what = "task" => IsSequence(using[1].keys)

\* Files are read in the first three phases, each in the module that names it.
Control == Where /\ Counted /\ InModules

\* The file a phase needs belongs to the module under whose scope it is read.
LEMMA NeededIsHome ==
  ASSUME Control, Needed # << >>
  PROVE  Needed[1].file.mod = Needed[1].scope /\ phase \in Reading
<1>1. CASE phase = "scripts" /\ at <= Len(program.scripts)
  <2>1. Needed = << [file |-> program.scripts[at], scope |-> "root"] >> /\ phase \in Reading
    BY <1>1 DEF Needed, Reading
  <2>4. Names(program.scripts, "root") /\ at \in Nat /\ at >= 1
    BY <1>1, ProgramsAssumption DEF Control, Where, Counted, Reading
  <2>2. at \in 1..Len(program.scripts) /\ Names(program.scripts, "root")
    BY <1>1, <2>4 DEF Names, IsSequence
  <2>3. program.scripts[at].mod = "root"
    BY <2>2 DEF Names
  <2> QED BY <2>1, <2>3
<1>2. CASE phase = "modules" /\ at <= Len(program.modules) /\ using # << >>
  <2>1. Needed = << [file |-> using[1].file, scope |-> program.modules[at].name] >> /\ phase \in Reading
    BY <1>2 DEF Needed, Reading
  <2> QED BY <1>2, <2>1 DEF Control, InModules
<1>3. CASE phase = "configs" /\ at <= Len(program.configs) /\ op = 0
  <2>1. Needed = << program.configs[at] >> /\ phase \in Reading
    BY <1>3 DEF Needed, Reading
  <2>2. IsSequence(program.configs) /\ at \in Nat /\ at >= 1
    BY <1>3, ProgramsAssumption DEF Control, Where, Counted, Reading
  <2>3. at \in 1..Len(program.configs)
    BY <1>3, <2>2 DEF IsSequence
  <2>4. program.configs[at].file.mod = program.configs[at].scope
    BY <2>3, ProgramsAssumption DEF Control, Where
  <2> QED BY <2>1, <2>4
<1> QED BY <1>1, <1>2, <1>3 DEF Needed

\* The loader's steps.
LEMMA EvaluateKeeps ==
  ASSUME LoaderInv, Control, Evaluate
  PROVE  LoaderInv' /\ LoadedStays /\ program' = program /\ phase \in Reading
<1>1. CASE LoaderStep
  <2>1. frames # << >> /\ program' = program
    BY <1>1 DEF LoaderStep, Load, Freeze, Break, Unwind
  <2>2. phase \in Reading
    BY <2>1 DEF Control, Where
  <2> QED BY <1>1, <2>1, <2>2, LoadKeeps, FreezeKeeps, BreakKeeps, UnwindKeeps DEF LoaderStep
<1>2. CASE Needed # << >> /\ EvalFile(Needed[1].file, Needed[1].scope)
  <2>1. PICK f, scope : /\ f = Needed[1].file /\ scope = Needed[1].scope
                        /\ EvalFile(f, scope) /\ f.mod = scope /\ phase \in Reading
    BY <1>2, NeededIsHome
  <2>2. /\ ~Loaded(f) /\ frames = << >> /\ failure = "" /\ Enter(f, TRUE)
        /\ scopes' = Append(scopes, scope) /\ UNCHANGED <<program, made, got, failure, blamed>>
    BY <2>1 DEF EvalFile, Idle, PushScope
  <2>3. StackSound' /\ Aligned' /\ CacheSound' /\ GotSound' /\ LoadedStays
    <3>0. Len(frames) = 0
      <4>1. frames = << >>
        BY <2>2
      <4> QED BY <4>1
    <3>1. \A i \in 1..Len(frames) : frames[i].file # f
      BY <3>0
    <3>2. PICK scoped \in BOOLEAN : scoped = TRUE
      OBVIOUS
    <3>3. Enter(f, scoped) /\ scopes' = (IF scoped THEN Append(scopes, scope) ELSE scopes)
      BY <2>2, <3>2
    <3>4. IF scoped THEN scope = f.mod ELSE f.mod = Std
      BY <2>1, <3>2
    <3> QED BY <2>2, <3>1, <3>3, <3>4, EnterKeeps DEF LoaderInv
  <2>4. FailureSound'
    BY <2>2 DEF FailureSound
  <2> QED BY <2>1, <2>2, <2>3, <2>4 DEF LoaderInv
<1> QED BY <1>1, <1>2 DEF Evaluate

\* However the implementation ends, what it deferred is due.
LEMMA EndTaskIs ==
  ASSUME EndTask
  PROVE  /\ phase = "task" /\ failure = "" /\ frames = << >> /\ phase' = "deferred" /\ op >= 1
         /\ implFailed' \in BOOLEAN /\ now' = now + 1 /\ pending' = Reverse(defers) /\ defers' = << >>
         /\ UNCHANGED <<program, cache, frames, scopes, made, got, failure, blamed, at, op>>
         /\ UNCHANGED <<discoveryVars, traitVars, exporterVars, commandVars, info, registered, ranDefers,
                        configVars, ranFeatures>>
<1>1. \/ TaskOver(FALSE, 0) \/ TaskOver(TRUE, 0)
      \/ \E o \in {p \in program.ops : p.op = "return"} : TaskOver(FALSE, o.code)
  BY DEF EndTask
<1>2. ASSUME NEW exit, TaskOver(FALSE, exit) \/ TaskOver(TRUE, exit)
      PROVE  /\ implFailed' \in BOOLEAN /\ phase' = "deferred" /\ now' = now + 1
             /\ pending' = Reverse(defers) /\ defers' = << >>
  <2>1. CASE TaskOver(FALSE, exit)
    BY <2>1 DEF TaskOver, Drained
  <2>2. CASE TaskOver(TRUE, exit)
    BY <2>2 DEF TaskOver, Drained
  <2> QED BY <1>2, <2>1, <2>2
<1>3. /\ implFailed' \in BOOLEAN /\ phase' = "deferred" /\ now' = now + 1
      /\ pending' = Reverse(defers) /\ defers' = << >>
  BY <1>1, <1>2
<1>4. /\ phase = "task" /\ failure = "" /\ frames = << >> /\ op >= 1
      /\ UNCHANGED <<program, cache, frames, scopes, made, got, failure, blamed, at, op>>
      /\ UNCHANGED <<discoveryVars, traitVars, exporterVars, commandVars, info, registered, ranDefers,
                     configVars, ranFeatures>>
  BY DEF EndTask, Runs, Succeeds, KeepsLoader
<1> QED BY <1>3, <1>4

LEMMA WhereStep ==
  ASSUME LoaderInv, Control, [Next]_vars
  PROVE  Where'
<1>0. Where
  BY DEF Control
<1>1. CASE Evaluate
  <2>1. program' = program /\ phase \in Reading
    BY <1>1, EvaluateKeeps
  <2> QED BY <1>0, <1>1, <2>1 DEF Evaluate, Where, taskVars
<1>2. CASE TakeScript
  BY <1>2, <1>0 DEF TakeScript, discoveryVars, traitVars, specVars, exporterVars,
     commandVars, taskVars, configVars, loaderVars, vars, KeepsLoader, Succeeds, Fails,
     Runs, InBody, InTask, InConfig, Where, Reading, Earlier, Final
<1>3. CASE ScriptsDone
  BY <1>3, <1>0 DEF ScriptsDone, discoveryVars, traitVars, specVars, exporterVars,
     commandVars, taskVars, configVars, loaderVars, vars, KeepsLoader, Succeeds, Fails,
     Runs, InBody, InTask, InConfig, Where, Reading, Earlier, Final
<1>4. CASE Pick
  BY <1>4, <1>0 DEF Pick, discoveryVars, traitVars, specVars, exporterVars, commandVars,
     taskVars, configVars, loaderVars, vars, KeepsLoader, Succeeds, Fails, Runs, InBody,
     InTask, InConfig, Where, Reading, Earlier, Final
<1>5. CASE UseTask
  BY <1>5, <1>0 DEF UseTask, discoveryVars, traitVars, specVars, exporterVars, commandVars,
     taskVars, configVars, loaderVars, vars, KeepsLoader, Succeeds, Fails, Runs, InBody,
     InTask, InConfig, Where, Reading, Earlier, Final
<1>6. CASE UseFeature
  BY <1>6, <1>0 DEF UseFeature, discoveryVars, traitVars, specVars, exporterVars,
     commandVars, taskVars, configVars, loaderVars, vars, KeepsLoader, Succeeds, Fails,
     Runs, InBody, InTask, InConfig, Where, Reading, Earlier, Final
<1>7. CASE ModuleDone
  BY <1>7, <1>0 DEF ModuleDone, discoveryVars, traitVars, specVars, exporterVars,
     commandVars, taskVars, configVars, loaderVars, vars, KeepsLoader, Succeeds, Fails,
     Runs, InBody, InTask, InConfig, Where, Reading, Earlier, Final
<1>8. CASE StartConfigs
  BY <1>8, <1>0 DEF StartConfigs, discoveryVars, traitVars, specVars, exporterVars,
     commandVars, taskVars, configVars, loaderVars, vars, KeepsLoader, Succeeds, Fails,
     Runs, InBody, InTask, InConfig, Where, Reading, Earlier, Final
<1>9. CASE CallConfig
  BY <1>9, <1>0 DEF CallConfig, discoveryVars, traitVars, specVars, exporterVars,
     commandVars, taskVars, configVars, loaderVars, vars, KeepsLoader, Succeeds, Fails,
     Runs, InBody, InTask, InConfig, Where, Reading, Earlier, Final
<1>10. CASE SetArg
  BY <1>10, <1>0 DEF SetArg, discoveryVars, traitVars, specVars, exporterVars, commandVars,
     taskVars, configVars, loaderVars, vars, KeepsLoader, Succeeds, Fails, Runs, InBody,
     InTask, InConfig, Where, Reading, Earlier, Final
<1>11. CASE SetFeature
  BY <1>11, <1>0 DEF SetFeature, discoveryVars, traitVars, specVars, exporterVars,
     commandVars, taskVars, configVars, loaderVars, vars, KeepsLoader, Succeeds, Fails,
     Runs, InBody, InTask, InConfig, Where, Reading, Earlier, Final
<1>12. CASE AddTask
  BY <1>12, <1>0 DEF AddTask, discoveryVars, traitVars, specVars, exporterVars,
     commandVars, taskVars, configVars, loaderVars, vars, KeepsLoader, Succeeds, Fails,
     Runs, InBody, InTask, InConfig, Where, Reading, Earlier, Final
<1>13. CASE ConfigDone
  BY <1>13, <1>0 DEF ConfigDone, discoveryVars, traitVars, specVars, exporterVars,
     commandVars, taskVars, configVars, loaderVars, vars, KeepsLoader, Succeeds, Fails,
     Runs, InBody, InTask, InConfig, Where, Reading, Earlier, Final
<1>14. CASE TouchTrait
  BY <1>14, <1>0 DEF TouchTrait, discoveryVars, traitVars, specVars, exporterVars,
     commandVars, taskVars, configVars, loaderVars, vars, KeepsLoader, Succeeds, Fails,
     Runs, InBody, InTask, InConfig, Where, Reading, Earlier, Final
<1>15. CASE PutTrait
  BY <1>15, <1>0 DEF PutTrait, discoveryVars, traitVars, specVars, exporterVars,
     commandVars, taskVars, configVars, loaderVars, vars, KeepsLoader, Succeeds, Fails,
     Runs, InBody, InTask, InConfig, Where, Reading, Earlier, Final
<1>16. CASE AddExporter
  BY <1>16, <1>0 DEF AddExporter, discoveryVars, traitVars, specVars, exporterVars,
     commandVars, taskVars, configVars, loaderVars, vars, KeepsLoader, Succeeds, Fails,
     Runs, InBody, InTask, InConfig, Where, Reading, Earlier, Final
<1>17. CASE Emit
  BY <1>17, <1>0 DEF Emit, discoveryVars, traitVars, specVars, exporterVars, commandVars,
     taskVars, configVars, loaderVars, vars, KeepsLoader, Succeeds, Fails, Runs, InBody,
     InTask, InConfig, Where, Reading, Earlier, Final
<1>18. CASE FailBody
  BY <1>18, <1>0 DEF FailBody, discoveryVars, traitVars, specVars, exporterVars,
     commandVars, taskVars, configVars, loaderVars, vars, KeepsLoader, Succeeds, Fails,
     Runs, InBody, InTask, InConfig, Where, Reading, Earlier, Final
<1>19. CASE BuildCommands
  BY <1>19, <1>0 DEF BuildCommands, discoveryVars, traitVars, specVars, exporterVars,
     commandVars, taskVars, configVars, loaderVars, vars, KeepsLoader, Succeeds, Fails,
     Runs, InBody, InTask, InConfig, Where, Reading, Earlier, Final
<1>20. CASE Dispatch
  BY <1>20, <1>0 DEF Dispatch, discoveryVars, traitVars, specVars, exporterVars,
     commandVars, taskVars, configVars, loaderVars, vars, KeepsLoader, Succeeds, Fails,
     Runs, InBody, InTask, InConfig, Where, Reading, Earlier, Final
<1>21. CASE CallFeature
  BY <1>21, <1>0 DEF CallFeature, discoveryVars, traitVars, specVars, exporterVars,
     commandVars, taskVars, configVars, loaderVars, vars, KeepsLoader, Succeeds, Fails,
     Runs, InBody, InTask, InConfig, Where, Reading, Earlier, Final
<1>22. CASE FeatureDone
  BY <1>22, <1>0 DEF FeatureDone, discoveryVars, traitVars, specVars, exporterVars,
     commandVars, taskVars, configVars, loaderVars, vars, KeepsLoader, Succeeds, Fails,
     Runs, InBody, InTask, InConfig, Where, Reading, Earlier, Final
<1>23. CASE InstallExporters
  <2>1. /\ phase' \in {"task", "exporters"} /\ frames = << >> /\ frames' = frames
        /\ program' = program /\ implFailed' = implFailed
    BY <1>23 DEF InstallExporters, InstallsExporters, KeepsLoader, Runs, taskVars
  <2> QED BY <1>0, <2>1 DEF Where, Earlier
<1>24. CASE InstallLate
  BY <1>24, <1>0 DEF InstallLate, discoveryVars, traitVars, specVars, exporterVars,
     commandVars, taskVars, configVars, loaderVars, vars, KeepsLoader, Succeeds, Fails,
     Runs, InBody, InTask, InConfig, Where, Reading, Earlier, Final
<1>25. CASE InstallMetrics
  BY <1>25, <1>0 DEF InstallMetrics, discoveryVars, traitVars, specVars, exporterVars,
     commandVars, taskVars, configVars, loaderVars, vars, KeepsLoader, Succeeds, Fails,
     Runs, InBody, InTask, InConfig, Where, Reading, Earlier, Final
<1>26. CASE BatchThread
  BY <1>26, <1>0 DEF BatchThread, discoveryVars, traitVars, specVars, exporterVars,
     commandVars, taskVars, configVars, loaderVars, vars, KeepsLoader, Succeeds, Fails,
     Runs, InBody, InTask, InConfig, Where, Reading, Earlier, Final
<1>27. CASE StartTask
  BY <1>27, <1>0 DEF StartTask, discoveryVars, traitVars, specVars, exporterVars,
     commandVars, taskVars, configVars, loaderVars, vars, KeepsLoader, Succeeds, Fails,
     Runs, InBody, InTask, InConfig, Where, Reading, Earlier, Final
<1>28. CASE ReadTrait
  BY <1>28, <1>0 DEF ReadTrait, discoveryVars, traitVars, specVars, exporterVars,
     commandVars, taskVars, configVars, loaderVars, vars, KeepsLoader, Succeeds, Fails,
     Runs, InBody, InTask, InConfig, Where, Reading, Earlier, Final
<1>29. CASE CallHook
  BY <1>29, <1>0 DEF CallHook, discoveryVars, traitVars, specVars, exporterVars,
     commandVars, taskVars, configVars, loaderVars, vars, KeepsLoader, Succeeds, Fails,
     Runs, InBody, InTask, InConfig, Where, Reading, Earlier, Final
<1>30. CASE Defer
  BY <1>30, <1>0 DEF Defer, discoveryVars, traitVars, specVars, exporterVars, commandVars,
     taskVars, configVars, loaderVars, vars, KeepsLoader, Succeeds, Fails, Runs, InBody,
     InTask, InConfig, Where, Reading, Earlier, Final
<1>31. CASE EnterPhase
  BY <1>31, <1>0 DEF EnterPhase, discoveryVars, traitVars, specVars, exporterVars,
     commandVars, taskVars, configVars, loaderVars, vars, KeepsLoader, Succeeds, Fails,
     Runs, InBody, InTask, InConfig, Where, Reading, Earlier, Final
<1>32. CASE EndTask
  <2>1. /\ phase' = "deferred" /\ frames = << >> /\ frames' = frames /\ program' = program
        /\ implFailed' \in BOOLEAN
    BY <1>32, EndTaskIs
  <2> QED BY <1>0, <2>1 DEF Where
<1>33. CASE RunDeferred
  BY <1>33, <1>0 DEF RunDeferred, discoveryVars, traitVars, specVars, exporterVars,
     commandVars, taskVars, configVars, loaderVars, vars, KeepsLoader, Succeeds, Fails,
     Runs, InBody, InTask, InConfig, Where, Reading, Earlier, Final
<1>34. CASE Conclude
  BY <1>34, <1>0 DEF Conclude, discoveryVars, traitVars, specVars, exporterVars,
     commandVars, taskVars, configVars, loaderVars, vars, KeepsLoader, Succeeds, Fails,
     Runs, InBody, InTask, InConfig, Where, Reading, Earlier, Final
<1>35. CASE Abort
  BY <1>35, <1>0 DEF Abort, discoveryVars, traitVars, specVars, exporterVars, commandVars,
     taskVars, configVars, loaderVars, vars, KeepsLoader, Succeeds, Fails, Runs, InBody,
     InTask, InConfig, Where, Reading, Earlier, Final
<1>36. CASE Exited
  BY <1>36, <1>0 DEF Exited, discoveryVars, traitVars, specVars, exporterVars, commandVars,
     taskVars, configVars, loaderVars, vars, KeepsLoader, Succeeds, Fails, Runs, InBody,
     InTask, InConfig, Where, Reading, Earlier, Final
<1>37. CASE UNCHANGED vars
  BY <1>37, <1>0 DEF vars, loaderVars, discoveryVars, traitVars, specVars, exporterVars,
     commandVars, taskVars, configVars, Where, Reading, Earlier, Final
<1> QED BY <1>1, <1>2, <1>3, <1>4, <1>5, <1>6, <1>7, <1>8, <1>9, <1>10, <1>11, <1>12,
      <1>13, <1>14, <1>15, <1>16, <1>17, <1>18, <1>19, <1>20, <1>21, <1>22, <1>23, <1>24,
      <1>25, <1>26, <1>27, <1>28, <1>29, <1>30, <1>31, <1>32, <1>33, <1>34, <1>35, <1>36,
      <1>37 DEF Next


\* How the counters move.
Counts ==
    /\ \/ at' = at /\ (phase' \in Reading => phase \in Reading)
       \/ at' = at + 1 \/ at' = 1
       \/ at' = 0 /\ phase' \notin Reading
    /\ op' = op \/ op' = op + 1 \/ op' = 0 \/ op' = 1
    /\ now' = now \/ now' = now + 1

LEMMA CountsStep ==
  ASSUME LoaderInv, Control, [Next]_vars
  PROVE  Counts
<1>1. CASE Evaluate
  BY <1>1 DEF Evaluate, Counts, taskVars
<1>2. CASE TakeScript
  BY <1>2 DEF TakeScript, discoveryVars, traitVars, specVars, exporterVars, commandVars,
     taskVars, configVars, loaderVars, vars, KeepsLoader, Succeeds, Fails, Runs, InBody,
     InTask, InConfig, Counts, Reading, Final
<1>3. CASE ScriptsDone
  BY <1>3 DEF ScriptsDone, NextModule, Counts, taskVars
<1>4. CASE Pick
  BY <1>4 DEF Pick, discoveryVars, traitVars, specVars, exporterVars, commandVars,
     taskVars, configVars, loaderVars, vars, KeepsLoader, Succeeds, Fails, Runs, InBody,
     InTask, InConfig, Counts, Reading, Final
<1>5. CASE UseTask
  BY <1>5 DEF UseTask, discoveryVars, traitVars, specVars, exporterVars, commandVars,
     taskVars, configVars, loaderVars, vars, KeepsLoader, Succeeds, Fails, Runs, InBody,
     InTask, InConfig, Counts, Reading, Final
<1>6. CASE UseFeature
  BY <1>6 DEF UseFeature, discoveryVars, traitVars, specVars, exporterVars, commandVars,
     taskVars, configVars, loaderVars, vars, KeepsLoader, Succeeds, Fails, Runs, InBody,
     InTask, InConfig, Counts, Reading, Final
<1>7. CASE ModuleDone
  BY <1>7 DEF ModuleDone, NextModule, Counts, taskVars
<1>8. CASE StartConfigs
  BY <1>8 DEF StartConfigs, discoveryVars, traitVars, specVars, exporterVars, commandVars,
     taskVars, configVars, loaderVars, vars, KeepsLoader, Succeeds, Fails, Runs, InBody,
     InTask, InConfig, Counts, Reading, Final
<1>9. CASE CallConfig
  BY <1>9 DEF CallConfig, discoveryVars, traitVars, specVars, exporterVars, commandVars,
     taskVars, configVars, loaderVars, vars, KeepsLoader, Succeeds, Fails, Runs, InBody,
     InTask, InConfig, Counts, Reading, Final
<1>10. CASE SetArg
  BY <1>10 DEF SetArg, discoveryVars, traitVars, specVars, exporterVars, commandVars,
     taskVars, configVars, loaderVars, vars, KeepsLoader, Succeeds, Fails, Runs, InBody,
     InTask, InConfig, Counts, Reading, Final
<1>11. CASE SetFeature
  BY <1>11 DEF SetFeature, discoveryVars, traitVars, specVars, exporterVars, commandVars,
     taskVars, configVars, loaderVars, vars, KeepsLoader, Succeeds, Fails, Runs, InBody,
     InTask, InConfig, Counts, Reading, Final
<1>12. CASE AddTask
  BY <1>12 DEF AddTask, discoveryVars, traitVars, specVars, exporterVars, commandVars,
     taskVars, configVars, loaderVars, vars, KeepsLoader, Succeeds, Fails, Runs, InBody,
     InTask, InConfig, Counts, Reading, Final
<1>13. CASE ConfigDone
  BY <1>13 DEF ConfigDone, discoveryVars, traitVars, specVars, exporterVars, commandVars,
     taskVars, configVars, loaderVars, vars, KeepsLoader, Succeeds, Fails, Runs, InBody,
     InTask, InConfig, Counts, Reading, Final
<1>14. CASE TouchTrait
  BY <1>14 DEF TouchTrait, discoveryVars, traitVars, specVars, exporterVars, commandVars,
     taskVars, configVars, loaderVars, vars, KeepsLoader, Succeeds, Fails, Runs, InBody,
     InTask, InConfig, Counts, Reading, Final
<1>15. CASE PutTrait
  BY <1>15 DEF PutTrait, discoveryVars, traitVars, specVars, exporterVars, commandVars,
     taskVars, configVars, loaderVars, vars, KeepsLoader, Succeeds, Fails, Runs, InBody,
     InTask, InConfig, Counts, Reading, Final
<1>16. CASE AddExporter
  BY <1>16 DEF AddExporter, discoveryVars, traitVars, specVars, exporterVars, commandVars,
     taskVars, configVars, loaderVars, vars, KeepsLoader, Succeeds, Fails, Runs, InBody,
     InTask, InConfig, Counts, Reading, Final
<1>17. CASE Emit
  BY <1>17 DEF Emit, discoveryVars, traitVars, specVars, exporterVars, commandVars,
     taskVars, configVars, loaderVars, vars, KeepsLoader, Succeeds, Fails, Runs, InBody,
     InTask, InConfig, Counts, Reading, Final
<1>18. CASE FailBody
  BY <1>18 DEF FailBody, discoveryVars, traitVars, specVars, exporterVars, commandVars,
     taskVars, configVars, loaderVars, vars, KeepsLoader, Succeeds, Fails, Runs, InBody,
     InTask, InConfig, Counts, Reading, Final
<1>19. CASE BuildCommands
  BY <1>19 DEF BuildCommands, discoveryVars, traitVars, specVars, exporterVars,
     commandVars, taskVars, configVars, loaderVars, vars, KeepsLoader, Succeeds, Fails,
     Runs, InBody, InTask, InConfig, Counts, Reading, Final
<1>20. CASE Dispatch
  BY <1>20 DEF Dispatch, discoveryVars, traitVars, specVars, exporterVars, commandVars,
     taskVars, configVars, loaderVars, vars, KeepsLoader, Succeeds, Fails, Runs, InBody,
     InTask, InConfig, Counts, Reading, Final
<1>21. CASE CallFeature
  BY <1>21 DEF CallFeature, discoveryVars, traitVars, specVars, exporterVars, commandVars,
     taskVars, configVars, loaderVars, vars, KeepsLoader, Succeeds, Fails, Runs, InBody,
     InTask, InConfig, Counts, Reading, Final
<1>22. CASE FeatureDone
  BY <1>22 DEF FeatureDone, discoveryVars, traitVars, specVars, exporterVars, commandVars,
     taskVars, configVars, loaderVars, vars, KeepsLoader, Succeeds, Fails, Runs, InBody,
     InTask, InConfig, Counts, Reading, Final
<1>23. CASE InstallExporters
  BY <1>23 DEF InstallExporters, InstallsExporters, Counts, Reading, taskVars
<1>24. CASE InstallLate
  BY <1>24 DEF InstallLate, discoveryVars, traitVars, specVars, exporterVars, commandVars,
     taskVars, configVars, loaderVars, vars, KeepsLoader, Succeeds, Fails, Runs, InBody,
     InTask, InConfig, Counts, Reading, Final
<1>25. CASE InstallMetrics
  BY <1>25 DEF InstallMetrics, discoveryVars, traitVars, specVars, exporterVars,
     commandVars, taskVars, configVars, loaderVars, vars, KeepsLoader, Succeeds, Fails,
     Runs, InBody, InTask, InConfig, Counts, Reading, Final
<1>26. CASE BatchThread
  BY <1>26 DEF BatchThread, discoveryVars, traitVars, specVars, exporterVars, commandVars,
     taskVars, configVars, loaderVars, vars, KeepsLoader, Succeeds, Fails, Runs, InBody,
     InTask, InConfig, Counts, Reading, Final
<1>27. CASE StartTask
  BY <1>27 DEF StartTask, discoveryVars, traitVars, specVars, exporterVars, commandVars,
     taskVars, configVars, loaderVars, vars, KeepsLoader, Succeeds, Fails, Runs, InBody,
     InTask, InConfig, Counts, Reading, Final
<1>28. CASE ReadTrait
  BY <1>28 DEF ReadTrait, discoveryVars, traitVars, specVars, exporterVars, commandVars,
     taskVars, configVars, loaderVars, vars, KeepsLoader, Succeeds, Fails, Runs, InBody,
     InTask, InConfig, Counts, Reading, Final
<1>29. CASE CallHook
  BY <1>29 DEF CallHook, discoveryVars, traitVars, specVars, exporterVars, commandVars,
     taskVars, configVars, loaderVars, vars, KeepsLoader, Succeeds, Fails, Runs, InBody,
     InTask, InConfig, Counts, Reading, Final
<1>30. CASE Defer
  BY <1>30 DEF Defer, discoveryVars, traitVars, specVars, exporterVars, commandVars,
     taskVars, configVars, loaderVars, vars, KeepsLoader, Succeeds, Fails, Runs, InBody,
     InTask, InConfig, Counts, Reading, Final
<1>31. CASE EnterPhase
  BY <1>31 DEF EnterPhase, discoveryVars, traitVars, specVars, exporterVars, commandVars,
     taskVars, configVars, loaderVars, vars, KeepsLoader, Succeeds, Fails, Runs, InBody,
     InTask, InConfig, Counts, Reading, Final
<1>32. CASE EndTask
  BY <1>32, EndTaskIs DEF Counts, Reading
<1>33. CASE RunDeferred
  BY <1>33 DEF RunDeferred, discoveryVars, traitVars, specVars, exporterVars, commandVars,
     taskVars, configVars, loaderVars, vars, KeepsLoader, Succeeds, Fails, Runs, InBody,
     InTask, InConfig, Counts, Reading, Final
<1>34. CASE Conclude
  BY <1>34 DEF Conclude, discoveryVars, traitVars, specVars, exporterVars, commandVars,
     taskVars, configVars, loaderVars, vars, KeepsLoader, Succeeds, Fails, Runs, InBody,
     InTask, InConfig, Counts, Reading, Final
<1>35. CASE Abort
  BY <1>35 DEF Abort, discoveryVars, traitVars, specVars, exporterVars, commandVars,
     taskVars, configVars, loaderVars, vars, KeepsLoader, Succeeds, Fails, Runs, InBody,
     InTask, InConfig, Counts, Reading, Final
<1>36. CASE Exited
  BY <1>36 DEF Exited, discoveryVars, traitVars, specVars, exporterVars, commandVars,
     taskVars, configVars, loaderVars, vars, KeepsLoader, Succeeds, Fails, Runs, InBody,
     InTask, InConfig, Counts, Reading, Final
<1>37. CASE UNCHANGED vars
  BY <1>37 DEF vars, loaderVars, discoveryVars, traitVars, specVars, exporterVars,
     commandVars, taskVars, configVars, Counts, Reading, Final
<1> QED BY <1>1, <1>2, <1>3, <1>4, <1>5, <1>6, <1>7, <1>8, <1>9, <1>10, <1>11, <1>12,
      <1>13, <1>14, <1>15, <1>16, <1>17, <1>18, <1>19, <1>20, <1>21, <1>22, <1>23, <1>24,
      <1>25, <1>26, <1>27, <1>28, <1>29, <1>30, <1>31, <1>32, <1>33, <1>34, <1>35, <1>36,
      <1>37 DEF Next


LEMMA CountedStep ==
  ASSUME Counted, Counts
  PROVE  Counted'
<1>1. at \in Nat /\ op \in Nat /\ now \in Nat
  BY DEF Counted
<1>2. op' \in Nat
  <2>1. op' = op \/ op' = op + 1 \/ op' = 0 \/ op' = 1
    BY DEF Counts
  <2> QED BY <1>1, <2>1
<1>3. now' \in Nat
  <2>1. now' = now \/ now' = now + 1
    BY DEF Counts
  <2> QED BY <1>1, <2>1
<1>4. at' \in Nat
  <2>1. at' = at \/ at' = at + 1 \/ at' = 0 \/ at' = 1
    BY DEF Counts
  <2> QED BY <1>1, <2>1
<1>5. ASSUME phase' \in Reading PROVE at' >= 1
  <2>1. CASE at' = at /\ phase \in Reading
    BY <2>1 DEF Counted
  <2>2. CASE at' = at + 1 \/ at' = 1
    BY <1>1, <2>2
  <2> QED BY <1>5, <2>1, <2>2 DEF Counts
<1> QED BY <1>2, <1>3, <1>4, <1>5 DEF Counted


LEMMA InModulesStep ==
  ASSUME LoaderInv, Control, [Next]_vars
  PROVE  InModules'
<1>0. InModules
  BY DEF Control
<1>1. CASE Evaluate
  <2>1. UNCHANGED <<program, phase, at, entries, using>>
    BY <1>1, EvaluateKeeps DEF Evaluate, discoveryVars
  <2> QED BY <1>0, <2>1 DEF InModules
<1>2. CASE TakeScript
  <2>1. phase' # "modules"
    BY <1>2 DEF TakeScript, Runs
  <2> QED BY <2>1 DEF InModules
<1>3. CASE ScriptsDone
  <2>1. NextModule(1) /\ program' = program
    BY <1>3 DEF ScriptsDone, KeepsLoader
  <2> QED BY <2>1 DEF NextModule, InModules
<1>4. CASE Pick
  <2>0. program \in Programs /\ at \in Nat /\ op \in Nat /\ (phase = "modules" => at >= 1)
    BY DEF Control, Where, Counted, Reading
  <2>1. phase = "modules" /\ at <= Len(program.modules) /\ UNCHANGED <<program, phase, at>>
    BY <1>4 DEF Pick, Runs, KeepsLoader
  <2>4. at \in 1..Len(program.modules)
    <3>1. IsSequence(program.modules)
      BY <2>0, ProgramsAssumption
    <3> QED BY <2>0, <2>1, <3>1 DEF IsSequence
  <2>5. entries \subseteq program.modules[at].tasks
    BY <1>0, <2>1 DEF InModules
  <2>2. ASSUME NEW e \in entries,
               using' = << [file |-> e.file, keys |-> e.keys, what |-> "task"] >>,
               entries' = entries \ {e}
        PROVE  InModules'
    <3>1. e.file.mod = program.modules[at].name /\ IsSequence(e.keys)
      BY <2>0, <2>4, <2>5, ProgramsAssumption
    <3> QED BY <2>1, <2>2, <2>5, <3>1 DEF InModules
  <2>3. ASSUME entries = {}, op < Len(program.modules[at].features), entries' = entries,
               using' = << [file |-> program.modules[at].features[op + 1], what |-> "feature"] >>
        PROVE  InModules'
    <3>1. Names(program.modules[at].features, program.modules[at].name)
      BY <2>0, <2>4, ProgramsAssumption
    <3>2. op + 1 \in 1..Len(program.modules[at].features)
      BY <2>0, <2>3, <3>1 DEF Names, IsSequence
    <3>3. program.modules[at].features[op + 1].mod = program.modules[at].name
      BY <3>1, <3>2 DEF Names
    <3> QED BY <2>1, <2>3, <3>3 DEF InModules
  <2> QED BY <1>4, <2>2, <2>3 DEF Pick
<1>5. CASE UseTask
  <2>1. UNCHANGED <<program, phase, at, entries>> /\ using' = << >>
    BY <1>5 DEF UseTask, KeepsLoader
  <2> QED BY <1>0, <2>1 DEF InModules
<1>6. CASE UseFeature
  <2>1. UNCHANGED <<program, phase, at, entries>> /\ using' = << >>
    BY <1>6 DEF UseFeature, KeepsLoader
  <2> QED BY <1>0, <2>1 DEF InModules
<1>7. CASE ModuleDone
  <2>1. NextModule(at + 1) /\ program' = program
    BY <1>7 DEF ModuleDone, KeepsLoader
  <2> QED BY <2>1 DEF NextModule, InModules
<1>8. CASE StartConfigs
  <2>1. phase' # "modules"
    BY <1>8 DEF StartConfigs, Runs
  <2> QED BY <2>1 DEF InModules
<1>9. CASE CallConfig
  <2>1. phase' # "modules"
    BY <1>9 DEF CallConfig, Runs
  <2> QED BY <2>1 DEF InModules
<1>10. CASE SetArg
  <2>1. phase' # "modules"
    BY <1>10 DEF SetArg, InConfig, Runs
  <2> QED BY <2>1 DEF InModules
<1>11. CASE SetFeature
  <2>1. phase' # "modules"
    BY <1>11 DEF SetFeature, InConfig, Runs
  <2> QED BY <2>1 DEF InModules
<1>12. CASE AddTask
  <2>1. phase' # "modules"
    BY <1>12 DEF AddTask, InConfig, Runs
  <2> QED BY <2>1 DEF InModules
<1>13. CASE ConfigDone
  <2>1. phase' # "modules"
    BY <1>13 DEF ConfigDone, Runs
  <2> QED BY <2>1 DEF InModules
<1>14. CASE TouchTrait
  <2>1. phase' # "modules"
    BY <1>14 DEF TouchTrait, InBody, InTask, Runs
  <2> QED BY <2>1 DEF InModules
<1>15. CASE PutTrait
  <2>1. phase' # "modules"
    BY <1>15 DEF PutTrait, InBody, InTask, Runs
  <2> QED BY <2>1 DEF InModules
<1>16. CASE AddExporter
  <2>1. phase' # "modules"
    BY <1>16 DEF AddExporter, InBody, InTask, Runs
  <2> QED BY <2>1 DEF InModules
<1>17. CASE Emit
  <2>1. phase' # "modules"
    BY <1>17 DEF Emit, InBody, InTask, Runs
  <2> QED BY <2>1 DEF InModules
<1>18. CASE FailBody
  <2>1. phase' # "modules"
    BY <1>18 DEF FailBody, InBody, InTask, Runs
  <2> QED BY <2>1 DEF InModules
<1>19. CASE BuildCommands
  <2>1. phase' # "modules"
    BY <1>19 DEF BuildCommands, Runs
  <2> QED BY <2>1 DEF InModules
<1>20. CASE Dispatch
  <2>1. phase' # "modules"
    BY <1>20 DEF Dispatch, Runs
  <2> QED BY <2>1 DEF InModules
<1>21. CASE CallFeature
  <2>1. phase' # "modules"
    BY <1>21 DEF CallFeature, Runs
  <2> QED BY <2>1 DEF InModules
<1>22. CASE FeatureDone
  <2>1. phase' # "modules"
    BY <1>22 DEF FeatureDone, Runs
  <2> QED BY <2>1 DEF InModules
<1>23. CASE InstallExporters
  <2>1. phase' # "modules"
    BY <1>23 DEF InstallExporters, InstallsExporters, Runs
  <2> QED BY <2>1 DEF InModules
<1>24. CASE InstallLate
  <2>1. phase' # "modules"
    BY <1>24 DEF InstallLate, Runs
  <2> QED BY <2>1 DEF InModules
<1>25. CASE InstallMetrics
  <2>1. phase' # "modules"
    BY <1>25 DEF InstallMetrics, Runs
  <2> QED BY <2>1 DEF InModules
<1>26. CASE BatchThread
  <2>1. phase' # "modules"
    BY <1>26 DEF BatchThread, Runs
  <2> QED BY <2>1 DEF InModules
<1>27. CASE StartTask
  <2>1. phase' # "modules"
    BY <1>27 DEF StartTask, Runs
  <2> QED BY <2>1 DEF InModules
<1>28. CASE ReadTrait
  <2>1. phase' # "modules"
    BY <1>28 DEF ReadTrait, InTask, Runs
  <2> QED BY <2>1 DEF InModules
<1>29. CASE CallHook
  <2>1. phase' # "modules"
    BY <1>29 DEF CallHook, InTask, Runs
  <2> QED BY <2>1 DEF InModules
<1>30. CASE Defer
  <2>1. phase' # "modules"
    BY <1>30 DEF Defer, InTask, Runs
  <2> QED BY <2>1 DEF InModules
<1>31. CASE EnterPhase
  <2>1. phase' # "modules"
    BY <1>31 DEF EnterPhase, InTask, Runs
  <2> QED BY <2>1 DEF InModules
<1>32. CASE EndTask
  <2>1. phase' # "modules"
    BY <1>32, EndTaskIs
  <2> QED BY <2>1 DEF InModules
<1>33. CASE RunDeferred
  <2>1. phase' # "modules"
    BY <1>33 DEF RunDeferred, Runs
  <2> QED BY <2>1 DEF InModules
<1>34. CASE Conclude
  <2>1. phase' # "modules"
    BY <1>34 DEF Conclude, Runs
  <2> QED BY <2>1 DEF InModules
<1>35. CASE Abort
  <2>1. phase' # "modules"
    BY <1>35 DEF Abort, Final, Runs
  <2> QED BY <2>1 DEF InModules
<1>36. CASE Exited
  <2>1. phase' # "modules"
    BY <1>36 DEF Exited, vars, Final, Runs
  <2> QED BY <2>1 DEF InModules
<1>37. CASE UNCHANGED vars
  <2>1. UNCHANGED <<program, phase, at, entries, using>>
    BY <1>37 DEF vars, loaderVars, discoveryVars
  <2> QED BY <1>0, <2>1 DEF InModules
<1> QED BY <1>1, <1>2, <1>3, <1>4, <1>5, <1>6, <1>7, <1>8, <1>9, <1>10, <1>11, <1>12,
      <1>13, <1>14, <1>15, <1>16, <1>17, <1>18, <1>19, <1>20, <1>21, <1>22, <1>23, <1>24,
      <1>25, <1>26, <1>27, <1>28, <1>29, <1>30, <1>31, <1>32, <1>33, <1>34, <1>35, <1>36,
      <1>37 DEF Next


LEMMA ControlStep ==
  ASSUME LoaderInv, Control, [Next]_vars
  PROVE  Control'
<1>1. Counted /\ Counts
  BY CountsStep DEF Control
<1> QED BY <1>1, WhereStep, CountedStep, InModulesStep DEF Control

LEMMA ControlInit == Init => Control
<1> SUFFICES ASSUME Init PROVE Control
  OBVIOUS
<1>1. Where
  BY DEF Init, LoaderInit, Where, Earlier, Reading
<1>2. Counted
  BY DEF Init, Counted, Reading
<1>3. InModules
  BY DEF Init, InModules
<1> QED BY <1>1, <1>2, <1>3 DEF Control

----------------------------------------------------------------------------
(* Tasks and features.                                                     *)

IsTask(t) ==
    /\ t = [key |-> t.key, file |-> t.file, module |-> t.module, traits |-> t.traits,
            args |-> t.args, overrides |-> t.overrides]
    /\ IsCommand(t.key)
IsFeature(f) == f = [file |-> f.file, handle |-> f.handle, name |-> f.name, args |-> f.args,
                     overrides |-> f.overrides]

LEMMA TaskIs ==
  ASSUME NEW key, NEW file, NEW module, NEW traits0, NEW args0, NEW overrides, IsCommand(key)
  PROVE  IsTask([key |-> key, file |-> file, module |-> module, traits |-> traits0,
                 args |-> args0, overrides |-> overrides])
BY DEF IsTask

\* An override changes nothing else of a task, or of a feature.
LEMMA TaskSetIs ==
  ASSUME NEW t, IsTask(t), NEW v
  PROVE  /\ IsTask([t EXCEPT !.overrides = v])
         /\ [t EXCEPT !.overrides = v].traits = t.traits
<1>1. [t EXCEPT !.overrides = v] =
        [key |-> t.key, file |-> t.file, module |-> t.module, traits |-> t.traits,
         args |-> t.args, overrides |-> v]
  BY DEF IsTask
<1> QED BY <1>1 DEF IsTask

LEMMA FeatureSetIs ==
  ASSUME NEW f, IsFeature(f), NEW v
  PROVE  /\ IsFeature([f EXCEPT !.overrides = v])
         /\ [f EXCEPT !.overrides = v].file = f.file
         /\ [f EXCEPT !.overrides = v].handle = f.handle
<1>1. [f EXCEPT !.overrides = v] =
        [file |-> f.file, handle |-> f.handle, name |-> f.name, args |-> f.args, overrides |-> v]
  BY DEF IsFeature
<1> QED BY <1>1 DEF IsFeature

TasksIn(ts) == IsSequence(ts) /\ \A i \in 1..Len(ts) : IsTask(ts[i])
Grown(ts, ts2) ==
    /\ TasksIn(ts2) /\ Len(ts2) >= Len(ts)
    /\ \A i \in 1..Len(ts) : ts2[i].traits = ts[i].traits

LEMMA GrownBySame ==
  ASSUME NEW ts, TasksIn(ts)
  PROVE  Grown(ts, ts)
BY DEF Grown, TasksIn, IsSequence

LEMMA GrownByMore ==
  ASSUME NEW ts, TasksIn(ts), NEW more, TasksIn(more)
  PROVE  Grown(ts, ts \o more)
<1>1. /\ IsSequence(ts \o more) /\ Len(ts \o more) = Len(ts) + Len(more)
      /\ Len(ts) \in Nat /\ Len(more) \in Nat
      /\ \A i \in 1..Len(ts) : (ts \o more)[i] = ts[i]
      /\ \A i \in 1..Len(ts \o more) : i \in 1..Len(ts) \/ \E j \in 1..Len(more) : i = Len(ts) + j /\ (ts \o more)[i] = more[j]
  BY JoinIs DEF TasksIn
<1>2. \A i \in 1..Len(ts \o more) : IsTask((ts \o more)[i])
  <2> TAKE i \in 1..Len(ts \o more)
  <2>1. CASE i \in 1..Len(ts)
    BY <1>1, <2>1 DEF TasksIn
  <2>2. CASE \E j \in 1..Len(more) : i = Len(ts) + j /\ (ts \o more)[i] = more[j]
    BY <2>2 DEF TasksIn
  <2> QED BY <1>1, <2>1, <2>2
<1>3. Len(ts \o more) >= Len(ts)
  BY <1>1
<1> QED BY <1>1, <1>2, <1>3 DEF Grown, TasksIn

LEMMA GrownBySet ==
  ASSUME NEW ts, TasksIn(ts), NEW k \in 1..Len(ts), NEW v
  PROVE  Grown(ts, [ts EXCEPT ![k].overrides = v])
<1>1. PICK t : t = [ts[k] EXCEPT !.overrides = v] /\ IsTask(t) /\ t.traits = ts[k].traits
  BY TaskSetIs DEF TasksIn
<1>2. [ts EXCEPT ![k].overrides = v] = [ts EXCEPT ![k] = t]
  BY <1>1
<1>3. /\ IsSequence([ts EXCEPT ![k] = t]) /\ Len([ts EXCEPT ![k] = t]) = Len(ts) /\ Len(ts) \in Nat
      /\ [ts EXCEPT ![k] = t][k] = t
      /\ \A i \in 1..Len(ts) : i # k => [ts EXCEPT ![k] = t][i] = ts[i]
  BY ChangedIs DEF TasksIn
<1>4. \A i \in 1..Len(ts) : IsTask([ts EXCEPT ![k] = t][i]) /\ [ts EXCEPT ![k] = t][i].traits = ts[i].traits
  BY <1>1, <1>3 DEF TasksIn
<1>5. Len(ts) >= Len(ts)
  BY <1>3
<1> QED BY <1>2, <1>3, <1>4, <1>5 DEF Grown, TasksIn

\* A key has a place among tasks exactly if one of them has it.
LEMMA PlaceIs ==
  ASSUME NEW ts, IsSequence(ts), NEW key
  PROVE  /\ PlaceOf(ts, key) \in 0..Len(ts)
         /\ key \in KeysIn(ts) => PlaceOf(ts, key) # 0
<1> DEFINE I == {i \in 1..Len(ts) : ts[i].key = key}
<1>1. Len(ts) \in Nat /\ I \subseteq Nat /\ I \subseteq 1..Len(ts)
  BY DEF IsSequence
<1>2. PlaceOf(ts, key) = IF I # {} THEN Min(I) ELSE 0
  BY DEF PlaceOf, SelectInSeq
<1>5. key \in KeysIn(ts) => I # {}
  BY DEF KeysIn
<1> HIDE DEF I
<1>3. CASE I # {}
  <2>1. Min(I) \in I
    BY <1>1, <1>3, MinIs
  <2>2. Min(I) \in 1..Len(ts) /\ PlaceOf(ts, key) = Min(I)
    BY <1>1, <1>2, <1>3, <2>1
  <2> QED BY <1>1, <2>2
<1>4. CASE I = {}
  <2>1. PlaceOf(ts, key) = 0
    BY <1>2, <1>4
  <2> QED BY <1>1, <1>4, <1>5, <2>1
<1> QED BY <1>3, <1>4

LEMMA FindTaskIs ==
  ASSUME IsSequence(tasks), NEW key
  PROVE  FindTask(key) \in 0..Len(tasks)
BY PlaceIs DEF FindTask

LEMMA FindFeatureIs ==
  ASSUME IsSequence(features), NEW handle
  PROVE  /\ FindFeature(handle) \in 0..Len(features)
         /\ FindFeature(handle) = 0 => \A i \in 1..Len(features) : features[i].handle # handle
<1> DEFINE I == {i \in 1..Len(features) : features[i].handle = handle}
<1>1. Len(features) \in Nat /\ I \subseteq Nat /\ I \subseteq 1..Len(features)
  BY DEF IsSequence
<1>2. FindFeature(handle) = IF I # {} THEN Min(I) ELSE 0
  BY DEF FindFeature, SelectInSeq
<1>5. I = {} => \A i \in 1..Len(features) : features[i].handle # handle
  OBVIOUS
<1> HIDE DEF I
<1>3. CASE I # {}
  <2>1. Min(I) \in I
    BY <1>1, <1>3, MinIs
  <2>2. Min(I) \in 1..Len(features) /\ FindFeature(handle) = Min(I)
    BY <1>1, <1>2, <1>3, <2>1
  <2> QED BY <1>1, <2>2
<1>4. CASE I = {}
  <2>1. FindFeature(handle) = 0
    BY <1>2, <1>4
  <2> QED BY <1>1, <1>4, <1>5, <2>1
<1> QED BY <1>3, <1>4

\* The tasks of a file are tasks.
LEMMA TasksOfIs ==
  ASSUME program \in Programs, NEW f
  PROVE  TasksIn(TasksOf(f))
<1> DEFINE defined == IF f \in DOMAIN program.tasks THEN program.tasks[f] ELSE << >>
<1>1. IsSequence(defined) /\ \A i \in 1..Len(defined) : IsCommand(defined[i].key)
  <2>1. \A i : i \notin 1..Len(<< >>)
    BY EmptyIsSequence
  <2> QED BY <2>1, ProgramsAssumption, EmptyIsSequence
<1>2. Len(defined) \in Nat
  BY <1>1 DEF IsSequence
<1>3. TasksOf(f) = [i \in 1..Len(defined) |->
                      [key |-> defined[i].key, file |-> f, module |-> Module(f),
                       traits |-> {Handle(f, g) : g \in defined[i].traits},
                       args |-> TaskArgs(defined[i]), overrides |-> << >>]]
  BY DEF TasksOf
<1> HIDE DEF defined
<1>4. PICK ts : ts = TasksOf(f)
  OBVIOUS
<1>5. \A i \in 1..Len(defined) : ts[i] = [key |-> defined[i].key, file |-> f, module |-> Module(f),
                       traits |-> {Handle(f, g) : g \in defined[i].traits},
                       args |-> TaskArgs(defined[i]), overrides |-> << >>]
  BY <1>3, <1>4
<1>6. \A i \in 1..Len(defined) : IsTask(ts[i])
  <2> TAKE i \in 1..Len(defined)
  <2>1. PICK key, traits0, args0 :
           /\ ts[i] = [key |-> key, file |-> f, module |-> Module(f), traits |-> traits0,
                       args |-> args0, overrides |-> << >>]
           /\ IsCommand(key)
    BY <1>1, <1>5
  <2> QED BY <2>1, TaskIs
<1>7. ts = [i \in 1..Len(defined) |-> ts[i]]
  BY <1>3, <1>4
<1>8. IsSequence(ts) /\ Len(ts) = Len(defined)
  BY <1>2, <1>7, ListIs
<1> QED BY <1>4, <1>6, <1>8 DEF TasksIn

\* So are those a module names.
LEMMA NamedIs ==
  ASSUME NEW ts, TasksIn(ts), NEW keys, IsSequence(keys), Range(keys) \subseteq KeysIn(ts),
         NEW named, named = [i \in 1..Len(keys) |-> ts[PlaceOf(ts, keys[i])]]
  PROVE  TasksIn(named)
<1>1. Len(keys) \in Nat /\ IsSequence(ts) /\ Len(ts) \in Nat
  BY DEF IsSequence, TasksIn
<1>2. ASSUME NEW i \in 1..Len(keys) PROVE IsTask(named[i])
  <2>1. DOMAIN keys = 1..Len(keys)
    BY DEF IsSequence
  <2>2. keys[i] \in KeysIn(ts)
    BY <2>1 DEF Range
  <2>3. PlaceOf(ts, keys[i]) \in 0..Len(ts) /\ PlaceOf(ts, keys[i]) # 0
    BY <1>1, <2>2, PlaceIs
  <2>4. PlaceOf(ts, keys[i]) \in 1..Len(ts)
    BY <1>1, <2>3
  <2>5. named[i] = ts[PlaceOf(ts, keys[i])]
    OBVIOUS
  <2> QED BY <2>4, <2>5 DEF TasksIn
<1>3. named = [i \in 1..Len(keys) |-> named[i]]
  OBVIOUS
<1>4. IsSequence(named) /\ Len(named) = Len(keys)
  BY <1>1, <1>3, ListIs
<1> QED BY <1>2, <1>4 DEF TasksIn


----------------------------------------------------------------------------
(* Who changes what, and how the run goes on.                              *)

Owners ==
    /\ Evaluate \/ UNCHANGED <<program, cache, frames, scopes, made, got>>
    /\ TakeScript \/ UseTask \/ SetArg \/ AddTask \/ tasks' = tasks
    /\ UseFeature \/ SetFeature \/ features' = features
    /\ StartConfigs \/ known' = known
    /\ Dispatch \/ chosen' = chosen
    /\ StartConfigs \/ TouchTrait \/ PutTrait \/ CallHook \/ traits' = traits
    /\ TouchTrait \/ PutTrait \/ CallHook \/ ReadTrait \/ heap' = heap
    /\ TouchTrait \/ PutTrait \/ owed' = owed
    /\ StartTask \/ ReadTrait \/ mine' = mine
    /\ AddExporter \/ InstallExporters \/ UNCHANGED <<exporters, installed, exported>>
    /\ Defer \/ EndTask \/ RunDeferred \/ UNCHANGED <<defers, pending>>
    /\ Defer \/ registered' = registered
    /\ RunDeferred \/ ranDefers' = ranDefers
    /\ EndTask \/ implFailed' = implFailed
    /\ StartTask \/ EnterPhase \/ RunDeferred \/ Conclude \/ info' = info

LEMMA OwnersStep ==
  ASSUME [Next]_vars
  PROVE  Owners
<1>1. CASE Evaluate
  <2>1. UNCHANGED <<tasks, features, known, chosen, traits, heap, owed, mine, exporters,
        installed, exported, defers, pending, registered, ranDefers, implFailed, info>>
    BY <1>1 DEF Evaluate, discoveryVars, traitVars, exporterVars, commandVars, taskVars,
       configVars, specVars
  <2> QED BY <1>1, <2>1 DEF Owners
<1>2. CASE TakeScript
  <2>1. UNCHANGED <<program, cache, frames, scopes, made, got, features, known, chosen,
        traits, heap, owed, mine, exporters, installed, exported, defers, pending,
        registered, ranDefers, implFailed, info>>
    BY <1>2 DEF TakeScript, traitVars, exporterVars, commandVars, taskVars, configVars,
       specVars, KeepsLoader
  <2> QED BY <1>2, <2>1 DEF Owners
<1>3. CASE ScriptsDone
  <2>1. UNCHANGED <<program, cache, frames, scopes, made, got, tasks, features, known,
        chosen, traits, heap, owed, mine, exporters, installed, exported, defers, pending,
        registered, ranDefers, implFailed, info>>
    BY <1>3 DEF ScriptsDone, traitVars, exporterVars, commandVars, taskVars, configVars,
       specVars, KeepsLoader
  <2> QED BY <1>3, <2>1 DEF Owners
<1>4. CASE Pick
  <2>1. UNCHANGED <<program, cache, frames, scopes, made, got, tasks, features, known,
        chosen, traits, heap, owed, mine, exporters, installed, exported, defers, pending,
        registered, ranDefers, implFailed, info>>
    BY <1>4 DEF Pick, traitVars, exporterVars, commandVars, taskVars, configVars, specVars,
       KeepsLoader
  <2> QED BY <1>4, <2>1 DEF Owners
<1>5. CASE UseTask
  <2>1. UNCHANGED <<program, cache, frames, scopes, made, got, features, known, chosen,
        traits, heap, owed, mine, exporters, installed, exported, defers, pending,
        registered, ranDefers, implFailed, info>>
    BY <1>5 DEF UseTask, traitVars, exporterVars, commandVars, taskVars, configVars,
       specVars, KeepsLoader
  <2> QED BY <1>5, <2>1 DEF Owners
<1>6. CASE UseFeature
  <2>1. UNCHANGED <<program, cache, frames, scopes, made, got, tasks, known, chosen,
        traits, heap, owed, mine, exporters, installed, exported, defers, pending,
        registered, ranDefers, implFailed, info>>
    BY <1>6 DEF UseFeature, traitVars, exporterVars, commandVars, taskVars, configVars,
       specVars, KeepsLoader
  <2> QED BY <1>6, <2>1 DEF Owners
<1>7. CASE ModuleDone
  <2>1. UNCHANGED <<program, cache, frames, scopes, made, got, tasks, features, known,
        chosen, traits, heap, owed, mine, exporters, installed, exported, defers, pending,
        registered, ranDefers, implFailed, info>>
    BY <1>7 DEF ModuleDone, traitVars, exporterVars, commandVars, taskVars, configVars,
       specVars, KeepsLoader
  <2> QED BY <1>7, <2>1 DEF Owners
<1>8. CASE StartConfigs
  <2>1. UNCHANGED <<program, cache, frames, scopes, made, got, tasks, features, chosen,
        heap, owed, mine, exporters, installed, exported, defers, pending, registered,
        ranDefers, implFailed, info>>
    BY <1>8 DEF StartConfigs, specVars, commandVars, taskVars, configVars, KeepsLoader
  <2> QED BY <1>8, <2>1 DEF Owners
<1>9. CASE CallConfig
  <2>1. UNCHANGED <<program, cache, frames, scopes, made, got, tasks, features, known,
        chosen, traits, heap, owed, mine, exporters, installed, exported, defers, pending,
        registered, ranDefers, implFailed, info>>
    BY <1>9 DEF CallConfig, discoveryVars, traitVars, exporterVars, commandVars, taskVars,
       configVars, specVars, KeepsLoader
  <2> QED BY <1>9, <2>1 DEF Owners
<1>10. CASE SetArg
  <2>1. UNCHANGED <<program, cache, frames, scopes, made, got, features, known, chosen,
        traits, heap, owed, mine, exporters, installed, exported, defers, pending,
        registered, ranDefers, implFailed, info>>
    BY <1>10 DEF SetArg, traitVars, exporterVars, commandVars, taskVars, specVars, KeepsLoader
  <2> QED BY <1>10, <2>1 DEF Owners
<1>11. CASE SetFeature
  <2>1. UNCHANGED <<program, cache, frames, scopes, made, got, tasks, known, chosen,
        traits, heap, owed, mine, exporters, installed, exported, defers, pending,
        registered, ranDefers, implFailed, info>>
    BY <1>11 DEF SetFeature, traitVars, exporterVars, commandVars, taskVars, specVars,
       KeepsLoader
  <2> QED BY <1>11, <2>1 DEF Owners
<1>12. CASE AddTask
  <2>1. UNCHANGED <<program, cache, frames, scopes, made, got, features, known, chosen,
        traits, heap, owed, mine, exporters, installed, exported, defers, pending,
        registered, ranDefers, implFailed, info>>
    BY <1>12 DEF AddTask, traitVars, exporterVars, commandVars, taskVars, configVars,
       specVars, KeepsLoader
  <2> QED BY <1>12, <2>1 DEF Owners
<1>13. CASE ConfigDone
  <2>1. UNCHANGED <<program, cache, frames, scopes, made, got, tasks, features, known,
        chosen, traits, heap, owed, mine, exporters, installed, exported, defers, pending,
        registered, ranDefers, implFailed, info>>
    BY <1>13 DEF ConfigDone, discoveryVars, traitVars, exporterVars, commandVars, taskVars,
       configVars, specVars, KeepsLoader
  <2> QED BY <1>13, <2>1 DEF Owners
<1>14. CASE TouchTrait
  <2>1. UNCHANGED <<program, cache, frames, scopes, made, got, tasks, features, known,
        chosen, mine, exporters, installed, exported, defers, pending, registered,
        ranDefers, implFailed, info>>
    BY <1>14 DEF TouchTrait, discoveryVars, traitVars, exporterVars, commandVars, taskVars,
       configVars, specVars, KeepsLoader
  <2> QED BY <1>14, <2>1 DEF Owners
<1>15. CASE PutTrait
  <2>1. UNCHANGED <<program, cache, frames, scopes, made, got, tasks, features, known,
        chosen, mine, exporters, installed, exported, defers, pending, registered,
        ranDefers, implFailed, info>>
    BY <1>15 DEF PutTrait, discoveryVars, exporterVars, commandVars, taskVars, configVars,
       specVars, KeepsLoader
  <2> QED BY <1>15, <2>1 DEF Owners
<1>16. CASE AddExporter
  <2>1. UNCHANGED <<program, cache, frames, scopes, made, got, tasks, features, known,
        chosen, traits, heap, owed, mine, defers, pending, registered, ranDefers,
        implFailed, info>>
    BY <1>16 DEF AddExporter, discoveryVars, traitVars, exporterVars, commandVars,
       taskVars, configVars, specVars, KeepsLoader
  <2> QED BY <1>16, <2>1 DEF Owners
<1>17. CASE Emit
  <2>1. UNCHANGED <<program, cache, frames, scopes, made, got, tasks, features, known,
        chosen, traits, heap, owed, mine, exporters, installed, exported, defers, pending,
        registered, ranDefers, implFailed, info>>
    BY <1>17 DEF Emit, discoveryVars, traitVars, specVars, commandVars, taskVars,
       configVars, KeepsLoader
  <2> QED BY <1>17, <2>1 DEF Owners
<1>18. CASE FailBody
  <2>1. UNCHANGED <<program, cache, frames, scopes, made, got, tasks, features, known,
        chosen, traits, heap, owed, mine, exporters, installed, exported, defers, pending,
        registered, ranDefers, implFailed, info>>
    BY <1>18 DEF FailBody, discoveryVars, traitVars, exporterVars, commandVars, taskVars,
       configVars, specVars, KeepsLoader
  <2> QED BY <1>18, <2>1 DEF Owners
<1>19. CASE BuildCommands
  <2>1. UNCHANGED <<program, cache, frames, scopes, made, got, tasks, features, known,
        chosen, traits, heap, owed, mine, exporters, installed, exported, defers, pending,
        registered, ranDefers, implFailed, info>>
    BY <1>19 DEF BuildCommands, discoveryVars, traitVars, specVars, commandVars, taskVars,
       configVars, KeepsLoader
  <2> QED BY <1>19, <2>1 DEF Owners
<1>20. CASE Dispatch
  <2>1. UNCHANGED <<program, cache, frames, scopes, made, got, tasks, features, known,
        traits, heap, owed, mine, exporters, installed, exported, defers, pending,
        registered, ranDefers, implFailed, info>>
    BY <1>20 DEF Dispatch, discoveryVars, traitVars, exporterVars, taskVars, configVars,
       specVars, KeepsLoader
  <2> QED BY <1>20, <2>1 DEF Owners
<1>21. CASE CallFeature
  <2>1. UNCHANGED <<program, cache, frames, scopes, made, got, tasks, features, known,
        chosen, traits, heap, owed, mine, exporters, installed, exported, defers, pending,
        registered, ranDefers, implFailed, info>>
    BY <1>21 DEF CallFeature, discoveryVars, traitVars, exporterVars, commandVars,
       taskVars, configVars, specVars, KeepsLoader
  <2> QED BY <1>21, <2>1 DEF Owners
<1>22. CASE FeatureDone
  <2>1. UNCHANGED <<program, cache, frames, scopes, made, got, tasks, features, known,
        chosen, traits, heap, owed, mine, exporters, installed, exported, defers, pending,
        registered, ranDefers, implFailed, info>>
    BY <1>22 DEF FeatureDone, discoveryVars, traitVars, exporterVars, commandVars,
       taskVars, configVars, specVars, KeepsLoader
  <2> QED BY <1>22, <2>1 DEF Owners
<1>23. CASE InstallExporters
  <2>1. UNCHANGED <<program, cache, frames, scopes, made, got, tasks, features, known,
        chosen, traits, heap, owed, mine, defers, pending, registered, ranDefers,
        implFailed, info>>
    BY <1>23 DEF InstallExporters, InstallsExporters, discoveryVars, traitVars,
       commandVars, taskVars, configVars, KeepsLoader
  <2> QED BY <1>23, <2>1 DEF Owners
<1>24. CASE InstallLate
  <2>1. UNCHANGED <<program, cache, frames, scopes, made, got, tasks, features, known,
        chosen, traits, heap, owed, mine, exporters, installed, exported, defers, pending,
        registered, ranDefers, implFailed, info>>
    BY <1>24 DEF InstallLate, discoveryVars, traitVars, specVars, commandVars, taskVars,
       configVars, KeepsLoader
  <2> QED BY <1>24, <2>1 DEF Owners
<1>25. CASE InstallMetrics
  <2>1. UNCHANGED <<program, cache, frames, scopes, made, got, tasks, features, known,
        chosen, traits, heap, owed, mine, exporters, installed, exported, defers, pending,
        registered, ranDefers, implFailed, info>>
    BY <1>25 DEF InstallMetrics, discoveryVars, traitVars, exporterVars, commandVars,
       taskVars, configVars, specVars, KeepsLoader
  <2> QED BY <1>25, <2>1 DEF Owners
<1>26. CASE BatchThread
  <2>1. UNCHANGED <<program, cache, frames, scopes, made, got, tasks, features, known,
        chosen, traits, heap, owed, mine, exporters, installed, exported, defers, pending,
        registered, ranDefers, implFailed, info>>
    BY <1>26 DEF BatchThread, discoveryVars, traitVars, specVars, commandVars, taskVars,
       configVars, loaderVars
  <2> QED BY <1>26, <2>1 DEF Owners
<1>27. CASE StartTask
  <2>1. UNCHANGED <<program, cache, frames, scopes, made, got, tasks, features, known,
        chosen, traits, heap, owed, exporters, installed, exported, defers, pending,
        registered, ranDefers, implFailed>>
    BY <1>27 DEF StartTask, discoveryVars, traitVars, exporterVars, configVars, specVars,
       KeepsLoader
  <2> QED BY <1>27, <2>1 DEF Owners
<1>28. CASE ReadTrait
  <2>1. UNCHANGED <<program, cache, frames, scopes, made, got, tasks, features, known,
        chosen, traits, owed, exporters, installed, exported, defers, pending, registered,
        ranDefers, implFailed, info>>
    BY <1>28 DEF ReadTrait, discoveryVars, exporterVars, configVars, specVars, KeepsLoader
  <2> QED BY <1>28, <2>1 DEF Owners
<1>29. CASE CallHook
  <2>1. UNCHANGED <<program, cache, frames, scopes, made, got, tasks, features, known,
        chosen, owed, mine, exporters, installed, exported, defers, pending, registered,
        ranDefers, implFailed, info>>
    BY <1>29 DEF CallHook, discoveryVars, exporterVars, commandVars, configVars, specVars,
       KeepsLoader
  <2> QED BY <1>29, <2>1 DEF Owners
<1>30. CASE Defer
  <2>1. UNCHANGED <<program, cache, frames, scopes, made, got, tasks, features, known,
        chosen, traits, heap, owed, mine, exporters, installed, exported, ranDefers,
        implFailed, info>>
    BY <1>30 DEF Defer, discoveryVars, traitVars, exporterVars, commandVars, configVars,
       specVars, KeepsLoader
  <2> QED BY <1>30, <2>1 DEF Owners
<1>31. CASE EnterPhase
  <2>1. UNCHANGED <<program, cache, frames, scopes, made, got, tasks, features, known,
        chosen, traits, heap, owed, mine, exporters, installed, exported, defers, pending,
        registered, ranDefers, implFailed>>
    BY <1>31 DEF EnterPhase, discoveryVars, traitVars, exporterVars, commandVars,
       configVars, specVars, KeepsLoader
  <2> QED BY <1>31, <2>1 DEF Owners
<1>32. CASE EndTask
  <2>1. UNCHANGED <<program, cache, frames, scopes, made, got, tasks, features, known,
        chosen, traits, heap, owed, mine, exporters, installed, exported, registered,
        ranDefers, info>>
    BY <1>32, EndTaskIs DEF discoveryVars, traitVars, exporterVars, specVars, commandVars
  <2> QED BY <1>32, <2>1 DEF Owners
<1>33. CASE RunDeferred
  <2>1. UNCHANGED <<program, cache, frames, scopes, made, got, tasks, features, known,
        chosen, traits, heap, owed, mine, exporters, installed, exported, registered,
        implFailed>>
    BY <1>33 DEF RunDeferred, discoveryVars, traitVars, exporterVars, commandVars,
       configVars, specVars, KeepsLoader
  <2> QED BY <1>33, <2>1 DEF Owners
<1>34. CASE Conclude
  <2>1. UNCHANGED <<program, cache, frames, scopes, made, got, tasks, features, known,
        chosen, traits, heap, owed, mine, exporters, installed, exported, defers, pending,
        registered, ranDefers, implFailed>>
    BY <1>34 DEF Conclude, discoveryVars, traitVars, specVars, commandVars, configVars,
       KeepsLoader
  <2> QED BY <1>34, <2>1 DEF Owners
<1>35. CASE Abort
  <2>1. UNCHANGED <<program, cache, frames, scopes, made, got, tasks, features, known,
        chosen, traits, heap, owed, mine, exporters, installed, exported, defers, pending,
        registered, ranDefers, implFailed, info>>
    BY <1>35 DEF Abort, discoveryVars, traitVars, specVars, commandVars, taskVars,
       configVars, loaderVars
  <2> QED BY <1>35, <2>1 DEF Owners
<1>36. CASE Exited
  <2>1. UNCHANGED <<program, cache, frames, scopes, made, got, tasks, features, known,
        chosen, traits, heap, owed, mine, exporters, installed, exported, defers, pending,
        registered, ranDefers, implFailed, info>>
    BY <1>36 DEF Exited, vars, loaderVars, discoveryVars, traitVars, specVars,
       exporterVars, commandVars, taskVars, configVars
  <2> QED BY <1>36, <2>1 DEF Owners
<1>37. CASE UNCHANGED vars
  <2>1. UNCHANGED <<program, cache, frames, scopes, made, got, tasks, features, known,
        chosen, traits, heap, owed, mine, exporters, installed, exported, defers, pending,
        registered, ranDefers, implFailed, info>>
    BY <1>37 DEF vars, discoveryVars, traitVars, specVars, exporterVars, commandVars,
       taskVars, configVars, loaderVars
  <2> QED BY <2>1 DEF Owners
<1> QED BY <1>1, <1>2, <1>3, <1>4, <1>5, <1>6, <1>7, <1>8, <1>9, <1>10, <1>11, <1>12,
      <1>13, <1>14, <1>15, <1>16, <1>17, <1>18, <1>19, <1>20, <1>21, <1>22, <1>23, <1>24,
      <1>25, <1>26, <1>27, <1>28, <1>29, <1>30, <1>31, <1>32, <1>33, <1>34, <1>35, <1>36,
      <1>37 DEF Next


\* The phases, in order; who leaves a phase; and that nothing but the loader and
\* a caller fails before the task, and nothing at all while it runs.
Onward ==
    /\ phase' \in Earlier => phase \in Earlier
    /\ phase' \in Earlier \ {"exporters"} => phase \in Earlier \ {"exporters"}
    /\ phase' = "exporters" => phase = "exporters" \/ InstallExporters
    /\ phase' \in {"features", "exporters"} => phase \in {"features", "exporters"} \/ Dispatch
    /\ phase' = "task" => phase = "task" \/ (op' = 0 /\ failure' = "" /\ (phase = "exporters" \/ InstallExporters))
    /\ phase = "task" /\ phase' = "task" => op' = op \/ op' = op + 1 \/ (StartTask /\ op' = 1)
    /\ phase = "task" /\ phase' = "task" /\ op = 0 => op' = 0 \/ StartTask
    /\ phase' = "deferred" => (phase = "deferred" /\ op' = op) \/ EndTask
    /\ phase' \in Final => phase \in Final \/ Conclude \/ Abort
    /\ phase \in Final => phase' = phase
    /\ phase \in {"task", "deferred"} /\ failure = "" => failure' = ""

\* Before a task does anything, it was started.
LEMMA InTaskIs ==
  ASSUME NEW o, InTask(o)
  PROVE  phase = "task" /\ failure = "" /\ frames = << >> /\ op # 0
<1>1. op \in 1..program.budget.task
  BY DEF InTask
<1>2. op # 0
  BY <1>1
<1> QED BY <1>2 DEF InTask, Runs

LEMMA OnwardStep ==
  ASSUME LoaderInv, Control, [Next]_vars
  PROVE  Onward
<1>1. CASE Evaluate
  <2>1. phase \in Reading /\ phase' = phase
    BY <1>1, EvaluateKeeps DEF Evaluate
  <2> QED BY <1>1, <2>1 DEF Onward, Earlier, Reading, Final
<1>2. CASE TakeScript
  <2>1. phase = "scripts" /\ phase' = phase
    BY <1>2 DEF TakeScript, Runs
  <2> QED BY <1>2, <2>1 DEF Onward, Earlier, Reading, Final
<1>3. CASE ScriptsDone
  <2>1. phase = "scripts" /\ phase' = "modules"
    BY <1>3 DEF ScriptsDone, Runs
  <2> QED BY <1>3, <2>1 DEF Onward, Earlier, Reading, Final
<1>4. CASE Pick
  <2>1. phase = "modules" /\ phase' = phase
    BY <1>4 DEF Pick, Runs
  <2> QED BY <1>4, <2>1 DEF Onward, Earlier, Reading, Final
<1>5. CASE UseTask
  <2>1. phase = "modules" /\ phase' = phase
    BY <1>5 DEF UseTask, Runs
  <2> QED BY <1>5, <2>1 DEF Onward, Earlier, Reading, Final
<1>6. CASE UseFeature
  <2>1. phase = "modules" /\ phase' = phase
    BY <1>6 DEF UseFeature, Runs
  <2> QED BY <1>6, <2>1 DEF Onward, Earlier, Reading, Final
<1>7. CASE ModuleDone
  <2>1. phase = "modules" /\ phase' = phase
    BY <1>7 DEF ModuleDone, Runs
  <2> QED BY <1>7, <2>1 DEF Onward, Earlier, Reading, Final
<1>8. CASE StartConfigs
  <2>1. phase = "modules" /\ phase' = "configs"
    BY <1>8 DEF StartConfigs, Runs
  <2> QED BY <1>8, <2>1 DEF Onward, Earlier, Reading, Final
<1>9. CASE CallConfig
  <2>1. phase = "configs" /\ phase' = phase
    BY <1>9 DEF CallConfig, Runs
  <2> QED BY <1>9, <2>1 DEF Onward, Earlier, Reading, Final
<1>10. CASE SetArg
  <2>1. phase = "configs" /\ phase' = phase
    BY <1>10 DEF SetArg, InConfig, Runs
  <2> QED BY <1>10, <2>1 DEF Onward, Earlier, Reading, Final
<1>11. CASE SetFeature
  <2>1. phase = "configs" /\ phase' = phase
    BY <1>11 DEF SetFeature, InConfig, Runs
  <2> QED BY <1>11, <2>1 DEF Onward, Earlier, Reading, Final
<1>12. CASE AddTask
  <2>1. phase = "configs" /\ phase' = phase
    BY <1>12 DEF AddTask, InConfig, Runs
  <2> QED BY <1>12, <2>1 DEF Onward, Earlier, Reading, Final
<1>13. CASE ConfigDone
  <2>1. phase = "configs" /\ phase' = phase
    BY <1>13 DEF ConfigDone, Runs
  <2> QED BY <1>13, <2>1 DEF Onward, Earlier, Reading, Final
<1>14. CASE TouchTrait
  <2>1. phase \in {"configs", "features"} /\ phase' = phase
    BY <1>14 DEF TouchTrait, InBody
  <2> QED BY <1>14, <2>1 DEF Onward, Earlier, Reading, Final
<1>15. CASE PutTrait
  <2>1. phase \in {"configs", "features"} /\ phase' = phase
    BY <1>15 DEF PutTrait, InBody
  <2> QED BY <1>15, <2>1 DEF Onward, Earlier, Reading, Final
<1>16. CASE AddExporter
  <2>1. /\ phase' = phase /\ phase \in {"configs", "features", "task"} /\ op' = op + 1
        /\ phase = "task" => failure' = failure /\ op # 0
    BY <1>16, InTaskIs DEF AddExporter, InBody, Succeeds
  <2> QED BY <1>16, <2>1 DEF Onward, Earlier, Reading, Final
<1>17. CASE Emit
  <2>1. /\ phase' = phase /\ phase \in {"configs", "features", "task"} /\ op' = op + 1
        /\ phase = "task" => failure' = failure /\ op # 0
    BY <1>17, InTaskIs DEF Emit, InBody, Succeeds
  <2> QED BY <1>17, <2>1 DEF Onward, Earlier, Reading, Final
<1>18. CASE FailBody
  <2>1. phase \in {"configs", "features"} /\ phase' = phase
    BY <1>18 DEF FailBody, InBody
  <2> QED BY <1>18, <2>1 DEF Onward, Earlier, Reading, Final
<1>19. CASE BuildCommands
  <2>1. phase = "configs" /\ phase' = "commands"
    BY <1>19 DEF BuildCommands, Runs
  <2> QED BY <1>19, <2>1 DEF Onward, Earlier, Reading, Final
<1>20. CASE Dispatch
  <2>1. phase = "commands" /\ phase' \in {"commands", "features"}
    BY <1>20 DEF Dispatch, Runs
  <2> QED BY <1>20, <2>1 DEF Onward, Earlier, Reading, Final
<1>21. CASE CallFeature
  <2>1. phase = "features" /\ phase' = phase
    BY <1>21 DEF CallFeature, Runs
  <2> QED BY <1>21, <2>1 DEF Onward, Earlier, Reading, Final
<1>22. CASE FeatureDone
  <2>1. phase = "features" /\ phase' = phase
    BY <1>22 DEF FeatureDone, Runs
  <2> QED BY <1>22, <2>1 DEF Onward, Earlier, Reading, Final
<1>23. CASE InstallExporters
  <2>1. phase = "features" /\ op' = 0 /\ (phase' = "exporters" \/ (phase' = "task" /\ failure' = ""))
    BY <1>23 DEF InstallExporters, InstallsExporters, Runs, Succeeds
  <2> QED BY <1>23, <2>1 DEF Onward, Earlier, Reading, Final
<1>24. CASE InstallLate
  <2>1. phase = "exporters" /\ phase' = phase
    BY <1>24 DEF InstallLate, Runs
  <2> QED BY <1>24, <2>1 DEF Onward, Earlier, Reading, Final
<1>25. CASE InstallMetrics
  <2>1. phase = "exporters" /\ op' = 0 /\ (phase' = "exporters" \/ (phase' = "task" /\ failure' = ""))
    BY <1>25 DEF InstallMetrics, Runs, Succeeds
  <2> QED BY <1>25, <2>1 DEF Onward, Earlier, Reading, Final
<1>26. CASE BatchThread
  <2>1. phase' = phase /\ op' = op /\ failure' = failure
    BY <1>26 DEF BatchThread, loaderVars
  <2> QED BY <1>26, <2>1 DEF Onward, Earlier, Reading, Final
<1>27. CASE StartTask
  <2>1. phase = "task" /\ phase' = phase /\ op' = 1 /\ failure' = failure
    BY <1>27 DEF StartTask, Runs, Succeeds
  <2> QED BY <1>27, <2>1 DEF Onward, Earlier, Reading, Final
<1>28. CASE ReadTrait
  <2>1. phase = "task" /\ phase' = phase /\ op' = op + 1 /\ op # 0 /\ failure' = failure
    BY <1>28, InTaskIs DEF ReadTrait, Succeeds
  <2> QED BY <1>28, <2>1 DEF Onward, Earlier, Reading, Final
<1>29. CASE CallHook
  <2>1. phase = "task" /\ phase' = phase /\ op' = op + 1 /\ op # 0 /\ failure' = failure
    BY <1>29, InTaskIs DEF CallHook, Succeeds
  <2> QED BY <1>29, <2>1 DEF Onward, Earlier, Reading, Final
<1>30. CASE Defer
  <2>1. phase = "task" /\ phase' = phase /\ op' = op + 1 /\ op # 0 /\ failure' = failure
    BY <1>30, InTaskIs DEF Defer, Succeeds
  <2> QED BY <1>30, <2>1 DEF Onward, Earlier, Reading, Final
<1>31. CASE EnterPhase
  <2>1. phase = "task" /\ phase' = phase /\ op' = op + 1 /\ op # 0 /\ failure' = failure
    BY <1>31, InTaskIs DEF EnterPhase, Succeeds
  <2> QED BY <1>31, <2>1 DEF Onward, Earlier, Reading, Final
<1>32. CASE EndTask
  <2>1. phase = "task" /\ phase' = "deferred" /\ failure' = failure
    BY <1>32, EndTaskIs
  <2> QED BY <1>32, <2>1 DEF Onward, Earlier, Reading, Final
<1>33. CASE RunDeferred
  <2>1. phase = "deferred" /\ phase' = phase /\ op' = op /\ failure' = failure
    BY <1>33 DEF RunDeferred, Runs, Succeeds
  <2> QED BY <1>33, <2>1 DEF Onward, Earlier, Reading, Final
<1>34. CASE Conclude
  <2>1. phase = "deferred" /\ phase' \in Final /\ failure' = failure
    BY <1>34 DEF Conclude, Runs, Final, Succeeds
  <2> QED BY <1>34, <2>1 DEF Onward, Earlier, Reading, Final
<1>35. CASE Abort
  <2>1. phase \notin Final /\ phase' \in Final /\ failure # ""
    BY <1>35 DEF Abort, Final
  <2> QED BY <1>35, <2>1 DEF Onward, Earlier, Reading, Final
<1>36. CASE Exited
  <2>1. phase' = phase /\ op' = op /\ failure' = failure
    BY <1>36 DEF Exited, vars, loaderVars
  <2> QED BY <1>36, <2>1 DEF Onward, Earlier, Reading, Final
<1>37. CASE UNCHANGED vars
  <2>1. phase' = phase /\ op' = op /\ failure' = failure
    BY <1>37 DEF vars, loaderVars
  <2> QED BY <1>37, <2>1 DEF Onward, Earlier, Reading, Final
<1> QED BY <1>1, <1>2, <1>3, <1>4, <1>5, <1>6, <1>7, <1>8, <1>9, <1>10, <1>11, <1>12,
      <1>13, <1>14, <1>15, <1>16, <1>17, <1>18, <1>19, <1>20, <1>21, <1>22, <1>23, <1>24,
      <1>25, <1>26, <1>27, <1>28, <1>29, <1>30, <1>31, <1>32, <1>33, <1>34, <1>35, <1>36,
      <1>37 DEF Next

----------------------------------------------------------------------------
(* What is found is kept.                                                  *)

TasksSound == TasksIn(tasks) /\ known \in 0..Len(tasks) /\ chosen \in 0..Len(tasks)

\* Tasks are only ever added, and none changes what traits it declares.
LEMMA TasksStep ==
  ASSUME Control, TasksSound, [Next]_vars
  PROVE  TasksSound' /\ Grown(tasks, tasks')
<1>1. TasksIn(tasks) /\ Owners /\ IsSequence(tasks) /\ program \in Programs
  BY OwnersStep DEF TasksSound, TasksIn, Control, Where
<1>2. CASE tasks' = tasks
  <2>1. Grown(tasks, tasks')
    BY <1>1, <1>2, GrownBySame
  <2>2. known' \in 0..Len(tasks)
    <3>1. CASE StartConfigs
      BY <1>1, <3>1 DEF StartConfigs, IsSequence
    <3> QED BY <1>1, <3>1 DEF Owners, TasksSound
  <2>3. chosen' \in 0..Len(tasks)
    <3>1. CASE Dispatch
      <4>1. PICK key : chosen' = FindTask(key)
        BY <3>1 DEF Dispatch
      <4> QED BY <1>1, <4>1, FindTaskIs
    <3> QED BY <1>1, <3>1 DEF Owners, TasksSound
  <2> QED BY <1>1, <1>2, <2>1, <2>2, <2>3 DEF TasksSound
<1>3. ASSUME Grown(tasks, tasks'), UNCHANGED <<known, chosen>>
      PROVE  TasksSound' /\ Grown(tasks, tasks')
  <2>1. IsSequence(tasks') /\ Len(tasks') >= Len(tasks)
    BY <1>3 DEF Grown, TasksIn
  <2>2. known \in 0..Len(tasks') /\ chosen \in 0..Len(tasks')
    BY <1>1, <2>1 DEF TasksSound, IsSequence
  <2> QED BY <1>3, <2>2 DEF TasksSound, Grown, TasksIn
<1>4. CASE TakeScript
  <2>1. tasks' = tasks \o TasksOf(Needed[1].file) /\ UNCHANGED <<known, chosen>>
    BY <1>4 DEF TakeScript, commandVars
  <2>2. TasksIn(TasksOf(Needed[1].file))
    BY <1>1, TasksOfIs
  <2> QED BY <1>1, <1>3, <2>1, <2>2, GrownByMore
<1>5. CASE AddTask
  <2>1. PICK f : tasks' = tasks \/ tasks' = tasks \o TasksOf(f)
    BY <1>5 DEF AddTask
  <2>2. UNCHANGED <<known, chosen>>
    BY <1>5 DEF AddTask, commandVars
  <2>3. TasksIn(TasksOf(f))
    BY <1>1, TasksOfIs
  <2> QED BY <1>1, <1>2, <1>3, <2>1, <2>2, <2>3, GrownByMore
<1>6. CASE SetArg
  <2>1. PICK o : LET i == FindTask(o.key)
                 IN  \/ tasks' = tasks
                     \/ i # 0 /\ tasks' = [tasks EXCEPT ![i].overrides = With(@, o.arg, o.value)]
    BY <1>6 DEF SetArg
  <2>2. UNCHANGED <<known, chosen>>
    BY <1>6 DEF SetArg, commandVars
  <2>3. ASSUME NEW i \in 1..Len(tasks),
               tasks' = [tasks EXCEPT ![i].overrides = With(@, o.arg, o.value)]
        PROVE  Grown(tasks, tasks')
    <3>1. PICK v : v = With(tasks[i].overrides, o.arg, o.value)
      OBVIOUS
    <3>2. tasks' = [tasks EXCEPT ![i].overrides = v]
      BY <2>3, <3>1
    <3> QED BY <1>1, <3>2, GrownBySet
  <2>4. FindTask(o.key) \in 0..Len(tasks)
    BY <1>1, FindTaskIs
  <2>5. FindTask(o.key) # 0 => FindTask(o.key) \in 1..Len(tasks)
    BY <2>4
  <2> QED BY <1>2, <1>3, <2>1, <2>2, <2>3, <2>5
<1>7. CASE UseTask
  <2>1. UNCHANGED <<known, chosen>>
    BY <1>7 DEF UseTask, commandVars
  <2>2. phase = "modules" /\ using # << >> /\ using[1].what = "task"
    BY <1>7 DEF UseTask, Runs, Ready, Needed
  <2>3. IsSequence(using[1].keys)
    BY <2>2 DEF Control, InModules
  <2>4. PICK f, keys : f = using[1].file /\ keys = using[1].keys
    OBVIOUS
  <2>5. PICK named : named = [i \in 1..Len(keys) |->
                        TasksOf(f)[PlaceOf(TasksOf(f), keys[i])]]
    OBVIOUS
  <2>6. tasks' = tasks \/ (Range(keys) \subseteq KeysIn(TasksOf(f)) /\ tasks' = tasks \o named)
    BY <1>7, <2>4, <2>5 DEF UseTask
  <2>7. ASSUME Range(keys) \subseteq KeysIn(TasksOf(f)) PROVE TasksIn(named)
    <3>1. PICK ts : ts = TasksOf(f) /\ TasksIn(ts)
      BY <1>1, TasksOfIs
    <3>2. named = [i \in 1..Len(keys) |-> ts[PlaceOf(ts, keys[i])]]
      BY <2>5, <3>1
    <3> QED BY <2>3, <2>4, <2>7, <3>1, <3>2, NamedIs
  <2> QED BY <1>1, <1>2, <1>3, <2>1, <2>6, <2>7, GrownByMore
<1> QED BY <1>1, <1>2, <1>4, <1>5, <1>6, <1>7 DEF Owners

\* A feature is the frozen module of its file.
FeaturesSound ==
    /\ IsSequence(features)
    /\ \A i \in 1..Len(features) :
          /\ IsFeature(features[i])
          /\ Loaded(features[i].file) /\ features[i].handle = Module(features[i].file)

LEMMA FeatureIs ==
  ASSUME NEW file, NEW handle, NEW name, NEW args0, NEW overrides
  PROVE  IsFeature([file |-> file, handle |-> handle, name |-> name, args |-> args0,
                    overrides |-> overrides])
BY DEF IsFeature

LEMMA FeaturesStep ==
  ASSUME LoaderInv, Control, FeaturesSound, [Next]_vars
  PROVE  FeaturesSound'
<1>1. Owners /\ IsSequence(features)
  BY OwnersStep DEF FeaturesSound
<1>2. LoadedStays
  <2>1. CASE Evaluate
    BY <2>1, EvaluateKeeps
  <2>2. CASE UNCHANGED cache
    BY <2>2 DEF LoadedStays, Loaded, Module
  <2> QED BY <1>1, <2>1, <2>2 DEF Owners
<1>3. CASE features' = features
  BY <1>2, <1>3 DEF FeaturesSound, LoadedStays
<1>4. CASE UseFeature
  <2>1. PICK f, x : /\ f = using[1].file /\ IsFeature(x) /\ x.file = f /\ x.handle = Module(f)
                    /\ features' = features \/ features' = Append(features, x)
    <3>1. PICK f : f = using[1].file
      OBVIOUS
    <3>2. PICK x : x = [file |-> f, handle |-> Module(f), name |-> program.features[f].name,
                        args |-> FeatureArgs(program.features[f]), overrides |-> << >>]
      OBVIOUS
    <3>3. features' = features \/ features' = Append(features, x)
      BY <1>4, <3>1, <3>2 DEF UseFeature
    <3>4. IsFeature(x) /\ x.file = f /\ x.handle = Module(f)
      BY <3>2, FeatureIs
    <3> QED BY <3>1, <3>3, <3>4
  <2>2. Loaded(f)
    BY <1>4, <2>1 DEF UseFeature, Ready, Runs, Needed
  <2>3. CASE features' = Append(features, x)
    <3>1. /\ IsSequence(features') /\ Len(features') = Len(features) + 1 /\ Len(features) \in Nat
          /\ features'[Len(features) + 1] = x
          /\ \A i \in 1..Len(features) : features'[i] = features[i]
      BY <1>1, <2>3, AppendIs
    <3>2. \A i \in 1..Len(features') : i \in 1..Len(features) \/ i = Len(features) + 1
      BY <3>1
    <3> QED BY <1>2, <2>1, <2>2, <3>1, <3>2 DEF FeaturesSound, LoadedStays
  <2> QED BY <1>3, <2>1, <2>3
<1>5. CASE SetFeature
  <2>1. PICK o : LET i == FindFeature(Handle(Config, o.file))
                 IN  \/ features' = features
                     \/ i # 0 /\ features' = [features EXCEPT ![i].overrides = With(@, o.arg, o.value)]
    BY <1>5 DEF SetFeature
  <2>2. PICK i : i = FindFeature(Handle(Config, o.file)) /\ i \in 0..Len(features)
    BY <1>1, FindFeatureIs
  <2>3. CASE i # 0 /\ features' = [features EXCEPT ![i].overrides = With(@, o.arg, o.value)]
    <3>1. i \in 1..Len(features)
      BY <2>2, <2>3
    <3>2. PICK v : v = With(features[i].overrides, o.arg, o.value)
      OBVIOUS
    <3>3. PICK x : /\ x = [features[i] EXCEPT !.overrides = v]
                   /\ IsFeature(x) /\ x.file = features[i].file /\ x.handle = features[i].handle
      BY <3>1, FeatureSetIs DEF FeaturesSound
    <3>4. features' = [features EXCEPT ![i] = x]
      BY <2>3, <3>2, <3>3
    <3>5. /\ IsSequence(features') /\ Len(features') = Len(features) /\ features'[i] = x
          /\ \A j \in 1..Len(features) : j # i => features'[j] = features[j]
      <4> DEFINE changed == [features EXCEPT ![i] = x]
      <4>1. /\ IsSequence(changed) /\ Len(changed) = Len(features) /\ changed[i] = x
            /\ \A j \in 1..Len(features) : j # i => changed[j] = features[j]
        BY <1>1, <3>1, ChangedIs
      <4> QED BY <3>4, <4>1
    <3>6. \A j \in 1..Len(features') : /\ IsFeature(features'[j])
                                       /\ features'[j].file = features[j].file
                                       /\ features'[j].handle = features[j].handle
      BY <3>3, <3>5 DEF FeaturesSound
    <3> QED BY <1>2, <3>5, <3>6 DEF FeaturesSound, LoadedStays
  <2> QED BY <1>3, <2>1, <2>2, <2>3
<1> QED BY <1>1, <1>3, <1>4, <1>5 DEF Owners

\* The traits of the tasks found before the configs are registered.
KnownTraits == \A i \in 1..known : tasks[i].traits \subseteq DOMAIN traits

LEMMA KnownTraitsStep ==
  ASSUME Control, TasksSound, KnownTraits, [Next]_vars
  PROVE  KnownTraits' /\ DOMAIN traits \subseteq DOMAIN traits'
<1>1. Owners /\ Grown(tasks, tasks')
  BY OwnersStep, TasksStep
<1>2. DOMAIN traits \subseteq DOMAIN traits'
  <2>1. CASE StartConfigs
    BY <2>1 DEF StartConfigs, RegisterAll
  <2>2. CASE TouchTrait
    BY <2>2 DEF TouchTrait, SetAt, With, traitVars
  <2>3. CASE PutTrait
    BY <2>3 DEF PutTrait, SetAt, With
  <2>4. CASE CallHook
    BY <2>4 DEF CallHook, SetAt, With
  <2> QED BY <1>1, <2>1, <2>2, <2>3, <2>4 DEF Owners
<1>3. CASE known' = known
  <2>1. \A i \in 1..known : i \in 1..Len(tasks)
    BY DEF TasksSound
  <2>2. \A i \in 1..known : tasks'[i].traits = tasks[i].traits
    BY <1>1, <2>1 DEF Grown
  <2> QED BY <1>2, <1>3, <2>2 DEF KnownTraits
<1>4. CASE StartConfigs
  <2>1. /\ traits' = RegisterAll(traits, UNION {tasks[i].traits : i \in 1..Len(tasks)})
        /\ known' = Len(tasks) /\ tasks' = tasks
    BY <1>4 DEF StartConfigs
  <2> QED BY <1>2, <2>1 DEF KnownTraits, RegisterAll
<1> QED BY <1>1, <1>2, <1>3, <1>4 DEF Owners

----------------------------------------------------------------------------
(* Traits.                                                                 *)

\* Instances are on the heap, no two types share one, and the one of a type that
\* somebody wrote is as it was last written.
Shared(map, h, ow) ==
    /\ IsSequence(h)
    /\ \A t \in DOMAIN map : map[t] \in 0..Len(h)
    /\ \A t, u \in DOMAIN map : map[t] = map[u] /\ map[t] # 0 => t = u
    /\ \A t \in DOMAIN ow : t \in DOMAIN map /\ map[t] # 0 /\ h[map[t]] = ow[t]

\* map2 is map but for the instance of t.
SetIn(map, map2, t, n) ==
    /\ DOMAIN map2 = DOMAIN map \cup {t} /\ map2[t] = n
    /\ \A k \in DOMAIN map : k # t => map2[k] = map[k]

LEMMA SetAtIs ==
  ASSUME NEW map, NEW t, NEW n
  PROVE  SetIn(map, SetAt(map, t, n), t, n)
BY DEF SetIn, SetAt, With

LEMMA SharedFresh ==
  ASSUME NEW map, NEW h, NEW ow, Shared(map, h, ow), NEW v, NEW t, NEW map2,
         SetIn(map, map2, t, Len(h) + 1)
  PROVE  /\ Shared(map2, Append(h, v), With(ow, t, v))
         /\ t \notin DOMAIN ow => Shared(map2, Append(h, v), ow)
<1> DEFINE h2 == Append(h, v)
           n == Len(h) + 1
<1>1. /\ IsSequence(h2) /\ Len(h2) = n /\ Len(h) \in Nat /\ h2[n] = v
      /\ \A i \in 1..Len(h) : h2[i] = h[i]
  BY AppendIs DEF Shared
<1> HIDE DEF h2
<1>2. /\ DOMAIN map2 = DOMAIN map \cup {t} /\ map2[t] = n
      /\ \A k \in DOMAIN map : k # t => map2[k] = map[k]
  BY DEF SetIn
<1>3. \A k \in DOMAIN map : map[k] \in 0..Len(h) /\ map[k] # n
  <2>1. \A m \in 0..Len(h) : m # n
    BY <1>1
  <2> QED BY <2>1 DEF Shared
<1>4. \A m \in 0..Len(h) : m \in 0..Len(h2) /\ n \in 0..Len(h2)
  BY <1>1
<1>5. \A k \in DOMAIN map2 : map2[k] \in 0..Len(h2)
  BY <1>1, <1>2, <1>3, <1>4
<1>6. \A k, u \in DOMAIN map2 : map2[k] = map2[u] /\ map2[k] # 0 => k = u
  <2> HIDE DEF n
  <2> QED BY <1>2, <1>3 DEF Shared
<1>7. \A k \in DOMAIN ow : k # t => k \in DOMAIN map2 /\ map2[k] # 0 /\ h2[map2[k]] = ow[k]
  <2> TAKE k \in DOMAIN ow
  <2> HAVE k # t
  <2>1. k \in DOMAIN map /\ map[k] # 0 /\ h[map[k]] = ow[k] /\ map[k] \in 0..Len(h)
    BY DEF Shared
  <2>2. map[k] \in 1..Len(h)
    BY <1>1, <2>1
  <2> QED BY <1>1, <1>2, <2>1, <2>2
<1>8. t \in DOMAIN map2 /\ map2[t] # 0 /\ h2[map2[t]] = v
  <2>1. n # 0
    BY <1>1
  <2> QED BY <1>1, <1>2, <2>1
<1>9. /\ DOMAIN With(ow, t, v) = DOMAIN ow \cup {t} /\ With(ow, t, v)[t] = v
      /\ \A k \in DOMAIN ow : k # t => With(ow, t, v)[k] = ow[k]
  BY DEF With
<1>10. Shared(map2, h2, With(ow, t, v))
  BY <1>1, <1>5, <1>6, <1>7, <1>8, <1>9 DEF Shared
<1>11. t \notin DOMAIN ow => Shared(map2, h2, ow)
  BY <1>1, <1>5, <1>6, <1>7 DEF Shared
<1> QED BY <1>10, <1>11 DEF h2

LEMMA SharedWrite ==
  ASSUME NEW map, NEW h, NEW ow, Shared(map, h, ow), NEW v, NEW t \in DOMAIN map, map[t] # 0,
         NEW map2, SetIn(map, map2, t, map[t])
  PROVE  Shared(map2, [h EXCEPT ![map[t]] = v], With(ow, t, v))
<1>1. map[t] \in 0..Len(h) /\ IsSequence(h) /\ Len(h) \in Nat
  BY DEF Shared, IsSequence
<1>2. map[t] \in 1..Len(h)
  BY <1>1
<1>3. PICK n \in 1..Len(h) : n = map[t]
  BY <1>2
<1> DEFINE h2 == [h EXCEPT ![n] = v]
<1>4. /\ IsSequence(h2) /\ Len(h2) = Len(h) /\ h2[n] = v
      /\ \A i \in 1..Len(h) : i # n => h2[i] = h[i]
  BY <1>1, ChangedIs
<1> HIDE DEF h2
<1>5. DOMAIN map2 = DOMAIN map /\ \A k \in DOMAIN map : map2[k] = map[k]
  BY DEF SetIn
<1>6. /\ DOMAIN With(ow, t, v) = DOMAIN ow \cup {t} /\ With(ow, t, v)[t] = v
      /\ \A k \in DOMAIN ow : k # t => With(ow, t, v)[k] = ow[k]
  BY DEF With
<1>7. \A k \in DOMAIN ow : k # t => k \in DOMAIN map2 /\ map2[k] # 0 /\ h2[map2[k]] = ow[k]
  <2> TAKE k \in DOMAIN ow
  <2> HAVE k # t
  <2>1. k \in DOMAIN map /\ map[k] # 0 /\ h[map[k]] = ow[k] /\ map[k] \in 0..Len(h) /\ map[k] # n
    BY <1>3 DEF Shared
  <2>2. map[k] \in 1..Len(h)
    BY <1>1, <2>1
  <2> QED BY <1>4, <1>5, <2>1, <2>2
<1>8. t \in DOMAIN map2 /\ map2[t] # 0 /\ h2[map2[t]] = v
  BY <1>3, <1>4, <1>5
<1>9. Shared(map2, h2, With(ow, t, v))
  BY <1>4, <1>5, <1>6, <1>7, <1>8 DEF Shared
<1> QED BY <1>3, <1>9 DEF h2

LEMMA SharedRead ==
  ASSUME NEW map, NEW h, NEW ow, Shared(map, h, ow), NEW t \in DOMAIN map,
         NEW map2, SetIn(map, map2, t, map[t])
  PROVE  Shared(map2, h, ow)
<1>1. DOMAIN map2 = DOMAIN map /\ \A k \in DOMAIN map : map2[k] = map[k]
  BY DEF SetIn
<1> QED BY <1>1 DEF Shared

\* A heap that has grown holds what it held.
LEMMA SharedGrows ==
  ASSUME NEW map, NEW h, NEW ow, Shared(map, h, ow), NEW v
  PROVE  Shared(map, Append(h, v), ow)
<1> DEFINE h2 == Append(h, v)
<1>1. /\ IsSequence(h2) /\ Len(h2) = Len(h) + 1 /\ Len(h) \in Nat
      /\ \A i \in 1..Len(h) : h2[i] = h[i]
  BY AppendIs DEF Shared
<1> HIDE DEF h2
<1>2. \A m \in 0..Len(h) : m \in 0..Len(h2) /\ (m # 0 => h2[m] = h[m])
  BY <1>1
<1>3. \A t \in DOMAIN map : map[t] \in 0..Len(h2)
  BY <1>2 DEF Shared
<1>4. \A t \in DOMAIN ow : t \in DOMAIN map /\ map[t] # 0 /\ h2[map[t]] = ow[t]
  BY <1>2 DEF Shared
<1> QED BY <1>1, <1>3, <1>4 DEF Shared, h2

LEMMA SharedRegistered ==
  ASSUME NEW map, NEW h, NEW ow, Shared(map, h, ow), NEW types
  PROVE  Shared(RegisterAll(map, types), h, ow)
<1>1. Len(h) \in Nat
  BY DEF Shared, IsSequence
<1>2. 0 \in 0..Len(h)
  BY <1>1
<1> DEFINE map2 == RegisterAll(map, types)
<1>3. DOMAIN map2 = DOMAIN map \cup types
  BY DEF RegisterAll
<1>4. \A t \in DOMAIN map : map2[t] = map[t]
  BY DEF RegisterAll
<1>5. \A t \in DOMAIN map \cup types : t \notin DOMAIN map => map2[t] = 0
  BY DEF RegisterAll, None
<1> HIDE DEF map2
<1>6. Shared(map2, h, ow)
  BY <1>2, <1>3, <1>4, <1>5 DEF Shared
<1> QED BY <1>6 DEF map2

\* What the task holds of the traits, once it has started.
MineSound ==
    phase \in {"task", "deferred"} /\ op # 0 =>
       /\ chosen <= known => Task.traits \subseteq DOMAIN mine
       /\ \A t \in DOMAIN mine : t \in DOMAIN owed => mine[t] = traits[t]

TraitsSound0 ==
    /\ Shared(traits, heap, owed)
    /\ \A t \in DOMAIN mine : mine[t] \in 0..Len(heap)
    /\ phase \in {"features", "exporters", "task", "deferred"} => chosen # 0

\* A heap keeps its length when an instance is written, and grows by one when one is made.
LEMMA HeapGrows ==
  ASSUME TraitsSound0, [Next]_vars
  PROVE  Len(heap) \in Nat /\ Len(heap') \in Nat /\ Len(heap') >= Len(heap)
<1>1. Owners /\ IsSequence(heap) /\ Len(heap) \in Nat
  BY OwnersStep DEF TraitsSound0, Shared, IsSequence
<1>2. ASSUME NEW v, heap' = Append(heap, v) PROVE Len(heap') \in Nat /\ Len(heap') >= Len(heap)
  <2>1. Len(heap') = Len(heap) + 1
    BY <1>1, <1>2, AppendIs
  <2> QED BY <1>1, <2>1
<1>3. ASSUME NEW v, NEW i, heap' = [heap EXCEPT ![i] = v] PROVE Len(heap') \in Nat /\ Len(heap') >= Len(heap)
  <2>2. CASE i \in 1..Len(heap)
    <3>1. Len([heap EXCEPT ![i] = v]) = Len(heap)
      BY <1>1, <2>2, ChangedIs
    <3> QED BY <1>1, <1>3, <3>1
  <2>3. CASE i \notin 1..Len(heap)
    <3>1. heap = [j \in 1..Len(heap) |-> heap[j]]
      BY <1>1 DEF IsSequence
    <3>2. [heap EXCEPT ![i] = v] = heap
      BY <2>3, <3>1
    <3> QED BY <1>1, <1>3, <3>2
  <2> QED BY <2>2, <2>3
<1>4. CASE heap' = heap
  BY <1>1, <1>4
<1>5. CASE TouchTrait
  <2>1. \/ heap' = heap \/ heap' = Append(heap, Stamp)
        \/ \E i : heap' = [heap EXCEPT ![i] = Stamp]
    BY <1>5 DEF TouchTrait, traitVars
  <2> QED BY <1>2, <1>3, <1>4, <2>1
<1>6. CASE PutTrait
  BY <1>2, <1>6 DEF PutTrait
<1>7. CASE CallHook
  BY <1>2, <1>4, <1>7 DEF CallHook
<1>8. CASE ReadTrait
  BY <1>2, <1>4, <1>8 DEF ReadTrait
<1> QED BY <1>1, <1>4, <1>5, <1>6, <1>7, <1>8 DEF Owners

\* Sharing survives every step, whoever reads or writes a trait.
LEMMA SharedStep ==
  ASSUME TraitsSound0, [Next]_vars
  PROVE  /\ Shared(traits', heap', owed')
         /\ phase \in {"task", "deferred"} =>
               /\ owed' = owed
               /\ \A t \in DOMAIN owed : t \in DOMAIN traits /\ traits'[t] = traits[t]
<1> DEFINE n == Len(heap) + 1
<1>1. Owners /\ Shared(traits, heap, owed) /\ Len(heap) \in Nat
  BY OwnersStep DEF TraitsSound0, Shared, IsSequence
<1>2. \A t \in DOMAIN traits : traits[t] # n
  <2>1. \A m \in 0..Len(heap) : m # n
    BY <1>1
  <2> QED BY <1>1, <2>1 DEF Shared
<1> HIDE DEF n
<1>3. CASE UNCHANGED <<traits, heap, owed>>
  BY <1>1, <1>3 DEF Shared
<1>4. CASE StartConfigs
  <2>1. UNCHANGED <<heap, owed>> /\ phase = "modules"
    BY <1>4 DEF StartConfigs, Runs
  <2>2. PICK types : traits' = RegisterAll(traits, types)
    BY <1>4 DEF StartConfigs
  <2>3. Shared(RegisterAll(traits, types), heap, owed)
    BY <1>1, SharedRegistered
  <2> QED BY <2>1, <2>2, <2>3
<1>5. CASE TouchTrait
  <2>1. phase \notin {"task", "deferred"}
    BY <1>5 DEF TouchTrait, InBody
  <2>2. PICK t : \/ UNCHANGED <<traits, heap, owed>>
                 \/ /\ t \in DOMAIN traits /\ traits' = SetAt(traits, t, At(traits, t, n))
                    /\ heap' = IF At(traits, t, n) = n THEN Append(heap, Stamp)
                               ELSE [heap EXCEPT ![At(traits, t, n)] = Stamp]
                    /\ owed' = With(owed, t, Stamp)
    BY <1>5 DEF TouchTrait, traitVars, Holds, n
  <2>3. CASE t \in DOMAIN traits /\ traits[t] = 0 /\ traits' = SetAt(traits, t, At(traits, t, n))
             /\ heap' = (IF At(traits, t, n) = n THEN Append(heap, Stamp)
                         ELSE [heap EXCEPT ![At(traits, t, n)] = Stamp])
             /\ owed' = With(owed, t, Stamp)
    <3>1. At(traits, t, n) = n
      BY <2>3 DEF At, None
    <3>2. traits' = SetAt(traits, t, n) /\ heap' = Append(heap, Stamp)
      BY <2>3, <3>1
    <3>3. SetIn(traits, SetAt(traits, t, n), t, n)
      BY SetAtIs
    <3>4. Shared(SetAt(traits, t, n), Append(heap, Stamp), With(owed, t, Stamp))
      BY <1>1, <3>3, SharedFresh DEF n
    <3> QED BY <2>1, <2>3, <3>2, <3>4
  <2>4. CASE t \in DOMAIN traits /\ traits[t] # 0 /\ traits' = SetAt(traits, t, At(traits, t, n))
             /\ heap' = (IF At(traits, t, n) = n THEN Append(heap, Stamp)
                         ELSE [heap EXCEPT ![At(traits, t, n)] = Stamp])
             /\ owed' = With(owed, t, Stamp)
    <3>1. At(traits, t, n) = traits[t] /\ traits[t] # n
      BY <1>2, <2>4 DEF At, None
    <3>2. traits' = SetAt(traits, t, traits[t]) /\ heap' = [heap EXCEPT ![traits[t]] = Stamp]
      BY <2>4, <3>1
    <3>3. SetIn(traits, SetAt(traits, t, traits[t]), t, traits[t])
      BY SetAtIs
    <3>4. Shared(SetAt(traits, t, traits[t]), [heap EXCEPT ![traits[t]] = Stamp], With(owed, t, Stamp))
      BY <1>1, <2>4, <3>3, SharedWrite
    <3> QED BY <2>1, <2>4, <3>2, <3>4
  <2> QED BY <1>3, <2>2, <2>3, <2>4
<1>6. CASE PutTrait
  <2>1. phase \notin {"task", "deferred"}
    BY <1>6 DEF PutTrait, InBody
  <2>2. PICK t : /\ traits' = SetAt(traits, t, n) /\ owed' = With(owed, t, Stamp)
                 /\ heap' = Append(heap, Stamp)
    BY <1>6 DEF PutTrait, n
  <2>3. SetIn(traits, SetAt(traits, t, n), t, n)
    BY SetAtIs
  <2>4. Shared(SetAt(traits, t, n), Append(heap, Stamp), With(owed, t, Stamp))
    BY <1>1, <2>3, SharedFresh DEF n
  <2> QED BY <2>1, <2>2, <2>4
<1>7. CASE CallHook
  <2>1. owed' = owed
    BY <1>7 DEF CallHook
  <2>2. PICK t \in DOMAIN traits :
           /\ traits' = SetAt(traits, t, At(traits, t, n))
           /\ heap' = IF At(traits, t, n) = n THEN Append(heap, Stamp) ELSE heap
    BY <1>7 DEF CallHook, n
  <2>3. CASE traits[t] = 0
    <3>1. At(traits, t, n) = n /\ t \notin DOMAIN owed
      BY <1>1, <2>3 DEF At, None, Shared
    <3>2. traits' = SetAt(traits, t, n) /\ heap' = Append(heap, Stamp)
      BY <2>2, <3>1
    <3>3. SetIn(traits, SetAt(traits, t, n), t, n)
      BY SetAtIs
    <3>4. Shared(SetAt(traits, t, n), Append(heap, Stamp), owed)
      BY <1>1, <3>1, <3>3, SharedFresh DEF n
    <3>5. \A k \in DOMAIN owed : k \in DOMAIN traits /\ traits'[k] = traits[k]
      BY <1>1, <3>1, <3>2, <3>3 DEF Shared, SetIn
    <3> QED BY <2>1, <3>2, <3>4, <3>5
  <2>4. CASE traits[t] # 0
    <3>1. At(traits, t, n) = traits[t] /\ traits[t] # n
      BY <1>2, <2>4 DEF At, None
    <3>2. traits' = SetAt(traits, t, traits[t]) /\ heap' = heap
      BY <2>2, <3>1
    <3>3. SetIn(traits, SetAt(traits, t, traits[t]), t, traits[t])
      BY SetAtIs
    <3>4. Shared(SetAt(traits, t, traits[t]), heap, owed)
      BY <1>1, <3>3, SharedRead
    <3>5. \A k \in DOMAIN owed : k \in DOMAIN traits /\ traits'[k] = traits[k]
      BY <1>1, <3>2, <3>3 DEF Shared, SetIn
    <3> QED BY <2>1, <3>2, <3>4, <3>5
  <2> QED BY <2>3, <2>4
<1>8. CASE ReadTrait
  <2>1. UNCHANGED <<traits, owed>>
    BY <1>8 DEF ReadTrait
  <2>2. heap' = heap \/ heap' = Append(heap, Stamp)
    BY <1>8 DEF ReadTrait
  <2>3. Shared(traits, Append(heap, Stamp), owed)
    BY <1>1, SharedGrows
  <2> QED BY <1>1, <2>1, <2>2, <2>3 DEF Shared
<1> QED BY <1>1, <1>3, <1>4, <1>5, <1>6, <1>7, <1>8 DEF Owners


LEMMA TraitsStep0 ==
  ASSUME LoaderInv, Control, TraitsSound0, [Next]_vars
  PROVE  TraitsSound0'
<1>1. Owners /\ Onward /\ Shared(traits, heap, owed)
  BY OwnersStep, OnwardStep DEF TraitsSound0
<1>2. Shared(traits, heap, owed)'
  BY SharedStep
<1>3. \A t \in DOMAIN mine' : mine'[t] \in 0..Len(heap')
  <2>1. Len(heap) \in Nat /\ Len(heap') \in Nat /\ Len(heap') >= Len(heap)
    BY HeapGrows
  <2>2. \A i \in 0..Len(heap) : i \in 0..Len(heap')
    BY <2>1
  <2>3. \A t \in DOMAIN mine : mine[t] \in 0..Len(heap')
    BY <2>2 DEF TraitsSound0
  <2>4. CASE mine' = mine
    BY <2>3, <2>4
  <2>5. CASE StartTask
    <3>1. mine' = Scoped(traits, Task.traits)
      BY <2>5 DEF StartTask
    <3>2. \A t \in DOMAIN mine' : t \in DOMAIN traits /\ mine'[t] = traits[t]
      BY <3>1 DEF Scoped
    <3> QED BY <1>1, <2>2, <3>2 DEF Shared
  <2>6. CASE ReadTrait
    <3>1. PICK t, n : /\ t \in DOMAIN mine /\ n = Len(heap) + 1
                      /\ mine' = SetAt(mine, t, At(mine, t, n))
                      /\ heap' = IF At(mine, t, n) = n THEN Append(heap, Stamp) ELSE heap
      BY <2>6 DEF ReadTrait, Holds
    <3>2. At(mine, t, n) = mine[t] \/ At(mine, t, n) = n
      BY DEF At
    <3>3. n \in 0..Len(heap') \/ At(mine, t, n) # n
      <4>1. CASE At(mine, t, n) = n
        <5>1. heap' = Append(heap, Stamp)
          BY <3>1, <4>1
        <5>2. Len(heap') = Len(heap) + 1
          BY <1>1, <5>1, AppendIs DEF Shared
        <5> QED BY <2>1, <3>1, <5>2
      <4> QED BY <4>1
    <3>4. SetIn(mine, SetAt(mine, t, At(mine, t, n)), t, At(mine, t, n))
      BY SetAtIs
    <3>5. /\ DOMAIN mine' = DOMAIN mine /\ mine'[t] = At(mine, t, n)
          /\ \A k \in DOMAIN mine : k # t => mine'[k] = mine[k]
      BY <3>1, <3>4 DEF SetIn
    <3> QED BY <2>3, <3>1, <3>2, <3>3, <3>5
  <2> QED BY <1>1, <2>4, <2>5, <2>6 DEF Owners
<1>4. ASSUME phase' \in {"features", "exporters", "task", "deferred"} PROVE chosen' # 0
  <2>1. CASE Dispatch
    BY <1>4, <2>1 DEF Dispatch, Runs
  <2>2. CASE ~Dispatch
    <3>1. phase \in {"features", "exporters", "task", "deferred"}
      <4>1. InstallExporters => phase = "features"
        BY DEF InstallExporters, InstallsExporters, Runs
      <4>2. EndTask => phase = "task"
        BY EndTaskIs
      <4> QED BY <1>1, <1>4, <2>2, <4>1, <4>2 DEF Onward
    <3> QED BY <1>1, <2>2, <3>1 DEF Owners, TraitsSound0
  <2> QED BY <2>1, <2>2
<1> QED BY <1>2, <1>3, <1>4 DEF TraitsSound0

\* A task that has started holds what it declares, and shares what was written.
LEMMA MineStep ==
  ASSUME LoaderInv, Control, TasksSound, KnownTraits, TraitsSound0, MineSound, [Next]_vars
  PROVE  MineSound'
<1>1. Owners /\ Onward /\ Grown(tasks, tasks')
  BY OwnersStep, OnwardStep, TasksStep
<1> SUFFICES ASSUME phase' \in {"task", "deferred"}, op' # 0
             PROVE  /\ chosen' <= known' => Task.traits' \subseteq DOMAIN mine'
                    /\ \A t \in DOMAIN mine' : t \in DOMAIN owed' => mine'[t] = traits'[t]
  BY DEF MineSound
<1>2. CASE StartTask
  <2>0. mine' = Scoped(traits, Task.traits) /\ phase = "task"
    BY <1>2 DEF StartTask, Runs
  <2>9. UNCHANGED <<discoveryVars, traitVars, chosen>>
    BY <1>2 DEF StartTask
  <2>1. /\ mine' = Scoped(traits, Task.traits) /\ phase = "task"
        /\ tasks' = tasks /\ known' = known /\ chosen' = chosen
        /\ traits' = traits /\ owed' = owed
    BY <2>0, <2>9 DEF discoveryVars, traitVars
  <2>2. DOMAIN mine' = Task.traits \cap DOMAIN traits /\ \A t \in DOMAIN mine' : mine'[t] = traits[t]
    BY <2>1 DEF Scoped
  <2>3. chosen \in 0..Len(tasks) /\ chosen # 0 /\ known \in 0..Len(tasks)
    BY <2>1 DEF TasksSound, TraitsSound0
  <2>4. chosen <= known => chosen \in 1..known
    BY <2>3
  <2>5. chosen <= known => Task.traits \subseteq DOMAIN traits
    BY <2>4 DEF KnownTraits, Task
  <2>6. Task' = Task
    BY <2>1 DEF Task
  <2> QED BY <2>1, <2>2, <2>5, <2>6
<1>3. CASE ~StartTask
  <2>1. phase \in {"task", "deferred"} /\ op # 0
    <3>1. EndTask => phase = "task" /\ op >= 1 /\ op # 0
      <4>1. EndTask => phase = "task" /\ op >= 1
        BY EndTaskIs
      <4>2. op >= 1 => op # 0
        OBVIOUS
      <4> QED BY <4>1, <4>2
    <3> QED BY <1>1, <1>3, <3>1 DEF Onward
  <2>2. chosen' = chosen /\ known' = known
    <3>1. ~Dispatch /\ ~StartConfigs
      BY <2>1 DEF Dispatch, StartConfigs, Runs
    <3> QED BY <1>1, <3>1 DEF Owners
  <2>3. owed' = owed /\ \A t \in DOMAIN owed : t \in DOMAIN traits /\ traits'[t] = traits[t]
    BY <2>1, SharedStep
  <2>4. Task.traits' = Task.traits
    <3>1. chosen \in 0..Len(tasks) /\ chosen # 0
      BY <2>1 DEF TasksSound, TraitsSound0
    <3>2. chosen \in 1..Len(tasks)
      BY <3>1
    <3>3. tasks'[chosen].traits = tasks[chosen].traits
      BY <1>1, <3>2 DEF Grown
    <3> QED BY <2>2, <3>3 DEF Task
  <2>5. /\ chosen <= known => Task.traits \subseteq DOMAIN mine
        /\ \A t \in DOMAIN mine : t \in DOMAIN owed => mine[t] = traits[t]
    BY <2>1 DEF MineSound
  <2>6. CASE mine' = mine
    BY <2>2, <2>3, <2>4, <2>5, <2>6
  <2>7. CASE ReadTrait
    <3>1. PICK t, n : t \in DOMAIN mine /\ mine' = SetAt(mine, t, At(mine, t, n))
      BY <2>7 DEF ReadTrait, Holds
    <3>2. SetIn(mine, SetAt(mine, t, At(mine, t, n)), t, At(mine, t, n))
      BY SetAtIs
    <3>3. /\ DOMAIN mine' = DOMAIN mine /\ mine'[t] = At(mine, t, n)
          /\ \A k \in DOMAIN mine : k # t => mine'[k] = mine[k]
      BY <3>1, <3>2 DEF SetIn
    <3>4. t \in DOMAIN owed => mine'[t] = mine[t]
      <4>1. t \in DOMAIN owed => mine[t] # 0
        BY <2>5, <3>1 DEF TraitsSound0, Shared
      <4> QED BY <3>3, <4>1 DEF At, None
    <3>5. \A k \in DOMAIN mine' : k \in DOMAIN owed => mine'[k] = mine[k]
      BY <3>3, <3>4
    <3> QED BY <2>2, <2>3, <2>4, <2>5, <3>3, <3>5
  <2> QED BY <1>1, <1>3, <2>6, <2>7 DEF Owners
<1> QED BY <1>2, <1>3

----------------------------------------------------------------------------
(* What a config is told is missing.                                       *)

\* What a file imports is the frozen module of the file it comes from.
LEMMA HandleIs ==
  ASSUME GotSound, NEW f, NEW g, Imports(f, g)
  PROVE  Handle(f, g) = Module(g) /\ Loaded(g)
<1>1. PICK e \in DOMAIN got : e = <<f, g>> /\ e[2] = g
  BY DEF Imports
<1>2. Loaded(e[2]) /\ got[e] = Module(e[2])
  BY DEF GotSound, OneModulePerFile
<1> QED BY <1>1, <1>2 DEF Handle

\* After a failure that is not the loader's the run does nothing but end.
LEMMA Halted ==
  ASSUME LoaderInv, Control, failure \notin LoaderErrors \cup {""}, [Next]_vars
  PROVE  UNCHANGED <<failure, blamed, cache, tasks, known, features>>
<1>0. failure # "" /\ frames = << >>
  BY DEF LoaderInv, FailureSound
<1>1. CASE Evaluate
  <2>1. ~LoaderStep
    BY <1>0 DEF LoaderStep, Load, Freeze, Break, Unwind
  <2>2. ~EvalFile(Needed[1].file, Needed[1].scope)
    BY <1>0 DEF EvalFile, Idle
  <2> QED BY <1>1, <2>1, <2>2 DEF Evaluate
<1>2. CASE TakeScript
  BY <1>0, <1>2 DEF TakeScript, Runs
<1>3. CASE ScriptsDone
  BY <1>0, <1>3 DEF ScriptsDone, Runs
<1>4. CASE Pick
  BY <1>0, <1>4 DEF Pick, Runs
<1>5. CASE UseTask
  BY <1>0, <1>5 DEF UseTask, Runs
<1>6. CASE UseFeature
  BY <1>0, <1>6 DEF UseFeature, Runs
<1>7. CASE ModuleDone
  BY <1>0, <1>7 DEF ModuleDone, Runs
<1>8. CASE StartConfigs
  BY <1>0, <1>8 DEF StartConfigs, Runs
<1>9. CASE CallConfig
  BY <1>0, <1>9 DEF CallConfig, Runs
<1>10. CASE SetArg
  BY <1>0, <1>10 DEF SetArg, InConfig, Runs
<1>11. CASE SetFeature
  BY <1>0, <1>11 DEF SetFeature, InConfig, Runs
<1>12. CASE AddTask
  BY <1>0, <1>12 DEF AddTask, InConfig, Runs
<1>13. CASE ConfigDone
  BY <1>0, <1>13 DEF ConfigDone, Runs
<1>14. CASE TouchTrait
  BY <1>0, <1>14 DEF TouchTrait, InBody
<1>15. CASE PutTrait
  BY <1>0, <1>15 DEF PutTrait, InBody
<1>16. CASE AddExporter
  BY <1>0, <1>16 DEF AddExporter, InBody, InTask, Runs
<1>17. CASE Emit
  BY <1>0, <1>17 DEF Emit, InBody, InTask, Runs
<1>18. CASE FailBody
  BY <1>0, <1>18 DEF FailBody, InBody
<1>19. CASE BuildCommands
  BY <1>0, <1>19 DEF BuildCommands, Runs
<1>20. CASE Dispatch
  BY <1>0, <1>20 DEF Dispatch, Runs
<1>21. CASE CallFeature
  BY <1>0, <1>21 DEF CallFeature, Runs
<1>22. CASE FeatureDone
  BY <1>0, <1>22 DEF FeatureDone, Runs
<1>23. CASE InstallExporters
  BY <1>0, <1>23 DEF InstallExporters, InstallsExporters, Runs
<1>24. CASE InstallLate
  BY <1>0, <1>24 DEF InstallLate, Runs
<1>25. CASE InstallMetrics
  BY <1>0, <1>25 DEF InstallMetrics, Runs
<1>26. CASE BatchThread
  BY <1>26 DEF BatchThread, loaderVars, discoveryVars
<1>27. CASE StartTask
  BY <1>0, <1>27 DEF StartTask, Runs
<1>28. CASE ReadTrait
  BY <1>0, <1>28 DEF ReadTrait, InTask, Runs
<1>29. CASE CallHook
  BY <1>0, <1>29 DEF CallHook, InTask, Runs
<1>30. CASE Defer
  BY <1>0, <1>30 DEF Defer, InTask, Runs
<1>31. CASE EnterPhase
  BY <1>0, <1>31 DEF EnterPhase, InTask, Runs
<1>32. CASE EndTask
  BY <1>0, <1>32, EndTaskIs
<1>33. CASE RunDeferred
  BY <1>0, <1>33 DEF RunDeferred, Runs
<1>34. CASE Conclude
  BY <1>0, <1>34 DEF Conclude, Runs
<1>35. CASE Abort
  BY <1>35 DEF Abort, loaderVars, discoveryVars
<1>36. CASE Exited
  BY <1>36 DEF Exited, vars, loaderVars, discoveryVars
<1>37. CASE UNCHANGED vars
  BY <1>37 DEF vars, loaderVars, discoveryVars
<1> QED BY <1>1, <1>2, <1>3, <1>4, <1>5, <1>6, <1>7, <1>8, <1>9, <1>10, <1>11, <1>12,
      <1>13, <1>14, <1>15, <1>16, <1>17, <1>18, <1>19, <1>20, <1>21, <1>22, <1>23, <1>24,
      <1>25, <1>26, <1>27, <1>28, <1>29, <1>30, <1>31, <1>32, <1>33, <1>34, <1>35, <1>36,
      <1>37 DEF Next


\* Only an access to a feature or to a trait reports one as missing.
Accuses == failure' \in {"no feature", "no trait"} => failure' = failure \/ SetFeature \/ TouchTrait

LEMMA AccusesStep ==
  ASSUME [Next]_vars
  PROVE  Accuses
<1>1. CASE Evaluate
  <2>1. failure' = failure \/ failure' \notin {"no feature", "no trait"}
    BY <1>1 DEF Evaluate, EvalFile, LoaderStep, Load, Freeze, Break, Unwind
  <2> QED BY <2>1 DEF Accuses
<1>2. CASE TakeScript
  <2>1. failure' = failure
    BY <1>2 DEF TakeScript, Succeeds
  <2> QED BY <2>1 DEF Accuses
<1>3. CASE ScriptsDone
  <2>1. failure' = failure
    BY <1>3 DEF ScriptsDone, Succeeds
  <2> QED BY <2>1 DEF Accuses
<1>4. CASE Pick
  <2>1. failure' = failure
    BY <1>4 DEF Pick, Succeeds
  <2> QED BY <2>1 DEF Accuses
<1>5. CASE UseTask
  <2>1. failure' = failure \/ failure' \notin {"no feature", "no trait"}
    BY <1>5 DEF UseTask, Succeeds, Fails
  <2> QED BY <2>1 DEF Accuses
<1>6. CASE UseFeature
  <2>1. failure' = failure \/ failure' \notin {"no feature", "no trait"}
    BY <1>6 DEF UseFeature, Succeeds, Fails
  <2> QED BY <2>1 DEF Accuses
<1>7. CASE ModuleDone
  <2>1. failure' = failure
    BY <1>7 DEF ModuleDone, Succeeds
  <2> QED BY <2>1 DEF Accuses
<1>8. CASE StartConfigs
  <2>1. failure' = failure
    BY <1>8 DEF StartConfigs, Succeeds
  <2> QED BY <2>1 DEF Accuses
<1>9. CASE CallConfig
  <2>1. failure' = failure
    BY <1>9 DEF CallConfig, Succeeds
  <2> QED BY <2>1 DEF Accuses
<1>10. CASE SetArg
  <2>1. failure' = failure \/ failure' \notin {"no feature", "no trait"}
    BY <1>10 DEF SetArg, Succeeds, Fails
  <2> QED BY <2>1 DEF Accuses
<1>11. CASE SetFeature
  BY <1>11 DEF Accuses
<1>12. CASE AddTask
  <2>1. failure' = failure \/ failure' \notin {"no feature", "no trait"}
    BY <1>12 DEF AddTask, Succeeds, Fails
  <2> QED BY <2>1 DEF Accuses
<1>13. CASE ConfigDone
  <2>1. failure' = failure
    BY <1>13 DEF ConfigDone, Succeeds
  <2> QED BY <2>1 DEF Accuses
<1>14. CASE TouchTrait
  BY <1>14 DEF Accuses
<1>15. CASE PutTrait
  <2>1. failure' = failure
    BY <1>15 DEF PutTrait, Succeeds
  <2> QED BY <2>1 DEF Accuses
<1>16. CASE AddExporter
  <2>1. failure' = failure \/ failure' \notin {"no feature", "no trait"}
    BY <1>16 DEF AddExporter, Succeeds, Fails
  <2> QED BY <2>1 DEF Accuses
<1>17. CASE Emit
  <2>1. failure' = failure
    BY <1>17 DEF Emit, Succeeds
  <2> QED BY <2>1 DEF Accuses
<1>18. CASE FailBody
  <2>1. failure' = failure \/ failure' \notin {"no feature", "no trait"}
    BY <1>18 DEF FailBody, Succeeds, Fails
  <2> QED BY <2>1 DEF Accuses
<1>19. CASE BuildCommands
  <2>1. failure' = failure \/ failure' \notin {"no feature", "no trait"}
    BY <1>19 DEF BuildCommands, Succeeds, Fails
  <2> QED BY <2>1 DEF Accuses
<1>20. CASE Dispatch
  <2>1. failure' = failure \/ failure' \notin {"no feature", "no trait"}
    BY <1>20 DEF Dispatch, Succeeds, Fails
  <2> QED BY <2>1 DEF Accuses
<1>21. CASE CallFeature
  <2>1. failure' = failure
    BY <1>21 DEF CallFeature, Succeeds
  <2> QED BY <2>1 DEF Accuses
<1>22. CASE FeatureDone
  <2>1. failure' = failure
    BY <1>22 DEF FeatureDone, Succeeds
  <2> QED BY <2>1 DEF Accuses
<1>23. CASE InstallExporters
  <2>1. failure' = failure \/ failure' \notin {"no feature", "no trait"}
    BY <1>23 DEF InstallExporters, InstallsExporters, Succeeds, Fails
  <2> QED BY <2>1 DEF Accuses
<1>24. CASE InstallLate
  <2>1. failure' = failure
    BY <1>24 DEF InstallLate, Succeeds
  <2> QED BY <2>1 DEF Accuses
<1>25. CASE InstallMetrics
  <2>1. failure' = failure \/ failure' \notin {"no feature", "no trait"}
    BY <1>25 DEF InstallMetrics, Succeeds, Fails
  <2> QED BY <2>1 DEF Accuses
<1>26. CASE BatchThread
  <2>1. failure' = failure
    BY <1>26 DEF BatchThread, loaderVars
  <2> QED BY <2>1 DEF Accuses
<1>27. CASE StartTask
  <2>1. failure' = failure
    BY <1>27 DEF StartTask, Succeeds
  <2> QED BY <2>1 DEF Accuses
<1>28. CASE ReadTrait
  <2>1. failure' = failure
    BY <1>28 DEF ReadTrait, Succeeds
  <2> QED BY <2>1 DEF Accuses
<1>29. CASE CallHook
  <2>1. failure' = failure
    BY <1>29 DEF CallHook, Succeeds
  <2> QED BY <2>1 DEF Accuses
<1>30. CASE Defer
  <2>1. failure' = failure
    BY <1>30 DEF Defer, Succeeds
  <2> QED BY <2>1 DEF Accuses
<1>31. CASE EnterPhase
  <2>1. failure' = failure
    BY <1>31 DEF EnterPhase, Succeeds
  <2> QED BY <2>1 DEF Accuses
<1>32. CASE EndTask
  <2>1. failure' = failure
    BY <1>32, EndTaskIs
  <2> QED BY <2>1 DEF Accuses
<1>33. CASE RunDeferred
  <2>1. failure' = failure
    BY <1>33 DEF RunDeferred, Succeeds
  <2> QED BY <2>1 DEF Accuses
<1>34. CASE Conclude
  <2>1. failure' = failure
    BY <1>34 DEF Conclude, Succeeds
  <2> QED BY <2>1 DEF Accuses
<1>35. CASE Abort
  <2>1. failure' = failure
    BY <1>35 DEF Abort, loaderVars
  <2> QED BY <2>1 DEF Accuses
<1>36. CASE Exited
  <2>1. failure' = failure
    BY <1>36 DEF Exited, vars, loaderVars
  <2> QED BY <2>1 DEF Accuses
<1>37. CASE UNCHANGED vars
  <2>1. failure' = failure
    BY <1>37 DEF vars, loaderVars
  <2> QED BY <2>1 DEF Accuses
<1> QED BY <1>1, <1>2, <1>3, <1>4, <1>5, <1>6, <1>7, <1>8, <1>9, <1>10, <1>11, <1>12,
      <1>13, <1>14, <1>15, <1>16, <1>17, <1>18, <1>19, <1>20, <1>21, <1>22, <1>23, <1>24,
      <1>25, <1>26, <1>27, <1>28, <1>29, <1>30, <1>31, <1>32, <1>33, <1>34, <1>35, <1>36,
      <1>37 DEF Next


LEMMA MissingStep ==
  ASSUME LoaderInv, Control, TasksSound, FeaturesSound, KnownTraits, MissingMeansUndeclared, [Next]_vars
  PROVE  MissingMeansUndeclared'
<1>1. Owners /\ Accuses /\ GotSound
  BY OwnersStep, AccusesStep DEF LoaderInv
<1>2. CASE failure \in {"no feature", "no trait"}
  <2>1. failure \notin LoaderErrors \cup {""}
    BY <1>2 DEF LoaderErrors
  <2>2. UNCHANGED <<failure, blamed, cache, tasks, known, features>>
    BY <2>1, Halted
  <2> QED BY <2>2 DEF MissingMeansUndeclared, Module
<1>3. CASE failure \notin {"no feature", "no trait"}
  <2>1. CASE failure' \notin {"no feature", "no trait"}
    BY <2>1 DEF MissingMeansUndeclared
  <2>2. CASE failure' \in {"no feature", "no trait"} /\ SetFeature
    <3>1. PICK o : /\ Imports(Config, o.file)
                   /\ \/ Succeeds
                      \/ /\ failure' \in {"no feature", "no arg"}
                         /\ failure' = "no feature" => FindFeature(Handle(Config, o.file)) = 0
                         /\ blamed' = [trace |-> << >>, target |-> o.file] /\ features' = features
      BY <2>2 DEF SetFeature, Fails
    <3>2. /\ failure' = "no feature" /\ FindFeature(Handle(Config, o.file)) = 0
          /\ blamed'.target = o.file /\ features' = features
      <4>1. failure' # failure
        BY <1>3, <2>2
      <4>2. ~Succeeds
        BY <4>1 DEF Succeeds
      <4>3. [trace |-> << >>, target |-> o.file].target = o.file
        OBVIOUS
      <4>4. /\ failure' \in {"no feature", "no arg"}
            /\ failure' = "no feature" => FindFeature(Handle(Config, o.file)) = 0
            /\ blamed' = [trace |-> << >>, target |-> o.file] /\ features' = features
        BY <3>1, <4>2
      <4>5. failure' = "no feature"
        BY <2>2, <4>4
      <4> QED BY <4>3, <4>4, <4>5
    <3>3. Handle(Config, o.file) = Module(o.file)
      BY <1>1, <3>1, HandleIs
    <3>4. \A i \in 1..Len(features) : features[i].handle # Module(o.file)
      BY <3>2, <3>3, FindFeatureIs DEF FeaturesSound
    <3>5. \A i \in 1..Len(features) : features[i].file # o.file
      BY <3>4 DEF FeaturesSound
    <3> QED BY <3>2, <3>5 DEF MissingMeansUndeclared
  <2>3. CASE failure' \in {"no feature", "no trait"} /\ TouchTrait
    <3>1. PICK o : /\ Imports(Caller, o.file)
                   /\ \/ Succeeds
                      \/ /\ failure' = "no trait" /\ Handle(Caller, o.file) \notin DOMAIN traits
                         /\ blamed' = [trace |-> << >>, target |-> o.file]
      BY <2>3 DEF TouchTrait, Fails, Holds
    <3>2. /\ failure' = "no trait" /\ Handle(Caller, o.file) \notin DOMAIN traits
          /\ blamed'.target = o.file
      <4>1. failure' # failure
        BY <1>3, <2>3
      <4>2. ~Succeeds
        BY <4>1 DEF Succeeds
      <4>3. [trace |-> << >>, target |-> o.file].target = o.file
        OBVIOUS
      <4> QED BY <3>1, <4>2, <4>3
    <3>3. Handle(Caller, o.file) = Module(o.file)
      BY <1>1, <3>1, HandleIs
    <3>4. UNCHANGED <<cache, tasks, known>>
      BY <2>3 DEF TouchTrait, KeepsLoader, discoveryVars
    <3>5. \A i \in 1..known : Module(o.file) \notin tasks[i].traits
      BY <3>2, <3>3 DEF KnownTraits
    <3> QED BY <3>2, <3>4, <3>5 DEF MissingMeansUndeclared, Module
  <2> QED BY <1>1, <1>3, <2>1, <2>2, <2>3 DEF Accuses
<1> QED BY <1>2, <1>3


----------------------------------------------------------------------------
(* The invariant so far, and what it says of loading.                      *)

\* Only the loader changes what has failed while a file is being loaded.
AtRest == Evaluate \/ frames = << >> \/ failure' = failure

LEMMA AtRestStep ==
  ASSUME [Next]_vars
  PROVE  AtRest
<1>1. CASE Evaluate
  BY <1>1 DEF AtRest
<1>2. CASE TakeScript
  <2>1. frames = << >>
    BY <1>2 DEF TakeScript, Runs
  <2> QED BY <2>1 DEF AtRest
<1>3. CASE ScriptsDone
  <2>1. frames = << >>
    BY <1>3 DEF ScriptsDone, Runs
  <2> QED BY <2>1 DEF AtRest
<1>4. CASE Pick
  <2>1. frames = << >>
    BY <1>4 DEF Pick, Runs
  <2> QED BY <2>1 DEF AtRest
<1>5. CASE UseTask
  <2>1. frames = << >>
    BY <1>5 DEF UseTask, Runs
  <2> QED BY <2>1 DEF AtRest
<1>6. CASE UseFeature
  <2>1. frames = << >>
    BY <1>6 DEF UseFeature, Runs
  <2> QED BY <2>1 DEF AtRest
<1>7. CASE ModuleDone
  <2>1. frames = << >>
    BY <1>7 DEF ModuleDone, Runs
  <2> QED BY <2>1 DEF AtRest
<1>8. CASE StartConfigs
  <2>1. frames = << >>
    BY <1>8 DEF StartConfigs, Runs
  <2> QED BY <2>1 DEF AtRest
<1>9. CASE CallConfig
  <2>1. frames = << >>
    BY <1>9 DEF CallConfig, Runs
  <2> QED BY <2>1 DEF AtRest
<1>10. CASE SetArg
  <2>1. frames = << >>
    BY <1>10 DEF SetArg, InConfig, Runs
  <2> QED BY <2>1 DEF AtRest
<1>11. CASE SetFeature
  <2>1. frames = << >>
    BY <1>11 DEF SetFeature, InConfig, Runs
  <2> QED BY <2>1 DEF AtRest
<1>12. CASE AddTask
  <2>1. frames = << >>
    BY <1>12 DEF AddTask, InConfig, Runs
  <2> QED BY <2>1 DEF AtRest
<1>13. CASE ConfigDone
  <2>1. frames = << >>
    BY <1>13 DEF ConfigDone, Runs
  <2> QED BY <2>1 DEF AtRest
<1>14. CASE TouchTrait
  <2>1. frames = << >>
    BY <1>14 DEF TouchTrait, InBody
  <2> QED BY <2>1 DEF AtRest
<1>15. CASE PutTrait
  <2>1. frames = << >>
    BY <1>15 DEF PutTrait, InBody
  <2> QED BY <2>1 DEF AtRest
<1>16. CASE AddExporter
  <2>1. frames = << >>
    BY <1>16 DEF AddExporter, InBody, InTask, Runs
  <2> QED BY <2>1 DEF AtRest
<1>17. CASE Emit
  <2>1. frames = << >>
    BY <1>17 DEF Emit, InBody, InTask, Runs
  <2> QED BY <2>1 DEF AtRest
<1>18. CASE FailBody
  <2>1. frames = << >>
    BY <1>18 DEF FailBody, InBody
  <2> QED BY <2>1 DEF AtRest
<1>19. CASE BuildCommands
  <2>1. frames = << >>
    BY <1>19 DEF BuildCommands, Runs
  <2> QED BY <2>1 DEF AtRest
<1>20. CASE Dispatch
  <2>1. frames = << >>
    BY <1>20 DEF Dispatch, Runs
  <2> QED BY <2>1 DEF AtRest
<1>21. CASE CallFeature
  <2>1. frames = << >>
    BY <1>21 DEF CallFeature, Runs
  <2> QED BY <2>1 DEF AtRest
<1>22. CASE FeatureDone
  <2>1. frames = << >>
    BY <1>22 DEF FeatureDone, Runs
  <2> QED BY <2>1 DEF AtRest
<1>23. CASE InstallExporters
  <2>1. frames = << >>
    BY <1>23 DEF InstallExporters, InstallsExporters, Runs
  <2> QED BY <2>1 DEF AtRest
<1>24. CASE InstallLate
  <2>1. frames = << >>
    BY <1>24 DEF InstallLate, Runs
  <2> QED BY <2>1 DEF AtRest
<1>25. CASE InstallMetrics
  <2>1. frames = << >>
    BY <1>25 DEF InstallMetrics, Runs
  <2> QED BY <2>1 DEF AtRest
<1>26. CASE BatchThread
  <2>1. failure' = failure
    BY <1>26 DEF BatchThread, loaderVars
  <2> QED BY <2>1 DEF AtRest
<1>27. CASE StartTask
  <2>1. frames = << >>
    BY <1>27 DEF StartTask, Runs
  <2> QED BY <2>1 DEF AtRest
<1>28. CASE ReadTrait
  <2>1. frames = << >>
    BY <1>28 DEF ReadTrait, InTask, Runs
  <2> QED BY <2>1 DEF AtRest
<1>29. CASE CallHook
  <2>1. frames = << >>
    BY <1>29 DEF CallHook, InTask, Runs
  <2> QED BY <2>1 DEF AtRest
<1>30. CASE Defer
  <2>1. frames = << >>
    BY <1>30 DEF Defer, InTask, Runs
  <2> QED BY <2>1 DEF AtRest
<1>31. CASE EnterPhase
  <2>1. frames = << >>
    BY <1>31 DEF EnterPhase, InTask, Runs
  <2> QED BY <2>1 DEF AtRest
<1>32. CASE EndTask
  <2>1. frames = << >>
    BY <1>32 DEF EndTask, Runs
  <2> QED BY <2>1 DEF AtRest
<1>33. CASE RunDeferred
  <2>1. frames = << >>
    BY <1>33 DEF RunDeferred, Runs
  <2> QED BY <2>1 DEF AtRest
<1>34. CASE Conclude
  <2>1. frames = << >>
    BY <1>34 DEF Conclude, Runs
  <2> QED BY <2>1 DEF AtRest
<1>35. CASE Abort
  <2>1. frames = << >>
    BY <1>35 DEF Abort
  <2> QED BY <2>1 DEF AtRest
<1>36. CASE Exited
  <2>1. failure' = failure
    BY <1>36 DEF Exited, vars, loaderVars
  <2> QED BY <2>1 DEF AtRest
<1>37. CASE UNCHANGED vars
  <2>1. failure' = failure
    BY <1>37 DEF vars, loaderVars
  <2> QED BY <2>1 DEF AtRest
<1> QED BY <1>1, <1>2, <1>3, <1>4, <1>5, <1>6, <1>7, <1>8, <1>9, <1>10, <1>11, <1>12,
      <1>13, <1>14, <1>15, <1>16, <1>17, <1>18, <1>19, <1>20, <1>21, <1>22, <1>23, <1>24,
      <1>25, <1>26, <1>27, <1>28, <1>29, <1>30, <1>31, <1>32, <1>33, <1>34, <1>35, <1>36,
      <1>37 DEF Next


\* Whoever steps, the loader's invariant holds, and what is loaded stays as it is.
LEMMA LoaderStepIs ==
  ASSUME LoaderInv, Control, [Next]_vars
  PROVE  LoaderInv'
<1>1. Owners /\ AtRest
  BY OwnersStep, AtRestStep
<1>2. CASE Evaluate
  BY <1>2, EvaluateKeeps
<1>3. CASE ~Evaluate
  <2>1. cache' = cache /\ frames' = frames /\ scopes' = scopes /\ made' = made /\ got' = got
    BY <1>1, <1>3 DEF Owners
  <2>2. frames = << >> \/ failure' = failure
    BY <1>1, <1>3 DEF AtRest
  <2>3. FailureSound'
    BY <2>1, <2>2 DEF LoaderInv, FailureSound
  <2>4. StackSound'
    BY <2>1 DEF LoaderInv, StackSound, Loading
  <2>5. Aligned'
    BY <2>1 DEF LoaderInv, Aligned
  <2>6. CacheSound'
    BY <2>1 DEF LoaderInv, CacheSound, Loaded, Module
  <2>7. GotSound'
    BY <2>1 DEF LoaderInv, GotSound, OneModulePerFile, Loaded, Module
  <2> QED BY <2>3, <2>4, <2>5, <2>6, <2>7 DEF LoaderInv
<1> QED BY <1>2, <1>3

LEMMA LoaderStarts == Init => LoaderInv
<1> SUFFICES ASSUME Init PROVE LoaderInv
  OBVIOUS
<1>1. cache = << >> /\ frames = << >> /\ scopes = << >> /\ made = 0 /\ got = << >>
  BY DEF Init, LoaderInit
<1>2. DOMAIN cache = {} /\ DOMAIN got = {}
  BY <1>1
<1>3. Len(frames) = 0 /\ Len(scopes) = 0
  BY <1>1
<1>4. StackSound
  <2>1. frames \in Seq(Frame({})) /\ scopes \in Seq({})
    BY <1>1
  <2>2. \A i : i \notin 1..Len(frames)
    BY <1>3
  <2> QED BY <2>1, <2>2 DEF StackSound
<1>5. Aligned
  <2> DEFINE d == [i \in 0..0 |-> 0]
  <2>1. \A i : i \notin 1..Len(frames)
    BY <1>3
  <2>2. 0..0 = {0} /\ d \in [0..0 -> 0..0] /\ d[0] = 0
    OBVIOUS
  <2>3. \A i, j \in 0..0 : i <= j => d[i] <= d[j]
    BY <2>2
  <2>4. d \in [0..Len(frames) -> 0..Len(scopes)] /\ d[Len(frames)] = Len(scopes)
    BY <1>3, <2>2
  <2>5. \A i, j \in 0..Len(frames) : i <= j => d[i] <= d[j]
    BY <1>3, <2>3
  <2> HIDE DEF d
  <2>6. Depths(d, frames, scopes)
    BY <2>1, <2>2, <2>4, <2>5 DEF Depths
  <2> QED BY <2>6 DEF Aligned
<1>6. CacheSound
  <2>1. made \in Nat
    BY <1>1
  <2> QED BY <1>2, <2>1 DEF CacheSound
<1>7. GotSound
  BY <1>2 DEF GotSound, OneModulePerFile
<1>8. FailureSound
  BY <1>1 DEF FailureSound
<1> QED BY <1>4, <1>5, <1>6, <1>7, <1>8 DEF LoaderInv

\* Who found what, and who wrote what: the inductive invariant of discovery and of
\* the traits.
FoundInv ==
    /\ LoaderInv /\ Control
    /\ TasksSound /\ FeaturesSound /\ KnownTraits
    /\ TraitsSound0 /\ MineSound /\ MissingMeansUndeclared

LEMMA FoundStarts == Init => FoundInv
<1> SUFFICES ASSUME Init PROVE FoundInv
  OBVIOUS
<1>1. LoaderInv /\ Control
  BY LoaderStarts, ControlInit
<1>2. Len(<< >>) = 0 /\ IsSequence(<< >>) /\ \A i : i \notin 1..Len(<< >>)
  BY EmptyIsSequence
<1>3. tasks = << >> /\ features = << >> /\ known = 0 /\ chosen = 0
  BY DEF Init
<1>4. DOMAIN traits = {} /\ DOMAIN owed = {} /\ DOMAIN mine = {} /\ heap = << >>
  BY DEF Init
<1>5. phase = "scripts" /\ failure = ""
  BY DEF Init, LoaderInit
<1>6. TasksSound
  <2>1. 0 \in 0..0
    OBVIOUS
  <2> QED BY <1>2, <1>3, <2>1 DEF TasksSound, TasksIn
<1>7. FeaturesSound
  BY <1>2, <1>3 DEF FeaturesSound
<1>8. KnownTraits
  <2>1. \A i : i \notin 1..known
    BY <1>3
  <2> QED BY <2>1 DEF KnownTraits
<1>9. TraitsSound0
  BY <1>2, <1>4, <1>5 DEF TraitsSound0, Shared
<1>10. MineSound
  BY <1>5 DEF MineSound
<1>11. MissingMeansUndeclared
  BY <1>5 DEF MissingMeansUndeclared
<1> QED BY <1>1, <1>6, <1>7, <1>8, <1>9, <1>10, <1>11 DEF FoundInv

LEMMA FoundStep == FoundInv /\ [Next]_vars => FoundInv'
<1> SUFFICES ASSUME FoundInv, [Next]_vars PROVE FoundInv'
  OBVIOUS
<1>0. /\ LoaderInv /\ Control
      /\ TasksSound /\ FeaturesSound /\ KnownTraits
      /\ TraitsSound0 /\ MineSound /\ MissingMeansUndeclared
  BY DEF FoundInv
<1>1. LoaderInv' /\ Control'
  BY <1>0, LoaderStepIs, ControlStep
<1>2. TasksSound' /\ FeaturesSound' /\ KnownTraits'
  BY <1>0, TasksStep, FeaturesStep, KnownTraitsStep
<1>3. TraitsSound0' /\ MineSound'
  BY <1>0, TraitsStep0, MineStep
<1>4. MissingMeansUndeclared'
  BY <1>0, MissingStep
<1> QED BY <1>1, <1>2, <1>3, <1>4 DEF FoundInv

LEMMA FoundSays == FoundInv => LoadsAreSound
<1> SUFFICES ASSUME FoundInv PROVE LoadsAreSound
  OBVIOUS
<1>0. /\ StackSound /\ Aligned /\ CacheSound /\ GotSound /\ Where /\ Counted
      /\ TasksSound /\ TraitsSound0 /\ MissingMeansUndeclared
  BY DEF FoundInv, LoaderInv, Control
<1>1. ScopeIsHome /\ OneModulePerFile
  BY <1>0, AlignedIsHome DEF GotSound
<1>2. TypeOK
  <2>1. \A i \in 1..Len(frames) : frames[i].scoped \in BOOLEAN
    <3>1. PICK X : frames \in Seq(Frame(X))
      BY <1>0 DEF StackSound
    <3>2. \A i \in 1..Len(frames) : frames[i] \in Frame(X)
      BY <3>1
    <3> QED BY <3>2 DEF Frame
  <2>2. /\ \A f \in DOMAIN cache : cache[f].state \in {"Loading", "Loaded"}
        /\ made \in Nat /\ \A e \in DOMAIN got : got[e] \in 1..made
    BY <1>0 DEF CacheSound, GotSound
  <2>3. /\ phase \in {"scripts", "modules", "configs", "commands", "features", "exporters",
                      "task", "deferred"} \cup Final
        /\ implFailed \in BOOLEAN
    BY <1>0 DEF Where, Earlier, Reading
  <2>4. /\ at \in Nat /\ op \in Nat /\ now \in Nat
        /\ chosen \in 0..Len(tasks) /\ known \in 0..Len(tasks)
    BY <1>0 DEF Counted, TasksSound
  <2>5. /\ \A t \in DOMAIN traits : traits[t] \in 0..Len(heap)
        /\ \A t \in DOMAIN mine : mine[t] \in 0..Len(heap)
    BY <1>0 DEF TraitsSound0, Shared
  <2> QED BY <2>1, <2>2, <2>3, <2>4, <2>5 DEF TypeOK
<1> QED BY <1>0, <1>1, <1>2 DEF LoadsAreSound

\* In every run of every program a file is evaluated once, under the scope of its own
\* module, everybody who loads it gets the one module it became, and a config is told
\* that a feature or a trait is missing only where no module declares it.
THEOREM LoadsSound == Spec => []LoadsAreSound
<1>1. Init => FoundInv
  BY FoundStarts
<1>2. FoundInv /\ [Next]_vars => FoundInv'
  BY FoundStep
<1> QED BY <1>1, <1>2, FoundSays, PTL DEF Spec


----------------------------------------------------------------------------
(* What is registered for export.                                          *)

\* What configs and features registered is what is waiting, and then what is
\* installed; nothing is left of it for the task.
ExportSound ==
    /\ phase \in Earlier \ {"exporters"} => exported = exporters
    /\ phase \in {"exporters", "task", "deferred"} => installed = exported
    /\ phase = "exporters" \/ (phase = "task" /\ op = 0) => exporters = << >>
    /\ phase = "deferred" => op # 0

LEMMA AddExporterIs ==
  ASSUME AddExporter, exported = exporters \/ phase = "task"
  PROVE  /\ phase \in {"configs", "features", "task"} /\ phase' = phase /\ installed' = installed
         /\ phase = "task" => op # 0 /\ exported' = exported
         /\ phase # "task" => exported' = exporters'
<1>1. PICK o : /\ InBody(o) \/ InTask(o)
               /\ \/ UNCHANGED exporterVars
                  \/ /\ exporters' = Append(exporters, SpecOf(o.call))
                     /\ exported' = IF phase = "task" THEN exported ELSE Append(exported, SpecOf(o.call))
               /\ phase' = phase /\ installed' = installed
  BY DEF AddExporter
<1>2. phase \in {"configs", "features", "task"}
  BY <1>1 DEF InBody, InTask, Runs
<1>3. phase = "task" => op # 0
  BY <1>1, InTaskIs DEF InBody
<1>4. UNCHANGED exporterVars => exporters' = exporters /\ exported' = exported
  BY DEF exporterVars, specVars
<1> QED BY <1>1, <1>2, <1>3, <1>4

LEMMA InstallExportersIs ==
  ASSUME InstallExporters
  PROVE  /\ phase = "features" /\ phase' \in {"task", "exporters"} /\ op' = 0
         /\ installed' = exporters /\ exporters' = << >> /\ exported' = exported
BY DEF InstallExporters, InstallsExporters, Runs

LEMMA ExportStep ==
  ASSUME LoaderInv, Control, ExportSound, [Next]_vars
  PROVE  ExportSound'
<1>1. Owners /\ Onward
  BY OwnersStep, OnwardStep
<1>2. CASE InstallExporters
  <2>1. /\ phase = "features" /\ phase' \in {"task", "exporters"} /\ op' = 0
        /\ installed' = exporters /\ exporters' = << >> /\ exported' = exported
    BY <1>2, InstallExportersIs
  <2>2. exported = exporters
    BY <2>1 DEF ExportSound, Earlier
  <2> QED BY <2>1, <2>2 DEF ExportSound, Earlier, Reading
<1>3. CASE AddExporter
  <2>1. exported = exporters \/ phase = "task"
    <3>1. phase \in {"configs", "features", "task"}
      BY <1>3 DEF AddExporter, InBody, InTask, Runs
    <3> QED BY <3>1 DEF ExportSound, Earlier, Reading
  <2>2. /\ phase \in {"configs", "features", "task"} /\ phase' = phase /\ installed' = installed
        /\ phase = "task" => op # 0 /\ exported' = exported
        /\ phase # "task" => exported' = exporters'
    BY <1>3, <2>1, AddExporterIs
  <2>3. phase = "task" => op' # 0
    <3>1. op \in Nat
      BY DEF Control, Counted
    <3>2. op' = op + 1
      BY <1>3 DEF AddExporter
    <3> QED BY <3>1, <3>2
  <2> QED BY <2>2, <2>3 DEF ExportSound, Earlier, Reading
<1>4. CASE ~InstallExporters /\ ~AddExporter
  <2>1. exporters' = exporters /\ installed' = installed /\ exported' = exported
    BY <1>1, <1>4 DEF Owners
  <2>2. ASSUME phase' \in Earlier \ {"exporters"} PROVE exported' = exporters'
    BY <1>1, <2>1, <2>2 DEF Onward, ExportSound
  <2>3. ASSUME phase' \in {"exporters", "task", "deferred"} PROVE installed' = exported'
    <3>1. EndTask => phase = "task"
      BY EndTaskIs
    <3>2. phase \in {"exporters", "task", "deferred"}
      BY <1>1, <1>4, <2>3, <3>1 DEF Onward
    <3> QED BY <2>1, <3>2 DEF ExportSound
  <2>4. ASSUME phase' = "exporters" \/ (phase' = "task" /\ op' = 0) PROVE exporters' = << >>
    <3>1. CASE phase' = "exporters"
      BY <1>1, <1>4, <2>1, <3>1 DEF Onward, ExportSound
    <3>2. CASE phase' = "task" /\ phase = "exporters"
      BY <2>1, <3>2 DEF ExportSound
    <3>3. CASE phase' = "task" /\ op' = 0 /\ phase = "task"
      <4>1. op \in Nat
        BY DEF Control, Counted
      <4>2. op' = op \/ op' = op + 1 \/ op' = 1
        BY <1>1, <3>3 DEF Onward
      <4>3. op' = 0
        BY <3>3
      <4>4. op = 0
        BY <4>1, <4>2, <4>3
      <4> QED BY <2>1, <3>3, <4>4 DEF ExportSound
    <3> QED BY <1>1, <1>4, <2>4, <3>1, <3>2, <3>3 DEF Onward
  <2>5. ASSUME phase' = "deferred" PROVE op' # 0
    <3>1. EndTask => op >= 1 /\ op' = op
      BY EndTaskIs
    <3>2. op >= 1 => op # 0
      OBVIOUS
    <3> QED BY <1>1, <2>5, <3>1, <3>2 DEF Onward, ExportSound
  <2> QED BY <2>2, <2>3, <2>4, <2>5 DEF ExportSound
<1> QED BY <1>2, <1>3, <1>4

----------------------------------------------------------------------------
(* What is deferred.                                                       *)

Ids(p) == [i \in 1..Len(p) |-> p[i].id]

LEMMA ReverseIs ==
  ASSUME NEW s, IsSequence(s)
  PROVE  /\ IsSequence(Reverse(s)) /\ Len(Reverse(s)) = Len(s) /\ Len(s) \in Nat
         /\ \A i \in 1..Len(s) : Len(s) - i + 1 \in 1..Len(s) /\ Reverse(s)[i] = s[Len(s) - i + 1]
<1>1. Len(s) \in Nat
  BY DEF IsSequence
<1>2. PICK n \in Nat : n = Len(s)
  BY <1>1
<1>3. Reverse(s) = [i \in 1..n |-> s[(n - i) + 1]]
  BY <1>2 DEF Reverse
<1>4. IsSequence([i \in 1..n |-> s[(n - i) + 1]]) /\ Len([i \in 1..n |-> s[(n - i) + 1]]) = n
  <2> DEFINE r == [i \in 1..n |-> s[(n - i) + 1]]
  <2>1. r = [i \in 1..n |-> r[i]]
    OBVIOUS
  <2> HIDE DEF r
  <2>2. IsSequence(r) /\ Len(r) = n
    BY <2>1, ListIs
  <2> QED BY <2>2 DEF r
<1>5. \A i \in 1..n : n - i + 1 \in 1..n
  OBVIOUS
<1>6. \A i \in 1..n : Reverse(s)[i] = s[n - i + 1]
  BY <1>3
<1> QED BY <1>2, <1>3, <1>4, <1>5, <1>6

LEMMA IdsIs ==
  ASSUME NEW s, IsSequence(s)
  PROVE  /\ IsSequence(Ids(s)) /\ Len(Ids(s)) = Len(s) /\ Len(s) \in Nat
         /\ \A i \in 1..Len(s) : Ids(s)[i] = s[i].id
<1>1. Len(s) \in Nat
  BY DEF IsSequence
<1>2. Ids(s) = [i \in 1..Len(s) |-> Ids(s)[i]] /\ \A i \in 1..Len(s) : Ids(s)[i] = s[i].id
  BY DEF Ids
<1>3. IsSequence(Ids(s)) /\ Len(Ids(s)) = Len(s)
  BY <1>1, <1>2, ListIs
<1> QED BY <1>1, <1>2, <1>3

LEMMA ReversedIds ==
  ASSUME NEW s, IsSequence(s)
  PROVE  Ids(Reverse(s)) = Reverse(Ids(s))
<1>1. /\ IsSequence(Reverse(s)) /\ Len(Reverse(s)) = Len(s) /\ Len(s) \in Nat
      /\ \A i \in 1..Len(s) : Len(s) - i + 1 \in 1..Len(s) /\ Reverse(s)[i] = s[Len(s) - i + 1]
  BY ReverseIs
<1>2. /\ IsSequence(Ids(s)) /\ Len(Ids(s)) = Len(s)
      /\ \A i \in 1..Len(s) : Ids(s)[i] = s[i].id
  BY IdsIs
<1>3. /\ IsSequence(Ids(Reverse(s))) /\ Len(Ids(Reverse(s))) = Len(Reverse(s))
      /\ \A i \in 1..Len(Reverse(s)) : Ids(Reverse(s))[i] = Reverse(s)[i].id
  BY <1>1, IdsIs
<1>4. /\ IsSequence(Reverse(Ids(s))) /\ Len(Reverse(Ids(s))) = Len(Ids(s))
      /\ \A i \in 1..Len(Ids(s)) : Reverse(Ids(s))[i] = Ids(s)[Len(Ids(s)) - i + 1]
  BY <1>2, ReverseIs
<1>5. \A i \in 1..Len(s) : Ids(Reverse(s))[i] = Reverse(Ids(s))[i]
  <2> TAKE i \in 1..Len(s)
  <2>1. PICK k \in 1..Len(s) : k = Len(s) - i + 1 /\ Reverse(s)[i] = s[k]
    BY <1>1
  <2>2. Ids(Reverse(s))[i] = s[k].id
    BY <1>1, <1>3, <2>1
  <2>3. Reverse(Ids(s))[i] = Ids(s)[k]
    BY <1>2, <1>4, <2>1
  <2> QED BY <1>2, <2>1, <2>2, <2>3
<1>6. Len(Ids(Reverse(s))) = Len(s) /\ Len(Reverse(Ids(s))) = Len(s)
  BY <1>1, <1>2, <1>3, <1>4
<1> QED BY <1>3, <1>4, <1>5, <1>6, SameSequence

LEMMA AppendedIds ==
  ASSUME NEW s, IsSequence(s), NEW x
  PROVE  Ids(Append(s, x)) = Append(Ids(s), x.id)
<1>1. /\ IsSequence(Append(s, x)) /\ Len(Append(s, x)) = Len(s) + 1 /\ Len(s) \in Nat
      /\ Append(s, x)[Len(s) + 1] = x
      /\ \A i \in 1..Len(s) : Append(s, x)[i] = s[i]
  BY AppendIs
<1>2. /\ IsSequence(Ids(s)) /\ Len(Ids(s)) = Len(s)
      /\ \A i \in 1..Len(s) : Ids(s)[i] = s[i].id
  BY IdsIs
<1>3. /\ IsSequence(Ids(Append(s, x))) /\ Len(Ids(Append(s, x))) = Len(Append(s, x))
      /\ \A i \in 1..Len(Append(s, x)) : Ids(Append(s, x))[i] = Append(s, x)[i].id
  BY <1>1, IdsIs
<1>4. /\ IsSequence(Append(Ids(s), x.id)) /\ Len(Append(Ids(s), x.id)) = Len(Ids(s)) + 1
      /\ Append(Ids(s), x.id)[Len(Ids(s)) + 1] = x.id
      /\ \A i \in 1..Len(Ids(s)) : Append(Ids(s), x.id)[i] = Ids(s)[i]
  BY <1>2, AppendIs
<1>5. PICK n \in Nat : n = Len(s)
  BY <1>1
<1>6. \A i \in 1..n + 1 : i \in 1..n \/ i = n + 1
  OBVIOUS
<1>7. n + 1 \in 1..n + 1 /\ \A i \in 1..n : i \in 1..n + 1
  OBVIOUS
<1>8. \A i \in 1..n + 1 : Ids(Append(s, x))[i] = Append(Ids(s), x.id)[i]
  <2> TAKE i \in 1..n + 1
  <2>1. CASE i = n + 1
    BY <1>1, <1>2, <1>3, <1>4, <1>5, <2>1
  <2>2. CASE i \in 1..n
    BY <1>1, <1>2, <1>3, <1>4, <1>5, <2>2
  <2> QED BY <1>6, <2>1, <2>2
<1>9. Len(Ids(Append(s, x))) = n + 1 /\ Len(Append(Ids(s), x.id)) = n + 1
  BY <1>1, <1>2, <1>3, <1>4, <1>5
<1> QED BY <1>3, <1>4, <1>8, <1>9, SameSequence

LEMMA JoinedAt ==
  ASSUME NEW s, NEW t, IsSequence(s), IsSequence(t)
  PROVE  \A j \in 1..Len(t) : (s \o t)[Len(s) + j] = t[j]
<1>1. PICK X : s \in Seq(X) /\ t \in Seq(X)
  BY TwoSequences
<1> QED BY <1>1

\* The one that is run moves from what is left to what has run.
LEMMA MovedIds ==
  ASSUME NEW r, NEW p, IsSequence(r), IsSequence(p), p # << >>
  PROVE  Append(r, Head(p).id) \o Ids(Tail(p)) = r \o Ids(p)
<1>1. PICK h : h = Head(p).id
  OBVIOUS
<1>2. /\ IsSequence(Tail(p)) /\ Len(Tail(p)) = Len(p) - 1 /\ Len(p) \in Nat \ {0}
      /\ Head(p) = p[1]
      /\ \A i \in 1..Len(p) - 1 : Tail(p)[i] = p[i + 1]
  BY TailIs
<1>3. /\ IsSequence(Append(r, h)) /\ Len(Append(r, h)) = Len(r) + 1 /\ Len(r) \in Nat
      /\ Append(r, h)[Len(r) + 1] = h
      /\ \A i \in 1..Len(r) : Append(r, h)[i] = r[i]
  BY AppendIs
<1>4. /\ IsSequence(Ids(p)) /\ Len(Ids(p)) = Len(p)
      /\ \A i \in 1..Len(p) : Ids(p)[i] = p[i].id
  BY IdsIs
<1>5. /\ IsSequence(Ids(Tail(p))) /\ Len(Ids(Tail(p))) = Len(Tail(p))
      /\ \A i \in 1..Len(Tail(p)) : Ids(Tail(p))[i] = Tail(p)[i].id
  BY <1>2, IdsIs
<1>6. PICK n \in Nat, m \in Nat : n = Len(r) /\ m = Len(p) - 1 /\ Len(p) = m + 1
  <2>1. PICK k \in Nat \ {0} : k = Len(p)
    BY <1>2
  <2>2. k - 1 \in Nat /\ k = (k - 1) + 1
    OBVIOUS
  <2> QED BY <1>3, <2>1, <2>2
<1>7. /\ IsSequence(r \o Ids(p)) /\ Len(r \o Ids(p)) = n + (m + 1)
      /\ \A i \in 1..n : (r \o Ids(p))[i] = r[i]
      /\ \A j \in 1..m + 1 : (r \o Ids(p))[n + j] = p[j].id
  <2>1. /\ IsSequence(r \o Ids(p)) /\ Len(r \o Ids(p)) = Len(r) + Len(Ids(p))
        /\ \A i \in 1..Len(r) : (r \o Ids(p))[i] = r[i]
    BY <1>4, JoinIs
  <2>2. \A j \in 1..Len(Ids(p)) : (r \o Ids(p))[Len(r) + j] = Ids(p)[j]
    BY <1>4, JoinedAt
  <2> QED BY <1>4, <1>6, <2>1, <2>2
<1>8. /\ IsSequence(Append(r, h) \o Ids(Tail(p))) /\ Len(Append(r, h) \o Ids(Tail(p))) = (n + 1) + m
      /\ \A i \in 1..n : (Append(r, h) \o Ids(Tail(p)))[i] = r[i]
      /\ (Append(r, h) \o Ids(Tail(p)))[n + 1] = h
      /\ \A j \in 1..m : (Append(r, h) \o Ids(Tail(p)))[(n + 1) + j] = p[j + 1].id
  <2>1. /\ IsSequence(Append(r, h) \o Ids(Tail(p)))
        /\ Len(Append(r, h) \o Ids(Tail(p))) = Len(Append(r, h)) + Len(Ids(Tail(p)))
        /\ \A i \in 1..Len(Append(r, h)) : (Append(r, h) \o Ids(Tail(p)))[i] = Append(r, h)[i]
    BY <1>3, <1>5, JoinIs
  <2>2. \A j \in 1..Len(Ids(Tail(p))) :
           (Append(r, h) \o Ids(Tail(p)))[Len(Append(r, h)) + j] = Ids(Tail(p))[j]
    BY <1>3, <1>5, JoinedAt
  <2>3. n + 1 \in 1..n + 1 /\ \A i \in 1..n : i \in 1..n + 1
    OBVIOUS
  <2>4. Len(Append(r, h)) = n + 1 /\ Len(Ids(Tail(p))) = m /\ Len(Tail(p)) = m
    BY <1>2, <1>3, <1>5, <1>6
  <2>5. \A j \in 1..m : Ids(Tail(p))[j] = p[j + 1].id
    BY <1>2, <1>5, <1>6, <2>4
  <2> QED BY <1>3, <1>6, <2>1, <2>2, <2>3, <2>4, <2>5
<1>9. h = p[1].id
  BY <1>1, <1>2
<1>10. \A i \in 1..n + (m + 1) : i \in 1..n \/ i = n + 1 \/ \E j \in 1..m : i = (n + 1) + j
  <2> TAKE i \in 1..n + (m + 1)
  <2>1. i \notin 1..n /\ i # n + 1 => i - (n + 1) \in 1..m /\ i = (n + 1) + (i - (n + 1))
    OBVIOUS
  <2> QED BY <2>1
<1>11. \A j \in 1..m : j + 1 \in 1..m + 1 /\ n + (j + 1) = (n + 1) + j
  OBVIOUS
<1>12. 1 \in 1..m + 1 /\ n + (m + 1) = (n + 1) + m
  OBVIOUS
<1>13. \A i \in 1..n + (m + 1) : (Append(r, h) \o Ids(Tail(p)))[i] = (r \o Ids(p))[i]
  <2> TAKE i \in 1..n + (m + 1)
  <2>1. CASE i \in 1..n
    BY <1>7, <1>8, <2>1
  <2>2. CASE i = n + 1
    BY <1>7, <1>8, <1>9, <1>12, <2>2
  <2>3. CASE \E j \in 1..m : i = (n + 1) + j
    <3>1. PICK j \in 1..m : i = (n + 1) + j
      BY <2>3
    <3>2. (r \o Ids(p))[n + (j + 1)] = p[j + 1].id
      BY <1>7, <1>11
    <3>3. (Append(r, h) \o Ids(Tail(p)))[(n + 1) + j] = p[j + 1].id
      BY <1>8
    <3> QED BY <1>11, <3>1, <3>2, <3>3
  <2> QED BY <1>10, <2>1, <2>2, <2>3
<1>14. Append(r, h) \o Ids(Tail(p)) = r \o Ids(p)
  BY <1>7, <1>8, <1>12, <1>13, SameSequence
<1> QED BY <1>1, <1>14

LEMMA EmptyJoins ==
  ASSUME NEW s, IsSequence(s)
  PROVE  << >> \o s = s /\ s \o << >> = s
<1>1. PICK X : s \in Seq(X)
  BY IsSequenceOf
<1> QED BY <1>1

\* What was registered is still due, or has run, last first; what the task itself
\* registers fails nothing.
DefersSound ==
    /\ IsSequence(defers) /\ IsSequence(pending)
    /\ IsSequence(registered) /\ IsSequence(ranDefers)
    /\ phase \in Earlier =>
          defers = << >> /\ pending = << >> /\ registered = << >> /\ ranDefers = << >>
    /\ phase = "task" =>
          Ids(defers) = registered /\ pending = << >> /\ ranDefers = << >>
    /\ phase = "deferred" => ranDefers \o Ids(pending) = Reverse(registered)
    /\ phase \in Final /\ registered # << >> => ranDefers = Reverse(registered)
    /\ phase \in {"task", "deferred"} => failure = ""

LEMMA DefersSay == DefersSound => DefersRun
<1> SUFFICES ASSUME DefersSound PROVE DefersRun
  OBVIOUS
<1>1. Ids(pending) = [i \in 1..Len(pending) |-> pending[i].id]
  BY DEF Ids
<1> QED BY <1>1 DEF DefersSound, DefersRun

\* A run that is over changes nothing.
LEMMA Over ==
  ASSUME LoaderInv, Control, phase \in Final, [Next]_vars
  PROVE  UNCHANGED <<phase, failure, info, now, implFailed, chosen, registered, ranDefers, defers, pending>>
<1>1. CASE Evaluate
  <2>1. phase \in Reading
    BY <1>1, EvaluateKeeps
  <2> QED BY <2>1 DEF Reading, Final
<1>2. CASE TakeScript
  <2>1. phase \notin Final
    BY <1>2 DEF TakeScript, Runs, Final
  <2> QED BY <2>1
<1>3. CASE ScriptsDone
  <2>1. phase \notin Final
    BY <1>3 DEF ScriptsDone, Runs, Final
  <2> QED BY <2>1
<1>4. CASE Pick
  <2>1. phase \notin Final
    BY <1>4 DEF Pick, Runs, Final
  <2> QED BY <2>1
<1>5. CASE UseTask
  <2>1. phase \notin Final
    BY <1>5 DEF UseTask, Runs, Final
  <2> QED BY <2>1
<1>6. CASE UseFeature
  <2>1. phase \notin Final
    BY <1>6 DEF UseFeature, Runs, Final
  <2> QED BY <2>1
<1>7. CASE ModuleDone
  <2>1. phase \notin Final
    BY <1>7 DEF ModuleDone, Runs, Final
  <2> QED BY <2>1
<1>8. CASE StartConfigs
  <2>1. phase \notin Final
    BY <1>8 DEF StartConfigs, Runs, Final
  <2> QED BY <2>1
<1>9. CASE CallConfig
  <2>1. phase \notin Final
    BY <1>9 DEF CallConfig, Runs, Final
  <2> QED BY <2>1
<1>10. CASE SetArg
  <2>1. phase \notin Final
    BY <1>10 DEF SetArg, InConfig, Runs, Final
  <2> QED BY <2>1
<1>11. CASE SetFeature
  <2>1. phase \notin Final
    BY <1>11 DEF SetFeature, InConfig, Runs, Final
  <2> QED BY <2>1
<1>12. CASE AddTask
  <2>1. phase \notin Final
    BY <1>12 DEF AddTask, InConfig, Runs, Final
  <2> QED BY <2>1
<1>13. CASE ConfigDone
  <2>1. phase \notin Final
    BY <1>13 DEF ConfigDone, Runs, Final
  <2> QED BY <2>1
<1>14. CASE TouchTrait
  <2>1. phase \notin Final
    BY <1>14 DEF TouchTrait, InBody, Final
  <2> QED BY <2>1
<1>15. CASE PutTrait
  <2>1. phase \notin Final
    BY <1>15 DEF PutTrait, InBody, Final
  <2> QED BY <2>1
<1>16. CASE AddExporter
  <2>1. phase \notin Final
    BY <1>16 DEF AddExporter, InBody, InTask, Runs, Final
  <2> QED BY <2>1
<1>17. CASE Emit
  <2>1. phase \notin Final
    BY <1>17 DEF Emit, InBody, InTask, Runs, Final
  <2> QED BY <2>1
<1>18. CASE FailBody
  <2>1. phase \notin Final
    BY <1>18 DEF FailBody, InBody, Final
  <2> QED BY <2>1
<1>19. CASE BuildCommands
  <2>1. phase \notin Final
    BY <1>19 DEF BuildCommands, Runs, Final
  <2> QED BY <2>1
<1>20. CASE Dispatch
  <2>1. phase \notin Final
    BY <1>20 DEF Dispatch, Runs, Final
  <2> QED BY <2>1
<1>21. CASE CallFeature
  <2>1. phase \notin Final
    BY <1>21 DEF CallFeature, Runs, Final
  <2> QED BY <2>1
<1>22. CASE FeatureDone
  <2>1. phase \notin Final
    BY <1>22 DEF FeatureDone, Runs, Final
  <2> QED BY <2>1
<1>23. CASE InstallExporters
  <2>1. phase \notin Final
    BY <1>23 DEF InstallExporters, InstallsExporters, Runs, Final
  <2> QED BY <2>1
<1>24. CASE InstallLate
  <2>1. phase \notin Final
    BY <1>24 DEF InstallLate, Runs, Final
  <2> QED BY <2>1
<1>25. CASE InstallMetrics
  <2>1. phase \notin Final
    BY <1>25 DEF InstallMetrics, Runs, Final
  <2> QED BY <2>1
<1>26. CASE BatchThread
  <2>1. phase \notin Final
    BY <1>26 DEF BatchThread, Final
  <2> QED BY <2>1
<1>27. CASE StartTask
  <2>1. phase \notin Final
    BY <1>27 DEF StartTask, Runs, Final
  <2> QED BY <2>1
<1>28. CASE ReadTrait
  <2>1. phase \notin Final
    BY <1>28 DEF ReadTrait, InTask, Runs, Final
  <2> QED BY <2>1
<1>29. CASE CallHook
  <2>1. phase \notin Final
    BY <1>29 DEF CallHook, InTask, Runs, Final
  <2> QED BY <2>1
<1>30. CASE Defer
  <2>1. phase \notin Final
    BY <1>30 DEF Defer, InTask, Runs, Final
  <2> QED BY <2>1
<1>31. CASE EnterPhase
  <2>1. phase \notin Final
    BY <1>31 DEF EnterPhase, InTask, Runs, Final
  <2> QED BY <2>1
<1>32. CASE EndTask
  <2>1. phase = "task"
    BY <1>32, EndTaskIs
  <2> QED BY <2>1 DEF Final
<1>33. CASE RunDeferred
  <2>1. phase \notin Final
    BY <1>33 DEF RunDeferred, Runs, Final
  <2> QED BY <2>1
<1>34. CASE Conclude
  <2>1. phase \notin Final
    BY <1>34 DEF Conclude, Runs, Final
  <2> QED BY <2>1
<1>35. CASE Abort
  BY <1>35 DEF Abort
<1>36. CASE Exited
  BY <1>36 DEF Exited, vars, loaderVars, commandVars, taskVars
<1>37. CASE UNCHANGED vars
  BY <1>37 DEF vars, loaderVars, commandVars, taskVars
<1> QED BY <1>1, <1>2, <1>3, <1>4, <1>5, <1>6, <1>7, <1>8, <1>9, <1>10, <1>11, <1>12,
      <1>13, <1>14, <1>15, <1>16, <1>17, <1>18, <1>19, <1>20, <1>21, <1>22, <1>23, <1>24,
      <1>25, <1>26, <1>27, <1>28, <1>29, <1>30, <1>31, <1>32, <1>33, <1>34, <1>35, <1>36,
      <1>37 DEF Next


LEMMA DeferIs ==
  ASSUME Defer
  PROVE  /\ phase = "task" /\ phase' = "task" /\ failure = "" /\ failure' = ""
         /\ \E what : defers' = Append(defers, [id |-> now, does |-> what])
         /\ registered' = Append(registered, now) /\ pending' = pending /\ ranDefers' = ranDefers
<1>1. PICK o : /\ InTask(o) /\ DeferCall(o.does) /\ registered' = Append(registered, now)
               /\ phase' = phase /\ failure' = failure /\ pending' = pending /\ ranDefers' = ranDefers
  BY DEF Defer, Succeeds
<1>2. defers' = Append(defers, [id |-> now, does |-> o.does])
  BY <1>1 DEF DeferCall
<1> QED BY <1>1, <1>2, InTaskIs

LEMMA RunDeferredIs ==
  ASSUME RunDeferred
  PROVE  /\ phase = "deferred" /\ phase' = "deferred" /\ failure = "" /\ failure' = ""
         /\ pending # << >> /\ pending' = Tail(pending)
         /\ ranDefers' = Append(ranDefers, Head(pending).id) /\ registered' = registered
         /\ defers' = defers \/ \E what : defers' = Append(defers, [id |-> now, does |-> what])
         /\ info' = info \/ info' = Phase(info, "cleanup", now)
<1>1. /\ phase = "deferred" /\ phase' = "deferred" /\ failure = "" /\ failure' = ""
      /\ pending # << >> /\ pending' = Tail(pending)
      /\ ranDefers' = Append(ranDefers, Head(pending).id) /\ registered' = registered
      /\ info' = info \/ info' = Phase(info, "cleanup", now)
  BY DEF RunDeferred, Runs, Succeeds
<1>2. defers' = defers \/ \E what : defers' = Append(defers, [id |-> now, does |-> what])
  BY DEF RunDeferred, DeferCall
<1> QED BY <1>1, <1>2

LEMMA ConcludeIs ==
  ASSUME Conclude
  PROVE  /\ phase = "deferred" /\ failure = "" /\ failure' = "" /\ pending = << >>
         /\ phase' \in Final /\ implFailed' = implFailed /\ now' = now /\ chosen' = chosen
         /\ UNCHANGED <<defers, pending, registered, ranDefers>>
         /\ ~implFailed => info' = CloseActive(info, now)
<1>1. /\ phase = "deferred" /\ failure = "" /\ failure' = "" /\ pending = << >>
      /\ implFailed' = implFailed /\ now' = now
      /\ UNCHANGED <<defers, pending, registered, ranDefers>>
      /\ ~implFailed => info' = CloseActive(info, now)
  BY DEF Conclude, Runs, Succeeds
<1>2. phase' \in Final
  BY DEF Conclude, Final
<1>3. chosen' = chosen
  BY DEF Conclude, commandVars
<1> QED BY <1>1, <1>2, <1>3

LEMMA AbortIs ==
  ASSUME Abort
  PROVE  phase \notin Final /\ failure # "" /\ failure' = failure /\ phase' = "failed"
BY DEF Abort, loaderVars

LEMMA DefersStep ==
  ASSUME LoaderInv, Control, DefersSound, [Next]_vars
  PROVE  DefersSound'
<1>1. Owners /\ Onward /\ Where
  BY OwnersStep, OnwardStep DEF Control
<1>2. /\ IsSequence(defers) /\ IsSequence(pending)
      /\ IsSequence(registered) /\ IsSequence(ranDefers) /\ IsSequence(<< >>)
  BY EmptyIsSequence DEF DefersSound
<1>3. CASE Defer
  <2>1. /\ phase = "task" /\ phase' = "task" /\ failure' = ""
        /\ registered' = Append(registered, now) /\ pending' = pending /\ ranDefers' = ranDefers
    BY <1>3, DeferIs
  <2>2. PICK what : defers' = Append(defers, [id |-> now, does |-> what])
    BY <1>3, DeferIs
  <2>3. Ids(defers) = registered /\ pending = << >> /\ ranDefers = << >>
    BY <2>1 DEF DefersSound
  <2>4. PICK x : x = [id |-> now, does |-> what] /\ x.id = now
    <3>1. [id |-> now, does |-> what].id = now
      OBVIOUS
    <3> QED BY <3>1
  <2>5. Ids(Append(defers, x)) = Append(Ids(defers), x.id) /\ IsSequence(Append(defers, x))
    BY <1>2, AppendedIds, AppendIs
  <2>6. IsSequence(Append(registered, now))
    BY <1>2, AppendIs
  <2>7. Ids(defers') = registered' /\ IsSequence(defers') /\ IsSequence(registered')
    BY <2>1, <2>2, <2>3, <2>4, <2>5, <2>6
  <2> QED BY <1>2, <2>1, <2>3, <2>7 DEF DefersSound, Earlier, Reading, Final
<1>4. CASE EndTask
  <2>1. /\ phase = "task" /\ phase' = "deferred" /\ failure = "" /\ failure' = failure
        /\ pending' = Reverse(defers) /\ defers' = << >> /\ registered' = registered /\ ranDefers' = ranDefers
    BY <1>4, EndTaskIs
  <2>2. Ids(defers) = registered /\ ranDefers = << >>
    BY <2>1 DEF DefersSound
  <2>3. IsSequence(Reverse(defers)) /\ Ids(Reverse(defers)) = Reverse(Ids(defers)) /\ IsSequence(Reverse(registered))
    BY <1>2, ReverseIs, ReversedIds
  <2>4. << >> \o Reverse(registered) = Reverse(registered)
    BY <2>3, EmptyJoins
  <2>5. ranDefers' \o Ids(pending') = Reverse(registered')
    BY <2>1, <2>2, <2>3, <2>4
  <2>6. IsSequence(pending')
    BY <2>1, <2>3
  <2> QED BY <1>2, <2>1, <2>5, <2>6 DEF DefersSound, Earlier, Reading, Final
<1>5. CASE RunDeferred
  <2>1. /\ phase = "deferred" /\ phase' = "deferred" /\ failure' = ""
        /\ pending # << >> /\ pending' = Tail(pending)
        /\ ranDefers' = Append(ranDefers, Head(pending).id) /\ registered' = registered
        /\ defers' = defers \/ \E what : defers' = Append(defers, [id |-> now, does |-> what])
    BY <1>5, RunDeferredIs
  <2>2. ranDefers \o Ids(pending) = Reverse(registered)
    BY <2>1 DEF DefersSound
  <2>3. Append(ranDefers, Head(pending).id) \o Ids(Tail(pending)) = ranDefers \o Ids(pending)
    BY <1>2, <2>1, MovedIds
  <2>4. IsSequence(Append(ranDefers, Head(pending).id)) /\ IsSequence(Tail(pending))
    BY <1>2, <2>1, AppendIs, TailIs
  <2>5. IsSequence(defers')
    <3>1. ASSUME NEW x, defers' = Append(defers, x) PROVE IsSequence(defers')
      <4>1. IsSequence(Append(defers, x))
        BY <1>2, AppendIs
      <4> QED BY <3>1, <4>1
    <3> QED BY <1>2, <2>1, <3>1
  <2>6. ranDefers' \o Ids(pending') = Reverse(registered') /\ IsSequence(ranDefers') /\ IsSequence(pending')
    BY <2>1, <2>2, <2>3, <2>4
  <2> QED BY <1>2, <2>1, <2>5, <2>6 DEF DefersSound, Earlier, Reading, Final
<1>6. CASE ~Defer /\ ~EndTask /\ ~RunDeferred
  <2>1. defers' = defers /\ pending' = pending /\ registered' = registered /\ ranDefers' = ranDefers
    BY <1>1, <1>6 DEF Owners
  <2>2. ASSUME phase' \in Earlier
        PROVE  defers' = << >> /\ pending' = << >> /\ registered' = << >> /\ ranDefers' = << >>
    BY <1>1, <2>1, <2>2 DEF Onward, DefersSound
  <2>3. ASSUME phase' = "task"
        PROVE  Ids(defers') = registered' /\ pending' = << >> /\ ranDefers' = << >> /\ failure' = ""
    <3>1. CASE phase = "task"
      <4>1. failure = ""
        BY <3>1 DEF DefersSound
      <4> QED BY <1>1, <2>1, <3>1, <4>1 DEF Onward, DefersSound
    <3>2. CASE phase # "task"
      <4>1. failure' = "" /\ phase \in Earlier
        <5>1. InstallExporters => phase = "features"
          BY InstallExportersIs
        <5> QED BY <1>1, <2>3, <3>2, <5>1 DEF Onward, Earlier
      <4>2. defers = << >> /\ pending = << >> /\ registered = << >> /\ ranDefers = << >>
        BY <4>1 DEF DefersSound
      <4>3. Ids(<< >>) = << >>
        BY DEF Ids
      <4> QED BY <2>1, <4>1, <4>2, <4>3
    <3> QED BY <3>1, <3>2
  <2>4. ASSUME phase' = "deferred"
        PROVE  ranDefers' \o Ids(pending') = Reverse(registered') /\ failure' = ""
    <3>1. phase = "deferred"
      BY <1>1, <1>6, <2>4 DEF Onward
    <3>2. failure = ""
      BY <3>1 DEF DefersSound
    <3> QED BY <1>1, <2>1, <3>1, <3>2 DEF Onward, DefersSound
  <2>5. ASSUME phase' \in Final, registered' # << >> PROVE ranDefers' = Reverse(registered')
    <3>1. CASE phase \in Final
      BY <2>1, <2>5, <3>1 DEF DefersSound
    <3>2. CASE Conclude
      <4>1. phase = "deferred" /\ pending = << >>
        BY <3>2, ConcludeIs
      <4>2. ranDefers \o Ids(<< >>) = Reverse(registered)
        BY <4>1 DEF DefersSound
      <4>3. Ids(<< >>) = << >>
        BY DEF Ids
      <4>4. ranDefers \o << >> = ranDefers
        BY <1>2, EmptyJoins
      <4> QED BY <2>1, <4>2, <4>3, <4>4
    <3>3. CASE Abort
      <4>1. phase \notin Final /\ failure # ""
        BY <3>3, AbortIs
      <4>2. phase \in Earlier
        BY <1>1, <4>1 DEF DefersSound, Where
      <4> QED BY <2>1, <2>5, <4>2 DEF DefersSound
    <3> QED BY <1>1, <2>5, <3>1, <3>2, <3>3 DEF Onward
  <2> QED BY <1>2, <2>1, <2>2, <2>3, <2>4, <2>5 DEF DefersSound
<1> QED BY <1>3, <1>4, <1>5, <1>6


----------------------------------------------------------------------------
(* The phase log.                                                          *)

\* A phase is open as soon as one was entered, the closed ones lead from the start
\* of the task to it, and none of them was cut short.
LogOpen(log) ==
    /\ log = [started |-> log.started, phases |-> log.phases, current |-> log.current]
    /\ IsSequence(log.phases)
    /\ \/ log.phases = << >> /\ log.current = << >>
       \/ /\ log.phases # << >>
          /\ log.current = << [name |-> log.current[1].name, from |-> log.current[1].from] >>
          /\ log.phases[1].from = log.started
          /\ log.phases[Len(log.phases)].to = log.current[1].from
          /\ Len(log.phases) # 1 => log.phases[Len(log.phases)].name # log.current[1].name
          /\ \A i \in 1..Len(log.phases) : ~log.phases[i].interrupted
          /\ \A i \in 1..Len(log.phases) - 1 :
                /\ log.phases[i].to = log.phases[i + 1].from
                /\ i > 1 => log.phases[i].name # log.phases[i + 1].name

LEMMA NewInfoIs == ASSUME NEW when PROVE LogOpen(NewInfo(when))
<1>1. /\ NewInfo(when).phases = << >> /\ NewInfo(when).current = << >>
      /\ NewInfo(when) = [started |-> NewInfo(when).started, phases |-> NewInfo(when).phases,
                          current |-> NewInfo(when).current]
  BY DEF NewInfo
<1> QED BY <1>1, EmptyIsSequence DEF LogOpen

\* The open phase, closed as x, follows the others.
Closes(log, to, x, ps) ==
    /\ log.current # << >> /\ ps = Append(log.phases, x)
    /\ x.name = log.current[1].name /\ x.from = log.current[1].from /\ x.to = to

Covers(log, to, x, ps) ==
    /\ IsSequence(ps) /\ ps # << >> /\ Len(ps) # 1
    /\ ps[1].from = log.started /\ ps[Len(ps)].to = to
    /\ ps[Len(ps)].name = log.current[1].name
    /\ \A i \in 1..Len(ps) - 1 : ~ps[i].interrupted
    /\ ps[Len(ps)] = x
    /\ \A i \in 1..Len(ps) - 1 :
          /\ ps[i].to = ps[i + 1].from
          /\ i > 1 => ps[i].name # ps[i + 1].name

\* The open phase is closed where the next begins.
LEMMA ClosedLog ==
  ASSUME NEW log, LogOpen(log), NEW to, NEW x, NEW ps, Closes(log, to, x, ps)
  PROVE  Covers(log, to, x, ps)
<1> DEFINE p == log.phases
           c == log.current[1]
<1>0. log.current # << >>
  BY DEF Closes
<1>1. /\ IsSequence(p) /\ p # << >>
      /\ p[1].from = log.started /\ p[Len(p)].to = c.from
      /\ Len(p) # 1 => p[Len(p)].name # c.name
      /\ \A i \in 1..Len(p) : ~p[i].interrupted
      /\ \A i \in 1..Len(p) - 1 : p[i].to = p[i + 1].from /\ (i > 1 => p[i].name # p[i + 1].name)
  BY <1>0 DEF LogOpen
<1>2. x.name = c.name /\ x.from = c.from /\ x.to = to
  BY DEF Closes
<1> HIDE DEF p, c
<1>3. /\ IsSequence(Append(p, x)) /\ Len(Append(p, x)) = Len(p) + 1 /\ Len(p) \in Nat
      /\ Append(p, x)[Len(p) + 1] = x
      /\ \A i \in 1..Len(p) : Append(p, x)[i] = p[i]
  BY <1>1, AppendIs
<1>4. ps = Append(p, x)
  BY DEF p, Closes
<1>5. PICK n \in Nat : n = Len(p)
  BY <1>3
<1>6. n # 0
  <2>1. Len(p) # 0
    <3>1. p = [i \in 1..Len(p) |-> p[i]]
      BY <1>1 DEF IsSequence
    <3>2. Len(p) = 0 => p = << >>
      <4>1. PICK X : p \in Seq(X)
        BY <1>1, IsSequenceOf
      <4> QED BY <4>1
    <3> QED BY <1>1, <3>2
  <2> QED BY <1>5, <2>1
<1>7. /\ 1 \in 1..n /\ n \in 1..n /\ n + 1 # 1 /\ (n + 1) - 1 = n
      /\ \A i \in 1..n : i = n \/ (i \in 1..n - 1 /\ i + 1 \in 1..n)
      /\ n > 1 => n # 1
  BY <1>6
<1>8. /\ Len(ps) = n + 1 /\ ps[n + 1] = x /\ \A i \in 1..n : ps[i] = p[i]
  BY <1>3, <1>4, <1>5
<1>9. /\ p[1].from = log.started /\ p[n].to = c.from
      /\ n # 1 => p[n].name # c.name
      /\ \A i \in 1..n : ~p[i].interrupted
      /\ \A i \in 1..n - 1 : p[i].to = p[i + 1].from /\ (i > 1 => p[i].name # p[i + 1].name)
  BY <1>1, <1>5
<1>10. \A i \in 1..n : /\ ps[i].to = ps[i + 1].from
                       /\ i > 1 => ps[i].name # ps[i + 1].name
  <2> TAKE i \in 1..n
  <2>1. CASE i = n
    BY <1>2, <1>7, <1>8, <1>9, <2>1
  <2>2. CASE i \in 1..n - 1 /\ i + 1 \in 1..n
    BY <1>8, <1>9, <2>2
  <2> QED BY <1>7, <2>1, <2>2
<1>11. IsSequence(ps) /\ ps # << >>
  <2>1. Len(<< >>) = 0 /\ n + 1 # 0
    BY <1>6, EmptyIsSequence
  <2> QED BY <1>3, <1>4, <1>8, <2>1
<1>12. ps[1].from = log.started /\ ps[n + 1].to = to /\ ps[n + 1].name = c.name
  BY <1>2, <1>7, <1>8, <1>9
<1>13. ps[n + 1] = x /\ \A i \in 1..n : ~ps[i].interrupted
  BY <1>8, <1>9
<1>14. Len(ps) # 1 /\ Len(ps) - 1 = n
  BY <1>7, <1>8
<1> QED BY <1>8, <1>10, <1>11, <1>12, <1>13, <1>14 DEF c, Covers

\* Entering a phase leaves a log of that kind.
LEMMA PhaseKeeps ==
  ASSUME NEW log, LogOpen(log), NEW name, NEW when
  PROVE  LogOpen(Phase(log, name, when))
<1>0. PICK log2 : log2 = Phase(log, name, when)
  OBVIOUS
<1>1. CASE log.current # << >> /\ log.current[1].name = name
  BY <1>1 DEF Phase
<1>2. CASE log.current # << >> /\ log.current[1].name # name
  <2>1. PICK x, ps, cur : /\ x = Closed(log.current[1], when, FALSE) /\ ps = Append(log.phases, x)
                          /\ cur = << [name |-> name, from |-> when] >>
    OBVIOUS
  <2>2. log2 = [log EXCEPT !.current = cur, !.phases = ps]
    BY <1>0, <1>2, <2>1 DEF Phase
  <2>3. log = [started |-> log.started, phases |-> log.phases, current |-> log.current]
    BY DEF LogOpen
  <2>4. log2 = [started |-> log.started, phases |-> ps, current |-> cur]
    BY <2>2, <2>3
  <2>5. log2.started = log.started /\ log2.phases = ps /\ log2.current = cur
    BY <2>4
  <2>6. cur[1].name = name /\ cur[1].from = when /\ cur = << [name |-> cur[1].name, from |-> cur[1].from] >>
    BY <2>1
  <2>7. ~x.interrupted
    BY <2>1 DEF Closed
  <2>8. x.name = log.current[1].name /\ x.from = log.current[1].from /\ x.to = when
    BY <2>1 DEF Closed
  <2>9. /\ IsSequence(ps) /\ ps # << >> /\ Len(ps) # 1
        /\ ps[1].from = log.started /\ ps[Len(ps)].to = when
        /\ ps[Len(ps)].name = log.current[1].name
        /\ \A i \in 1..Len(ps) - 1 : ~ps[i].interrupted
        /\ ps[Len(ps)] = x
        /\ \A i \in 1..Len(ps) - 1 :
              /\ ps[i].to = ps[i + 1].from
              /\ i > 1 => ps[i].name # ps[i + 1].name
    <3>1. Closes(log, when, x, ps)
      BY <1>2, <2>1, <2>8 DEF Closes
    <3>2. Covers(log, when, x, ps)
      BY <3>1, ClosedLog
    <3> QED BY <3>2 DEF Covers
  <2>10. \A i \in 1..Len(ps) : ~ps[i].interrupted
    <3>1. Len(ps) \in Nat
      BY <2>9 DEF IsSequence
    <3>2. \A i \in 1..Len(ps) : i = Len(ps) \/ i \in 1..Len(ps) - 1
      BY <3>1
    <3> QED BY <2>7, <2>9, <3>2
  <2>11. ps[Len(ps)].name # cur[1].name
    BY <1>2, <2>6, <2>9
  <2>12. LogOpen(log2)
    BY <2>4, <2>5, <2>6, <2>9, <2>10, <2>11 DEF LogOpen
  <2> QED BY <1>0, <2>12
<1>3. CASE log.current = << >>
  <2>1. log.phases = << >>
    <3>1. \A x : << x >> # << >>
      OBVIOUS
    <3> QED BY <1>3, <3>1 DEF LogOpen
  <2>2. PICK init, first, ps, cur :
           /\ init = [name |-> "init", from |-> log.started] /\ first = Closed(init, when, FALSE)
           /\ ps = << first >> /\ cur = << [name |-> name, from |-> when] >>
    OBVIOUS
  <2>3. log2 = [log EXCEPT !.current = cur, !.phases = ps]
    BY <1>0, <1>3, <2>1, <2>2 DEF Phase, Init0
  <2>4. log = [started |-> log.started, phases |-> log.phases, current |-> log.current]
    BY DEF LogOpen
  <2>5. log2 = [started |-> log.started, phases |-> ps, current |-> cur]
    BY <2>3, <2>4
  <2>6. log2.started = log.started /\ log2.phases = ps /\ log2.current = cur
    BY <2>5
  <2>7. cur[1].name = name /\ cur[1].from = when /\ cur = << [name |-> cur[1].name, from |-> cur[1].from] >>
    BY <2>2
  <2>8. first.from = log.started /\ first.to = when /\ ~first.interrupted
    <3>1. init.from = log.started
      BY <2>2
    <3>2. first.from = init.from /\ first.to = when
      BY <2>2 DEF Closed
    <3>3. ~first.interrupted
      BY <2>2 DEF Closed
    <3> QED BY <3>1, <3>2, <3>3
  <2>9. IsSequence(ps) /\ Len(ps) = 1 /\ ps # << >> /\ ps[1] = first
    <3>1. ps \in Seq({first}) /\ Len(ps) = 1 /\ ps # << >> /\ ps[1] = first
      BY <2>2
    <3> QED BY <3>1, SequenceIs
  <2>10. \A i \in 1..1 : i = 1
    OBVIOUS
  <2>11. \A i : i \notin 1..1 - 1
    OBVIOUS
  <2>12. LogOpen(log2)
    BY <2>5, <2>6, <2>7, <2>8, <2>9, <2>10, <2>11 DEF LogOpen
  <2> QED BY <1>0, <2>12
<1> QED BY <1>1, <1>2, <1>3

\* When the open one is closed, the log accounts for the task.
LEMMA CloseCovers ==
  ASSUME NEW log, LogOpen(log), NEW when
  PROVE  LET log2 == CloseActive(log, when)
             p == log2.phases
         IN  /\ log2.current = << >>
             /\ p # << >> =>
                   /\ p[1].from = log2.started /\ p[Len(p)].to = when
                   /\ \A i \in 1..Len(p) - 1 :
                         /\ p[i].to = p[i + 1].from
                         /\ i > 1 => p[i].name # p[i + 1].name
                         /\ ~p[i].interrupted
<1>0. PICK log2 : log2 = CloseActive(log, when)
  OBVIOUS
<1>1. CASE log.current = << >>
  <2>1. log2 = log /\ log2.phases = << >>
    <3>1. \A x : << x >> # << >>
      OBVIOUS
    <3> QED BY <1>0, <1>1, <3>1 DEF LogOpen, CloseActive
  <2> QED BY <1>0, <1>1, <2>1
<1>2. CASE log.current # << >>
  <2>1. PICK x, ps : x = Closed(log.current[1], when, TRUE) /\ ps = Append(log.phases, x)
    OBVIOUS
  <2>2. x.name = log.current[1].name /\ x.from = log.current[1].from /\ x.to = when
    BY <2>1 DEF Closed
  <2>3. log2 = [log EXCEPT !.phases = ps, !.current = << >>]
    BY <1>0, <1>2, <2>1 DEF CloseActive
  <2>4. log = [started |-> log.started, phases |-> log.phases, current |-> log.current]
    BY DEF LogOpen
  <2>5. log2 = [started |-> log.started, phases |-> ps, current |-> << >>]
    BY <2>3, <2>4
  <2>6. log2.started = log.started /\ log2.phases = ps /\ log2.current = << >>
    BY <2>5
  <2>7. /\ ps[1].from = log.started /\ ps[Len(ps)].to = when
        /\ \A i \in 1..Len(ps) - 1 : ~ps[i].interrupted
        /\ \A i \in 1..Len(ps) - 1 :
              /\ ps[i].to = ps[i + 1].from
              /\ i > 1 => ps[i].name # ps[i + 1].name
    <3>1. Closes(log, when, x, ps)
      BY <1>2, <2>1, <2>2 DEF Closes
    <3>2. Covers(log, when, x, ps)
      BY <3>1, ClosedLog
    <3> QED BY <3>2 DEF Covers
  <2> QED BY <1>0, <2>6, <2>7
<1> QED BY <1>1, <1>2

\* The log of a running task is one of that kind; the log of one that is over and did
\* not fail accounts for it.
LogSound ==
    /\ (phase = "task" /\ op # 0) \/ phase = "deferred" => LogOpen(info)
    /\ PhasesCoverTheTask

LEMMA EnterPhaseIs ==
  ASSUME EnterPhase
  PROVE  phase = "task" /\ phase' = "task" /\ op # 0 /\ \E name : info' = Phase(info, name, now)
<1>1. PICK o : InTask(o) /\ info' = Phase(info, o.name, now) /\ phase' = phase
  BY DEF EnterPhase
<1> QED BY <1>1, InTaskIs

LEMMA LogStep ==
  ASSUME LoaderInv, Control, LogSound, [Next]_vars
  PROVE  LogSound'
<1>1. Owners /\ Onward
  BY OwnersStep, OnwardStep
<1>2. ASSUME (phase' = "task" /\ op' # 0) \/ phase' = "deferred" PROVE LogOpen(info')
  <2>1. CASE StartTask
    <3>1. info' = NewInfo(now)
      BY <2>1 DEF StartTask
    <3> QED BY <3>1, NewInfoIs
  <2>2. CASE ~StartTask
    <3>1. LogOpen(info)
      <4>1. EndTask => phase = "task" /\ op # 0
        <5>1. EndTask => phase = "task" /\ op >= 1
          BY EndTaskIs
        <5>2. op >= 1 => op # 0
          OBVIOUS
        <5> QED BY <5>1, <5>2
      <4>2. (phase = "task" /\ op # 0) \/ phase = "deferred"
        BY <1>1, <1>2, <2>2, <4>1 DEF Onward
      <4> QED BY <4>2 DEF LogSound
    <3>2. CASE EnterPhase
      <4>1. PICK name : info' = Phase(info, name, now)
        BY <3>2, EnterPhaseIs
      <4>2. LogOpen(Phase(info, name, now))
        BY <3>1, PhaseKeeps
      <4> QED BY <4>1, <4>2
    <3>3. CASE RunDeferred
      <4>1. info' = info \/ info' = Phase(info, "cleanup", now)
        BY <3>3, RunDeferredIs
      <4>2. LogOpen(Phase(info, "cleanup", now))
        BY <3>1, PhaseKeeps
      <4> QED BY <3>1, <4>1, <4>2
    <3>4. CASE Conclude
      <4>1. phase' \in Final
        BY <3>4, ConcludeIs
      <4> QED BY <1>2, <4>1 DEF Final
    <3> QED BY <1>1, <2>2, <3>1, <3>2, <3>3, <3>4 DEF Owners
  <2> QED BY <2>1, <2>2
<1>3. PhasesCoverTheTask'
  <2>1. CASE phase \in Final
    <3>1. /\ phase' = phase /\ failure' = failure /\ info' = info /\ now' = now
          /\ implFailed' = implFailed /\ chosen' = chosen
      BY <2>1, Over
    <3> QED BY <3>1 DEF LogSound, PhasesCoverTheTask
  <2>2. CASE phase \notin Final /\ phase' \in Final /\ Conclude
    <3>1. /\ phase = "deferred" /\ implFailed' = implFailed /\ now' = now
          /\ ~implFailed => info' = CloseActive(info, now)
      BY <2>2, ConcludeIs
    <3>2. LogOpen(info)
      BY <3>1 DEF LogSound
    <3>3. PICK log2 : log2 = CloseActive(info, now)
      OBVIOUS
    <3>4. /\ log2.current = << >>
          /\ log2.phases # << >> =>
                /\ log2.phases[1].from = log2.started /\ log2.phases[Len(log2.phases)].to = now
                /\ \A i \in 1..Len(log2.phases) - 1 :
                      /\ log2.phases[i].to = log2.phases[i + 1].from
                      /\ i > 1 => log2.phases[i].name # log2.phases[i + 1].name
                      /\ ~log2.phases[i].interrupted
      BY <3>2, <3>3, CloseCovers
    <3> QED BY <3>1, <3>3, <3>4 DEF PhasesCoverTheTask
  <2>3. CASE phase \notin Final /\ phase' \in Final /\ Abort
    <3>1. failure' # ""
      BY <2>3, AbortIs
    <3> QED BY <3>1 DEF PhasesCoverTheTask
  <2>4. CASE phase' \notin Final
    BY <2>4 DEF PhasesCoverTheTask
  <2> QED BY <1>1, <2>1, <2>2, <2>3, <2>4 DEF Onward
<1> QED BY <1>2, <1>3 DEF LogSound

----------------------------------------------------------------------------
(* The task.                                                               *)

TaskInv == FoundInv /\ ExportSound /\ DefersSound /\ LogSound

LEMMA TaskStarts == Init => TaskInv
<1> SUFFICES ASSUME Init PROVE TaskInv
  OBVIOUS
<1>1. phase = "scripts"
  BY DEF Init
<1>2. exported = exporters
  BY DEF Init
<1>3. defers = << >> /\ pending = << >> /\ registered = << >> /\ ranDefers = << >>
  BY DEF Init
<1>4. ExportSound
  BY <1>1, <1>2 DEF ExportSound
<1>5. DefersSound
  BY <1>1, <1>3, EmptyIsSequence DEF DefersSound, Final
<1>6. LogSound
  BY <1>1 DEF LogSound, PhasesCoverTheTask, Final
<1> QED BY <1>4, <1>5, <1>6, FoundStarts DEF TaskInv

LEMMA TaskSteps == TaskInv /\ [Next]_vars => TaskInv'
<1> SUFFICES ASSUME TaskInv, [Next]_vars PROVE TaskInv'
  OBVIOUS
<1>1. FoundInv /\ LoaderInv /\ Control /\ ExportSound /\ DefersSound /\ LogSound
  BY DEF TaskInv, FoundInv
<1> QED BY <1>1, FoundStep, ExportStep, DefersStep, LogStep DEF TaskInv

LEMMA SharedIsRead == FoundInv => TraitsAreShared
<1> SUFFICES ASSUME FoundInv, phase \in {"task", "deferred"}, op >= 1
             PROVE  /\ chosen <= known => Task.traits \subseteq DOMAIN mine
                    /\ \A t \in DOMAIN mine \cap DOMAIN owed :
                          mine[t] = traits[t] /\ mine[t] # None /\ heap[mine[t]] = owed[t]
  BY DEF TraitsAreShared
<1>1. MineSound /\ Shared(traits, heap, owed)
  BY DEF FoundInv, TraitsSound0
<1>2. op # 0
  OBVIOUS
<1>3. /\ chosen <= known => Task.traits \subseteq DOMAIN mine
      /\ \A t \in DOMAIN mine : t \in DOMAIN owed => mine[t] = traits[t]
  BY <1>1, <1>2 DEF MineSound
<1>4. \A t \in DOMAIN owed : traits[t] # 0 /\ heap[traits[t]] = owed[t]
  BY <1>1 DEF Shared
<1> QED BY <1>3, <1>4 DEF None

LEMMA TaskSays == TaskInv => TaskIsCarriedThrough
<1> SUFFICES ASSUME TaskInv PROVE TaskIsCarriedThrough
  OBVIOUS
<1>1. FoundInv /\ ExportSound /\ DefersSound /\ LogSound
  BY DEF TaskInv
<1>2. ExportersInstalled
  BY <1>1 DEF ExportSound, ExportersInstalled
<1> QED BY <1>1, <1>2, SharedIsRead, DefersSay DEF TaskIsCarriedThrough, LogSound

\* In every run of every program the task starts with every exporter installed that was
\* registered, reads the trait instances as they were last written, what it defers runs
\* last first whatever becomes of it, and its phase log accounts for all its time.
THEOREM TaskCarried == Spec => []TaskIsCarriedThrough
<1>1. Init => TaskInv
  BY TaskStarts
<1>2. TaskInv /\ [Next]_vars => TaskInv'
  BY TaskSteps
<1> QED BY <1>1, <1>2, TaskSays, PTL DEF Spec

----------------------------------------------------------------------------
(* The commands.                                                           *)

\* A sequence is its own beginning, as long as it is.
LEMMA WholeIs ==
  ASSUME NEW s, IsSequence(s)
  PROVE  SubSeq(s, 1, Len(s)) = s
<1>1. PICK A : s \in Seq(A)
  BY IsSequenceOf
<1> QED BY <1>1

LEMMA CommandIs ==
  ASSUME NEW key, IsCommand(key)
  PROVE  IsSequence(key) /\ Len(key) \in Nat /\ Len(key) # 0
<1>1. IsSequence(key) /\ key # << >> /\ Len(key) \in Nat
  BY DEF IsCommand, IsSequence
<1>2. ASSUME Len(key) = 0 PROVE FALSE
  <2>1. Len(key) = Len(<< >>) /\ \A i \in 1..Len(key) : key[i] = << >>[i]
    BY <1>2, EmptyIsSequence
  <2> QED BY <1>1, <2>1, EmptyIsSequence, SameSequence
<1> QED BY <1>1, <1>2

\* No command of a tree that was accepted begins with another, and none hides a
\* built-in one: insert finds a later one of the same name, attach the group that
\* a shorter one would have to be.
LEMMA AcceptedAreApart ==
  ASSUME NEW keys, IsSequence(keys), \A i \in 1..Len(keys) : IsCommand(keys[i]), Accepts(keys),
         NEW i \in 1..Len(keys), NEW j \in 1..Len(keys)
  PROVE  /\ i # j => ~IsPrefix(keys[i], keys[j])
         /\ Len(keys[i]) = 1 => keys[i][1] \notin Reserved \cup Builtin
<1> DEFINE all == {keys[k] : k \in 1..Len(keys)}
<1> DEFINE before(m) == {keys[k] : k \in 1..m - 1}
<1>1. Len(keys) \in Nat
  BY DEF IsSequence
<1>2. \A m \in 1..Len(keys) :
         Nameable(keys[m]) /\ Vacant(before(m), keys[m]) /\ Attachable(all, keys[m])
  BY DEF Accepts, Insertable
<1>3. Len(keys[i]) = 1 => keys[i][1] \notin Reserved \cup Builtin
  BY <1>2 DEF Nameable, Attachable
<1>4. ASSUME NEW m \in 1..Len(keys), NEW n \in 1..Len(keys), m < n PROVE keys[m] # keys[n]
  <2>1. m \in 1..n - 1
    BY <1>1, <1>4
  <2>2. keys[m] \in before(n)
    BY <2>1
  <2>3. keys[n] \notin before(n)
    BY <1>2 DEF Vacant
  <2> QED BY <2>2, <2>3
<1>5. ASSUME i # j, IsPrefix(keys[i], keys[j]) PROVE FALSE
  <2> DEFINE a == keys[i]
  <2> DEFINE b == keys[j]
  <2>1. /\ IsSequence(a) /\ Len(a) \in Nat /\ Len(a) # 0
        /\ IsSequence(b) /\ Len(b) \in Nat
    BY CommandIs
  <2>2. Len(a) <= Len(b) /\ SubSeq(a, 1, Len(a)) = SubSeq(b, 1, Len(a))
    BY <1>5 DEF IsPrefix
  <2>3. a = SubSeq(b, 1, Len(a))
    BY <2>1, <2>2, WholeIs
  <2>4. a \in all /\ b \in all
    OBVIOUS
  <2>5. a \notin GroupsOf(all)
    BY <1>2 DEF Attachable
  <2>6. i < j \/ j < i
    BY <1>1, <1>5
  <2>7. a # b
    BY <1>4, <2>6
  <2> HIDE DEF a, b, all
  <2>8. CASE Len(a) = Len(b)
    BY <2>1, <2>3, <2>7, <2>8, WholeIs
  <2>9. CASE Len(a) # Len(b)
    <3>1. Len(a) \in 1..Len(b) - 1
      BY <2>1, <2>2, <2>9
    <3>2. a \in ProperPrefixes(b)
      BY <2>3, <3>1 DEF ProperPrefixes
    <3> QED BY <2>4, <2>5, <3>2 DEF GroupsOf
  <2> QED BY <2>8, <2>9
<1> QED BY <1>3, <1>5

\* Once the command tree stands, it is one that was accepted.
Dispatched == {"features", "exporters", "task", "deferred"}
Standing == phase \in Dispatched \/ (phase = "commands" /\ failure = "")
CommandsSound == Standing => Accepts(AllKeys)

\* A tree that was accepted comes from the building of it.
TreeOnce ==
    phase' = "commands" /\ failure' = "" => BuildCommands \/ (phase = "commands" /\ failure = "")

LEMMA TreeStep ==
  ASSUME LoaderInv, Control, [Next]_vars
  PROVE  TreeOnce
<1>1. CASE Evaluate
  <2>1. phase \in Reading /\ phase' = phase
    BY <1>1, EvaluateKeeps DEF Evaluate
  <2> QED BY <1>1, <2>1 DEF TreeOnce, Reading, Final
<1>2. CASE TakeScript
  <2>1. phase = "scripts" /\ phase' = phase
    BY <1>2 DEF TakeScript, Runs
  <2> QED BY <1>2, <2>1 DEF TreeOnce, Reading, Final
<1>3. CASE ScriptsDone
  <2>1. phase = "scripts" /\ phase' = "modules"
    BY <1>3 DEF ScriptsDone, Runs
  <2> QED BY <1>3, <2>1 DEF TreeOnce, Reading, Final
<1>4. CASE Pick
  <2>1. phase = "modules" /\ phase' = phase
    BY <1>4 DEF Pick, Runs
  <2> QED BY <1>4, <2>1 DEF TreeOnce, Reading, Final
<1>5. CASE UseTask
  <2>1. phase = "modules" /\ phase' = phase
    BY <1>5 DEF UseTask, Runs
  <2> QED BY <1>5, <2>1 DEF TreeOnce, Reading, Final
<1>6. CASE UseFeature
  <2>1. phase = "modules" /\ phase' = phase
    BY <1>6 DEF UseFeature, Runs
  <2> QED BY <1>6, <2>1 DEF TreeOnce, Reading, Final
<1>7. CASE ModuleDone
  <2>1. phase = "modules" /\ phase' = phase
    BY <1>7 DEF ModuleDone, Runs
  <2> QED BY <1>7, <2>1 DEF TreeOnce, Reading, Final
<1>8. CASE StartConfigs
  <2>1. phase = "modules" /\ phase' = "configs"
    BY <1>8 DEF StartConfigs, Runs
  <2> QED BY <1>8, <2>1 DEF TreeOnce, Reading, Final
<1>9. CASE CallConfig
  <2>1. phase = "configs" /\ phase' = phase
    BY <1>9 DEF CallConfig, Runs
  <2> QED BY <1>9, <2>1 DEF TreeOnce, Reading, Final
<1>10. CASE SetArg
  <2>1. phase = "configs" /\ phase' = phase
    BY <1>10 DEF SetArg, InConfig, Runs
  <2> QED BY <1>10, <2>1 DEF TreeOnce, Reading, Final
<1>11. CASE SetFeature
  <2>1. phase = "configs" /\ phase' = phase
    BY <1>11 DEF SetFeature, InConfig, Runs
  <2> QED BY <1>11, <2>1 DEF TreeOnce, Reading, Final
<1>12. CASE AddTask
  <2>1. phase = "configs" /\ phase' = phase
    BY <1>12 DEF AddTask, InConfig, Runs
  <2> QED BY <1>12, <2>1 DEF TreeOnce, Reading, Final
<1>13. CASE ConfigDone
  <2>1. phase = "configs" /\ phase' = phase
    BY <1>13 DEF ConfigDone, Runs
  <2> QED BY <1>13, <2>1 DEF TreeOnce, Reading, Final
<1>14. CASE TouchTrait
  <2>1. phase \in {"configs", "features"} /\ phase' = phase
    BY <1>14 DEF TouchTrait, InBody
  <2> QED BY <1>14, <2>1 DEF TreeOnce, Reading, Final
<1>15. CASE PutTrait
  <2>1. phase \in {"configs", "features"} /\ phase' = phase
    BY <1>15 DEF PutTrait, InBody
  <2> QED BY <1>15, <2>1 DEF TreeOnce, Reading, Final
<1>16. CASE AddExporter
  <2>1. /\ phase' = phase /\ phase \in {"configs", "features", "task"} /\ op' = op + 1
        /\ phase = "task" => failure' = failure /\ op # 0
    BY <1>16, InTaskIs DEF AddExporter, InBody, Succeeds
  <2> QED BY <1>16, <2>1 DEF TreeOnce, Reading, Final
<1>17. CASE Emit
  <2>1. /\ phase' = phase /\ phase \in {"configs", "features", "task"} /\ op' = op + 1
        /\ phase = "task" => failure' = failure /\ op # 0
    BY <1>17, InTaskIs DEF Emit, InBody, Succeeds
  <2> QED BY <1>17, <2>1 DEF TreeOnce, Reading, Final
<1>18. CASE FailBody
  <2>1. phase \in {"configs", "features"} /\ phase' = phase
    BY <1>18 DEF FailBody, InBody
  <2> QED BY <1>18, <2>1 DEF TreeOnce, Reading, Final
<1>19. CASE BuildCommands
  <2>1. phase = "configs" /\ phase' = "commands"
    BY <1>19 DEF BuildCommands, Runs
  <2> QED BY <1>19, <2>1 DEF TreeOnce, Reading, Final
<1>20. CASE Dispatch
  <2>1. phase = "commands" /\ failure = ""
    BY <1>20 DEF Dispatch, Runs
  <2> QED BY <1>20, <2>1 DEF TreeOnce, Reading, Final
<1>21. CASE CallFeature
  <2>1. phase = "features" /\ phase' = phase
    BY <1>21 DEF CallFeature, Runs
  <2> QED BY <1>21, <2>1 DEF TreeOnce, Reading, Final
<1>22. CASE FeatureDone
  <2>1. phase = "features" /\ phase' = phase
    BY <1>22 DEF FeatureDone, Runs
  <2> QED BY <1>22, <2>1 DEF TreeOnce, Reading, Final
<1>23. CASE InstallExporters
  <2>1. phase = "features" /\ op' = 0 /\ (phase' = "exporters" \/ (phase' = "task" /\ failure' = ""))
    BY <1>23 DEF InstallExporters, InstallsExporters, Runs, Succeeds
  <2> QED BY <1>23, <2>1 DEF TreeOnce, Reading, Final
<1>24. CASE InstallLate
  <2>1. phase = "exporters" /\ phase' = phase
    BY <1>24 DEF InstallLate, Runs
  <2> QED BY <1>24, <2>1 DEF TreeOnce, Reading, Final
<1>25. CASE InstallMetrics
  <2>1. phase = "exporters" /\ op' = 0 /\ (phase' = "exporters" \/ (phase' = "task" /\ failure' = ""))
    BY <1>25 DEF InstallMetrics, Runs, Succeeds
  <2> QED BY <1>25, <2>1 DEF TreeOnce, Reading, Final
<1>26. CASE BatchThread
  <2>1. phase' = phase /\ op' = op /\ failure' = failure
    BY <1>26 DEF BatchThread, loaderVars
  <2> QED BY <1>26, <2>1 DEF TreeOnce, Reading, Final
<1>27. CASE StartTask
  <2>1. phase = "task" /\ phase' = phase /\ op' = 1 /\ failure' = failure
    BY <1>27 DEF StartTask, Runs, Succeeds
  <2> QED BY <1>27, <2>1 DEF TreeOnce, Reading, Final
<1>28. CASE ReadTrait
  <2>1. phase = "task" /\ phase' = phase
    BY <1>28, InTaskIs DEF ReadTrait, Succeeds
  <2> QED BY <1>28, <2>1 DEF TreeOnce, Reading, Final
<1>29. CASE CallHook
  <2>1. phase = "task" /\ phase' = phase
    BY <1>29, InTaskIs DEF CallHook, Succeeds
  <2> QED BY <1>29, <2>1 DEF TreeOnce, Reading, Final
<1>30. CASE Defer
  <2>1. phase = "task" /\ phase' = phase
    BY <1>30, InTaskIs DEF Defer, Succeeds
  <2> QED BY <1>30, <2>1 DEF TreeOnce, Reading, Final
<1>31. CASE EnterPhase
  <2>1. phase = "task" /\ phase' = phase
    BY <1>31, InTaskIs DEF EnterPhase, Succeeds
  <2> QED BY <1>31, <2>1 DEF TreeOnce, Reading, Final
<1>32. CASE EndTask
  <2>1. phase = "task" /\ phase' = "deferred" /\ failure' = failure
    BY <1>32, EndTaskIs
  <2> QED BY <1>32, <2>1 DEF TreeOnce, Reading, Final
<1>33. CASE RunDeferred
  <2>1. phase = "deferred" /\ phase' = phase /\ op' = op /\ failure' = failure
    BY <1>33 DEF RunDeferred, Runs, Succeeds
  <2> QED BY <1>33, <2>1 DEF TreeOnce, Reading, Final
<1>34. CASE Conclude
  <2>1. phase = "deferred" /\ phase' \in Final /\ failure' = failure
    BY <1>34 DEF Conclude, Runs, Final, Succeeds
  <2> QED BY <1>34, <2>1 DEF TreeOnce, Reading, Final
<1>35. CASE Abort
  <2>1. phase \notin Final /\ phase' \in Final /\ failure # ""
    BY <1>35 DEF Abort, Final
  <2> QED BY <1>35, <2>1 DEF TreeOnce, Reading, Final
<1>36. CASE Exited
  <2>1. phase' = phase /\ op' = op /\ failure' = failure
    BY <1>36 DEF Exited, vars, loaderVars
  <2> QED BY <1>36, <2>1 DEF TreeOnce, Reading, Final
<1>37. CASE UNCHANGED vars
  <2>1. phase' = phase /\ op' = op /\ failure' = failure
    BY <1>37 DEF vars, loaderVars
  <2> QED BY <1>37, <2>1 DEF TreeOnce, Reading, Final
<1> QED BY <1>1, <1>2, <1>3, <1>4, <1>5, <1>6, <1>7, <1>8, <1>9, <1>10, <1>11, <1>12,
      <1>13, <1>14, <1>15, <1>16, <1>17, <1>18, <1>19, <1>20, <1>21, <1>22, <1>23, <1>24,
      <1>25, <1>26, <1>27, <1>28, <1>29, <1>30, <1>31, <1>32, <1>33, <1>34, <1>35, <1>36,
      <1>37 DEF Next

\* The tree is built once, and from then on no task is added.
LEMMA BuiltStep ==
  ASSUME LoaderInv, Control, [Next]_vars, Standing'
  PROVE  BuildCommands \/ (Standing /\ tasks' = tasks)
<1>1. Owners /\ Onward
  BY OwnersStep, OnwardStep
<1>2. BuildCommands \/ Standing
  <2>1. CASE phase' \in Dispatched
    <3>1. phase \in Dispatched \/ Dispatch
      <4>1. (InstallExporters => phase \in Dispatched) /\ (EndTask => phase \in Dispatched)
        BY EndTaskIs DEF InstallExporters, InstallsExporters, Runs, Dispatched
      <4> QED BY <1>1, <2>1, <4>1 DEF Onward, Dispatched, Final
    <3> QED BY <3>1 DEF Dispatch, Runs, Standing
  <2>2. CASE phase' = "commands" /\ failure' = ""
    BY <1>1, <2>2, TreeStep DEF TreeOnce, Standing
  <2> QED BY <2>1, <2>2 DEF Standing
<1>3. ASSUME Standing PROVE tasks' = tasks
  <2>1. phase \notin {"scripts", "modules", "configs"}
    BY <1>3 DEF Standing, Dispatched
  <2>2. ~TakeScript /\ ~UseTask /\ ~SetArg /\ ~AddTask
    BY <2>1 DEF TakeScript, UseTask, SetArg, AddTask, InConfig, Runs
  <2> QED BY <1>1, <2>2 DEF Owners
<1> QED BY <1>2, <1>3

LEMMA CommandsStarts == Init => CommandsSound
BY DEF Init, CommandsSound, Standing, Dispatched

LEMMA CommandsStep ==
  ASSUME LoaderInv, Control, CommandsSound, [Next]_vars
  PROVE  CommandsSound'
<1> SUFFICES ASSUME Standing' PROVE Accepts(AllKeys)'
  BY DEF CommandsSound
<1>1. PICK keys : keys = AllKeys
  OBVIOUS
<1>2. Accepts(keys) /\ tasks' = tasks
  <2>1. CASE BuildCommands
    <3>1. tasks' = tasks
      BY <2>1 DEF BuildCommands, discoveryVars
    <3>2. phase' = "commands"
      BY <2>1 DEF BuildCommands
    <3>3. failure' = ""
      BY <3>2 DEF Standing, Dispatched
    <3>4. Accepts(AllKeys)
      BY <2>1, <3>3 DEF BuildCommands, Fails
    <3> QED BY <1>1, <3>1, <3>4
  <2>2. CASE Standing /\ tasks' = tasks
    BY <1>1, <2>2 DEF CommandsSound
  <2> QED BY <2>1, <2>2, BuiltStep
<1>3. AllKeys' = keys
  BY <1>1, <1>2 DEF AllKeys
<1> QED BY <1>2, <1>3

LEMMA CommandsSay == TasksSound /\ CommandsSound => OneTaskPerCommand
<1> SUFFICES ASSUME TasksSound, CommandsSound, phase \in {"features", "task", "deferred"},
                    NEW i \in 1..Len(tasks), NEW j \in 1..Len(tasks)
             PROVE  /\ i # j => ~IsPrefix(tasks[i].key, tasks[j].key)
                    /\ Len(tasks[i].key) = 1 => tasks[i].key[1] \notin Reserved \cup Builtin
  BY DEF OneTaskPerCommand
<1>1. PICK keys : keys = AllKeys
  OBVIOUS
<1>2. Accepts(keys)
  BY <1>1 DEF CommandsSound, Standing, Dispatched
<1>3. TasksIn(tasks) /\ Len(tasks) \in Nat
  BY DEF TasksSound, TasksIn, IsSequence
<1>4. keys = [k \in 1..Len(tasks) |-> tasks[k].key]
  BY <1>1 DEF AllKeys
<1>5. keys = [k \in 1..Len(tasks) |-> keys[k]] /\ \A k \in 1..Len(tasks) : keys[k] = tasks[k].key
  BY <1>4
<1>6. IsSequence(keys) /\ Len(keys) = Len(tasks)
  BY <1>3, <1>5, ListIs
<1>7. \A k \in 1..Len(keys) : IsCommand(keys[k])
  BY <1>3, <1>5, <1>6 DEF TasksIn, IsTask
<1>8. i \in 1..Len(keys) /\ j \in 1..Len(keys)
  BY <1>6
<1>9. /\ i # j => ~IsPrefix(keys[i], keys[j])
      /\ Len(keys[i]) = 1 => keys[i][1] \notin Reserved \cup Builtin
  BY <1>2, <1>6, <1>7, <1>8, AcceptedAreApart
<1> QED BY <1>5, <1>9

\* In every run of every program that gets as far as a command line no command hides
\* another: none begins with another one, and none has the name of a built-in one.
THEOREM CommandsAreUnique == Spec => []OneTaskPerCommand
<1>1. Init => FoundInv /\ CommandsSound
  BY FoundStarts, CommandsStarts
<1>2. FoundInv /\ CommandsSound /\ [Next]_vars => (FoundInv /\ CommandsSound)'
  BY FoundStep, CommandsStep DEF FoundInv
<1>3. FoundInv /\ CommandsSound => OneTaskPerCommand
  BY CommandsSay DEF FoundInv
<1> QED BY <1>1, <1>2, <1>3, PTL DEF Spec
=============================================================================
