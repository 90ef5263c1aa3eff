--------------------------- MODULE ExporterProofs ---------------------------
(***************************************************************************)
(* What TLAPS proves of the process for any set of collectors, command     *)
(* lines of any length, any addresses and any hardware: see README.md.     *)
(***************************************************************************)
EXTENDS Exporter, WellFoundedInduction, FiniteSetTheorems, SequenceTheorems, TLAPS

-----------------------------------------------------------------------------
(* Induction on the length of a command line: a set of numbers has a least *)
(* member, so what fails somewhere fails for the first time somewhere.     *)

(* The order of the numbers is contained in a well-founded relation.       *)
LEMMA Descending ==
    \E R : IsWellFoundedOn(R, Nat) /\ \A a, b \in Nat : a < b => <<a, b>> \in R
<1> DEFINE R == OpToRel(<, Nat)
<1>1. IsWellFoundedOn(R, Nat)
  BY NatLessThanWellFounded
<1>2. \A a, b \in Nat : a < b => <<a, b>> \in R
  BY DEF OpToRel
<1> HIDE DEF R
<1>3. QED
  BY <1>1, <1>2

(* Every set of numbers that is not empty has a least member.              *)
LEMMA First ==
    ASSUME NEW S \in SUBSET Nat, S # {}
    PROVE  \E m \in S : \A k \in S : m <= k
<1>1. PICK R : IsWellFoundedOn(R, Nat) /\ \A a, b \in Nat : a < b => <<a, b>> \in R
  BY Descending
<1>2. IsWellFoundedOn(R, Nat) /\ S \subseteq Nat
  BY <1>1
<1>3. PICK m \in S : \A k \in S : ~(<<k, m>> \in R)
  BY <1>2, WFMin, Zenon
<1>4. \A k \in S : ~(k < m)
  BY <1>1, <1>3
<1>5. QED
  BY <1>4

-----------------------------------------------------------------------------
(* The command line.                                                       *)

Toggling(args, k, f) ==
    f = [i \in 0 .. k |-> IF i = 0 THEN [n \in Names |-> n \in Defaults]
                          ELSE [f[i - 1] EXCEPT ![args[i].name] = args[i].on]]

(* The states the toggles go through, however many there are.              *)
LEMMA TogglingExists ==
    ASSUME NEW args, NEW k \in Nat
    PROVE  \E f : Toggling(args, k, f)
<1> DEFINE S == {m \in Nat : ~\E f : Toggling(args, m, f)}
<1> DEFINE start == [n \in Names |-> n \in Defaults]
<1> DEFINE after(s, i) == [s EXCEPT ![args[i].name] = args[i].on]
<1> SUFFICES ASSUME S # {} PROVE FALSE
  OBVIOUS
<1>1. PICK m \in S : \A i \in S : m <= i
  BY First
<1> HIDE DEF start, after
<1>2. \A j \in Nat : \A f : Toggling(args, j, f) <=>
          f = [i \in 0 .. j |-> IF i = 0 THEN start ELSE after(f[i - 1], i)]
  BY DEF Toggling, start, after
<1>3. m # 0
  <2>1. [i \in 0 .. 0 |-> start] =
            [i \in 0 .. 0 |-> IF i = 0 THEN start ELSE after([j \in 0 .. 0 |-> start][i - 1], i)]
    OBVIOUS
  <2>2. QED
    BY <1>1, <1>2, <2>1
<1>4. PICK f : Toggling(args, m - 1, f)
  BY <1>1, <1>3
<1>5. f = [i \in 0 .. m - 1 |-> IF i = 0 THEN start ELSE after(f[i - 1], i)]
  BY <1>1, <1>2, <1>3, <1>4
<1> DEFINE g == [i \in 0 .. m |-> IF i < m THEN f[i] ELSE after(f[m - 1], m)]
<1>6. ASSUME NEW i \in 0 .. m
      PROVE  g[i] = IF i = 0 THEN start ELSE after(g[i - 1], i)
  BY <1>3, <1>5
<1>7. Toggling(args, m, g)
  <2> DEFINE rhs == [i \in 0 .. m |-> IF i = 0 THEN start ELSE after(g[i - 1], i)]
  <2>1. g = [i \in 0 .. m |-> g[i]]
    OBVIOUS
  <2> HIDE DEF g
  <2>2. g = rhs
    BY <1>6, <2>1
  <2>3. QED
    BY <1>2, <2>2
<1>8. QED
  BY <1>1, <1>7

(* What the first k toggles say of the collector n: the last of its own,   *)
(* or the default.                                                         *)
Given(args, k, n) == {i \in 1 .. k : args[i].name = n}

Says(args, k, n) ==
    IF Given(args, k, n) = {} THEN n \in Defaults
    ELSE \A i \in Given(args, k, n) : args[i].on \/ \E j \in Given(args, k, n) : j > i

(* One toggle more.                                                        *)
LEMMA SaysNext ==
    ASSUME NEW args, NEW k \in Nat, NEW n, args[k + 1].on \in BOOLEAN
    PROVE  Says(args, k + 1, n) <=> IF args[k + 1].name = n THEN args[k + 1].on
                                    ELSE Says(args, k, n)
<1>1. CASE args[k + 1].name = n
  <2>1. k + 1 \in Given(args, k + 1, n) /\ \A i \in Given(args, k + 1, n) : i <= k + 1
    BY <1>1 DEF Given
  <2>2. QED
    BY <1>1, <2>1 DEF Says, Given
<1>2. CASE args[k + 1].name # n
  <2>1. Given(args, k + 1, n) = Given(args, k, n)
    BY <1>2 DEF Given
  <2>2. QED
    BY <1>2, <2>1 DEF Says
<1>3. QED
  BY <1>1, <1>2

(* The state a command line leaves: for each collector its last toggle, or *)
(* the default.                                                            *)
LEMMA ToggledSays ==
    ASSUME NEW args \in Seq([name : Names, on : BOOLEAN])
    PROVE  /\ Toggled(args) \in [Names -> BOOLEAN]
           /\ \A n \in Names : Toggled(args)[n] <=> Says(args, Len(args), n)
<1>1. /\ Len(args) \in Nat
      /\ \A i \in 1 .. Len(args) : args[i].name \in Names /\ args[i].on \in BOOLEAN
  <2> DEFINE T == [name : Names, on : BOOLEAN]
  <2>1. \A t \in T : t.name \in Names /\ t.on \in BOOLEAN
    OBVIOUS
  <2>2. args \in Seq(T)
    OBVIOUS
  <2> HIDE DEF T
  <2>3. Len(args) \in Nat /\ \A i \in 1 .. Len(args) : args[i] \in T
    BY <2>2
  <2>4. QED
    BY <2>1, <2>3
<1> DEFINE f == CHOOSE g : Toggling(args, Len(args), g)
<1>2. Toggling(args, Len(args), f)
  BY <1>1, TogglingExists
<1>3. Toggled(args) = f[Len(args)]
  BY DEF Toggled, Toggling
<1> HIDE DEF f
<1>4. /\ f[0] = [n \in Names |-> n \in Defaults]
      /\ \A i \in 1 .. Len(args) : f[i] = [f[i - 1] EXCEPT ![args[i].name] = args[i].on]
  <2> DEFINE start == [n \in Names |-> n \in Defaults]
  <2> DEFINE after(s, i) == [s EXCEPT ![args[i].name] = args[i].on]
  <2>1. f = [i \in 0 .. Len(args) |-> IF i = 0 THEN start ELSE after(f[i - 1], i)]
    BY <1>2 DEF Toggling
  <2> HIDE DEF start, after
  <2>2. f[0] = start /\ \A i \in 1 .. Len(args) : f[i] = after(f[i - 1], i)
    BY <1>1, <2>1
  <2>3. QED
    BY <2>2 DEF start, after
<1> DEFINE Right(i) == /\ f[i] \in [Names -> BOOLEAN]
                       /\ \A n \in Names : f[i][n] <=> Says(args, i, n)
<1> DEFINE S == {i \in Nat : i <= Len(args) /\ ~Right(i)}
<1>5. S = {}
  <2> SUFFICES ASSUME S # {} PROVE FALSE
    OBVIOUS
  <2>1. PICK m \in S : \A i \in S : m <= i
    BY First
  <2>2. Right(0)
    <3>1. \A n : Given(args, 0, n) = {}
      BY DEF Given
    <3>2. f[0] \in [Names -> BOOLEAN] /\ \A n \in Names : f[0][n] <=> n \in Defaults
      <4> DEFINE start == [n \in Names |-> n \in Defaults]
      <4>1. start \in [Names -> BOOLEAN]
        BY SMT
      <4>2. \A n \in Names : start[n] <=> n \in Defaults
        BY Zenon
      <4>3. QED
        BY <1>4, <4>1, <4>2, Zenon
    <3>3. QED
      BY <3>1, <3>2, Zenon DEF Says
  <2>3. m # 0
    BY <2>1, <2>2
  <2>4. PICK k \in Nat : m = k + 1
    <3>1. m \in Nat
      BY <2>1
    <3> HIDE DEF S
    <3>2. QED
      BY <2>3, <3>1
  <2>5. Right(k) /\ k + 1 \in 1 .. Len(args)
    BY <1>1, <2>1, <2>4
  <2>6. f[k + 1] = [f[k] EXCEPT ![args[k + 1].name] = args[k + 1].on]
    BY <1>4, <2>4, <2>5
  <2>7. args[k + 1].name \in Names /\ args[k + 1].on \in BOOLEAN
    BY <1>1, <2>5
  <2>8. f[k + 1] \in [Names -> BOOLEAN]
    BY <2>5, <2>6, <2>7
  <2>9. ASSUME NEW n \in Names
        PROVE  f[k + 1][n] <=> Says(args, k + 1, n)
    <3>1. f[k + 1][n] = IF args[k + 1].name = n THEN args[k + 1].on ELSE f[k][n]
      BY <2>5, <2>6, <2>7
    <3>2. Says(args, k + 1, n) <=> IF args[k + 1].name = n THEN args[k + 1].on
                                   ELSE Says(args, k, n)
      BY <2>7, SaysNext
    <3>3. f[k][n] <=> Says(args, k, n)
      BY <2>5
    <3>4. QED
      BY <3>1, <3>2, <3>3
  <2>10. QED
    BY <2>1, <2>4, <2>8, <2>9
<1>6. Right(Len(args))
  BY <1>1, <1>5
<1>7. QED
  BY <1>3, <1>6

-----------------------------------------------------------------------------
(* The routes.                                                             *)

(* A list without repetitions has as many members as entries.              *)
LEMMA Distinct ==
    ASSUME NEW s, NEW n \in Nat, DOMAIN s = 1 .. n,
           \A i, j \in 1 .. n : s[i] = s[j] => i = j
    PROVE  Cardinality({s[i] : i \in DOMAIN s}) = n
<1> DEFINE T == {s[i] : i \in 1 .. n}
<1> DEFINE f == [i \in 1 .. n |-> s[i]]
<1>1. f \in Bijection(1 .. n, T)
  BY DEF Bijection, Injection, Surjection, IsInjective
<1>2. ExistsBijection(1 .. n, T)
  BY <1>1 DEF ExistsBijection
<1>3. Cardinality(T) = n
  BY <1>2, FS_CountingElements
<1>4. QED
  BY <1>3

(* A first entry, then a list, then another one.                           *)
LEMMA Joined ==
    ASSUME NEW U, NEW a \in Seq(U), NEW b \in Seq(U), NEW c \in Seq(U)
    PROVE  /\ (a \o b) \o c \in Seq(U)
           /\ Len((a \o b) \o c) = Len(a) + Len(b) + Len(c)
           /\ \A i \in 1 .. Len(a) : ((a \o b) \o c)[i] = a[i]
           /\ \A i \in 1 .. Len(b) : ((a \o b) \o c)[i + Len(a)] = b[i]
           /\ \A i \in 1 .. Len(c) : ((a \o b) \o c)[i + Len(a) + Len(b)] = c[i]
  OBVIOUS

(* http.ServeMux takes every path that validateMetricsPath lets through,   *)
(* with the profiler and without.                                          *)
LEMMA NoPanic ==
    ASSUME NEW path, NEW pprof \in BOOLEAN, validateMetricsPath(path, pprof)
    PROVE  ~MuxPanics(Routes(path, pprof))
<1> DEFINE root == "/"
<1> DEFINE p == pprofRoutes
<1>1. /\ DOMAIN p = 1 .. 5 /\ Len(p) = 5
      /\ \A i, j \in 1 .. 5 : p[i] = p[j] => i = j
      /\ \A i \in 1 .. 5 : p[i] # root
  BY DEF pprofRoutes, pprofPrefix
<1>2. WellFormed(path) /\ WellFormed(root)
  BY RoutesAssumption DEF validateMetricsPath, WellFormed
<1>3. \A i \in 1 .. 5 : WellFormed(p[i]) /\ (pprof => p[i] # path)
  BY <1>1, RoutesAssumption DEF validateMetricsPath
<1> DEFINE U == {path, root} \cup {p[i] : i \in 1 .. 5}
<1> DEFINE b == IF pprof THEN p ELSE <<>>
<1> DEFINE c == IF path # root THEN <<root>> ELSE <<>>
<1>4. p \in Seq(U)
  BY DEF pprofRoutes
<1>5. Routes(path, pprof) = (<<path>> \o b) \o c
  BY DEF Routes
<1> HIDE DEF p, root
<1>6. path \in U /\ root \in U
  OBVIOUS
<1> HIDE DEF U
<1>7. /\ b \in Seq(U) /\ Len(b) = IF pprof THEN 5 ELSE 0
      /\ \A i \in 1 .. Len(b) : pprof /\ i \in 1 .. 5 /\ b[i] = p[i]
  <2>1. CASE pprof
    BY <1>1, <1>4, <2>1
  <2>2. CASE ~pprof
    BY <2>2
  <2>3. QED
    BY <2>1, <2>2
<1>8. /\ c \in Seq(U) /\ Len(c) = IF path # root THEN 1 ELSE 0
      /\ \A i \in 1 .. Len(c) : path # root /\ i = 1 /\ c[i] = root
  <2>1. CASE path = root
    BY <2>1
  <2>2. CASE path # root
    BY <1>6, <2>2
  <2>3. QED
    BY <2>1, <2>2
<1> HIDE DEF b, c
<1>s. PICK a : a = <<path>>
  OBVIOUS
<1>a. a \in Seq(U) /\ Len(a) = 1 /\ a[1] = path
  BY <1>s, <1>6
<1> DEFINE s == (a \o b) \o c
<1>9. /\ s \in Seq(U) /\ Len(s) = 1 + Len(b) + Len(c)
      /\ s[1] = path
      /\ \A i \in 1 .. Len(b) : s[i + 1] = b[i]
      /\ \A i \in 1 .. Len(c) : s[i + 1 + Len(b)] = c[i]
  <2>1. PICK V, y, z : V = U /\ y = b /\ z = c
    OBVIOUS
  <2>2. a \in Seq(V) /\ y \in Seq(V) /\ z \in Seq(V)
    BY <1>a, <1>7, <1>8, <2>1
  <2>3. /\ (a \o y) \o z \in Seq(V) /\ Len((a \o y) \o z) = Len(a) + Len(y) + Len(z)
        /\ \A i \in 1 .. Len(a) : ((a \o y) \o z)[i] = a[i]
        /\ \A i \in 1 .. Len(y) : ((a \o y) \o z)[i + Len(a)] = y[i]
        /\ \A i \in 1 .. Len(z) : ((a \o y) \o z)[i + Len(a) + Len(y)] = z[i]
    BY ONLY <2>2, Joined
  <2>4. /\ s \in Seq(U) /\ Len(s) = Len(a) + Len(b) + Len(c)
        /\ \A i \in 1 .. Len(a) : s[i] = a[i]
        /\ \A i \in 1 .. Len(b) : s[i + Len(a)] = b[i]
        /\ \A i \in 1 .. Len(c) : s[i + Len(a) + Len(b)] = c[i]
    BY <2>1, <2>3, Zenon
  <2> HIDE DEF s
  <2>5. Len(b) \in Nat /\ Len(c) \in Nat
    BY <1>7, <1>8
  <2>6. QED
    BY <1>a, <2>4, <2>5
<1> HIDE DEF s
<1> DEFINE n == Len(s)
<1>10. n \in Nat /\ DOMAIN s = 1 .. n /\ Len(b) \in Nat /\ Len(c) \in Nat
  BY <1>7, <1>8, <1>9
<1>11. ASSUME NEW k \in 1 .. n
       PROVE  \/ k = 1 /\ s[k] = path
              \/ pprof /\ k \in 2 .. 6 /\ s[k] = p[k - 1]
              \/ path # root /\ k = n /\ s[k] = root
  <2>1. CASE k = 1
    BY <1>9, <2>1
  <2>2. CASE k \in 2 .. 1 + Len(b)
    <3>1. k - 1 \in 1 .. Len(b) /\ (k - 1) + 1 = k
      BY <1>10, <2>2
    <3>2. s[k] = b[k - 1]
      BY <1>9, <3>1
    <3>3. QED
      BY <1>7, <3>1, <3>2
  <2>3. CASE k \in 2 + Len(b) .. n
    <3>1. k - (1 + Len(b)) \in 1 .. Len(c) /\ (k - (1 + Len(b))) + 1 + Len(b) = k
      BY <1>9, <1>10, <2>3
    <3>2. s[k] = c[k - (1 + Len(b))]
      BY <1>9, <3>1
    <3>3. QED
      BY <1>8, <1>9, <1>10, <3>1, <3>2
  <2>4. k = 1 \/ k \in 2 .. 1 + Len(b) \/ k \in 2 + Len(b) .. n
    <3>1. n \in Nat /\ Len(b) \in Nat
      BY <1>10
    <3> HIDE DEF n
    <3>2. QED
      BY <3>1
  <2>5. QED
    BY <2>1, <2>2, <2>3, <2>4
<1> HIDE DEF n
<1>12. \A i \in 2 .. 6 : i - 1 \in 1 .. 5
  OBVIOUS
<1>13. \A i \in 1 .. n : WellFormed(s[i])
  BY <1>2, <1>3, <1>11, <1>12
<1>14. \A i, j \in 1 .. n : s[i] = s[j] => i = j
  <2>1. \A i, j \in 2 .. 6 : p[i - 1] = p[j - 1] => i = j
    BY <1>1
  <2>2. \A i \in 2 .. 6 : p[i - 1] # root /\ (pprof => p[i - 1] # path)
    BY <1>1, <1>3, <1>12
  <2>3. QED
    BY <1>11, <2>1, <2>2
<1>15. Cardinality({s[i] : i \in DOMAIN s}) = n
  BY <1>10, <1>14, Distinct
<1>16. ~MuxPanics(s)
  BY <1>10, <1>13, <1>15 DEF MuxPanics, n
<1>17. QED
  BY <1>s, <1>5, <1>16 DEF s

-----------------------------------------------------------------------------
(* Categories.                                                             *)

(* The first of the matching rows is one of them.                          *)
LEMMA FirstMatchIn ==
    ASSUME NEW T, NEW rows, DOMAIN rows \subseteq Nat, \A i \in DOMAIN rows : rows[i].type \in T,
           NEW matching \in SUBSET DOMAIN rows, NEW default \in T
    PROVE  FirstMatch(rows, matching, default) \in T
<1>1. CASE matching = {}
  BY <1>1 DEF FirstMatch
<1>2. CASE matching # {}
  <2>1. \E m \in matching : \A k \in matching : m <= k
    BY <1>2, First
  <2>2. Min(matching) \in matching
    BY <2>1 DEF Min
  <2>3. QED
    BY <1>2, <2>2 DEF FirstMatch
<1>3. QED
  BY <1>1, <1>2

(* deviceTypeFor always gives a category, "unknown" if no table has one.   *)
LEMMA Categories ==
    /\ \A model, family : deviceTypeFor(model, family) \in DeviceTypes
    /\ Blank \notin DeviceTypes
<1>1. DOMAIN Models \subseteq Nat /\ \A i \in DOMAIN Models : Models[i].type \in DeviceTypes
  BY SMT DEF Models, Row, Strips, Hubs, LightStrips, Dimmers, Switches, Bulbs, Plugs,
             DeviceTypes
<1>2. DOMAIN Families \subseteq Nat /\ \A i \in DOMAIN Families : Families[i].type \in DeviceTypes
  BY SMT DEF Families, Row, DeviceTypes
<1>3. "unknown" \in DeviceTypes
  BY DEF DeviceTypes
<1>4. ASSUME NEW model, NEW family PROVE deviceTypeFor(model, family) \in DeviceTypes
  <2> DEFINE byModel == {i \in DOMAIN Models : \E q \in Models[i].words :
                                                   HasPrefix(Trimmed(model), q)}
  <2> DEFINE byFamily == {i \in DOMAIN Families : \E w \in Families[i].words :
                                                      HasWord(family, w)}
  <2>1. FirstMatch(Families, byFamily, "unknown") \in DeviceTypes
    BY <1>2, <1>3, FirstMatchIn
  <2>2. FirstMatch(Models, byModel, FirstMatch(Families, byFamily, "unknown")) \in DeviceTypes
    BY <1>1, <2>1, FirstMatchIn
  <2>3. QED
    BY <2>2, Zenon DEF deviceTypeFor
<1>5. Blank \notin DeviceTypes
  BY Zenon DEF Blank, DeviceTypes
<1>6. QED
  BY <1>4, <1>5

-----------------------------------------------------------------------------
(* The invariant.                                                          *)

Asked(n) == Says(cmd.args, Len(cmd.args), n)

(* What the command line has come to while run still acts on it.           *)
StartInv ==
    /\ pc # "panicked"
    /\ \A i \in DOMAIN settings.address : settings.address[i] \in Hosts \cup {Blank}
    /\ pc \in {"parsed", "running", "handler"} =>
           /\ cmd.args \in Seq([name : Names, on : BOOLEAN])
           /\ forcedCollectors = MarkForcedCollectors(cmd.args)
           /\ settings.discovery \/ cmd.flag = "off" \/ (cmd.flag = "absent" /\ cmd.env = "false")
    /\ pc = "parsed" => \A n \in Names : collectorState[n] <=> Asked(n)
    /\ pc \in {"running", "handler"} =>
           \A n \in Names : collectorState[n] <=>
                                (Asked(n) /\ (cmd.disableDefaults => n \in forcedCollectors))
    /\ pc = "handler" => enabledCollectors = {n \in Names : collectorState[n]}

(* How far the collectors are is how far the registry is: nobody reads     *)
(* before registryOnce is done, and one goroutine at most builds.          *)
OnceInv ==
    /\ registry.built \in {0, 1}
    /\ DOMAIN outcome = DOMAIN gor
    /\ DOMAIN seen = DOMAIN gor
    /\ pc # "serving" => DOMAIN gor = {}
    /\ once # "done" => registry.built = 0 /\ \A c \in DOMAIN gor : gor[c] \in {"ask", "build"}
    /\ once # "running" => \A c \in DOMAIN gor : gor[c] # "build"
    /\ \A c, d \in DOMAIN gor : gor[c] = "build" /\ gor[d] = "build" => c = d
    /\ \A c \in DOMAIN gor : gor[c] # "done" => outcome[c] = "none"

(* A reading of h carries what the device remembers of it.                 *)
FleetInv ==
    /\ registry.built = 0 => device = Nothing /\ hardware = Nothing /\ latest = {}
    /\ \A h \in DOMAIN hardware : hardware[h] \in Hardware
    /\ DOMAIN device \subseteq DOMAIN hardware
    /\ \A a, b \in latest : a = b
    /\ \A results \in latest :
           /\ DOMAIN results = DOMAIN device
           /\ \A h \in DOMAIN results : \A r \in results[h].reading :
                  /\ r.host = h
                  /\ r.type = device[h].type /\ r.type # Blank
                  /\ r.alias # Blank => device[h].alias = r.alias

IndInv == TypeOK /\ StartInv /\ OnceInv /\ OneRegistry /\ FleetInv

(* The process begins so.                                                  *)
LEMMA InitInd == Init => IndInv
<1> SUFFICES ASSUME Init PROVE IndInv
  OBVIOUS
<1> USE ExporterAssumption
<1>1. TypeOK
  <2>1. [n \in Names |-> n \in Defaults] \in [Names -> BOOLEAN]
    BY SMT
  <2>2. collectorState \in [Names -> BOOLEAN]
    BY <2>1, Zenon DEF Init
  <2>3. QED
    BY <2>2 DEF Init, TypeOK, NoRegistry, Nothing
<1>2. StartInv
  BY DEF Init, StartInv, NoSettings
<1>3. OnceInv /\ OneRegistry
  BY DEF Init, OnceInv, OneRegistry, NoRegistry, Nothing
<1>4. FleetInv
  BY DEF Init, FleetInv, Nothing, NoRegistry
<1>5. QED
  BY <1>1, <1>2, <1>3, <1>4 DEF IndInv

-----------------------------------------------------------------------------
(* The start of the process.                                               *)

(* The flags that parse.                                                   *)
LEMMA Parsed ==
    ASSUME NEW args \in Args, Registered(args)
    PROVE  args \in Seq([name : Names, on : BOOLEAN])
<1> DEFINE T == [name : Names, on : BOOLEAN]
<1>1. PICK n \in 0 .. MaxArgs : args \in [1 .. n -> [name : Names \cup {"unknown"}, on : BOOLEAN]]
  BY DEF Args
<1>2. \A i \in 1 .. n : args[i] \in T
  BY <1>1 DEF Registered
<1> HIDE DEF T
<1>3. n \in Nat /\ args \in [1 .. n -> T]
  BY <1>1, <1>2, ExporterAssumption
<1>4. args \in Seq(T)
  BY <1>3
<1>5. QED
  BY <1>4 DEF T

(* parseFlags keeps the invariant.                                         *)
LEMMA StepParse == IndInv /\ parseFlags => IndInv'
<1> SUFFICES ASSUME IndInv, parseFlags PROVE IndInv'
  OBVIOUS
<1>1. PICK args \in Args, disableDefaults \in BOOLEAN, s \in Settings,
           flag \in {"absent", "on", "off"}, env \in {"unset", "empty", "true", "false"} :
           /\ Registered(args)
           /\ cmd' = [args |-> args, disableDefaults |-> disableDefaults, flag |-> flag,
                      env |-> env]
           /\ collectorState' = Toggled(args)
           /\ forcedCollectors' = MarkForcedCollectors(args)
           /\ settings' = [address |-> s.address, concurrency |-> s.concurrency,
                           packets |-> s.packets, timeout |-> s.timeout,
                           discovery |-> Discovery(flag, env)]
  BY DEF parseFlags
<1>2. /\ pc = "start" /\ pc' = "parsed"
      /\ UNCHANGED <<enabledCollectors, once, registry, scrapeVars, fleetVars>>
  BY DEF parseFlags
<1>3. args \in Seq([name : Names, on : BOOLEAN])
  BY <1>1, Parsed
<1>4. /\ collectorState' \in [Names -> BOOLEAN]
      /\ \A n \in Names : collectorState'[n] <=> Says(args, Len(args), n)
  BY <1>1, <1>3, ToggledSays
<1>5. forcedCollectors' \subseteq Names
  BY <1>1 DEF MarkForcedCollectors, Registered
<1>6. cmd'.args = args /\ cmd'.flag = flag /\ cmd'.env = env
  BY <1>1
<1>7. settings'.discovery = Discovery(flag, env) /\ settings'.address = s.address
  BY <1>1
<1>8. Discovery(flag, env) \/ flag = "off" \/ (flag = "absent" /\ env = "false")
  BY <1>1 DEF Discovery
<1>9. TypeOK'
  BY <1>2, <1>4, <1>5 DEF IndInv, TypeOK, scrapeVars, fleetVars
<1>10. StartInv'
  <2>1. \A n \in Names : collectorState'[n] <=> Asked(n)'
    BY <1>4, <1>6 DEF Asked
  <2>2. \A i \in DOMAIN settings'.address : settings'.address[i] \in Hosts \cup {Blank}
    BY <1>7, ExporterAssumption
  <2>3. QED
    BY <1>1, <1>2, <1>3, <1>6, <1>7, <1>8, <2>1, <2>2 DEF StartInv
<1>11. OnceInv' /\ OneRegistry'
  BY <1>2 DEF IndInv, OnceInv, OneRegistry, scrapeVars
<1>12. FleetInv'
  BY <1>2 DEF IndInv, FleetInv, fleetVars
<1>13. QED
  BY <1>9, <1>10, <1>11, <1>12 DEF IndInv

(* parseFails keeps the invariant: nothing but pc changes.                 *)
LEMMA StepFails == IndInv /\ parseFails => IndInv'
  BY DEF IndInv, TypeOK, StartInv, Asked, OnceInv, OneRegistry, FleetInv, parseFails,
         startVars, configVars, scrapeVars, fleetVars

(* DisableDefaultCollectors keeps the invariant.                           *)
LEMMA StepDisable == IndInv /\ DisableDefaultCollectors => IndInv'
<1> SUFFICES ASSUME IndInv, DisableDefaultCollectors PROVE IndInv'
  OBVIOUS
<1> USE DEF IndInv
<1>1. /\ pc = "parsed" /\ pc' = "running"
      /\ UNCHANGED <<cmd, forcedCollectors, enabledCollectors, configVars, scrapeVars, fleetVars>>
  BY DEF DisableDefaultCollectors
<1>2. /\ collectorState' \in [Names -> BOOLEAN]
      /\ \A n \in Names : collectorState'[n] <=>
             (collectorState[n] /\ (cmd.disableDefaults => n \in forcedCollectors))
  <2> DEFINE forced == [n \in Names |-> collectorState[n] /\ n \in forcedCollectors]
  <2>1. CASE cmd.disableDefaults
    <3>1. collectorState' = forced
      BY <2>1 DEF DisableDefaultCollectors
    <3>2. forced \in [Names -> BOOLEAN]
      BY SMT
    <3>3. \A n \in Names : forced[n] <=> (collectorState[n] /\ n \in forcedCollectors)
      BY Zenon
    <3>4. QED
      BY <2>1, <3>1, <3>2, <3>3, Zenon
  <2>2. CASE ~cmd.disableDefaults
    <3>1. collectorState' = collectorState
      BY <2>2 DEF DisableDefaultCollectors
    <3>2. collectorState \in [Names -> BOOLEAN]
      BY DEF TypeOK
    <3>3. QED
      BY <2>2, <3>1, <3>2, Zenon
  <2>3. QED
    BY <2>1, <2>2
<1>3. TypeOK'
  BY <1>1, <1>2 DEF TypeOK, configVars, scrapeVars, fleetVars
<1>4. StartInv'
  <2>1. \A n \in Names : Asked(n)' <=> Asked(n)
    BY <1>1 DEF Asked
  <2>2. \A n \in Names : collectorState[n] <=> Asked(n)
    BY <1>1 DEF StartInv
  <2>3. \A n \in Names : collectorState'[n] <=>
            (Asked(n)' /\ (cmd'.disableDefaults => n \in forcedCollectors'))
    BY <1>1, <1>2, <2>1, <2>2
  <2>4. QED
    BY <1>1, <2>3 DEF StartInv, configVars
<1>5. OnceInv' /\ OneRegistry'
  BY <1>1 DEF OnceInv, OneRegistry, configVars, scrapeVars
<1>6. FleetInv'
  BY <1>1 DEF FleetInv, configVars, fleetVars
<1>7. QED
  BY <1>3, <1>4, <1>5, <1>6

(* newHandler keeps the invariant.                                         *)
LEMMA StepHandler == IndInv /\ newHandler => IndInv'
<1> SUFFICES ASSUME IndInv, newHandler PROVE IndInv'
  OBVIOUS
<1> USE DEF IndInv
<1>1. /\ pc = "running" /\ pc' = "handler"
      /\ enabledCollectors' = {n \in Names : collectorState[n]}
      /\ UNCHANGED <<cmd, collectorState, forcedCollectors, configVars, scrapeVars, fleetVars>>
  BY DEF newHandler
<1>2. DOMAIN gor = {}
  BY <1>1 DEF OnceInv
<1>3. TypeOK'
  BY <1>1, <1>2 DEF TypeOK, configVars, scrapeVars, fleetVars
<1>4. StartInv'
  BY <1>1 DEF StartInv, Asked, configVars
<1>5. OnceInv' /\ OneRegistry'
  BY <1>1 DEF OnceInv, OneRegistry, configVars, scrapeVars
<1>6. FleetInv'
  BY <1>1 DEF FleetInv, configVars, fleetVars
<1>7. QED
  BY <1>3, <1>4, <1>5, <1>6

(* buildMux keeps the invariant: it does not panic.                        *)
LEMMA StepMux ==
    ASSUME NEW path, NEW pprof \in BOOLEAN
    PROVE  IndInv /\ buildMux(path, pprof) => IndInv'
<1> SUFFICES ASSUME IndInv, buildMux(path, pprof) PROVE IndInv'
  OBVIOUS
<1> USE DEF IndInv
<1>1. /\ pc = "handler" /\ forcedCollectors' = {}
      /\ UNCHANGED <<collectorState, enabledCollectors, configVars, scrapeVars, fleetVars>>
  BY DEF buildMux
<1>2. pc' \in {"exited", "serving"}
  BY NoPanic DEF buildMux
<1>3. DOMAIN gor = {}
  BY <1>1 DEF OnceInv
<1>4. TypeOK'
  BY <1>1, <1>2 DEF TypeOK, configVars, scrapeVars, fleetVars
<1>5. StartInv'
  BY <1>1, <1>2 DEF StartInv, configVars
<1>6. OnceInv' /\ OneRegistry'
  BY <1>1, <1>2, <1>3 DEF OnceInv, OneRegistry, configVars, scrapeVars
<1>7. FleetInv'
  BY <1>1 DEF FleetInv, configVars, fleetVars
<1>8. QED
  BY <1>4, <1>5, <1>6, <1>7

-----------------------------------------------------------------------------
(* A scrape.                                                               *)

(* The steps of a scrape leave the command line alone.                     *)
LEMMA StartKept ==
    StartInv /\ UNCHANGED <<pc, cmd, collectorState, forcedCollectors, enabledCollectors, settings>>
        => StartInv'
  BY DEF StartInv, Asked

(* Collect keeps the invariant.                                            *)
LEMMA StepCollect == IndInv /\ Collect => IndInv'
<1> SUFFICES ASSUME IndInv, Collect PROVE IndInv'
  OBVIOUS
<1> USE DEF IndInv
<1>1. /\ pc = "serving" /\ rounds' = 0
      /\ gor' = [c \in enabledCollectors |-> "ask"]
      /\ outcome' = [c \in enabledCollectors |-> "none"]
      /\ seen' = [c \in enabledCollectors |-> Nothing]
      /\ UNCHANGED <<pc, startVars, configVars, fleetVars>>
  BY DEF Collect
<1>2. TypeOK'
  BY <1>1, ExporterAssumption DEF TypeOK, startVars, configVars, fleetVars
<1>3. StartInv'
  BY <1>1, StartKept DEF startVars, configVars
<1>4. OnceInv' /\ OneRegistry'
  BY <1>1 DEF OnceInv, OneRegistry, configVars
<1>5. FleetInv'
  BY <1>1 DEF FleetInv, configVars, fleetVars
<1>6. QED
  BY <1>2, <1>3, <1>4, <1>5

(* OnceFirst keeps the invariant: the first to ask is the one that builds. *)
LEMMA StepFirst == ASSUME NEW c PROVE IndInv /\ OnceFirst(c) => IndInv'
<1> SUFFICES ASSUME IndInv, OnceFirst(c) PROVE IndInv'
  OBVIOUS
<1> USE DEF IndInv
<1>1. /\ c \in DOMAIN gor /\ gor[c] = "ask" /\ once = "unset" /\ once' = "running"
      /\ gor' = [gor EXCEPT ![c] = "build"]
      /\ UNCHANGED <<pc, startVars, settings, registry, outcome, seen, rounds, fleetVars>>
  BY DEF OnceFirst
<1>2. DOMAIN gor' = DOMAIN gor /\ \A d \in DOMAIN gor : gor'[d] = IF d = c THEN "build" ELSE gor[d]
  BY <1>1
<1>3. TypeOK'
  BY <1>1, <1>2 DEF TypeOK, startVars, fleetVars
<1>4. StartInv'
  BY <1>1, StartKept DEF startVars
<1>5. OnceInv' /\ OneRegistry'
  BY <1>1, <1>2 DEF OnceInv, OneRegistry
<1>6. FleetInv'
  BY <1>1 DEF FleetInv, fleetVars
<1>7. QED
  BY <1>3, <1>4, <1>5, <1>6

(* buildRegistry keeps the invariant: it runs once, before any reading.    *)
LEMMA StepBuild == ASSUME NEW c PROVE IndInv /\ buildRegistry(c) => IndInv'
<1> SUFFICES ASSUME IndInv, buildRegistry(c) PROVE IndInv'
  OBVIOUS
<1> USE DEF IndInv
<1>1. /\ c \in DOMAIN gor /\ gor[c] = "build" /\ once' = "done"
      /\ gor' = [gor EXCEPT ![c] = "read"]
      /\ UNCHANGED <<pc, startVars, settings, outcome, seen, rounds, latest>>
  BY DEF buildRegistry
<1>2. DOMAIN gor' = DOMAIN gor /\ \A d \in DOMAIN gor : gor'[d] = IF d = c THEN "read" ELSE gor[d]
  BY <1>1
<1>3. once = "running" /\ registry.built = 0 /\ \A d \in DOMAIN gor : outcome[d] = "none"
  BY <1>1 DEF OnceInv, TypeOK
<1>4. /\ device = Nothing /\ hardware = Nothing /\ latest = {}
  BY <1>3 DEF FleetInv
<1> DEFINE hosts == parseHosts(settings.address)
<1>5. hosts \subseteq Hosts
  BY DEF StartInv, parseHosts
<1>6. \/ /\ registry' = [built |-> 1, hosts |-> hosts, discovery |-> settings.discovery]
         /\ device' = [h \in hosts |-> NewDevice(Blank)]
         /\ hardware' \in [hosts -> Hardware]
      \/ UNCHANGED <<registry, device, hardware>>
  BY <1>3 DEF buildRegistry
<1> HIDE DEF hosts
<1>7. /\ registry'.built \in {0, 1} /\ registry'.hosts \subseteq Hosts
      /\ DOMAIN device' \subseteq Hosts
      /\ \A h \in DOMAIN device' : device'[h] = NewDevice(Blank)
      /\ DOMAIN device' \subseteq DOMAIN hardware'
      /\ \A h \in DOMAIN hardware' : hardware'[h] \in Hardware
      /\ registry'.built = 0 => device' = Nothing /\ hardware' = Nothing
  BY <1>3, <1>4, <1>5, <1>6 DEF TypeOK, Nothing
<1>8. NewDevice(Blank) \in [alias : Aliases, type : DeviceTypes \cup {Blank}]
  BY ExporterAssumption DEF NewDevice
<1>9. TypeOK'
  BY <1>1, <1>2, <1>7, <1>8 DEF TypeOK, startVars
<1>10. StartInv'
  BY <1>1, StartKept DEF startVars
<1>11. OnceInv' /\ OneRegistry'
  BY <1>1, <1>2, <1>3, <1>7 DEF OnceInv, OneRegistry
<1>12. FleetInv'
  BY <1>1, <1>4, <1>7 DEF FleetInv
<1>13. QED
  BY <1>9, <1>10, <1>11, <1>12

(* OnceDone keeps the invariant.                                           *)
LEMMA StepDone == ASSUME NEW c PROVE IndInv /\ OnceDone(c) => IndInv'
<1> SUFFICES ASSUME IndInv, OnceDone(c) PROVE IndInv'
  OBVIOUS
<1> USE DEF IndInv
<1>1. /\ c \in DOMAIN gor /\ gor[c] = "ask" /\ once = "done"
      /\ gor' = [gor EXCEPT ![c] = "read"]
      /\ UNCHANGED <<pc, startVars, configVars, outcome, seen, rounds, fleetVars>>
  BY DEF OnceDone
<1>2. DOMAIN gor' = DOMAIN gor /\ \A d \in DOMAIN gor : gor'[d] = IF d = c THEN "read" ELSE gor[d]
  BY <1>1
<1>3. TypeOK'
  BY <1>1, <1>2 DEF TypeOK, startVars, configVars, fleetVars
<1>4. StartInv'
  BY <1>1, StartKept DEF startVars, configVars
<1>5. OnceInv' /\ OneRegistry'
  BY <1>1, <1>2 DEF OnceInv, OneRegistry, configVars
<1>6. FleetInv'
  BY <1>1 DEF FleetInv, configVars, fleetVars
<1>7. QED
  BY <1>3, <1>4, <1>5, <1>6

(* A collector that has the registry, or its error, reports.               *)
LEMMA Reported ==
    ASSUME NEW c, NEW o \in {"ok", "nodata", "failed"}, IndInv,
           c \in DOMAIN gor, gor[c] = "read", gor' = [gor EXCEPT ![c] = "done"],
           outcome' = [outcome EXCEPT ![c] = o], o = "failed" <=> registry.built = 0,
           DOMAIN seen' = DOMAIN seen, UNCHANGED <<pc, once, registry>>
    PROVE  /\ OnceInv' /\ OneRegistry'
           /\ DOMAIN gor' = DOMAIN gor
           /\ \A d \in DOMAIN gor' : gor'[d] \in {"ask", "build", "read", "done"}
           /\ \A d \in DOMAIN outcome' : outcome'[d] \in {"none", "ok", "nodata", "failed"}
<1>1. /\ DOMAIN gor' = DOMAIN gor /\ DOMAIN outcome' = DOMAIN outcome
      /\ \A d \in DOMAIN gor : gor'[d] = IF d = c THEN "done" ELSE gor[d]
      /\ \A d \in DOMAIN outcome : outcome'[d] = IF d = c THEN o ELSE outcome[d]
  OBVIOUS
<1>2. once = "done"
  BY DEF IndInv, OnceInv, TypeOK
<1>3. QED
  BY <1>1, <1>2 DEF IndInv, TypeOK, OnceInv, OneRegistry

(* UpdateFails keeps the invariant.                                        *)
LEMMA StepUpdateFails == ASSUME NEW c PROVE IndInv /\ UpdateFails(c) => IndInv'
<1> SUFFICES ASSUME IndInv, UpdateFails(c) PROVE IndInv'
  OBVIOUS
<1>1. /\ c \in DOMAIN gor /\ gor[c] = "read" /\ registry.built = 0
      /\ gor' = [gor EXCEPT ![c] = "done"]
      /\ outcome' = [outcome EXCEPT ![c] = "failed"]
      /\ UNCHANGED <<pc, startVars, configVars, seen, rounds, fleetVars>>
  BY DEF UpdateFails
<1>2. /\ OnceInv' /\ OneRegistry'
      /\ DOMAIN gor' = DOMAIN gor
      /\ \A d \in DOMAIN gor' : gor'[d] \in {"ask", "build", "read", "done"}
      /\ \A d \in DOMAIN outcome' : outcome'[d] \in {"none", "ok", "nodata", "failed"}
  BY <1>1, Reported DEF configVars
<1>3. TypeOK'
  BY <1>1, <1>2 DEF IndInv, TypeOK, startVars, configVars, fleetVars
<1>4. StartInv'
  BY <1>1, StartKept DEF IndInv, startVars, configVars
<1>5. FleetInv'
  BY <1>1 DEF IndInv, FleetInv, configVars, fleetVars
<1>6. QED
  BY <1>2, <1>3, <1>4, <1>5 DEF IndInv

(* A collector that is given a snapshot reports.                           *)
LEMMA ReportedResults ==
    ASSUME NEW c, NEW results, IndInv, c \in DOMAIN gor, gor[c] = "read", registry.built # 0,
           Report(c, results), UNCHANGED <<pc, once, registry>>
    PROVE  /\ OnceInv' /\ OneRegistry'
           /\ DOMAIN gor' = DOMAIN gor
           /\ \A d \in DOMAIN gor' : gor'[d] \in {"ask", "build", "read", "done"}
           /\ \A d \in DOMAIN outcome' : outcome'[d] \in {"none", "ok", "nodata", "failed"}
<1>1. PICK o \in {"ok", "nodata"} : outcome' = [outcome EXCEPT ![c] = o]
  BY DEF Report
<1>2. DOMAIN seen' = DOMAIN seen /\ gor' = [gor EXCEPT ![c] = "done"]
  BY DEF Report
<1>3. o \in {"ok", "nodata", "failed"} /\ (o = "failed" <=> registry.built = 0)
  OBVIOUS
<1>4. QED
  BY <1>1, <1>2, <1>3, Reported

(* UpdateShared keeps the invariant.                                       *)
LEMMA StepShared == ASSUME NEW c PROVE IndInv /\ UpdateShared(c) => IndInv'
<1> SUFFICES ASSUME IndInv, UpdateShared(c) PROVE IndInv'
  OBVIOUS
<1>1. /\ c \in DOMAIN gor /\ gor[c] = "read" /\ registry.built # 0
      /\ UNCHANGED <<pc, startVars, configVars, rounds, fleetVars>>
  BY DEF UpdateShared
<1>2. PICK results \in latest : Report(c, results)
  BY DEF UpdateShared
<1>3. /\ OnceInv' /\ OneRegistry'
      /\ DOMAIN gor' = DOMAIN gor
      /\ \A d \in DOMAIN gor' : gor'[d] \in {"ask", "build", "read", "done"}
      /\ \A d \in DOMAIN outcome' : outcome'[d] \in {"none", "ok", "nodata", "failed"}
  BY <1>1, <1>2, ReportedResults DEF configVars
<1>4. TypeOK'
  BY <1>1, <1>3 DEF IndInv, TypeOK, startVars, configVars, fleetVars
<1>5. StartInv'
  BY <1>1, StartKept DEF IndInv, startVars, configVars
<1>6. FleetInv'
  BY <1>1 DEF IndInv, FleetInv, configVars, fleetVars
<1>7. QED
  BY <1>3, <1>4, <1>5, <1>6 DEF IndInv

-----------------------------------------------------------------------------
(* A round of reads.                                                       *)

Known == [alias : Aliases, type : DeviceTypes \cup {Blank}]
ReadingsOf(h, w, answer) == {ReadingOf(h, w, a) : a \in answer}
AfterRead(k, rs)         == IF rs = {} THEN k ELSE Remembered(k, TheReading(rs))

(* What every reading of the device w at h has, whatever it leaves out.    *)
IsReading(r, h, w) ==
    /\ r.host = h
    /\ r.parts = {} \/ r.parts = w.parts
    /\ r.type = TypeOf(w, r.parts)
    /\ "on" \in w.reports => "on" \in r.reports

(* The category of a device is one of the eight, with its children or      *)
(* without.                                                                *)
LEMMA TypesOf ==
    ASSUME NEW w \in Hardware, NEW parts
    PROVE  TypeOf(w, parts) \in DeviceTypes /\ TypeOf(w, parts) # Blank
<1>1. ByModel[w] \in DeviceTypes
  BY Categories DEF ByModel
<1>2. "strip" \in DeviceTypes
  BY DEF DeviceTypes
<1>3. TypeOf(w, parts) \in DeviceTypes
  BY <1>1, <1>2 DEF TypeOf
<1>4. QED
  BY <1>3, Categories

(* What a device answers makes a reading of it.                            *)
LEMMA OneReading ==
    ASSUME NEW h, NEW w, NEW a
    PROVE  IsReading(ReadingOf(h, w, a), h, w) /\ ReadingOf(h, w, a).alias = a.alias
<1>1. PICK parts : parts = PartsIn(w, a.gives)
  OBVIOUS
<1>2. parts = {} \/ parts = w.parts
  BY <1>1 DEF PartsIn
<1>3. "on" # "power_watts"
  OBVIOUS
<1>4. QED
  BY <1>1, <1>2, <1>3 DEF ReadingOf, IsReading

(* What a round makes of one device: h, known as k, is the device w.       *)
ReadMakes(h, w, k, rs, after) ==
    /\ after \in Known
    /\ rs = {} => after = k
    /\ \A r \in rs : /\ IsReading(r, h, w) /\ TheReading(rs) = r
                     /\ r.host = h
                     /\ r.type = after.type /\ r.type # Blank
                     /\ r.alias # Blank => after.alias = r.alias

(* Remembered does.                                                        *)
LEMMA OneRead ==
    ASSUME NEW h, NEW w, w \in Hardware, NEW answer, answer \in Answers, NEW k, k \in Known,
           NEW rs, rs = ReadingsOf(h, w, answer), NEW after, after = AfterRead(k, rs)
    PROVE  ReadMakes(h, w, k, rs, after)
<1> USE DEF ReadMakes
<1>1. CASE answer = {}
  <2>1. rs = {}
    BY <1>1 DEF ReadingsOf
  <2>2. QED
    BY <2>1 DEF AfterRead
<1>2. CASE answer # {}
  <2>a. PICK a : answer = {a} /\ a.alias \in Aliases
    BY <1>2 DEF Answers
  <2> DEFINE r == ReadingOf(h, w, a)
  <2>1. rs = {r}
    BY <2>a DEF ReadingsOf
  <2>2. IsReading(r, h, w) /\ r.alias = a.alias
    BY OneReading
  <2> HIDE DEF r
  <2>3. r.host = h /\ r.type \in DeviceTypes /\ r.type # Blank
    BY <2>2, TypesOf DEF IsReading
  <2>4. TheReading(rs) = r
    BY <2>1 DEF TheReading
  <2>5. after = Remembered(k, r)
    BY <2>1, <2>4 DEF AfterRead
  <2>6. k.alias \in Aliases
    BY DEF Known
  <2>7. after.type = r.type /\ (r.alias # Blank => after.alias = r.alias)
    BY <2>5 DEF Remembered
  <2>8. after \in Known
    BY <2>a, <2>2, <2>3, <2>5, <2>6 DEF Remembered, Known
  <2>9. QED
    BY <2>1, <2>2, <2>3, <2>4, <2>7, <2>8
<1>3. QED
  BY <1>1, <1>2

(* The fleet after a round, and the results.                               *)
RoundMakes(c, fleet, results) ==
    /\ latest' = {results} /\ Report(c, results)
    /\ DOMAIN results = fleet /\ DOMAIN device' = fleet
    /\ DOMAIN hardware' = fleet \cup DOMAIN hardware
    /\ \A h \in DOMAIN hardware : hardware'[h] = hardware[h]
    /\ \A h \in fleet \cup DOMAIN hardware : hardware'[h] \in Hardware
    /\ \A h \in fleet :
           /\ device'[h] \in Known
           /\ results[h] = ResultOf(h, device'[h], results[h].reading)
           /\ results[h].reading = {} /\ h \in DOMAIN device => device'[h] = device[h]
           /\ \A r \in results[h].reading :
                  /\ IsReading(r, h, hardware'[h])
                  /\ TheReading(results[h].reading) = r
                  /\ r.host = h
                  /\ r.type = device'[h].type /\ r.type # Blank
                  /\ r.alias # Blank => device'[h].alias = r.alias

(* readAll makes them.                                                     *)
LEMMA Round ==
    ASSUME NEW c, NEW fleet \in Fleets,
           NEW found \in [fleet \ DOMAIN device -> {NewDevice(a) : a \in Aliases}],
           NEW new \in [fleet \ DOMAIN hardware -> Hardware],
           NEW answer \in [fleet -> Answers],
           IndInv, ReadAll(c, fleet, found, new, answer)
    PROVE  \E results : RoundMakes(c, fleet, results)
<1> DEFINE known == [h \in fleet |-> IF h \in DOMAIN device THEN device[h] ELSE found[h]]
<1> DEFINE is == [h \in fleet \cup DOMAIN hardware |->
                     IF h \in DOMAIN hardware THEN hardware[h] ELSE new[h]]
<1> DEFINE reading == [h \in fleet |-> {ReadingOf(h, is[h], a) : a \in answer[h]}]
<1> DEFINE after == [h \in fleet |-> IF reading[h] = {} THEN known[h]
                                     ELSE Remembered(known[h], TheReading(reading[h]))]
<1> DEFINE results == [h \in fleet |-> ResultOf(h, after[h], reading[h])]
<1>1. hardware' = is /\ device' = after /\ latest' = {results} /\ Report(c, results)
  BY Zenon DEF ReadAll
<1>2. \A h \in fleet \cup DOMAIN hardware : is[h] \in Hardware
  BY DEF IndInv, FleetInv
<1>3. \A h \in fleet : known[h] \in Known
  <2>1. \A a \in Aliases : NewDevice(a) \in Known
    BY DEF NewDevice, Known
  <2> HIDE DEF is, reading
  <2>2. QED
    BY <2>1 DEF IndInv, TypeOK, Known
<1>4. \A h \in DOMAIN hardware : is[h] = hardware[h]
  OBVIOUS
<1>5. \A h \in DOMAIN device \cap fleet : known[h] = device[h]
  OBVIOUS
<1>6. DOMAIN is = fleet \cup DOMAIN hardware
  OBVIOUS
<1> HIDE DEF known, is
<1>7. ASSUME NEW h \in fleet
      PROVE  /\ after[h] \in Known
             /\ reading[h] = {} => after[h] = known[h]
             /\ \A r \in reading[h] : /\ IsReading(r, h, is[h])
                                      /\ TheReading(reading[h]) = r
                                      /\ r.host = h
                                      /\ r.type = after[h].type /\ r.type # Blank
                                      /\ r.alias # Blank => after[h].alias = r.alias
  <2>1. is[h] \in Hardware /\ answer[h] \in Answers
    BY <1>2
  <2>2. reading[h] = ReadingsOf(h, is[h], answer[h])
    BY DEF ReadingsOf
  <2> HIDE DEF reading
  <2>3. after[h] = AfterRead(known[h], reading[h])
    BY DEF AfterRead
  <2> HIDE DEF after
  <2>4. PICK w, a, k, rs, af : /\ w = is[h] /\ a = answer[h] /\ k = known[h]
                               /\ rs = reading[h] /\ af = after[h]
    OBVIOUS
  <2>5. /\ w \in Hardware /\ a \in Answers
        /\ k \in Known
        /\ rs = ReadingsOf(h, w, a) /\ af = AfterRead(k, rs)
    BY <1>3, <2>1, <2>2, <2>3, <2>4
  <2>6. ReadMakes(h, w, k, rs, af)
    BY ONLY <2>5, OneRead
  <2>7. QED
    BY <2>4, <2>6 DEF ReadMakes
<1>8. DOMAIN results = fleet /\ DOMAIN after = fleet
  OBVIOUS
<1> HIDE DEF reading, after
<1>9. \A h \in fleet : results[h] = ResultOf(h, after[h], reading[h])
  OBVIOUS
<1> HIDE DEF results
<1>10. \A h \in fleet : results[h].reading = reading[h]
  <2>1. \A h, k, rs : ResultOf(h, k, rs).reading = rs
    BY DEF ResultOf
  <2>2. QED
    BY <1>9, <2>1
<1>11. \A h \in fleet :
           /\ device'[h] \in Known
           /\ results[h] = ResultOf(h, device'[h], results[h].reading)
           /\ results[h].reading = {} /\ h \in DOMAIN device => device'[h] = device[h]
           /\ \A r \in results[h].reading :
                  /\ IsReading(r, h, hardware'[h])
                  /\ TheReading(results[h].reading) = r
                  /\ r.host = h
                  /\ r.type = device'[h].type /\ r.type # Blank
                  /\ r.alias # Blank => device'[h].alias = r.alias
  BY <1>1, <1>5, <1>7, <1>9, <1>10
<1>12. RoundMakes(c, fleet, results)
  BY <1>1, <1>2, <1>4, <1>6, <1>8, <1>11 DEF RoundMakes
<1>13. QED
  BY <1>12

(* UpdateRound keeps the invariant.                                        *)
LEMMA StepRound == ASSUME NEW c PROVE IndInv /\ UpdateRound(c) => IndInv'
<1> SUFFICES ASSUME IndInv, UpdateRound(c) PROVE IndInv'
  OBVIOUS
<1>1. /\ c \in DOMAIN gor /\ gor[c] = "read" /\ registry.built # 0
      /\ rounds < MaxRounds /\ rounds' = rounds + 1
      /\ UNCHANGED <<pc, startVars, configVars>>
  BY DEF UpdateRound
<1>a. PICK fleet \in Fleets : \E results : RoundMakes(c, fleet, results)
  BY Round DEF UpdateRound
<1>2. PICK results : RoundMakes(c, fleet, results)
  BY <1>a
<1>3. fleet \subseteq Hosts
  BY <1>a DEF Fleets
<1>4. /\ OnceInv' /\ OneRegistry'
      /\ DOMAIN gor' = DOMAIN gor
      /\ \A d \in DOMAIN gor' : gor'[d] \in {"ask", "build", "read", "done"}
      /\ \A d \in DOMAIN outcome' : outcome'[d] \in {"none", "ok", "nodata", "failed"}
  <2>1. Report(c, results)
    BY <1>2 DEF RoundMakes
  <2>2. QED
    BY <1>1, <2>1, ReportedResults DEF configVars
<1>5. TypeOK'
  <2>1. rounds' \in 0 .. MaxRounds
    BY <1>1, ExporterAssumption DEF IndInv, TypeOK
  <2>2. DOMAIN device' \subseteq Hosts /\ \A h \in DOMAIN device' : device'[h] \in Known
    BY <1>2, <1>3 DEF RoundMakes
  <2>3. QED
    BY <1>1, <1>4, <2>1, <2>2 DEF IndInv, TypeOK, Known, startVars, configVars
<1>6. StartInv'
  BY <1>1, StartKept DEF IndInv, startVars, configVars
<1>7. FleetInv'
  <2>1. registry'.built # 0
    BY <1>1 DEF configVars
  <2>2. \A h \in DOMAIN hardware' : hardware'[h] \in Hardware
    BY <1>2 DEF RoundMakes
  <2>3. DOMAIN device' \subseteq DOMAIN hardware'
    BY <1>2 DEF RoundMakes
  <2>4. \A a, b \in latest' : a = b
    BY <1>2 DEF RoundMakes
  <2>5. \A rs \in latest' :
            /\ DOMAIN rs = DOMAIN device'
            /\ \A h \in DOMAIN rs : \A r \in rs[h].reading :
                   /\ r.host = h
                   /\ r.type = device'[h].type /\ r.type # Blank
                   /\ r.alias # Blank => device'[h].alias = r.alias
    BY <1>2 DEF RoundMakes
  <2>6. QED
    BY <2>1, <2>2, <2>3, <2>4, <2>5 DEF FleetInv
<1>8. QED
  BY <1>4, <1>5, <1>6, <1>7 DEF IndInv

(* Every step keeps the invariant.                                         *)
LEMMA StepInd == IndInv /\ [Next]_vars => IndInv'
<1> SUFFICES ASSUME IndInv, [Next]_vars PROVE IndInv'
  OBVIOUS
<1>1. ASSUME NEW c \in Names,
             \/ OnceFirst(c) \/ buildRegistry(c) \/ OnceDone(c)
             \/ UpdateFails(c) \/ UpdateShared(c) \/ UpdateRound(c)
      PROVE  IndInv'
  BY <1>1, StepFirst, StepBuild, StepDone, StepUpdateFails, StepShared, StepRound
<1>2. ASSUME NEW path \in Paths, NEW pprof \in BOOLEAN, buildMux(path, pprof)
      PROVE  IndInv'
  BY <1>2, StepMux
<1>3. CASE UNCHANGED vars
  <2>1. UNCHANGED <<pc, startVars, configVars, scrapeVars, fleetVars>>
    BY <1>3 DEF vars
  <2>2. QED
    BY <2>1, StartKept DEF IndInv, TypeOK, OnceInv, OneRegistry, FleetInv, startVars, configVars,
                           scrapeVars, fleetVars
<1>4. QED
  BY <1>1, <1>2, <1>3, StepParse, StepFails, StepDisable, StepHandler, StepCollect DEF Next

(* The invariant holds in every state of the process.                      *)
LEMMA Invariant == Spec => []IndInv
<1>1. QED
  BY InitInd, StepInd, PTL DEF Spec

(* Every state of the process is well typed (the variables of              *)
(* kasa_exporter.go, collector.go and config/kasa.go).                     *)
THEOREM TypeCorrect == Spec => []TypeOK
<1>1. IndInv => TypeOK
  BY DEF IndInv
<1>2. QED
  BY <1>1, Invariant, PTL

(* Whatever the command line, as long as it may be: the enabled collectors *)
(* are the ones the last toggles ask for, discovery is off only if it was  *)
(* turned off, and no path makes http.ServeMux panic (MarkForcedCollectors,*)
(* DisableDefaultCollectors, validateMetricsPath).                         *)
THEOREM StartedAsAsked == Spec => []StartsAsAsked
<1>1. IndInv => StartsAsAsked
  <2> SUFFICES ASSUME IndInv PROVE StartsAsAsked
    OBVIOUS
  <2>1. pc # "panicked"
    BY DEF IndInv, StartInv
  <2>2. ASSUME pc = "handler"
        PROVE  /\ \A n \in Names :
                      LET given == {i \in DOMAIN cmd.args : cmd.args[i].name = n}
                      IN  n \in enabledCollectors <=>
                              IF given = {} THEN n \in Defaults /\ ~cmd.disableDefaults
                              ELSE \A i \in given : cmd.args[i].on \/ \E j \in given : j > i
               /\ settings.discovery \/ cmd.flag = "off"
                                     \/ (cmd.flag = "absent" /\ cmd.env = "false")
    <3>1. PICK args : args = cmd.args
      OBVIOUS
    <3>2. args \in Seq([name : Names, on : BOOLEAN])
      BY <2>2, <3>1 DEF IndInv, StartInv
    <3>3. DOMAIN args = 1 .. Len(args)
      BY <3>2
    <3>4. \A n \in Names : n \in enabledCollectors <=>
              (Asked(n) /\ (cmd.disableDefaults => n \in forcedCollectors))
      BY <2>2 DEF IndInv, StartInv
    <3>5. forcedCollectors = {args[i].name : i \in 1 .. Len(args)}
      BY <2>2, <3>1, <3>3 DEF IndInv, StartInv, MarkForcedCollectors
    <3>6. ASSUME NEW n \in Names
          PROVE  n \in enabledCollectors <=>
                     IF Given(args, Len(args), n) = {} THEN n \in Defaults /\ ~cmd.disableDefaults
                     ELSE \A i \in Given(args, Len(args), n) :
                              args[i].on \/ \E j \in Given(args, Len(args), n) : j > i
      <4>1. n \in forcedCollectors <=> Given(args, Len(args), n) # {}
        BY <3>5 DEF Given
      <4>2. Asked(n) <=> Says(args, Len(args), n)
        BY <3>1 DEF Asked
      <4>3. QED
        BY <3>4, <4>1, <4>2 DEF Says
    <3>7. \A n \in Names :
              Given(args, Len(args), n) = {i \in DOMAIN cmd.args : cmd.args[i].name = n}
      BY <3>1, <3>3 DEF Given
    <3>8. settings.discovery \/ cmd.flag = "off" \/ (cmd.flag = "absent" /\ cmd.env = "false")
      BY <2>2 DEF IndInv, StartInv
    <3>9. QED
      BY <3>1, <3>6, <3>7, <3>8
  <2>3. QED
    BY <2>1, <2>2 DEF StartsAsAsked
<1>2. QED
  BY <1>1, Invariant, PTL

(* However the collectors of the first scrape race for config.Registry,    *)
(* one registry is built, or all of them fail (registryOnce).              *)
THEOREM BuiltOnce == Spec => []OneRegistry
<1>1. IndInv => OneRegistry
  BY DEF IndInv
<1>2. QED
  BY <1>1, Invariant, PTL

(* A device that goes down keeps its labels and its category, whatever the *)
(* fleet and however the names change (Device.Read, readAll, Update of the *)
(* device collector).                                                      *)
THEOREM SeriesStay == Spec => SeriesStable
<1> DEFINE Stays ==
        \A old \in latest, new \in latest' : \A h \in DOMAIN old \cap DOMAIN new :
            \A r \in old[h].reading :
                new[h].reading = {} /\ (r.alias # Blank \/ device[h].alias = Blank) =>
                    /\ <<h, new[h].alias>> = labelsFor(r)
                    /\ countedAs(new[h]) = r.type
<1>1. IndInv /\ [Next]_vars => Stays
  <2> SUFFICES ASSUME IndInv, [Next]_vars,
                      NEW old \in latest, NEW new \in latest', NEW h \in DOMAIN old \cap DOMAIN new,
                      NEW r \in old[h].reading, new[h].reading = {},
                      r.alias # Blank \/ device[h].alias = Blank
               PROVE  <<h, new[h].alias>> = labelsFor(r) /\ countedAs(new[h]) = r.type
    OBVIOUS
  <2>1. /\ h \in DOMAIN device /\ r.host = h
        /\ r.type = device[h].type /\ r.type # Blank
        /\ r.alias # Blank => device[h].alias = r.alias
    BY DEF IndInv, FleetInv
  <2>2. latest' # latest
    BY DEF IndInv, FleetInv
  <2>3. PICK c \in Names : UpdateRound(c)
    BY <2>2 DEF Next, vars, parseFlags, parseFails, DisableDefaultCollectors, newHandler, buildMux,
                Collect, OnceFirst, buildRegistry, OnceDone, UpdateFails, UpdateShared,
                fleetVars
  <2>a. PICK fleet \in Fleets : \E results : RoundMakes(c, fleet, results)
    BY <2>3, Round DEF UpdateRound
  <2>4. PICK results : RoundMakes(c, fleet, results)
    BY <2>a
  <2>5. /\ new = results /\ h \in fleet
        /\ new[h] = ResultOf(h, device'[h], new[h].reading)
        /\ device'[h] = device[h]
    BY <2>1, <2>4 DEF RoundMakes
  <2>6. new[h].alias = (IF device[h].alias # Blank THEN device[h].alias ELSE h)
    BY <2>5 DEF ResultOf
  <2>7. new[h].type = r.type
    BY <2>1, <2>5 DEF ResultOf
  <2>8. new[h].alias = aliasOf(r)
    BY <2>1, <2>6 DEF aliasOf
  <2>9. QED
    BY <2>1, <2>7, <2>8 DEF labelsFor, countedAs
<1>2. QED
  BY <1>1, Invariant, PTL DEF Spec, SeriesStable

-----------------------------------------------------------------------------
(* What the collectors send.                                               *)

(* Every reading a collector was given is of the device that is still at   *)
(* that address, and a round has at most one of it.                        *)
Genuine(is, results) ==
    \A h \in DOMAIN results :
        /\ h \in DOMAIN is
        /\ \A r \in results[h].reading : IsReading(r, h, is[h])
        /\ \A r, q \in results[h].reading : r = q

SeenInv ==
    /\ \A c \in DOMAIN seen : Genuine(hardware, seen[c])
    /\ \A results \in latest : Genuine(hardware, results)

(* What was given to one collector stays genuine as long as no hardware is *)
(* replaced.                                                               *)
LEMMA SeenKept ==
    ASSUME SeenInv, IndInv, [Next]_vars
    PROVE  SeenInv'
<1>1. CASE UNCHANGED <<seen, hardware, latest>>
  BY <1>1 DEF SeenInv, Genuine
<1>2. CASE Collect
  <2>1. seen' = [c \in enabledCollectors |-> Nothing] /\ UNCHANGED <<hardware, latest>>
    BY <1>2 DEF Collect, fleetVars
  <2>2. \A c \in DOMAIN seen' : Genuine(hardware', seen'[c])
    BY <2>1 DEF Genuine, Nothing
  <2>3. QED
    BY <2>1, <2>2 DEF SeenInv, Genuine
<1>3. ASSUME NEW c \in Names, buildRegistry(c) PROVE SeenInv'
  <2>1. registry.built = 0 /\ UNCHANGED <<seen, latest>>
    BY <1>3 DEF buildRegistry, IndInv, OnceInv, TypeOK
  <2>2. latest = {} /\ DOMAIN hardware = {}
    BY <2>1 DEF IndInv, FleetInv, Nothing
  <2>3. \A d \in DOMAIN seen : DOMAIN seen[d] = {}
    BY <2>2 DEF SeenInv, Genuine
  <2>4. QED
    BY <2>1, <2>2, <2>3 DEF SeenInv, Genuine
<1>4. ASSUME NEW c \in Names, UpdateShared(c) PROVE SeenInv'
  <2>1. PICK results \in latest : seen' = [seen EXCEPT ![c] = results]
    BY <1>4 DEF UpdateShared, Report
  <2>2. UNCHANGED <<hardware, latest>>
    BY <1>4 DEF UpdateShared, fleetVars
  <2>3. \A d \in DOMAIN seen' : d \in DOMAIN seen /\ (seen'[d] = seen[d] \/ seen'[d] = results)
    BY <2>1
  <2>4. QED
    BY <2>1, <2>2, <2>3 DEF SeenInv, Genuine
<1>5. ASSUME NEW c \in Names, UpdateRound(c) PROVE SeenInv'
  <2>a. PICK fleet \in Fleets : \E results : RoundMakes(c, fleet, results)
    BY <1>5, Round DEF UpdateRound
  <2>1. PICK results : RoundMakes(c, fleet, results)
    BY <2>a
  <2>2. /\ seen' = [seen EXCEPT ![c] = results] /\ latest' = {results}
        /\ \A h \in DOMAIN hardware : h \in DOMAIN hardware' /\ hardware'[h] = hardware[h]
    BY <2>1 DEF RoundMakes, Report
  <2>3. Genuine(hardware', results)
    BY <2>1 DEF RoundMakes, Genuine
  <2>4. \A d \in DOMAIN seen' : d \in DOMAIN seen /\ (seen'[d] = seen[d] \/ seen'[d] = results)
    BY <2>2
  <2>5. \A d \in DOMAIN seen : Genuine(hardware', seen[d])
    BY <2>2 DEF SeenInv, Genuine
  <2>6. \A d \in DOMAIN seen' : Genuine(hardware', seen'[d])
    BY <2>3, <2>4, <2>5
  <2>7. QED
    BY <2>2, <2>3, <2>6 DEF SeenInv, Genuine
<1>6. QED
  <2>1. CASE UNCHANGED vars
    BY <1>1, <2>1 DEF vars, scrapeVars, fleetVars
  <2>2. CASE \/ parseFlags \/ parseFails \/ DisableDefaultCollectors \/ newHandler
             \/ \E path \in Paths, pprof \in BOOLEAN : buildMux(path, pprof)
    BY <1>1, <2>2 DEF parseFlags, parseFails, DisableDefaultCollectors, newHandler, buildMux,
                      scrapeVars, fleetVars
  <2>3. CASE \E c \in Names : OnceFirst(c) \/ OnceDone(c) \/ UpdateFails(c)
    BY <1>1, <2>3 DEF OnceFirst, OnceDone, UpdateFails, fleetVars
  <2>4. QED
    BY <1>2, <1>3, <1>4, <1>5, <2>1, <2>2, <2>3 DEF Next

(* The first two entries of a series and its address.                      *)
LEMMA EmitSeries ==
    ASSUME NEW sub, NEW values, NEW r, NEW s \in emit(sub, values, r)
    PROVE  s[1] = sub /\ s[2] \in values /\ s[3][1] = r.host
  BY DEF emit, labelsFor

(* The same for sockets and sensors.                                       *)
LEMMA PartsSeries ==
    ASSUME NEW kind, NEW name, NEW r, NEW s \in partsEmit(kind, name, r)
    PROVE  s[1] = kind /\ s[2] = name /\ s[3][1] = r.host
<1>1. PICK p : s = <<kind, name, labelsFor(r) \o <<p>> >>
  BY DEF partsEmit
<1>2. (labelsFor(r) \o <<p>>)[1] = r.host
  BY DEF labelsFor
<1>3. QED
  BY <1>1, <1>2

Typed == DeviceTypes \ {"unknown"}

(* What the collector of the category c sends for one reading.             *)
SeriesOne(c, r) ==
    CASE c = "plug"       -> plugSeries(r)
      [] c = "wallswitch" -> wallswitchSeries(r)
      [] c = "bulb"       -> bulbSeries(r)
      [] c = "dimmer"     -> dimmerSeries(r)
      [] c = "lightstrip" -> lightstripSeries(r)
      [] c = "strip"      -> stripSeries(r)
      [] c = "hub"        -> hubSeries(r)

(* It sends that for each of its readings and no more.                     *)
LEMMA SeriesByReading ==
    ASSUME NEW c \in Typed, NEW results
    PROVE  Series(c, results) = UNION {SeriesOne(c, r) : r \in readingsOfType(results, c)}
<1>1. c \in {"plug", "wallswitch", "bulb", "dimmer", "lightstrip", "strip", "hub"}
  BY DEF Typed, DeviceTypes
<1>2. CASE c = "plug"
  BY <1>2 DEF Series, SeriesOne
<1>3. CASE c = "wallswitch"
  BY <1>3 DEF Series, SeriesOne
<1>4. CASE c = "bulb"
  BY <1>4 DEF Series, SeriesOne
<1>5. CASE c = "dimmer"
  BY <1>5 DEF Series, SeriesOne
<1>6. CASE c = "lightstrip"
  BY <1>6 DEF Series, SeriesOne
<1>7. CASE c = "strip"
  BY <1>7 DEF Series, SeriesOne
<1>8. CASE c = "hub"
  BY <1>8 DEF Series, SeriesOne
<1>9. QED
  BY <1>1, <1>2, <1>3, <1>4, <1>5, <1>6, <1>7, <1>8

(* A series of a device is labelled with its address, and with the         *)
(* category unless it is the power.                                        *)
Mine(c, r, s) == s[3][1] = r.host /\ (s[1] = c \/ (s[1] = Blank /\ s[2] = "power_watts"))

(* So are all that are sent for one reading, and there is one.             *)
LEMMA SeriesMine ==
    ASSUME NEW c \in Typed, NEW r
    PROVE  /\ \A s \in SeriesOne(c, r) : Mine(c, r, s)
           /\ c \in {"strip", "hub"} \/ "on" \in r.reports => SeriesOne(c, r) # {}
<1> USE DEF Mine
<1>1. c \in {"plug", "wallswitch", "bulb", "dimmer", "lightstrip", "strip", "hub"}
  BY DEF Typed, DeviceTypes
<1>2. /\ \A values : \A s \in emit(c, values, r) : Mine(c, r, s)
      /\ \A name : \A s \in partsEmit(c, name, r) : Mine(c, r, s)
      /\ \A s \in energyEmit(r) : Mine(c, r, s)
      /\ \A name : Mine(c, r, <<c, name, labelsFor(r)>>)
  BY EmitSeries, PartsSeries DEF energyEmit, labelsFor
<1>3. \A values : "on" \in r.reports /\ "on" \in values => emit(c, values, r) # {}
  BY DEF emit
<1> HIDE DEF Mine
<1>4. CASE c = "plug"
  BY <1>2, <1>3, <1>4 DEF SeriesOne, plugSeries
<1>5. CASE c = "wallswitch"
  BY <1>2, <1>3, <1>5 DEF SeriesOne, wallswitchSeries
<1>6. CASE c = "bulb"
  BY <1>2, <1>3, <1>6 DEF SeriesOne, bulbSeries, lightEmit
<1>7. CASE c = "dimmer"
  BY <1>2, <1>3, <1>7 DEF SeriesOne, dimmerSeries, lightEmit
<1>8. CASE c = "lightstrip"
  BY <1>2, <1>3, <1>8 DEF SeriesOne, lightstripSeries, lightEmit
<1>9. CASE c = "strip"
  BY <1>2, <1>3, <1>9 DEF SeriesOne, stripSeries
<1>10. CASE c = "hub"
  BY <1>2, <1>10 DEF SeriesOne, hubSeries
<1>11. QED
  BY <1>1, <1>4, <1>5, <1>6, <1>7, <1>8, <1>9, <1>10

(* What the device collector sends.                                        *)
LEMMA DeviceSeries ==
    ASSUME NEW results
    PROVE  /\ \A s \in Series("device", results) :
                  s[1] = "device" \/ (s[1] = Blank /\ s[2] = "devices")
           /\ \A r \in readings(results) : deviceSeries(r) \subseteq Series("device", results)
<1>1. Series("device", results) = (UNION {deviceSeries(r) : r \in readings(results)})
                                      \cup downSeries(results) \cup countSeries(results)
  BY DEF Series
<1>2. \A r : \A s \in deviceSeries(r) : s[1] = "device"
  <2>1. \A r : \A s \in emit("device", {"signal_level"}, r) : s[1] = "device"
    BY EmitSeries
  <2>2. QED
    BY <2>1 DEF deviceSeries
<1>3. \A s \in downSeries(results) : s[1] = "device"
  BY DEF downSeries
<1>4. \A s \in countSeries(results) : s[1] = Blank /\ s[2] = "devices"
  BY DEF countSeries
<1>5. \A s \in Series("device", results) :
          \/ \E r \in readings(results) : s \in deviceSeries(r)
          \/ s \in downSeries(results)
          \/ s \in countSeries(results)
  BY <1>1
<1>6. \A s \in Series("device", results) : s[1] = "device" \/ (s[1] = Blank /\ s[2] = "devices")
  BY <1>2, <1>3, <1>4, <1>5, Zenon
<1>7. \A r \in readings(results) : deviceSeries(r) \subseteq Series("device", results)
  BY <1>1, Zenon
<1>8. QED
  BY <1>6, <1>7, Zenon

(* A collector of a category sends a series of h only for a reading of h   *)
(* in that category.                                                       *)
LEMMA TypedSeries ==
    ASSUME NEW is, NEW results, Genuine(is, results), NEW c \in Typed, NEW s \in Series(c, results)
    PROVE  \E h \in DOMAIN results : \E r \in results[h].reading :
               r.type = c /\ r.host = h /\ IsReading(r, h, is[h]) /\ Mine(c, r, s)
<1>1. PICK r \in readingsOfType(results, c) : s \in SeriesOne(c, r)
  BY SeriesByReading
<1>2. Mine(c, r, s)
  BY <1>1, SeriesMine
<1>3. PICK h \in DOMAIN results : r \in results[h].reading
  BY <1>1 DEF readingsOfType, readings
<1>4. IsReading(r, h, is[h])
  BY <1>3 DEF Genuine
<1>5. r.host = h
  BY <1>4 DEF IsReading
<1>6. r.type = c
  BY <1>1 DEF readingsOfType
<1>7. QED
  BY <1>2, <1>3, <1>4, <1>5, <1>6

(* Only the category of an unlisted parent depends on the round.           *)
LEMMA TypesDiffer ==
    ASSUME NEW h, NEW w, NEW r, NEW q, IsReading(r, h, w), IsReading(q, h, w), r.type # q.type
    PROVE  Unlisted(w)
  BY DEF IsReading, TypeOf, Unlisted

(* Two collectors share a series only if they were given different rounds, *)
(* and then only one of an unlisted parent.                                *)
LEMMA Shared ==
    ASSUME NEW is, NEW a, NEW b, Genuine(is, a), Genuine(is, b),
           NEW c \in Names, NEW d \in Names, c # d,
           NEW s, s \in Series(c, a), s \in Series(d, b)
    PROVE  a # b /\ Unlisted(is[s[3][1]])
<1>1. /\ \A n \in Typed : n # Blank /\ n # "device"
      /\ Blank # "device" /\ "power_watts" # "devices"
  <2>1. \A n \in Typed : n # Blank
    BY Categories DEF Typed
  <2>2. \A n \in Typed : n # "device"
    BY DEF Typed, DeviceTypes
  <2>3. Blank # "device"
    BY Zenon DEF Blank
  <2>4. QED
    BY <2>1, <2>2, <2>3
<1>2. \A n \in Names : n = "device" \/ n \in Typed
  BY ExporterAssumption DEF Typed
<1>3. CASE c \in Typed /\ d \in Typed
  <2>1. PICK h \in DOMAIN a : \E r \in a[h].reading :
            r.type = c /\ r.host = h /\ IsReading(r, h, is[h]) /\ Mine(c, r, s)
    BY <1>3, TypedSeries
  <2>2. PICK r \in a[h].reading :
            r.type = c /\ r.host = h /\ IsReading(r, h, is[h]) /\ Mine(c, r, s)
    BY <2>1
  <2>3. PICK i \in DOMAIN b : \E q \in b[i].reading :
            q.type = d /\ q.host = i /\ IsReading(q, i, is[i]) /\ Mine(d, q, s)
    BY <1>3, TypedSeries
  <2>4. PICK q \in b[i].reading :
            q.type = d /\ q.host = i /\ IsReading(q, i, is[i]) /\ Mine(d, q, s)
    BY <2>3
  <2>5. h = i /\ h = s[3][1]
    BY <2>2, <2>4 DEF Mine
  <2>6. Unlisted(is[h])
    BY <2>2, <2>4, <2>5, TypesDiffer
  <2>7. a # b
    BY <2>2, <2>4, <2>5 DEF Genuine
  <2>8. QED
    BY <2>5, <2>6, <2>7
<1>4. CASE c = "device" /\ d \in Typed
  <2>1. s[1] = "device" \/ (s[1] = Blank /\ s[2] = "devices")
    BY <1>4, DeviceSeries
  <2>2. s[1] = d \/ (s[1] = Blank /\ s[2] = "power_watts")
    BY <1>4, TypedSeries DEF Mine
  <2>3. QED
    BY <1>1, <1>4, <2>1, <2>2
<1>5. CASE d = "device" /\ c \in Typed
  <2>1. s[1] = "device" \/ (s[1] = Blank /\ s[2] = "devices")
    BY <1>5, DeviceSeries
  <2>2. s[1] = c \/ (s[1] = Blank /\ s[2] = "power_watts")
    BY <1>5, TypedSeries DEF Mine
  <2>3. QED
    BY <1>1, <1>5, <2>1, <2>2
<1>6. QED
  BY <1>2, <1>3, <1>4, <1>5

(* The tables of deviceTypeFor put every device in the category it is of,  *)
(* except that they may miss a SMART strip.                                *)
Classified ==
    \A w \in Hardware : IF Unlisted(w) THEN w.kind = "strip" ELSE w.kind = ByModel[w]

(* The category a reading of the device should have.                       *)
KindOf(w, r) == IF Unlisted(w) /\ r.parts = {} THEN ByModel[w] ELSE w.kind

(* It has it.                                                              *)
LEMMA KindRead ==
    ASSUME Classified, NEW h, NEW w \in Hardware, NEW r, IsReading(r, h, w)
    PROVE  r.type = KindOf(w, r)
<1>1. CASE Unlisted(w)
  BY <1>1 DEF Classified, IsReading, TypeOf, KindOf, Unlisted
<1>2. CASE ~Unlisted(w)
  BY <1>2 DEF Classified, IsReading, TypeOf, KindOf, Unlisted
<1>3. QED
  BY <1>1, <1>2

SeriesAt(c, results, h) == {s \in Series(c, results) : s[3][1] = h}

(* The collectors of one snapshot.                                         *)
LEMMA ReportsOwn ==
    ASSUME Classified, NEW is, NEW results, Genuine(is, results), NEW c \in Names,
           NEW h \in DOMAIN results, NEW w \in Hardware, w = is[h], NEW r \in results[h].reading,
           NEW kind, kind = KindOf(w, r), NEW of, of = SeriesAt(c, results, h)
    PROVE  /\ of # {} => c \in {"device", kind}
           /\ c = w.kind /\ kind = w.kind => of # {}
           /\ c = "device" => <<"device", "info", labelsFor(r) \o <<kind>> >> \in of
<1> USE DEF SeriesAt
<1>1. IsReading(r, h, w)
  BY DEF Genuine
<1>2. r.host = h /\ r.type = kind
  BY <1>1, KindRead DEF IsReading
<1>3. r \in readings(results)
  BY DEF readings
<1>4. CASE c = "device"
  <2> DEFINE info == <<"device", "info", labelsFor(r) \o <<kind>> >>
  <2>1. info \in deviceSeries(r)
    BY <1>2 DEF deviceSeries
  <2>2. info[3][1] = h
    BY <1>2 DEF labelsFor
  <2> HIDE DEF info
  <2>3. info \in of
    BY <1>3, <1>4, <2>1, <2>2, DeviceSeries
  <2>4. QED
    BY <1>4, <2>3 DEF info
<1>5. CASE c # "device"
  <2>1. c \in Typed
    BY <1>5, ExporterAssumption DEF Typed
  <2>2. ASSUME NEW s \in of PROVE c = kind
    <3>1. PICK i \in DOMAIN results : \E q \in results[i].reading :
              q.type = c /\ q.host = i /\ IsReading(q, i, is[i]) /\ Mine(c, q, s)
      BY <2>1, <2>2, TypedSeries
    <3>2. i = h
      BY <2>2, <3>1 DEF Mine
    <3>3. QED
      BY <1>2, <3>1, <3>2 DEF Genuine
  <2>3. ASSUME c = w.kind, kind = w.kind PROVE of # {}
    <3>1. c \in {"strip", "hub"} \/ "on" \in r.reports
      BY <1>1, <2>1, <2>3, ExporterAssumption DEF Typed, IsReading
    <3>2. PICK s : s \in SeriesOne(c, r)
      BY <2>1, <3>1, SeriesMine
    <3>3. r \in readingsOfType(results, c)
      BY <1>2, <1>3, <2>3 DEF readingsOfType
    <3>4. s \in Series(c, results)
      BY <2>1, <3>2, <3>3, SeriesByReading
    <3>5. s[3][1] = h
      BY <1>2, <2>1, <3>2, SeriesMine DEF Mine
    <3>6. QED
      BY <3>4, <3>5
  <2>4. QED
    BY <1>5, <2>2, <2>3
<1>6. QED
  BY <1>4, <1>5

(* Where the tables miss no device but a SMART strip, a device that was    *)
(* read is reported by the collector of what it is and by no other but the *)
(* device collector, and two collectors of a scrape send one series only   *)
(* for such a strip, and only if they were given different rounds          *)
(* (energyMetrics, applyChildren, Update of the eight collectors).         *)
THEOREM ReportedOnce == Classified => (Spec => []OneCollectorPerDevice)
<1>1. Init => SeenInv
  BY DEF Init, SeenInv, Genuine, Nothing
<1>2. Classified /\ IndInv /\ SeenInv => OneCollectorPerDevice
  <2> SUFFICES ASSUME Classified, IndInv, SeenInv PROVE OneCollectorPerDevice
    OBVIOUS
  <2> DEFINE reported == {c \in DOMAIN outcome : outcome[c] = "ok"}
  <2>1. \A c \in reported : c \in Names /\ Genuine(hardware, seen[c])
    BY DEF IndInv, OnceInv, TypeOK, SeenInv
  <2>2. ASSUME NEW c \in reported, NEW h \in DOMAIN seen[c], NEW r \in seen[c][h].reading,
               NEW w, w = hardware[h], NEW kind, kind = KindOf(w, r)
        PROVE  /\ SeriesOf(c, h) # {} => c \in {"device", kind}
               /\ c = w.kind /\ kind = w.kind => SeriesOf(c, h) # {}
               /\ c = "device" =>
                      <<"device", "info", labelsFor(r) \o <<kind>> >> \in SeriesOf(c, h)
    <3>1. w \in Hardware
      BY <2>1, <2>2 DEF Genuine, IndInv, FleetInv
    <3>2. PICK is, results, of : is = hardware /\ results = seen[c] /\ of = SeriesOf(c, h)
      OBVIOUS
    <3>3. of = SeriesAt(c, results, h)
      BY <3>2 DEF SeriesOf, SeriesAt
    <3>4. /\ Genuine(is, results) /\ c \in Names /\ h \in DOMAIN results
          /\ w = is[h] /\ r \in results[h].reading
      BY <2>1, <2>2, <3>2
    <3>5. /\ of # {} => c \in {"device", kind}
          /\ c = w.kind /\ kind = w.kind => of # {}
          /\ c = "device" => <<"device", "info", labelsFor(r) \o <<kind>> >> \in of
      BY <2>2, <3>1, <3>3, <3>4, ReportsOwn
    <3>6. QED
      BY <3>2, <3>5
  <2>3. ASSUME NEW c \in reported, NEW d \in reported, c # d,
               NEW s \in Series(c, seen[c]) \cap Series(d, seen[d])
        PROVE  seen[c] # seen[d] /\ Unlisted(hardware[s[3][1]])
    <3>1. PICK is, a, b : is = hardware /\ a = seen[c] /\ b = seen[d]
      OBVIOUS
    <3>2. /\ Genuine(is, a) /\ Genuine(is, b) /\ c \in Names /\ d \in Names
          /\ s \in Series(c, a) /\ s \in Series(d, b)
      BY <2>1, <2>3, <3>1
    <3>3. a # b /\ Unlisted(is[s[3][1]])
      BY <2>3, <3>2, Shared
    <3>4. QED
      BY <3>1, <3>3
  <2>4. ASSUME NEW c \in reported, NEW h \in DOMAIN seen[c], NEW r \in seen[c][h].reading
        PROVE  LET w == hardware[h]
                   kind == IF Unlisted(w) /\ r.parts = {} THEN ByModel[w] ELSE w.kind
               IN  /\ SeriesOf(c, h) # {} => c \in {"device", kind}
                   /\ c = w.kind /\ kind = w.kind => SeriesOf(c, h) # {}
                   /\ c = "device" =>
                          <<"device", "info", labelsFor(r) \o <<kind>> >> \in SeriesOf(c, h)
    <3>1. PICK w, kind : w = hardware[h] /\ kind = KindOf(w, r)
      OBVIOUS
    <3>2. /\ SeriesOf(c, h) # {} => c \in {"device", kind}
          /\ c = w.kind /\ kind = w.kind => SeriesOf(c, h) # {}
          /\ c = "device" =>
                 <<"device", "info", labelsFor(r) \o <<kind>> >> \in SeriesOf(c, h)
      BY <2>2, <2>4, <3>1
    <3>3. kind = IF Unlisted(hardware[h]) /\ r.parts = {} THEN ByModel[hardware[h]]
                 ELSE hardware[h].kind
      BY <3>1 DEF KindOf
    <3>4. QED
      BY <3>1, <3>2, <3>3
  <2>5. QED
    BY <2>3, <2>4 DEF OneCollectorPerDevice
<1>3. SUFFICES ASSUME Classified PROVE Spec => []OneCollectorPerDevice
  OBVIOUS
<1>4. IndInv /\ SeenInv => OneCollectorPerDevice
  BY <1>2, <1>3
<1>5. IndInv /\ SeenInv /\ [Next]_vars => SeenInv'
  BY SeenKept
<1>6. QED
  BY <1>1, <1>4, <1>5, Invariant, PTL DEF Spec
=============================================================================
