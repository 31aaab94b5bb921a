--------------------------- MODULE Sidecar_proofs ---------------------------
(***************************************************************************)
(* Proofs about Startup, XrayConfig and Sidecar: the runs of the program   *)
(* and what they leave behind, for any number of runs and nodes; the URL   *)
(* parsers, for URLs of any length; and as what a sidecar therefore        *)
(* presents itself.                                                        *)
(***************************************************************************)
EXTENDS Sidecar, TLAPS, SequenceTheorems, FiniteSetTheorems

-----------------------------------------------------------------------------
(* Startup.                                                                *)

\* Whatever a run, its sidecar or the file system does, the state stays in its
\* types.
THEOREM TypesHold == Spec => []TypeOK
<1>1. Init => TypeOK
  BY DEF Init, TypeOK
<1>2. TypeOK /\ [Next]_vars => TypeOK'
  <2> SUFFICES ASSUME TypeOK, [Next]_vars PROVE TypeOK'
    OBVIOUS
  <2> USE DEF TypeOK, Goto, Ends
  <2>1. CASE UNCHANGED vars
    BY <2>1 DEF vars
  <2>2. ASSUME NEW r \in Runs, NEW answer \in Answers \cup {NoAnswer},
               FetchNodes(r, answer)
        PROVE  TypeOK'
    BY <2>2, StartupAssumption DEF FetchNodes, Offered, xray, files
  <2>3. ASSUME NEW r \in Runs, NEW n \in Nodes, Select(r, n) PROVE TypeOK'
    BY <2>3 DEF Select, xray, files
  <2>4. ASSUME NEW r \in Runs, SpawnInjector(r) \/ SleepEnds(r) PROVE TypeOK'
    BY <2>4 DEF SpawnInjector, SleepEnds, choice, xray, files
  <2>5. ASSUME NEW r \in Runs, CreateConfig(r) \/ WriteConfig(r) PROVE TypeOK'
    BY <2>5 DEF CreateConfig, WriteConfig, choice, xray
  <2>6. ASSUME NEW r \in Runs, FindExe(r) \/ CreateExe(r) \/ WriteExe(r)
        PROVE  TypeOK'
    BY <2>6 DEF FindExe, CreateExe, WriteExe, choice, xray, files
  <2>7. ASSUME NEW r \in Runs, Spawn(r) PROVE TypeOK'
    BY <2>7 DEF Spawn, choice, files
  <2>8. ASSUME NEW r \in Runs, Bind(r) \/ Cleanup(r) PROVE TypeOK'
    BY <2>8 DEF Bind, Cleanup, choice, xray, files
  <2>9. ASSUME NEW r \in Runs,
               \/ ConfigRefused(r) \/ WriteFails(r) \/ BindFails(r)
               \/ InjectorDies(r) \/ Killed(r) \/ StartFails(r)
        PROVE  TypeOK'
    BY <2>9 DEF ConfigRefused, WriteFails, BindFails, InjectorDies, Killed,
      StartFails, choice, xray, files
  <2>10. ASSUME NEW r \in Runs, CtrlC(r) \/ InjectorOpens(r) PROVE TypeOK'
    BY <2>10 DEF CtrlC, InjectorOpens, choice, xray, files
  <2>11. ASSUME NEW r \in Runs, XrayStarts(r) PROVE TypeOK'
    BY <2>11 DEF XrayStarts, choice, files
  <2>12. QED
    BY <2>1, <2>2, <2>3, <2>4, <2>5, <2>6, <2>7, <2>8, <2>9, <2>10, <2>11
    DEF Next, RunStep
<1>3. QED
  BY <1>1, <1>2, PTL DEF Spec

-----------------------------------------------------------------------------
(* StopKillsSidecar is inductive, whatever fails and overlaps: only Spawn  *)
(* starts a process, and only CtrlC leads to "cleanup".                    *)

LEMMA StopStep == TypeOK /\ StopKillsSidecar /\ [Next]_vars => StopKillsSidecar'
<1> SUFFICES ASSUME TypeOK, StopKillsSidecar, [Next]_vars,
                    NEW q \in Runs, pc'[q] \in {"cleanup", "stopped"}
             PROVE  ~Running(q)'
  BY DEF StopKillsSidecar
<1> USE DEF TypeOK, StopKillsSidecar, Running, Goto, Ends
<1>1. CASE UNCHANGED vars
  BY <1>1 DEF vars
<1>2. ASSUME NEW r \in Runs, NEW answer \in Answers \cup {NoAnswer},
             FetchNodes(r, answer)
      PROVE  ~Running(q)'
  BY <1>2 DEF FetchNodes, xray
<1>3. ASSUME NEW r \in Runs, NEW n \in Nodes, Select(r, n) PROVE ~Running(q)'
  BY <1>3 DEF Select, xray
<1>4. ASSUME NEW r \in Runs, RunStep(r) PROVE ~Running(q)'
  <2>1. CASE Cleanup(r)
    BY <2>1 DEF Cleanup, xray
  <2>2. CASE Spawn(r)
    BY <2>2 DEF Spawn
  <2>3. CASE ~Cleanup(r) /\ ~Spawn(r)
    BY <1>4, <2>3 DEF RunStep, SpawnInjector, SleepEnds, ConfigRefused,
      CreateConfig, WriteConfig, FindExe, CreateExe, WriteExe, Bind,
      BindFails, xray
  <2>4. QED
    BY <2>1, <2>2, <2>3
<1>5. ASSUME NEW r \in Runs, CtrlC(r) PROVE ~Running(q)'
  BY <1>5 DEF CtrlC
<1>6. ASSUME NEW r \in Runs, XrayStarts(r) PROVE ~Running(q)'
  BY <1>6 DEF XrayStarts
<1>7. ASSUME NEW r \in Runs,
             \/ WriteFails(r) \/ Killed(r) \/ InjectorOpens(r)
             \/ InjectorDies(r) \/ StartFails(r)
      PROVE  ~Running(q)'
  BY <1>7 DEF WriteFails, Killed, InjectorOpens, InjectorDies, StartFails, xray
<1>8. QED
  BY <1>1, <1>2, <1>3, <1>4, <1>5, <1>6, <1>7 DEF Next

\* A run that is shut down by Ctrl+C leaves no sidecar of its own behind.
THEOREM ShutdownKills == Spec => []StopKillsSidecar
<1>1. Init => StopKillsSidecar
  BY DEF Init, StopKillsSidecar, Running
<1>2. QED
  BY <1>1, StopStep, TypesHold, PTL DEF Spec

-----------------------------------------------------------------------------
(* SidecarOfOwnNode holds when runs do not overlap.  The invariant behind  *)
(* it: at most one run is under way, a run that is past write_xray_config  *)
(* finds its own node on disk until it is over, and a sidecar that runs    *)
(* was spawned past that point.                                            *)

\* A run has written its configuration and not yet started to clean up.
Written(r) ==
  \/ pc[r] \in {"embedded", "create_exe", "write_exe", "spawn"}
  \/ pc[r] \in {"bind", "serving"} /\ Running(r)

OneAlive == \A q, r \in Runs : Alive(q) /\ Alive(r) => q = r

OwnConfig ==
  \A r \in Runs :
    /\ pc[r] = "write_config" => config = "partial" /\ node[r] \in Nodes
    /\ Written(r) => config = node[r]
    /\ Alive(r) /\ Running(r) => pc[r] \in {"bind", "serving"}
    /\ Alive(r) /\ pc[r] \notin {"bind", "serving", "cleanup"} =>
         sidecar[r] = "none" /\ (pc[r] # "menu" => node[r] \in Nodes)
    /\ pc[r] = "off" => sidecar[r] = "none"

SInv == TypeOK /\ OneAlive /\ OwnConfig /\ SidecarOfOwnNode

\* One step at a time: the step of a run that is alive, the start of a run, and
\* the steps of sidecars and of the injector thread.
LEMMA OwnStep == "overlap" \notin Faults => (SInv /\ TypeOK' /\ [Next]_vars => SInv')
<1> SUFFICES ASSUME "overlap" \notin Faults, SInv, TypeOK', [Next]_vars
             PROVE  OneAlive' /\ OwnConfig' /\ SidecarOfOwnNode'
  BY DEF SInv
<1> USE StartupAssumption
        DEF SInv, TypeOK, OneAlive, OwnConfig, SidecarOfOwnNode, Alive, Running,
            Written, Goto, Ends
<1>1. CASE UNCHANGED vars
  BY <1>1 DEF vars
<1>2. ASSUME NEW r \in Runs, NEW answer \in Answers \cup {NoAnswer},
             FetchNodes(r, answer)
      PROVE  OneAlive' /\ OwnConfig' /\ SidecarOfOwnNode'
  BY <1>2 DEF FetchNodes, xray, files
<1>3. ASSUME NEW r \in Runs, NEW n \in Nodes, Select(r, n)
      PROVE  OneAlive' /\ OwnConfig' /\ SidecarOfOwnNode'
  BY <1>3 DEF Select, xray, files
<1>4. ASSUME NEW r \in Runs,
             SpawnInjector(r) \/ SleepEnds(r) \/ FindExe(r)
      PROVE  OneAlive' /\ OwnConfig' /\ SidecarOfOwnNode'
  BY <1>4 DEF SpawnInjector, SleepEnds, FindExe, choice, xray, files
<1>5. ASSUME NEW r \in Runs, CreateConfig(r) \/ WriteConfig(r)
      PROVE  OneAlive' /\ OwnConfig' /\ SidecarOfOwnNode'
  BY <1>5 DEF CreateConfig, WriteConfig, choice, xray
<1>6. ASSUME NEW r \in Runs, CreateExe(r) \/ WriteExe(r)
      PROVE  OneAlive' /\ OwnConfig' /\ SidecarOfOwnNode'
  BY <1>6 DEF CreateExe, WriteExe, choice, xray
<1>7. ASSUME NEW r \in Runs, Spawn(r)
      PROVE  OneAlive' /\ OwnConfig' /\ SidecarOfOwnNode'
  BY <1>7 DEF Spawn, choice, files
<1>8. ASSUME NEW r \in Runs, Bind(r) \/ Cleanup(r)
      PROVE  OneAlive' /\ OwnConfig' /\ SidecarOfOwnNode'
  BY <1>8 DEF Bind, Cleanup, choice, xray, files
<1>9. ASSUME NEW r \in Runs,
             \/ ConfigRefused(r) \/ WriteFails(r) \/ BindFails(r)
             \/ InjectorDies(r) \/ Killed(r) \/ StartFails(r)
      PROVE  OneAlive' /\ OwnConfig' /\ SidecarOfOwnNode'
  BY <1>9 DEF ConfigRefused, WriteFails, BindFails, InjectorDies, Killed,
    StartFails, choice, xray, files
<1>10. ASSUME NEW r \in Runs, CtrlC(r)
      PROVE  OneAlive' /\ OwnConfig' /\ SidecarOfOwnNode'
  BY <1>10 DEF CtrlC, choice, files
<1>11. ASSUME NEW r \in Runs, InjectorOpens(r)
       PROVE  OneAlive' /\ OwnConfig' /\ SidecarOfOwnNode'
  BY <1>11 DEF InjectorOpens, choice, xray, files
<1>12. ASSUME NEW r \in Runs, XrayStarts(r)
       PROVE  OneAlive' /\ OwnConfig' /\ SidecarOfOwnNode'
  BY <1>12 DEF XrayStarts, choice, files
<1>13. QED
  BY <1>1, <1>2, <1>3, <1>4, <1>5, <1>6, <1>7, <1>8, <1>9, <1>10, <1>11,
     <1>12
  DEF Next, RunStep

\* Of runs that do not overlap, none is served by a sidecar that works for
\* another run's node, whatever an earlier run left on disk or running.
THEOREM OwnNode == "overlap" \notin Faults => (Spec => []SidecarOfOwnNode)
<1> SUFFICES ASSUME "overlap" \notin Faults PROVE Spec => []SidecarOfOwnNode
  OBVIOUS
<1>1. Init => SInv
  <2> SUFFICES ASSUME Init PROVE SInv
    OBVIOUS
  <2>1. \A r \in Runs : pc[r] = "off" /\ sidecar[r] = "none"
    BY DEF Init
  <2>2. TypeOK
    BY DEF Init, TypeOK
  <2>3. QED
    BY <2>1, <2>2 DEF SInv, OneAlive, OwnConfig, SidecarOfOwnNode, Alive,
      Running, Written
<1>2. SInv /\ TypeOK' /\ [Next]_vars => SInv'
  BY OwnStep
<1>3. SInv => SidecarOfOwnNode
  BY DEF SInv
<1>4. QED
  BY <1>1, <1>2, <1>3, TypesHold, PTL DEF Spec

-----------------------------------------------------------------------------
(* What the URL parsers read.  Tokens are the elements of any set T.       *)

Lacks(s, sep) == \A i \in DOMAIN s : s[i] # sep

\* Every set of naturals has a least element: the intervals up to its elements are
\* finite sets, on which inclusion is well-founded.
LEMMA NaturalMin ==
  ASSUME NEW X \in SUBSET Nat, X # {}
  PROVE  \E m \in X : \A n \in X : m <= n
<1>. DEFINE upTo(n) == 1 .. n
            intervals == {upTo(n) : n \in X}
<1>1. intervals \subseteq FiniteSubsetsOf(Nat)
  BY FS_Interval DEF FiniteSubsetsOf
<1>2. intervals # {}
  OBVIOUS
<1>3. PICK I \in intervals : \A J \in intervals : <<J, I>> \notin StrictSubsetOrdering(Nat)
  <2>. HIDE DEF intervals
  <2>. QED
    BY <1>1, <1>2, FS_StrictSubsetOrderingWellFounded, WFMin
<1>4. PICK m \in X : I = upTo(m)
  OBVIOUS
<1>5. ASSUME NEW n \in X, n < m PROVE FALSE
  <2>1. upTo(n) \subseteq upTo(m) /\ upTo(n) # upTo(m)
    <3>1. m \in upTo(m) /\ m \notin upTo(n)
      BY <1>5
    <3>. QED
      BY <1>5, <3>1
  <2>2. upTo(n) \in SUBSET Nat /\ upTo(m) \in SUBSET Nat
    OBVIOUS
  <2>3. <<upTo(n), upTo(m)>> \in StrictSubsetOrdering(Nat)
    BY <2>1, <2>2 DEF StrictSubsetOrdering
  <2>. QED
    BY <1>3, <1>4, <2>3
<1>. QED
  BY <1>5

LEMMA MinIs ==
  ASSUME NEW X \in SUBSET Nat, NEW m \in X, \A n \in X : m <= n
  PROVE  Min(X) = m
<1>1. ASSUME NEW x \in X, \A n \in X : x <= n PROVE x = m
  BY <1>1
<1>. QED
  BY <1>1 DEF Min

LEMMA MinOf ==
  ASSUME NEW X \in SUBSET Nat, X # {}
  PROVE  Min(X) \in X /\ \A n \in X : Min(X) <= n
  BY NaturalMin, MinIs

LEMMA JoinedBy ==
  ASSUME NEW T, NEW s \in Seq(T), NEW t \in Seq(T), NEW sep \in T
  PROVE  LET u == s \o <<sep>> \o t
             n == Len(s) + 1 IN
         /\ u \in Seq(T) /\ Len(u) = n + Len(t)
         /\ \A i \in 1 .. n - 1 : u[i] = s[i]
         /\ u[n] = sep
         /\ \A i \in 1 .. Len(t) : u[n + i] = t[i]
<1>. DEFINE u == s \o <<sep>> \o t
            n == Len(s) + 1
<1>1. <<sep>> \in Seq(T) /\ Len(<<sep>>) = 1 /\ <<sep>>[1] = sep
  OBVIOUS
<1>2. /\ s \o <<sep>> \in Seq(T) /\ Len(s \o <<sep>>) = n
      /\ \A i \in 1 .. n : (s \o <<sep>>)[i] = IF i < n THEN s[i] ELSE <<sep>>[i - (n - 1)]
  BY <1>1, ConcatProperties
<1>3. /\ u \in Seq(T) /\ Len(u) = n + Len(t)
      /\ \A i \in 1 .. n + Len(t) : u[i] = IF i <= n THEN (s \o <<sep>>)[i] ELSE t[i - n]
  BY <1>2, ConcatProperties
<1>4. n \in Nat \ {0} /\ Len(t) \in Nat
  OBVIOUS
<1>. HIDE DEF u, n
<1>5. /\ \A i \in 1 .. n - 1 : u[i] = s[i]
      /\ u[n] = sep
      /\ \A i \in 1 .. Len(t) : u[n + i] = t[i]
  BY <1>1, <1>2, <1>3, <1>4
<1>. QED
  BY <1>3, <1>5 DEF u, n

\* A separator that occurs nowhere before it is where split_once splits.
LEMMA SplitsAtFirst ==
  ASSUME NEW T, NEW s \in Seq(T), NEW t \in Seq(T), NEW sep \in T, Lacks(s, sep)
  PROVE  /\ Has(s \o <<sep>> \o t, sep)
         /\ Before(s \o <<sep>> \o t, sep) = s
         /\ After(s \o <<sep>> \o t, sep) = t
<1>. DEFINE u == s \o <<sep>> \o t
            n == Len(s)
<1>1. /\ u \in Seq(T) /\ Len(u) = n + 1 + Len(t)
      /\ \A i \in 1 .. n : u[i] = s[i]
      /\ u[n + 1] = sep
      /\ \A i \in 1 .. Len(t) : u[n + 1 + i] = t[i]
  <2>1. n \in Nat /\ n + 1 - 1 = n
    OBVIOUS
  <2>. QED
    BY <2>1, JoinedBy
<1>. HIDE DEF u
<1>2. n \in Nat /\ Len(t) \in Nat /\ DOMAIN u = 1 .. Len(u) /\ DOMAIN s = 1 .. n
  BY <1>1
<1>3. /\ Found(u, sep) \in SUBSET Nat /\ n + 1 \in Found(u, sep)
      /\ \A i \in Found(u, sep) : n + 1 <= i
  <2>1. n + 1 \in Found(u, sep) /\ Found(u, sep) \in SUBSET Nat
    BY <1>1, <1>2 DEF Found
  <2>2. ASSUME NEW i \in Found(u, sep), i <= n PROVE FALSE
    <3>1. i \in 1 .. n /\ u[i] = sep
      BY <1>2, <2>2 DEF Found
    <3>. QED
      BY <1>1, <1>2, <3>1 DEF Lacks
  <2>. QED
    BY <1>2, <2>1, <2>2
<1>4. Has(u, sep) /\ Min(Found(u, sep)) = n + 1
  BY <1>3, MinIs DEF Has
<1>5. SubSeq(u, 1, n) = s
  <2>1. \A i \in 1 .. n : u[i] \in T
    BY <1>1, <1>2, ElementOfSeq
  <2>2. /\ SubSeq(u, 1, n) \in Seq(T) /\ Len(SubSeq(u, 1, n)) = n
        /\ \A i \in 1 .. n : SubSeq(u, 1, n)[i] = u[i]
    BY <1>2, <2>1, SubSeqProperties
  <2>. QED
    BY <1>1, <2>2, SeqEqual
<1>6. SubSeq(u, n + 2, Len(u)) = t
  <2>1. \A i \in n + 2 .. Len(u) : u[i] \in T
    BY <1>1, <1>2, ElementOfSeq
  <2>2. /\ SubSeq(u, n + 2, Len(u)) \in Seq(T)
        /\ Len(SubSeq(u, n + 2, Len(u))) = Len(t)
        /\ \A i \in 1 .. Len(t) : SubSeq(u, n + 2, Len(u))[i] = u[n + 1 + i]
    BY <1>1, <1>2, <2>1, SubSeqProperties
  <2>. QED
    BY <1>1, <2>2, SeqEqual
<1>. QED
  BY <1>2, <1>4, <1>5, <1>6 DEF Before, After, u

LEMMA SplitsNowhere ==
  ASSUME NEW s, NEW sep, Lacks(s, sep)
  PROVE  ~Has(s, sep) /\ Before(s, sep) = s /\ After(s, sep) = <<>>
  BY DEF Lacks, Has, Found, Before, After

\* The definition of QueryValue with names for its parts: the parameter that starts
\* behind position i, and where the parameters with that key start.
Param(query, i) == Before(SubSeq(query, i + 1, Len(query)), "&")
IsOf(p, key)    == Has(p, "=") /\ Before(p, "=") = <<key>>
Starts(query)   == {0} \cup Found(query, "&")
Hits(query, key) == {i \in Starts(query) : IsOf(Param(query, i), key)}

LEMMA QueryValueIs ==
  ASSUME NEW query, NEW key
  PROVE  QueryValue(query, key) =
           IF Hits(query, key) = {} THEN {}
           ELSE {After(Param(query, Min(Hits(query, key))), "=")}
  BY DEF QueryValue, Hits, Starts, IsOf, Param

LEMMA StartsAreNaturals ==
  ASSUME NEW T, NEW q \in Seq(T)
  PROVE  Starts(q) \in SUBSET Nat /\ \A i \in Starts(q) : i <= Len(q)
  BY DEF Starts, Found

LEMMA FirstParam ==
  ASSUME NEW T, NEW q \in Seq(T)
  PROVE  Param(q, 0) = Before(q, "&")
<1>1. 0 + 1 = 1
  OBVIOUS
<1>2. SubSeq(q, 0 + 1, Len(q)) = q
  BY <1>1, SubSeqFull
<1>. QED
  BY <1>2 DEF Param

\* Without a separator there is one parameter.
LEMMA LoneParameter ==
  ASSUME NEW T, NEW p \in Seq(T), Lacks(p, "&"), NEW key
  PROVE  QueryValue(p, key) = IF IsOf(p, key) THEN {After(p, "=")} ELSE {}
<1>1. Starts(p) = {0}
  BY SplitsNowhere DEF Starts, Has
<1>2. Param(p, 0) = p
  BY SplitsNowhere, FirstParam
<1>3. Hits(p, key) = IF IsOf(p, key) THEN {0} ELSE {}
  BY <1>1, <1>2 DEF Hits
<1>4. Min({0}) = 0
  BY MinIs
<1>. QED
  BY <1>2, <1>3, <1>4, QueryValueIs

LEMMA SuffixIs ==
  ASSUME NEW T, NEW s \in Seq(T), NEW k \in Nat, k <= Len(s)
  PROVE  /\ SubSeq(s, k + 1, Len(s)) \in Seq(T)
         /\ Len(SubSeq(s, k + 1, Len(s))) = Len(s) - k
         /\ \A j \in 1 .. Len(s) - k : SubSeq(s, k + 1, Len(s))[j] = s[k + j]
<1>1. k + 1 \in Int /\ Len(s) \in Int /\ Len(s) - (k + 1) + 1 = Len(s) - k
  OBVIOUS
<1>2. \A j \in k + 1 .. Len(s) : s[j] \in T
  BY ElementOfSeq
<1>3. \A j \in 1 .. Len(s) - k : k + 1 + j - 1 = k + j
  OBVIOUS
<1>. DEFINE c == SubSeq(s, k + 1, Len(s))
<1>4. /\ c \in Seq(T)
      /\ Len(c) = IF k + 1 <= Len(s) THEN Len(s) - (k + 1) + 1 ELSE 0
      /\ \A j \in 1 .. Len(s) - (k + 1) + 1 : c[j] = s[k + 1 + j - 1]
  BY <1>1, <1>2, SubSeqProperties
<1>. HIDE DEF c
<1>5. c \in Seq(T) /\ Len(c) = Len(s) - k /\ \A j \in 1 .. Len(s) - k : c[j] = s[k + j]
  BY <1>1, <1>3, <1>4
<1>. QED
  BY <1>5 DEF c

\* The first parameter with the key is taken, of those behind it none: each query
\* is read as its first parameter and the query that follows it.
THEOREM FirstParameterWins ==
  ASSUME NEW T, NEW p \in Seq(T), NEW q \in Seq(T), "&" \in T, Lacks(p, "&"), NEW key
  PROVE  QueryValue(p \o <<"&">> \o q, key) =
           IF IsOf(p, key) THEN {After(p, "=")} ELSE QueryValue(q, key)
<1>. DEFINE u == p \o <<"&">> \o q
            n == Len(p) + 1
<1>1. /\ u \in Seq(T) /\ Len(u) = n + Len(q)
      /\ \A i \in 1 .. n - 1 : u[i] = p[i]
      /\ u[n] = "&"
      /\ \A i \in 1 .. Len(q) : u[n + i] = q[i]
  BY JoinedBy
<1>2. Param(u, 0) = p
  <2>1. Param(u, 0) = Before(u, "&")
    BY <1>1, FirstParam
  <2>2. Before(u, "&") = p
    BY SplitsAtFirst
  <2>. QED
    BY <2>1, <2>2
<1>. HIDE DEF u
<1>3. n \in Nat \ {0} /\ Len(q) \in Nat
  OBVIOUS
<1>. HIDE DEF n
<1>4. Found(u, "&") = {n + i : i \in Starts(q)}
  <2>1. DOMAIN u = 1 .. n + Len(q) /\ DOMAIN q = 1 .. Len(q) /\ DOMAIN p = 1 .. n - 1
    BY <1>1 DEF n
  <2>2. ASSUME NEW i \in Found(u, "&") PROVE \E j \in Starts(q) : i = n + j
    <3>1. i \in 1 .. n + Len(q) /\ u[i] = "&"
      BY <2>1 DEF Found
    <3>2. CASE i < n
      <4>1. i \in 1 .. n - 1
        BY <1>3, <3>1, <3>2
      <4>. QED
        BY <1>1, <2>1, <3>1, <4>1 DEF Lacks
    <3>3. CASE i = n
      BY <1>3, <3>3 DEF Starts
    <3>4. CASE i > n
      <4>1. i - n \in 1 .. Len(q) /\ i = n + (i - n)
        BY <1>3, <3>1, <3>4
      <4>2. q[i - n] = "&"
        BY <1>1, <3>1, <4>1
      <4>3. i - n \in Starts(q)
        BY <2>1, <4>1, <4>2 DEF Starts, Found
      <4>. QED
        BY <4>1, <4>3
    <3>. QED
      BY <1>3, <3>1, <3>2, <3>3, <3>4
  <2>3. ASSUME NEW j \in Starts(q) PROVE n + j \in Found(u, "&")
    <3>1. CASE j = 0
      BY <1>1, <1>3, <2>1, <3>1 DEF Found
    <3>2. CASE j # 0
      <4>1. j \in 1 .. Len(q) /\ q[j] = "&"
        BY <2>1, <3>2 DEF Starts, Found
      <4>. QED
        BY <1>1, <1>3, <2>1, <4>1 DEF Found
    <3>. QED
      BY <3>1, <3>2
  <2>. QED
    BY <2>2, <2>3
<1>5. ASSUME NEW i \in Starts(q) PROVE Param(u, n + i) = Param(q, i)
  <2>1. i \in Nat /\ i <= Len(q)
    BY StartsAreNaturals
  <2>2. SubSeq(u, n + i + 1, Len(u)) = SubSeq(q, i + 1, Len(q))
    <3>. DEFINE a == SubSeq(u, n + i + 1, Len(u))
                b == SubSeq(q, i + 1, Len(q))
    <3>1. n + i \in Nat /\ n + i <= Len(u) /\ Len(u) - (n + i) = Len(q) - i
      BY <1>1, <1>3, <2>1
    <3>2. /\ a \in Seq(T) /\ Len(a) = Len(q) - i
          /\ \A j \in 1 .. Len(q) - i : a[j] = u[n + i + j]
      <4>1. /\ a \in Seq(T) /\ Len(a) = Len(u) - (n + i)
            /\ \A j \in 1 .. Len(u) - (n + i) : a[j] = u[n + i + j]
        <5>1. PICK m \in Nat : m = n + i
          BY <3>1
        <5>2. m <= Len(u) /\ a = SubSeq(u, m + 1, Len(u))
          BY <3>1, <5>1
        <5>. HIDE DEF a
        <5>3. /\ a \in Seq(T) /\ Len(a) = Len(u) - m
              /\ \A j \in 1 .. Len(u) - m : a[j] = u[m + j]
          BY <1>1, <5>2, SuffixIs
        <5>. QED
          BY <5>1, <5>3
      <4>. QED
        BY <3>1, <4>1
    <3>3. /\ b \in Seq(T) /\ Len(b) = Len(q) - i
          /\ \A j \in 1 .. Len(q) - i : b[j] = q[i + j]
      BY <2>1, SuffixIs
    <3>. HIDE DEF a, b
    <3>4. ASSUME NEW j \in 1 .. Len(q) - i PROVE a[j] = b[j]
      <4>1. i + j \in 1 .. Len(q) /\ n + i + j = n + (i + j)
        BY <1>3, <2>1
      <4>. QED
        BY <1>1, <3>2, <3>3, <4>1
    <3>5. a = b
      BY <3>2, <3>3, <3>4, SeqEqual
    <3>. QED
      BY <3>5 DEF a, b
  <2>. QED
    BY <1>1, <2>2 DEF Param
<1>6. Hits(u, key) = {i \in {0} : IsOf(p, key)} \cup {n + i : i \in Hits(q, key)}
  BY <1>2, <1>4, <1>5 DEF Hits, Starts
<1>7. CASE IsOf(p, key)
  <2>1. Hits(u, key) \in SUBSET Nat /\ 0 \in Hits(u, key)
    BY <1>3, <1>6, <1>7, StartsAreNaturals DEF Hits
  <2>2. Min(Hits(u, key)) = 0
    BY <2>1, MinIs
  <2>. QED
    BY <1>2, <1>7, <2>1, <2>2, QueryValueIs DEF u
<1>8. CASE ~IsOf(p, key)
  <2>1. Hits(u, key) = {n + i : i \in Hits(q, key)}
    BY <1>6, <1>8
  <2>2. Hits(q, key) \in SUBSET Nat
    BY StartsAreNaturals DEF Hits
  <2>3. CASE Hits(q, key) = {}
    BY <1>8, <2>1, <2>3, QueryValueIs DEF u
  <2>4. CASE Hits(q, key) # {}
    <3>. DEFINE m == Min(Hits(q, key))
    <3>1. m \in Hits(q, key) /\ \A i \in Hits(q, key) : m <= i
      BY <2>2, <2>4, MinOf
    <3>. HIDE DEF m
    <3>2. /\ Hits(u, key) \in SUBSET Nat /\ n + m \in Hits(u, key)
          /\ \A j \in Hits(u, key) : n + m <= j
      BY <1>3, <2>1, <2>2, <3>1
    <3>3. Min(Hits(u, key)) = n + m /\ Hits(u, key) # {}
      BY <3>2, MinIs
    <3>4. Param(u, n + m) = Param(q, m)
      BY <1>5, <3>1 DEF Hits
    <3>. QED
      BY <1>8, <2>4, <3>3, <3>4, QueryValueIs DEF u, m
  <2>. QED
    BY <2>3, <2>4
<1>. QED
  BY <1>7, <1>8

\* What stands behind the scheme: a secret without @, a host without a colon, a
\* token that is a port, and a query or none.
Authorities(T) ==
  [secret : {s \in Seq(T) : Lacks(s, "@")},
   host : {s \in Seq(T) : Lacks(s, ":") /\ Lacks(s, "?")},
   port : (DOMAIN PortOf \cap T) \ {"?"}]

HostPort(a)     == a.host \o <<":">> \o <<a.port>>
Bare(a)         == a.secret \o <<"@">> \o HostPort(a)
Asking(a, query) == a.secret \o <<"@">> \o (HostPort(a) \o <<"?">> \o query)

LEMMA HostPortIs ==
  ASSUME NEW T, {"@", ":", "?"} \subseteq T, NEW a \in Authorities(T)
  PROVE  /\ HostPort(a) \in Seq(T) /\ Lacks(HostPort(a), "?")
         /\ Has(HostPort(a), ":") /\ Before(HostPort(a), ":") = a.host
         /\ After(HostPort(a), ":") = <<a.port>>
<1>1. /\ a.host \in Seq(T) /\ Lacks(a.host, ":") /\ Lacks(a.host, "?")
      /\ a.port \in T /\ a.port # "?"
  BY DEF Authorities
<1>. DEFINE h == a.host
            q == <<a.port>>
            u == h \o <<":">> \o q
            n == Len(h) + 1
<1>2. q \in Seq(T) /\ Len(q) = 1 /\ q[1] = a.port
  BY <1>1
<1>3. /\ u \in Seq(T) /\ Len(u) = n + Len(q)
      /\ \A i \in 1 .. n - 1 : u[i] = h[i]
      /\ u[n] = ":"
      /\ \A i \in 1 .. Len(q) : u[n + i] = q[i]
  BY <1>1, <1>2, JoinedBy
<1>4. Has(u, ":") /\ Before(u, ":") = h /\ After(u, ":") = q
  BY <1>1, <1>2, SplitsAtFirst
<1>5. n \in Nat \ {0} /\ DOMAIN h = 1 .. n - 1
  BY <1>1
<1>. HIDE DEF u, n, h
<1>6. ASSUME NEW i \in DOMAIN u PROVE u[i] # "?"
  <2>1. i \in 1 .. n + 1
    BY <1>2, <1>3, <1>5
  <2>2. CASE i < n
    <3>1. i \in DOMAIN h /\ u[i] = h[i]
      BY <1>3, <1>5, <2>1, <2>2
    <3>. QED
      BY <1>1, <3>1 DEF Lacks, h
  <2>3. CASE i = n
    BY <1>3, <2>3
  <2>4. CASE i = n + 1
    <3>1. u[n + 1] = q[1]
      BY <1>2, <1>3
    <3>. QED
      BY <1>1, <1>2, <2>4, <3>1
  <2>. QED
    BY <1>5, <2>1, <2>2, <2>3, <2>4
<1>7. Lacks(u, "?")
  BY <1>6 DEF Lacks
<1>. QED
  BY <1>3, <1>4, <1>7 DEF HostPort, u, h

\* An authority is read as it was written, whatever the tokens are.
LEMMA AuthorityIsRead ==
  ASSUME NEW T, {"@", ":", "?"} \subseteq T, NEW a \in Authorities(T),
         NEW query \in Seq(T), NEW stripped,
         \/ stripped = Asking(a, query)
         \/ query = <<>> /\ stripped = Bare(a)
  PROVE  Authority(stripped) =
           {[secret |-> a.secret, host |-> a.host, port |-> PortOf[a.port],
             query |-> query]}
<1>1. a.secret \in Seq(T) /\ Lacks(a.secret, "@") /\ a.port \in DOMAIN PortOf
  BY DEF Authorities
<1>2. PICK rest \in Seq(T) : /\ stripped = a.secret \o <<"@">> \o rest
                             /\ Before(rest, "?") = HostPort(a)
                             /\ After(rest, "?") = query
  <2>1. CASE stripped = Asking(a, query)
    <3>. DEFINE r == HostPort(a) \o <<"?">> \o query
    <3>1. r \in Seq(T) /\ Before(r, "?") = HostPort(a) /\ After(r, "?") = query
      BY HostPortIs, JoinedBy, SplitsAtFirst
    <3>. QED
      BY <2>1, <3>1 DEF Asking
  <2>2. CASE query = <<>> /\ stripped = Bare(a)
    BY <2>2, HostPortIs, SplitsNowhere DEF Bare
  <2>. QED
    BY <2>1, <2>2
<1>3. Has(stripped, "@") /\ Before(stripped, "@") = a.secret /\ After(stripped, "@") = rest
  BY <1>1, <1>2, SplitsAtFirst
<1>4. Len(<<a.port>>) = 1 /\ <<a.port>>[1] = a.port
  OBVIOUS
<1>. QED
  BY <1>1, <1>2, <1>3, <1>4, HostPortIs DEF Authority

\* The outbound for the server of a, under the name sni.
Proxy(a, sni, protocol, user, security) ==
  [protocol |-> protocol,
   settings |-> [address |-> a.host, port |-> PortOf[a.port], user |-> user],
   network |-> <<"tcp">>, security |-> security, serverName |-> sni]

LEMMA OutboundOf ==
  ASSUME NEW a, NEW sni, NEW protocol, NEW user, NEW security, NEW url,
         parse_subscription_url(url) =
           {[protocol |-> protocol, address |-> a.host, port |-> PortOf[a.port],
             user |-> user, sni |-> sni, security |-> security, network |-> <<"tcp">>]}
  PROVE  generate_xray_config(url) = {Proxy(a, sni, protocol, user, security)}
<1>. DEFINE address == a.host
            port == PortOf[a.port]
            tcp == <<"tcp">>
            p == [protocol |-> protocol, address |-> address, port |-> port, user |-> user,
                  sni |-> sni, security |-> security, network |-> tcp]
<1>1. /\ p.protocol = protocol /\ p.address = address /\ p.port = port /\ p.user = user
      /\ p.sni = sni /\ p.security = security /\ p.network = tcp
  OBVIOUS
<1>2. parse_subscription_url(url) = {p}
  OBVIOUS
<1>. HIDE DEF p
<1>3. generate_xray_config(url) =
        {[protocol |-> p.protocol,
          settings |-> [address |-> p.address, port |-> p.port, user |-> p.user],
          network |-> p.network, security |-> p.security, serverName |-> p.sni]}
  BY <1>2 DEF generate_xray_config
<1>. QED
  BY <1>1, <1>3 DEF Proxy

\* A trojan or vless URL, with a query or without one, becomes an outbound to the
\* host and port it states, with its secret and its server name: the first sni of
\* the query, or the host.
THEOREM UrlIsRead ==
  ASSUME NEW T, {"@", ":", "?"} \subseteq T, NEW a \in Authorities(T),
         NEW query \in Seq(T), NEW url,
         \/ Tail(url) = Asking(a, query)
         \/ query = <<>> /\ Tail(url) = Bare(a)
  PROVE  LET sni == unwrap_or(QueryValue(query, "sni"), a.host)
             tls == unwrap_or(QueryValue(query, "security"), <<"tls">>) IN
         /\ Head(url) = "trojan://" => generate_xray_config(url) =
              {Proxy(a, sni, "trojan", [password |-> a.secret], <<"tls">>)}
         /\ Head(url) = "vless://" => generate_xray_config(url) =
              {Proxy(a, sni, "vless",
                     [id |-> a.secret, encryption |-> "none", flow |-> ""], tls)}
<1>. DEFINE sni == unwrap_or(QueryValue(query, "sni"), a.host)
            tls == unwrap_or(QueryValue(query, "security"), <<"tls">>)
            read == [secret |-> a.secret, host |-> a.host, port |-> PortOf[a.port],
                     query |-> query]
<1>1. Authority(Tail(url)) = {read}
  BY AuthorityIsRead
<1>2. /\ read.secret = a.secret /\ read.host = a.host /\ read.port = PortOf[a.port]
      /\ read.query = query
  OBVIOUS
<1>3. /\ unwrap_or(QueryValue(read.query, "sni"), read.host) = sni
      /\ unwrap_or(QueryValue(read.query, "security"), <<"tls">>) = tls
  BY <1>2
<1>. HIDE DEF read, sni, tls
<1>4. ASSUME Head(url) = "trojan://"
      PROVE  generate_xray_config(url) =
               {Proxy(a, sni, "trojan", [password |-> a.secret], <<"tls">>)}
  <2>1. parse_subscription_url(url) = parse_trojan_url(Tail(url))
    BY <1>4 DEF parse_subscription_url
  <2>2. parse_subscription_url(url) =
          {[protocol |-> "trojan", address |-> a.host, port |-> PortOf[a.port],
            user |-> [password |-> a.secret], sni |-> sni,
            security |-> <<"tls">>, network |-> <<"tcp">>]}
    BY <1>1, <1>2, <1>3, <2>1 DEF parse_trojan_url
  <2>. QED
    BY <2>2, OutboundOf
<1>5. ASSUME Head(url) = "vless://"
      PROVE  generate_xray_config(url) =
               {Proxy(a, sni, "vless",
                      [id |-> a.secret, encryption |-> "none", flow |-> ""], tls)}
  <2>. DEFINE user == [id |-> a.secret, encryption |-> "none", flow |-> ""]
  <2>1. parse_subscription_url(url) = parse_vless_url(Tail(url))
    BY <1>5 DEF parse_subscription_url
  <2>2. parse_subscription_url(url) =
          {[protocol |-> "vless", address |-> a.host, port |-> PortOf[a.port],
            user |-> user, sni |-> sni, security |-> tls,
            network |-> <<"tcp">>]}
    BY <1>1, <1>2, <1>3, <2>1 DEF parse_vless_url
  <2>. HIDE DEF user
  <2>3. generate_xray_config(url) = {Proxy(a, sni, "vless", user, tls)}
    BY <2>2, OutboundOf
  <2>. QED
    BY <2>3 DEF user
<1>. QED
  BY <1>4, <1>5 DEF sni, tls

-----------------------------------------------------------------------------
(* As what a sidecar presents itself.                                      *)

\* The parsers read the URLs that have a documented form: none is refused, and the
\* outbound made of one presents itself as it says.
ReadRightly ==
  \A n \in DOMAIN Says : n \in Nodes \ Garbled /\ Presents(n) = {Says[n]}

\* Once the parsers read every URL rightly, no order of runs, failures, kills and
\* reads of the file makes a sidecar present itself as another node, if runs do not overlap.
THEOREM PresentsItsOwn ==
  ReadRightly /\ "overlap" \notin Faults => (Spec => []PresentsOwnNode)
<1>. SUFFICES ASSUME ReadRightly, "overlap" \notin Faults
              PROVE  Spec => []PresentsOwnNode
  OBVIOUS
<1>1. SidecarOfOwnNode => PresentsOwnNode
  BY DEF SidecarOfOwnNode, PresentsOwnNode, ReadRightly
<1>. QED
  BY <1>1, OwnNode, PTL

=============================================================================
