----------------------------- MODULE StartProofs ----------------------------
(***************************************************************************)
(* Proofs about what a program does before it serves anybody.  Startup: a  *)
(* tool that was sent here by the database finds its monitor unless two    *)
(* processes share the ports.  Settings: the command line is parsed as it  *)
(* is meant, and what the configuration file nests is read as nested.      *)
(***************************************************************************)
EXTENDS Startup, Settings, FiniteSetTheorems, WellFoundedInduction,
        SequenceTheorems, TLAPS

(* Every step keeps the types.                                             *)
LEMMA TypeOKStep ==
  ASSUME TypeOK, BoundInv, [Next]_vars
  PROVE  TypeOK'
<1> USE StartupAssumption
<1>1. CASE UNCHANGED vars
  BY <1>1 DEF vars, ctlVars, regVars, TypeOK
<1>2. CASE Fork
  BY <1>2 DEF Fork, regVars, TypeOK, Copies
<1>3. ASSUME NEW p \in Copies, BindSouth(p) PROVE TypeOK'
  BY <1>3 DEF BindSouth, Bind, regVars, TypeOK
<1>4. ASSUME NEW p \in Copies, BindNorth(p) PROVE TypeOK'
  BY <1>4 DEF BindNorth, Bind, regVars, TypeOK
<1>5. ASSUME NEW p \in Copies, CreateThreads(p) PROVE TypeOK'
  BY <1>5 DEF CreateThreads, regVars, TypeOK
<1>6. ASSUME NEW p \in Copies, NEW s \in Sides, StartLoop(p, s)
      PROVE  TypeOK'
  BY <1>6 DEF StartLoop, regVars, TypeOK
<1>7. ASSUME NEW p \in Copies, Join(p) PROVE TypeOK'
  BY <1>7 DEF Join, regVars, TypeOK
<1>8. ASSUME NEW m \in Monitors, MonitorFork(m) PROVE TypeOK'
  <2>1. mon' \in [Monitors ->
                    [Copies -> {"none", "fork", "connect", "up", "exited"}]]
    <3>1. CASE mon' = [mon EXCEPT ![m] = [k \in Copies |-> "connect"]]
      BY <3>1 DEF TypeOK
    <3>2. ASSUME NEW l \in {"connect", "exited"},
                 mon' = [mon EXCEPT ![m]["parent"] = l]
          PROVE  mon' \in [Monitors -> [Copies ->
                             {"none", "fork", "connect", "up", "exited"}]]
      BY <3>2 DEF TypeOK
    <3> QED
      BY <1>8, <3>1, <3>2 DEF MonitorFork
  <2> QED
    BY <1>8, <2>1 DEF MonitorFork, ctlVars, regVars, TypeOK
<1>9. ASSUME NEW m \in Monitors, NEW k \in Copies, MonitorConnect(m, k)
      PROVE  TypeOK'
  BY <1>9 DEF MonitorConnect, ctlVars, TypeOK
<1>10. ASSUME NEW m \in Monitors, NEW k \in Copies, MonitorRefused(m, k)
      PROVE  TypeOK'
  BY <1>10 DEF MonitorRefused, ctlVars, regVars, TypeOK
<1>11. ASSUME NEW m \in Monitors, NEW k \in Copies, MonitorBreaks(m, k)
      PROVE  TypeOK'
  BY <1>11 DEF MonitorBreaks, ctlVars, regVars, TypeOK
<1>12. ASSUME NEW t \in Tools, ToolPush(t) PROVE TypeOK'
  BY <1>12 DEF ToolPush, ctlVars, regVars, TypeOK
<1> QED
  BY <1>1, <1>2, <1>3, <1>4, <1>5, <1>6, <1>7, <1>8, <1>9, <1>10, <1>11,
     <1>12 DEF Next, ControllerStart, MonitorStart

(* Every step keeps what a process knows about the ports: they are bound   *)
(* before a loop starts, and never released.                               *)
LEMMA BoundInvStep ==
  ASSUME TypeOK, BoundInv, [Next]_vars
  PROVE  BoundInv'
<1> USE StartupAssumption
<1>1. CASE UNCHANGED vars
  BY <1>1 DEF vars, ctlVars, BoundInv
<1>2. CASE Fork
  BY <1>2 DEF Fork, TypeOK, BoundInv, Sides, Copies
<1>3. ASSUME NEW p \in Copies, BindSouth(p) PROVE BoundInv'
  BY <1>3 DEF BindSouth, Bind, TypeOK, BoundInv, Sides
<1>4. ASSUME NEW p \in Copies, BindNorth(p) PROVE BoundInv'
  BY <1>4 DEF BindNorth, Bind, TypeOK, BoundInv, Sides
<1>5. ASSUME NEW p \in Copies, CreateThreads(p) PROVE BoundInv'
  BY <1>5 DEF CreateThreads, TypeOK, BoundInv
<1>6. ASSUME NEW p \in Copies, NEW s \in Sides, StartLoop(p, s)
      PROVE  BoundInv'
  BY <1>6 DEF StartLoop, BoundInv
<1>7. ASSUME NEW p \in Copies, Join(p) PROVE BoundInv'
  BY <1>7 DEF Join, BoundInv
<1>8. ASSUME NEW m \in Monitors, MonitorFork(m) PROVE BoundInv'
  BY <1>8 DEF MonitorFork, ctlVars, BoundInv
<1>9. ASSUME NEW m \in Monitors, NEW k \in Copies, MonitorConnect(m, k)
      PROVE  BoundInv'
  BY <1>9 DEF MonitorConnect, ctlVars, BoundInv
<1>10. ASSUME NEW m \in Monitors, NEW k \in Copies, MonitorRefused(m, k)
      PROVE  BoundInv'
  BY <1>10 DEF MonitorRefused, ctlVars, BoundInv
<1>11. ASSUME NEW m \in Monitors, NEW k \in Copies, MonitorBreaks(m, k)
      PROVE  BoundInv'
  BY <1>11 DEF MonitorBreaks, ctlVars, BoundInv
<1>12. ASSUME NEW t \in Tools, ToolPush(t) PROVE BoundInv'
  BY <1>12 DEF ToolPush, Listening, ctlVars, TypeOK, BoundInv, Sides
<1> QED
  BY <1>1, <1>2, <1>3, <1>4, <1>5, <1>6, <1>7, <1>8, <1>9, <1>10, <1>11,
     <1>12 DEF Next, ControllerStart, MonitorStart

(* A monitor enters the map of the process it is connected to in the step  *)
(* in which the database learns its name, and the south port keeps its     *)
(* owner.                                                                  *)
LEMMA RegInvStep ==
  ASSUME TypeOK, BoundInv, RegInv, [Next]_vars
  PROVE  RegInv'
<1> USE StartupAssumption
<1>1. CASE UNCHANGED vars
  BY <1>1 DEF vars, ctlVars, regVars, RegInv
<1>2. CASE Fork
  BY <1>2 DEF Fork, regVars, RegInv
<1>3. ASSUME NEW p \in Copies, BindSouth(p) PROVE RegInv'
  BY <1>3 DEF BindSouth, Bind, regVars, RegInv
<1>4. ASSUME NEW p \in Copies, BindNorth(p) PROVE RegInv'
  BY <1>4 DEF BindNorth, Bind, regVars, RegInv
<1>5. ASSUME NEW p \in Copies, CreateThreads(p) PROVE RegInv'
  BY <1>5 DEF CreateThreads, regVars, RegInv
<1>6. ASSUME NEW p \in Copies, NEW s \in Sides, StartLoop(p, s)
      PROVE  RegInv'
  BY <1>6 DEF StartLoop, regVars, RegInv
<1>7. ASSUME NEW p \in Copies, Join(p) PROVE RegInv'
  BY <1>7 DEF Join, regVars, RegInv
<1>8. ASSUME NEW m \in Monitors, MonitorFork(m) PROVE RegInv'
  BY <1>8 DEF MonitorFork, ctlVars, regVars, RegInv
<1>9. ASSUME NEW m \in Monitors, NEW k \in Copies, MonitorConnect(m, k)
      PROVE  RegInv'
  BY <1>9 DEF MonitorConnect, Listening, ctlVars, TypeOK, RegInv, Sides
<1>10. ASSUME NEW m \in Monitors, NEW k \in Copies, MonitorRefused(m, k)
      PROVE  RegInv'
  BY <1>10 DEF MonitorRefused, ctlVars, regVars, RegInv
<1>11. ASSUME NEW m \in Monitors, NEW k \in Copies, MonitorBreaks(m, k)
      PROVE  RegInv'
  BY <1>11 DEF MonitorBreaks, ctlVars, regVars, RegInv
<1>12. ASSUME NEW t \in Tools, ToolPush(t) PROVE RegInv'
  BY <1>12 DEF ToolPush, ctlVars, regVars, RegInv
<1> QED
  BY <1>1, <1>2, <1>3, <1>4, <1>5, <1>6, <1>7, <1>8, <1>9, <1>10, <1>11,
     <1>12 DEF Next, ControllerStart, MonitorStart

(* A lookup that misses is made in another map than the one RegInv speaks  *)
(* of.                                                                     *)
LEMMA MissOnlyIfSplitStep ==
  ASSUME TypeOK, BoundInv, RegInv, MissOnlyIfSplit, [Next]_vars
  PROVE  MissOnlyIfSplit'
<1> USE StartupAssumption
<1>1. CASE UNCHANGED vars
  BY <1>1 DEF vars, ctlVars, MissOnlyIfSplit, Split
<1>2. CASE Fork
  BY <1>2 DEF Fork, MissOnlyIfSplit, Split
<1>3. ASSUME NEW p \in Copies, BindSouth(p) PROVE MissOnlyIfSplit'
  BY <1>3 DEF BindSouth, Bind, BoundInv, MissOnlyIfSplit, Split
<1>4. ASSUME NEW p \in Copies, BindNorth(p) PROVE MissOnlyIfSplit'
  BY <1>4 DEF BindNorth, Bind, BoundInv, MissOnlyIfSplit, Split, Sides
<1>5. ASSUME NEW p \in Copies, CreateThreads(p) PROVE MissOnlyIfSplit'
  BY <1>5 DEF CreateThreads, MissOnlyIfSplit, Split
<1>6. ASSUME NEW p \in Copies, NEW s \in Sides, StartLoop(p, s)
      PROVE  MissOnlyIfSplit'
  BY <1>6 DEF StartLoop, MissOnlyIfSplit, Split
<1>7. ASSUME NEW p \in Copies, Join(p) PROVE MissOnlyIfSplit'
  BY <1>7 DEF Join, MissOnlyIfSplit, Split
<1>8. ASSUME NEW m \in Monitors, MonitorFork(m) PROVE MissOnlyIfSplit'
  BY <1>8 DEF MonitorFork, ctlVars, MissOnlyIfSplit, Split
<1>9. ASSUME NEW m \in Monitors, NEW k \in Copies, MonitorConnect(m, k)
      PROVE  MissOnlyIfSplit'
  BY <1>9 DEF MonitorConnect, ctlVars, MissOnlyIfSplit, Split
<1>10. ASSUME NEW m \in Monitors, NEW k \in Copies, MonitorRefused(m, k)
      PROVE  MissOnlyIfSplit'
  BY <1>10 DEF MonitorRefused, ctlVars, MissOnlyIfSplit, Split
<1>11. ASSUME NEW m \in Monitors, NEW k \in Copies, MonitorBreaks(m, k)
      PROVE  MissOnlyIfSplit'
  BY <1>11 DEF MonitorBreaks, ctlVars, MissOnlyIfSplit, Split
<1>12. ASSUME NEW t \in Tools, ToolPush(t) PROVE MissOnlyIfSplit'
  <2>1. UNCHANGED <<fg, pc, bound, loop>>
    BY <1>12 DEF ToolPush, ctlVars
  <2>2. ASSUME tool'[t] = "missed" PROVE Split /\ ~fg
    <3>1. /\ Target[t] \in db
          /\ Listening("north")
          /\ map[bound["north"]][Target[t]] = NULL
      BY <1>12, <2>2 DEF ToolPush, TypeOK
    <3>2. bound["south"] # NULL /\ map[bound["south"]][Target[t]] # NULL
      BY <3>1 DEF RegInv
    <3>3. Split
      BY <3>1, <3>2 DEF Split
    <3>4. bound["south"] \in Copies /\ bound["north"] \in Copies
      BY <3>1, <3>2 DEF Listening, TypeOK, Sides
    <3>5. fg => \A s \in Sides : bound[s] # "child"
      BY DEF BoundInv, Copies
    <3>6. ~fg
      BY <3>3, <3>4, <3>5 DEF Split, Copies, Sides
    <3> QED
      BY <3>3, <3>6
  <2>3. \A u \in Tools : u # t => tool'[u] = tool[u]
    BY <1>12 DEF ToolPush, TypeOK
  <2> QED
    BY <2>1, <2>2, <2>3 DEF MissOnlyIfSplit, Split
<1> QED
  BY <1>1, <1>2, <1>3, <1>4, <1>5, <1>6, <1>7, <1>8, <1>9, <1>10, <1>11,
     <1>12 DEF Next, ControllerStart, MonitorStart

(* Every initial state has the parts of IInv.                              *)
LEMMA InitIInv == Init => IInv
BY StartupAssumption
   DEF Init, IInv, TypeOK, BoundInv, RegInv, MissOnlyIfSplit, Copies

(* IInv is an invariant, for any number of monitors and tools.             *)
THEOREM Invariance == Spec => []IInv
<1>1. IInv /\ [Next]_vars => IInv'
  BY TypeOKStep, BoundInvStep, RegInvStep, MissOnlyIfSplitStep DEF IInv
<1> QED
  BY InitIInv, <1>1, PTL DEF Spec

(* The variables keep their types.                                         *)
THEOREM TypeCorrect == Spec => []TypeOK
<1>1. IInv => TypeOK
  BY DEF IInv
<1> QED
  BY <1>1, Invariance, PTL

(* The lookup of a tool the database sent here (cconnection.c:185) misses  *)
(* only when the two processes of controller_Start share the ports.        *)
THEOREM MissesNeedASplit == Spec => []MissOnlyIfSplit
<1>1. IInv => MissOnlyIfSplit
  BY DEF IInv
<1> QED
  BY <1>1, Invariance, PTL

-----------------------------------------------------------------------------
LEMMA Least ==
  ASSUME NEW S \in SUBSET Nat, S # {}
  PROVE  \E m \in S : \A k \in S : m <= k
<1> DEFINE T == {0..n : n \in S}
<1>0. \A n \in Nat : IsFiniteSet(0..n)
  BY FS_Interval
<1>1. T \subseteq FiniteSubsetsOf(Nat) /\ T # {}
  <2>1. ASSUME NEW n \in S PROVE 0..n \in FiniteSubsetsOf(Nat)
    BY <1>0 DEF FiniteSubsetsOf
  <2> QED
    BY <2>1
<1>2. PICK x \in T : \A y \in T : ~(<<y, x>> \in StrictSubsetOrdering(Nat))
  <2> HIDE DEF T
  <2> QED
    BY <1>1, FS_StrictSubsetOrderingWellFounded, WFMin
<1>3. PICK m \in S : x = 0..m
  BY <1>2
<1>4. ASSUME NEW k \in S PROVE m <= k
  <2>1. SUFFICES ASSUME k < m PROVE FALSE
    OBVIOUS
  <2>2. <<0..k, 0..m>> \in StrictSubsetOrdering(Nat)
    BY <2>1 DEF StrictSubsetOrdering
  <2> QED
    BY <1>2, <1>3, <2>2
<1> QED
  BY <1>4

-----------------------------------------------------------------------------
(* What an option at place j says, and what the options before n do.       *)
SaidAt(j) ==
  IF OfType(given[j], "bool") THEN "1"
  ELSE IF Fed(j) THEN given[j + 1].value ELSE given[j].value

SaidLast(S, w) ==
  \/ S = {} /\ w = NONE
  \/ \E j \in S : (\A k \in S : k <= j) /\ w = SaidAt(j)

Before(S, n) == {j \in S : j < n}

(* The first call while it is at place i: what is left over, and what the  *)
(* variables have, is what the arguments before i mean; it is not at a     *)
(* value that an option before it has taken.                               *)
ParseInv ==
  phase = "parse" /\ calls = 1 =>
    /\ argv = given /\ room = Len(given)
    /\ i \in 1..(Len(given) + 1)
    /\ i <= EndAt \/ i = Len(given) + 1
    /\ i > 1 => ~Fed(i - 1)
    /\ Len(extra) <= i - 1
    /\ Picked(extra, Before(LeftOver, i))
    /\ \A v \in Var : SaidLast(Before(Sets(v), i), value[v])

ParsedInv ==
  calls = 1 /\ phase = "parsed" =>
    Picked(argv, LeftOver) /\ \A v \in Var : SaidLast(Sets(v), value[v])

OptTypes ==
  /\ given \in Seq(Arg) /\ argv \in Seq(Arg) /\ extra \in Seq(Arg)
  /\ i \in Nat \ {0} /\ calls \in Nat
  /\ value = [v \in Var |-> value[v]]
  /\ phase \in {"parse", "parsed", "overrun"} => calls > 0
  /\ phase \in {"setup", "gone"} => calls = 0
  /\ phase = "setup" => extra = << >> /\ \A v \in Var : value[v] = NONE
  /\ phase \in {"setup", "parse", "parsed", "overrun", "gone"}

OptInv == OptTypes /\ ParseInv /\ ParsedInv /\ (phase = "overrun" => calls > 1)

-----------------------------------------------------------------------------
LEMMA EndIs ==
  ASSUME given \in Seq(Arg)
  PROVE  /\ Len(given) \in Nat /\ DOMAIN given = 1..Len(given)
         /\ EndAt \in 1..(Len(given) + 1)
         /\ EndAt <= Len(given) => given[EndAt].kind = "end"
         /\ \A j \in 1..Len(given) : given[j].kind = "end" => EndAt <= j
<1> DEFINE S == {Len(given) + 1} \cup {j \in DOMAIN given : given[j].kind = "end"}
<1>1. Len(given) \in Nat /\ DOMAIN given = 1..Len(given)
  BY LenProperties
<1>2. S \subseteq 1..(Len(given) + 1) /\ S \in SUBSET Nat /\ S # {}
  BY <1>1
<1>3. \E m \in S : \A k \in S : m <= k
  <2> HIDE DEF S
  <2> QED
    BY <1>2, Least
<1>4. EndAt = CHOOSE m \in S : \A k \in S : m <= k
  BY DEF EndAt, Min
<1>5. EndAt \in S /\ \A k \in S : EndAt <= k
  <2> HIDE DEF S
  <2> QED
    BY <1>3, <1>4
<1> QED
  BY <1>1, <1>2, <1>5

(* What an argument that is looked at is.                                  *)
LEMMA At ==
  ASSUME given \in Seq(Arg), NEW n \in 1..Len(given), n <= EndAt,
         n > 1 => ~Fed(n - 1)
  PROVE  /\ given[n] \in Arg
         /\ given[n].kind = "data" => n \in LeftOver /\ \A v \in Var : n \notin Sets(v)
         /\ given[n].kind # "data" => n \notin LeftOver
         /\ given[n].kind = "end" => n = EndAt
         /\ given[n].kind # "end" => n < EndAt
         /\ Fed(n) => /\ n + 1 \in 1..Len(given) /\ n + 1 < EndAt
                      /\ n + 1 \notin LeftOver /\ ~Fed(n + 1)
                      /\ \A v \in Var : n + 1 \notin Sets(v)
<1>1. /\ Len(given) \in Nat /\ DOMAIN given = 1..Len(given)
      /\ EndAt \in 1..(Len(given) + 1)
      /\ EndAt <= Len(given) => given[EndAt].kind = "end"
      /\ \A j \in 1..Len(given) : given[j].kind = "end" => EndAt <= j
  BY EndIs
<1>2. given[n].kind = "end" <=> n = EndAt
  BY <1>1
<1>3. ASSUME NEW m \in 1..Len(given), given[m].kind = "data"
      PROVE  ~Fed(m) /\ \A v \in Var : m \notin Sets(v)
  BY <1>3 DEF Fed, Waits, OfType, Entry, IsOption, Sets
<1>4. ASSUME Fed(n)
      PROVE  /\ n + 1 \in 1..Len(given) /\ n + 1 < EndAt
             /\ n + 1 \notin LeftOver /\ given[n + 1].kind = "data"
  <2>1. n < EndAt /\ n < Len(given) /\ given[n + 1].kind = "data"
    BY <1>4 DEF Fed, Waits
  <2>2. n + 1 \in 1..Len(given) /\ n + 1 # EndAt /\ n + 1 < EndAt /\ n + 1 - 1 = n
    BY <1>1, <2>1
  <2>3. ~Stays(n + 1)
    BY <1>1, <1>4, <2>2 DEF Stays
  <2> QED
    BY <2>1, <2>2, <2>3 DEF LeftOver
<1>5. given[n].kind = "data" => n \in LeftOver
  BY <1>1, <1>2 DEF LeftOver, Stays
<1>6. given[n].kind # "data" => n \notin LeftOver
  BY <1>1 DEF LeftOver, Stays
<1> QED
  BY <1>1, <1>2, <1>3, <1>4, <1>5, <1>6, ElementOfSeq

(* One more argument, or all that follow, behind those picked before.      *)
LEMMA PickedEmpty == Picked(<< >>, {})
<1> DEFINE f == [k \in {} |-> k]
<1>1. f \in [{} -> {}] /\ DOMAIN << >> = {}
  OBVIOUS
<1> QED
  BY <1>1 DEF Picked

LEMMA PickedNext ==
  ASSUME NEW s \in Seq(Arg), NEW K \in SUBSET Nat, Picked(s, K),
         NEW j \in Nat, \A k \in K : k < j, given[j] \in Arg
  PROVE  Picked(Append(s, given[j]), K \cup {j})
<1> DEFINE n == Len(s)
           t == Append(s, given[j])
<1>1. /\ n \in Nat /\ DOMAIN s = 1..n /\ DOMAIN t = 1..(n + 1)
      /\ \A k \in 1..n : t[k] = s[k]
      /\ t[n + 1] = given[j]
  BY AppendProperties, LenProperties
<1> HIDE DEF n, t
<1>2. PICK f \in [1..n -> K] :
        /\ \A m \in K : \E k \in 1..n : f[k] = m
        /\ \A l, k \in 1..n : l < k => f[l] < f[k]
        /\ \A k \in 1..n : s[k] = given[f[k]]
  <2>1. DOMAIN s = 1..n
    BY <1>1
  <2> QED
    BY <2>1 DEF Picked
<1> DEFINE g == [k \in 1..(n + 1) |-> IF k = n + 1 THEN j ELSE f[k]]
<1>3. \A k \in 1..n : k \in 1..(n + 1) /\ k # n + 1 /\ k < n + 1
  BY <1>1
<1>4. \A k \in 1..(n + 1) : k = n + 1 \/ k \in 1..n
  BY <1>1
<1>5. g \in [1..(n + 1) -> K \cup {j}]
  BY <1>2, <1>4
<1>6. g[n + 1] = j /\ \A k \in 1..n : g[k] = f[k]
  BY <1>1, <1>3
<1> HIDE DEF g
<1>7. \A m \in K \cup {j} : \E k \in 1..(n + 1) : g[k] = m
  <2>1. n + 1 \in 1..(n + 1)
    BY <1>1
  <2> QED
    BY <1>2, <1>3, <1>6, <2>1
<1>8. ASSUME NEW l \in 1..(n + 1), NEW k \in 1..(n + 1), l < k PROVE g[l] < g[k]
  <2>1. l \in 1..n
    BY <1>1, <1>8
  <2>2. CASE k = n + 1
    BY <1>2, <1>6, <2>1, <2>2
  <2>3. CASE k # n + 1
    BY <1>2, <1>4, <1>6, <1>8, <2>1, <2>3
  <2> QED
    BY <2>2, <2>3
<1>9. \A k \in 1..(n + 1) : t[k] = given[g[k]]
  BY <1>1, <1>2, <1>4, <1>6
<1>10. Picked(t, K \cup {j})
  <2> DEFINE D == DOMAIN t
             J == K \cup {j}
  <2>1. /\ g \in [D -> J] /\ \A m \in J : \E k \in D : g[k] = m
        /\ \A l, k \in D : l < k => g[l] < g[k]
        /\ \A k \in D : t[k] = given[g[k]]
    BY <1>1, <1>5, <1>7, <1>8, <1>9
  <2> QED
    BY <2>1, Zenon DEF Picked
<1> QED
  BY <1>10 DEF t

LEMMA PickedRest ==
  ASSUME NEW s \in Seq(Arg), NEW K \in SUBSET Nat, Picked(s, K),
         given \in Seq(Arg), NEW e \in 1..Len(given), \A k \in K : k < e
  PROVE  Picked(s \o SubSeq(given, e + 1, Len(given)), K \cup ((e + 1)..Len(given)))
<1> DEFINE n == Len(s)
           r == SubSeq(given, e + 1, Len(given))
           m == Len(given) - e
           t == s \o r
           J == K \cup ((e + 1)..Len(given))
<1>0. Len(given) \in Nat /\ n \in Nat /\ m \in Nat /\ e \in Nat
  BY LenProperties
<1>1. /\ r \in Seq(Arg) /\ Len(r) = m
      /\ \A k \in 1..m : r[k] = given[e + k]
  <2>1. /\ e + 1 \in Int /\ Len(given) \in Int
        /\ \A k \in (e + 1)..Len(given) : given[k] \in Arg
        /\ Len(given) - (e + 1) + 1 = m
        /\ \A k \in 1..m : e + 1 + k - 1 = e + k
    BY <1>0, ElementOfSeq
  <2>2. /\ r \in Seq(Arg)
        /\ Len(r) = IF e + 1 <= Len(given) THEN Len(given) - (e + 1) + 1 ELSE 0
        /\ \A k \in 1..Len(given) - (e + 1) + 1 : r[k] = given[e + 1 + k - 1]
    BY <2>1, SubSeqProperties
  <2> HIDE DEF r
  <2> QED
    BY <1>0, <2>1, <2>2
<1> HIDE DEF r
<1>2. /\ DOMAIN t = 1..(n + m) /\ DOMAIN s = 1..n
      /\ \A k \in 1..n : t[k] = s[k]
      /\ \A k \in 1..m : t[n + k] = r[k]
  <2>1. /\ t \in Seq(Arg) /\ Len(t) = n + m
        /\ \A k \in 1..(n + m) : t[k] = IF k <= n THEN s[k] ELSE r[k - n]
    <3>1. /\ s \o r \in Seq(Arg) /\ Len(s \o r) = Len(s) + Len(r)
          /\ \A k \in 1..(Len(s) + Len(r)) :
               (s \o r)[k] = IF k <= Len(s) THEN s[k] ELSE r[k - Len(s)]
      BY <1>1, ConcatProperties
    <3> QED
      BY <1>1, <3>1
  <2> HIDE DEF t
  <2>2. \A k \in 1..n : k \in 1..(n + m) /\ k <= n
    BY <1>0
  <2>3. \A k \in 1..m : n + k \in 1..(n + m) /\ ~(n + k <= n) /\ n + k - n = k
    BY <1>0
  <2> QED
    BY <2>1, <2>2, <2>3, LenProperties
<1> HIDE DEF t
<1>3. PICK f \in [1..n -> K] :
        /\ \A j \in K : \E k \in 1..n : f[k] = j
        /\ \A l, k \in 1..n : l < k => f[l] < f[k]
        /\ \A k \in 1..n : s[k] = given[f[k]]
  <2>1. DOMAIN s = 1..n
    BY <1>2
  <2> QED
    BY <2>1 DEF Picked
<1> DEFINE g == [k \in 1..(n + m) |-> IF k <= n THEN f[k] ELSE e + (k - n)]
<1> HIDE DEF n, m
<1>4. \A k \in 1..(n + m) : k \in 1..n \/ (~(k <= n) /\ k - n \in 1..m /\ k = n + (k - n))
  BY <1>0
<1>5. \A k \in 1..m : e + k \in (e + 1)..Len(given)
  BY <1>0 DEF m
<1>6. /\ \A k \in 1..n : g[k] = f[k] /\ k \in 1..(n + m)
      /\ \A k \in 1..m : g[n + k] = e + k /\ n + k \in 1..(n + m)
  <2>1. \A k \in 1..n : k \in 1..(n + m) /\ k <= n
    BY <1>0
  <2>2. \A k \in 1..m : n + k \in 1..(n + m) /\ ~(n + k <= n) /\ n + k - n = k
    BY <1>0
  <2>3. \A k \in 1..n : g[k] = f[k]
    BY <2>1
  <2>4. ASSUME NEW k \in 1..m PROVE g[n + k] = e + k
    <3> DEFINE x == n + k
    <3>1. x \in 1..(n + m) /\ ~(x <= n) /\ x - n = k
      BY <1>0
    <3> HIDE DEF x
    <3>2. g[x] = e + k
      BY <3>1
    <3> QED
      BY <3>2 DEF x
  <2> QED
    BY <2>1, <2>2, <2>3, <2>4
<1>7. g \in [1..(n + m) -> J]
  <2>1. ASSUME NEW k \in 1..(n + m)
        PROVE  (IF k <= n THEN f[k] ELSE e + (k - n)) \in J
    <3>1. CASE k \in 1..n
      BY <1>0, <1>3, <3>1
    <3>2. CASE ~(k \in 1..n)
      BY <1>4, <1>5, <2>1, <3>2
    <3> QED
      BY <3>1, <3>2
  <2> QED
    BY <2>1
<1> HIDE DEF g
<1>8. \A j \in J : \E k \in 1..(n + m) : g[k] = j
  <2>1. ASSUME NEW j \in (e + 1)..Len(given) PROVE \E k \in 1..(n + m) : g[k] = j
    <3>1. j - e \in 1..m /\ e + (j - e) = j
      BY <1>0 DEF m
    <3> QED
      BY <1>6, <3>1
  <2> QED
    BY <1>3, <1>6, <2>1
<1>9. ASSUME NEW l \in 1..(n + m), NEW k \in 1..(n + m), l < k PROVE g[l] < g[k]
  <2>1. CASE k \in 1..n
    <3>1. l \in 1..n
      BY <1>0, <1>9, <2>1
    <3> QED
      BY <1>3, <1>6, <1>9, <2>1, <3>1
  <2>2. CASE k \notin 1..n
    <3>1. k - n \in 1..m /\ g[k] = e + (k - n)
      BY <1>4, <1>6, <2>2
    <3>2. CASE l \in 1..n
      <4>1. g[l] \in Nat /\ g[l] < e
        BY <1>3, <1>6, <3>2
      <4> QED
        BY <1>0, <3>1, <4>1
    <3>3. CASE l \notin 1..n
      <4>1. g[l] = e + (l - n) /\ l - n \in 1..m
        BY <1>4, <1>6, <3>3
      <4> QED
        BY <1>0, <1>9, <3>1, <4>1
    <3> QED
      BY <3>2, <3>3
  <2> QED
    BY <2>1, <2>2
<1>10. ASSUME NEW k \in 1..(n + m) PROVE t[k] = given[g[k]]
  <2>1. CASE k \in 1..n
    BY <1>2, <1>3, <1>6, <2>1
  <2>2. CASE k \notin 1..n
    <3>1. k - n \in 1..m /\ k = n + (k - n)
      BY <1>4, <2>2
    <3>2. t[n + (k - n)] = r[k - n] /\ g[n + (k - n)] = e + (k - n)
      BY <1>2, <1>6, <3>1
    <3> QED
      BY <1>1, <3>1, <3>2 DEF m
  <2> QED
    BY <2>1, <2>2
<1>11. Picked(t, J)
  <2> DEFINE D == DOMAIN t
  <2>1. /\ g \in [D -> J] /\ \A j \in J : \E k \in D : g[k] = j
        /\ \A l, k \in D : l < k => g[l] < g[k]
        /\ \A k \in D : t[k] = given[g[k]]
    BY <1>2, <1>7, <1>8, <1>9, <1>10 DEF n, m
  <2> HIDE DEF J
  <2> QED
    BY <2>1, Zenon DEF Picked
<1> QED
  BY <1>11 DEF t, r

-----------------------------------------------------------------------------
(* What a variable has after an argument that does not set it, and after   *)
(* one that does.                                                          *)
LEMMA SaidKept ==
  ASSUME NEW S \in SUBSET Nat, NEW n \in Nat, NEW m \in Nat, n <= m, NEW w,
         SaidLast(Before(S, n), w), \A j \in n..(m - 1) : j \notin S
  PROVE  SaidLast(Before(S, m), w)
<1>1. ASSUME NEW j \in S PROVE j < m <=> j < n
  <2>1. j \in n..(m - 1) <=> n <= j /\ j < m
    OBVIOUS
  <2> QED
    BY <2>1
<1>2. Before(S, m) = Before(S, n)
  BY <1>1 DEF Before
<1> QED
  BY <1>2

LEMMA SaidNext ==
  ASSUME NEW S \in SUBSET Nat, NEW n \in S, NEW m \in Nat, n < m,
         \A j \in (n + 1)..(m - 1) : j \notin S
  PROVE  SaidLast(Before(S, m), SaidAt(n))
<1>1. n \in Before(S, m) /\ \A k \in Before(S, m) : k <= n
  BY DEF Before
<1> QED
  BY <1>1 DEF SaidLast

(* A step of the first call, whatever the argument is.                     *)
LEMMA Pass ==
  ASSUME OptInv, phase = "parse", calls = 1,
         UNCHANGED <<option_list, option_map, argv, phase, calls, given, room>>,
         i' \in 1..(Len(given) + 1), i' <= EndAt \/ i' = Len(given) + 1,
         ~Fed(i' - 1), Len(extra') <= i' - 1,
         Picked(extra', Before(LeftOver, i')),
         \A v \in Var : SaidLast(Before(Sets(v), i'), value'[v])
  PROVE  ParseInv'
<1>1. argv' = given' /\ room' = Len(given')
  BY DEF OptInv, ParseInv
<1>2. \A n : Fed(n)' <=> Fed(n)
  BY DEF Fed, Waits, OfType, Entry, IsOption, EndAt
<1>3. EndAt' = EndAt
  BY DEF EndAt
<1>4. LeftOver' = LeftOver /\ \A v : Sets(v)' = Sets(v)
  BY DEF LeftOver, Stays, Sets, Fed, Waits, OfType, Entry, IsOption, EndAt
<1>5. \A n : SaidAt(n)' = SaidAt(n)
  BY <1>2 DEF SaidAt, OfType, Entry, IsOption
<1>6. Before(LeftOver, i)' = Before(LeftOver, i')
  BY <1>4 DEF Before
<1>7. Picked(extra, Before(LeftOver, i))'
  BY <1>6 DEF Picked
<1>8. ASSUME NEW v \in Var PROVE SaidLast(Before(Sets(v), i), value[v])'
  <2>1. Before(Sets(v), i)' = Before(Sets(v), i')
    BY <1>4 DEF Before
  <2> QED
    BY <1>5, <2>1 DEF SaidLast
<1>9. ~Fed(i - 1)'
  BY DEF Fed, Waits, OfType, Entry, IsOption, EndAt
<1> QED
  BY <1>1, <1>3, <1>7, <1>8, <1>9 DEF ParseInv

(* The places before n and n itself.                                       *)
LEMMA BeforeNext ==
  ASSUME NEW S \in SUBSET Nat, NEW n \in Nat
  PROVE  /\ n \in S => Before(S, n + 1) = Before(S, n) \cup {n}
         /\ n \notin S => Before(S, n + 1) = Before(S, n)
         /\ n + 1 \notin S => Before(S, n + 2) = Before(S, n + 1)
         /\ Before(S, n) \in SUBSET Nat /\ \A k \in Before(S, n) : k < n
<1>1. \A k \in S : /\ k < n + 1 <=> k < n \/ k = n
                   /\ k < n + 2 <=> k < n + 1 \/ k = n + 1
  OBVIOUS
<1> QED
  BY <1>1 DEF Before

LEMMA Subsets ==
  ASSUME given \in Seq(Arg)
  PROVE  LeftOver \in SUBSET Nat /\ \A v : Sets(v) \in SUBSET Nat
<1>1. DOMAIN given = 1..Len(given) /\ EndAt \in Nat
  BY EndIs
<1> QED
  BY <1>1 DEF LeftOver, Sets

(* Where the first call is while it parses.                                *)
LEMMA Here ==
  ASSUME OptInv, Parsing, calls = 1
  PROVE  /\ given \in Seq(Arg) /\ argv = given /\ i \in 1..Len(given)
         /\ Len(given) \in Nat /\ i <= EndAt /\ (i > 1 => ~Fed(i - 1))
         /\ i + 1 \in 1..(Len(given) + 1)
         /\ extra \in Seq(Arg) /\ Len(extra) \in Nat /\ Len(extra) <= i - 1
         /\ Picked(extra, Before(LeftOver, i))
         /\ \A v \in Var : SaidLast(Before(Sets(v), i), value[v])
<1>1. /\ given \in Seq(Arg) /\ argv = given /\ i \in 1..(Len(given) + 1)
      /\ i <= Len(given) /\ extra \in Seq(Arg)
  BY DEF OptInv, OptTypes, ParseInv, Parsing
<1>2. Len(given) \in Nat /\ Len(extra) \in Nat
  BY <1>1, LenProperties
<1> QED
  BY <1>1, <1>2 DEF OptInv, ParseInv, Parsing

(* One argument on, with or without adding it to those left over.          *)
LEMMA PassOne ==
  ASSUME OptInv, Parsing, calls = 1, UNCHANGED Rest, i' = i + 1, ~Fed(i),
         i < EndAt,
         \/ given[i].kind = "data" /\ extra' = Append(extra, given[i])
         \/ given[i].kind # "data" /\ extra' = extra,
         \A v \in Var : SaidLast(Before(Sets(v), i + 1), value'[v])
  PROVE  ParseInv'
<1>1. /\ given \in Seq(Arg) /\ argv = given /\ i \in 1..Len(given)
      /\ Len(given) \in Nat /\ i <= EndAt /\ (i > 1 => ~Fed(i - 1))
      /\ i + 1 \in 1..(Len(given) + 1)
      /\ extra \in Seq(Arg) /\ Len(extra) \in Nat /\ Len(extra) <= i - 1
      /\ Picked(extra, Before(LeftOver, i))
  BY Here
<1>2. /\ given[i] \in Arg
      /\ given[i].kind = "data" => i \in LeftOver
      /\ given[i].kind # "data" => i \notin LeftOver
  BY <1>1, At
<1>3. Len(extra') <= i
  BY <1>1, <1>2, AppendProperties
<1>4. Picked(extra', Before(LeftOver, i + 1))
  <2>1. /\ Before(LeftOver, i) \in SUBSET Nat /\ i \in Nat
        /\ \A k \in Before(LeftOver, i) : k < i
        /\ i \in LeftOver => Before(LeftOver, i + 1) = Before(LeftOver, i) \cup {i}
        /\ i \notin LeftOver => Before(LeftOver, i + 1) = Before(LeftOver, i)
    <3>1. LeftOver \in SUBSET Nat /\ i \in Nat
      BY <1>1, Subsets
    <3> QED
      BY <3>1, BeforeNext
  <2>2. CASE given[i].kind = "data"
    <3>1. Picked(Append(extra, given[i]), Before(LeftOver, i) \cup {i})
      BY <1>1, <1>2, <2>1, PickedNext
    <3> QED
      BY <1>2, <2>1, <2>2, <3>1
  <2>3. CASE given[i].kind # "data"
    BY <1>1, <1>2, <2>1, <2>3
  <2> QED
    BY <2>2, <2>3
<1>5. /\ i' \in 1..(Len(given) + 1) /\ i' - 1 = i
      /\ i' <= EndAt \/ i' = Len(given) + 1
  <2>1. EndAt \in 1..(Len(given) + 1)
    BY <1>1, EndIs
  <2> QED
    BY <1>1, <2>1
<1>6. phase = "parse"
  BY DEF Parsing
<1>7. /\ UNCHANGED <<option_list, option_map, argv, phase, calls, given, room>>
      /\ ~Fed(i' - 1) /\ Len(extra') <= i' - 1
      /\ Picked(extra', Before(LeftOver, i'))
      /\ \A v \in Var : SaidLast(Before(Sets(v), i'), value'[v])
  BY <1>3, <1>4, <1>5 DEF Rest
<1> QED
  BY <1>5, <1>6, <1>7, Pass

(* An argument that no option takes sets nothing.                          *)
LEMMA NothingSet ==
  ASSUME OptInv, Parsing, calls = 1, \A v \in Var : i \notin Sets(v)
  PROVE  \A v \in Var : SaidLast(Before(Sets(v), i + 1), value[v])
<1> SUFFICES ASSUME NEW v \in Var PROVE SaidLast(Before(Sets(v), i + 1), value[v])
  OBVIOUS
<1>1. given \in Seq(Arg) /\ i \in Nat /\ SaidLast(Before(Sets(v), i), value[v])
  BY Here
<1>2. Before(Sets(v), i + 1) = Before(Sets(v), i)
  BY <1>1, BeforeNext, Subsets
<1> QED
  BY <1>1, <1>2

(* An option with a value sets its variable to that.                       *)
LEMMA OptionSet ==
  ASSUME OptInv, Parsing, calls = 1, Entry(given[i]) # NONE, i < EndAt,
         \/ OfType(given[i], "bool")
         \/ Fed(i)
         \/ OfType(given[i], "value") /\ given[i].value # NONE,
         _set_entry_val(Entry(given[i]), SaidAt(i))
  PROVE  \A v \in Var : SaidLast(Before(Sets(v), i + 1), value'[v])
<1> SUFFICES ASSUME NEW v \in Var PROVE SaidLast(Before(Sets(v), i + 1), value'[v])
  OBVIOUS
<1>1. given \in Seq(Arg) /\ i \in Nat /\ i \in 1..Len(given) /\ EndAt \in Nat
  BY Here, EndIs
<1>2. value = [u \in Var |-> value[u]]
  BY DEF OptInv, OptTypes
<1> DEFINE e == Entry(given[i])
<1>3. CASE e.var = v
  <2>1. i \in Sets(v)
    BY <1>1, <1>3 DEF Sets
  <2>2. value'[v] = SaidAt(i)
    BY <1>2, <1>3, OptionsAssumption DEF _set_entry_val
  <2>3. i < i + 1 /\ i + 1 \in Nat /\ \A j \in (i + 1)..(i + 1 - 1) : j \notin Sets(v)
    BY <1>1
  <2> QED
    BY <1>1, <2>1, <2>2, <2>3, SaidNext, Subsets
<1>4. CASE e.var # v
  <2>1. i \notin Sets(v)
    BY <1>4 DEF Sets
  <2>2. value'[v] = value[v]
    BY <1>2, <1>4 DEF _set_entry_val
  <2>3. SaidLast(Before(Sets(v), i), value[v])
    BY Here
  <2>4. Before(Sets(v), i + 1) = Before(Sets(v), i)
    BY <1>1, <2>1, BeforeNext, Subsets
  <2> QED
    BY <2>2, <2>3, <2>4
<1> QED
  BY <1>3, <1>4

-----------------------------------------------------------------------------
(* The actions of the loop.                                                *)
LEMMA DataStep ==
  ASSUME OptInv, IsData, calls = 1
  PROVE  ParseInv'
<1>0. Parsing /\ argv[i].kind = "data" /\ extra' = Append(extra, argv[i])
      /\ i' = i + 1 /\ UNCHANGED <<value, Rest>>
  BY DEF IsData, After
<1>1. /\ given \in Seq(Arg) /\ argv = given /\ i \in 1..Len(given) /\ i <= EndAt
      /\ (i > 1 => ~Fed(i - 1))
  BY <1>0, Here
<1>2. i < EndAt /\ ~Fed(i) /\ \A v \in Var : i \notin Sets(v)
  BY <1>0, <1>1, At DEF Fed, Waits, OfType, Entry, IsOption
<1>3. \A v \in Var : SaidLast(Before(Sets(v), i + 1), value'[v])
  BY <1>0, <1>2, NothingSet
<1> QED
  BY <1>0, <1>1, <1>2, <1>3, PassOne

LEMMA IgnoredStep ==
  ASSUME OptInv, Ignored, calls = 1
  PROVE  ParseInv'
<1>0. Parsing /\ i' = i + 1 /\ UNCHANGED <<extra, value, Rest>>
  BY DEF Ignored, After
<1>1. /\ given \in Seq(Arg) /\ argv = given /\ i \in 1..Len(given) /\ i <= EndAt
      /\ (i > 1 => ~Fed(i - 1))
  BY <1>0, Here
<1>2. given[i].kind # "data" /\ given[i].kind # "end"
      /\ ~OfType(given[i], "bool") /\ ~OfType(given[i], "value")
  BY <1>1 DEF Ignored, OfType, Entry, IsOption
<1>3. i < EndAt /\ ~Fed(i) /\ \A v \in Var : i \notin Sets(v)
  BY <1>1, <1>2, At DEF Fed, Waits, Sets
<1>4. \A v \in Var : SaidLast(Before(Sets(v), i + 1), value'[v])
  BY <1>0, <1>3, NothingSet
<1> QED
  BY <1>0, <1>2, <1>3, <1>4, PassOne

LEMMA BoolStep ==
  ASSUME OptInv, BoolOption, calls = 1
  PROVE  ParseInv'
<1>0. Parsing /\ OfType(argv[i], "bool") /\ i' = i + 1 /\ UNCHANGED <<extra, Rest>>
      /\ _set_entry_val(Entry(argv[i]), "1")
  BY DEF BoolOption, After
<1>1. /\ given \in Seq(Arg) /\ argv = given /\ i \in 1..Len(given) /\ i <= EndAt
      /\ (i > 1 => ~Fed(i - 1))
  BY <1>0, Here
<1>2. given[i].kind # "data" /\ given[i].kind # "end" /\ Entry(given[i]) # NONE
      /\ ~OfType(given[i], "value") /\ OfType(given[i], "bool")
  BY <1>0, <1>1 DEF OfType, Entry, IsOption
<1>3. i < EndAt /\ ~Fed(i) /\ SaidAt(i) = "1"
  BY <1>1, <1>2, At DEF Fed, Waits, SaidAt
<1>4. \A v \in Var : SaidLast(Before(Sets(v), i + 1), value'[v])
  <2>1. _set_entry_val(Entry(given[i]), SaidAt(i))
    BY <1>0, <1>1, <1>3
  <2>2. \/ OfType(given[i], "bool")
        \/ Fed(i)
        \/ OfType(given[i], "value") /\ given[i].value # NONE
    BY <1>2
  <2> QED
    BY <1>0, <1>2, <1>3, <2>1, <2>2, OptionSet
<1> QED
  BY <1>0, <1>2, <1>3, <1>4, PassOne

LEMMA ValueStep ==
  ASSUME OptInv, ValueOption, calls = 1
  PROVE  ParseInv'
<1>0. Parsing /\ OfType(argv[i], "value") /\ UNCHANGED <<extra, Rest>>
  BY DEF ValueOption
<1>1. /\ given \in Seq(Arg) /\ argv = given /\ i \in 1..Len(given) /\ i <= EndAt
      /\ (i > 1 => ~Fed(i - 1)) /\ Len(given) \in Nat
  BY <1>0, Here
<1>2. given[i].kind # "data" /\ given[i].kind # "end" /\ Entry(given[i]) # NONE
      /\ OfType(given[i], "value") /\ ~OfType(given[i], "bool")
  BY <1>0, <1>1 DEF OfType, Entry, IsOption
<1>3. i < EndAt /\ EndAt \in Nat
  BY <1>1, <1>2, At, EndIs
<1>4. Fed(i) <=> given[i].value = NONE /\ i < Len(given) /\ given[i + 1].kind = "data"
  BY <1>2, <1>3 DEF Fed, Waits
<1>5. CASE given[i].value # NONE
  <2>1. i' = i + 1 /\ ~Fed(i) /\ SaidAt(i) = given[i].value
        /\ _set_entry_val(Entry(given[i]), SaidAt(i))
    BY <1>1, <1>2, <1>4, <1>5 DEF ValueOption, After, SaidAt
  <2>2. \A v \in Var : SaidLast(Before(Sets(v), i + 1), value'[v])
    BY <1>0, <1>2, <1>3, <1>5, <2>1, OptionSet
  <2> QED
    BY <1>0, <1>2, <1>3, <2>1, <2>2, PassOne
<1>6. CASE given[i].value = NONE /\ ~Fed(i)
  <2>1. i' = i + 1 /\ UNCHANGED value /\ \A v \in Var : i \notin Sets(v)
    BY <1>1, <1>2, <1>4, <1>6 DEF ValueOption, After, Skip, Sets
  <2>2. \A v \in Var : SaidLast(Before(Sets(v), i + 1), value'[v])
    BY <1>0, <2>1, NothingSet
  <2> QED
    BY <1>0, <1>2, <1>3, <1>6, <2>1, <2>2, PassOne
<1>7. CASE given[i].value = NONE /\ Fed(i)
  <2>1. /\ i' = i + 2 /\ SaidAt(i) = given[i + 1].value
        /\ _set_entry_val(Entry(given[i]), SaidAt(i))
    BY <1>1, <1>2, <1>4, <1>7 DEF ValueOption, After, SaidAt
  <2>2. /\ i + 1 \in 1..Len(given) /\ i + 1 < EndAt /\ i \notin LeftOver
        /\ i + 1 \notin LeftOver /\ ~Fed(i + 1)
        /\ \A v \in Var : i + 1 \notin Sets(v)
    BY <1>1, <1>2, <1>7, At
  <2>3. LeftOver \in SUBSET Nat /\ (\A v : Sets(v) \in SUBSET Nat) /\ i \in Nat
    BY <1>1, Subsets
  <2>4. \A v \in Var : SaidLast(Before(Sets(v), i'), value'[v])
    <3>1. \A v \in Var : SaidLast(Before(Sets(v), i + 1), value'[v])
      <4>1. \/ OfType(given[i], "bool")
            \/ Fed(i)
            \/ OfType(given[i], "value") /\ given[i].value # NONE
        BY <1>7
      <4> QED
        BY <1>0, <1>2, <1>3, <2>1, <4>1, OptionSet
    <3>2. \A v \in Var : Before(Sets(v), i + 2) = Before(Sets(v), i + 1)
      BY <2>2, <2>3, BeforeNext
    <3> QED
      BY <2>1, <3>1, <3>2
  <2>5. /\ Picked(extra', Before(LeftOver, i')) /\ Len(extra') <= i' - 1
    <3>1. Picked(extra, Before(LeftOver, i)) /\ Len(extra) \in Nat /\ Len(extra) <= i - 1
      BY <1>0, Here
    <3>2. Before(LeftOver, i + 2) = Before(LeftOver, i)
      BY <2>2, <2>3, BeforeNext
    <3> QED
      BY <1>0, <2>1, <2>3, <3>1, <3>2
  <2>6. /\ i' \in 1..(Len(given) + 1) /\ i' <= EndAt /\ i' - 1 = i + 1
    BY <1>1, <1>3, <2>1, <2>2
  <2>7. phase = "parse" /\ ~Fed(i' - 1)
        /\ UNCHANGED <<option_list, option_map, argv, phase, calls, given, room>>
    BY <1>0, <2>2, <2>6 DEF Parsing, Rest
  <2> QED
    BY <2>4, <2>5, <2>6, <2>7, Pass
<1> QED
  BY <1>5, <1>6, <1>7

LEMMA EndStep ==
  ASSUME OptInv, EndOfOptions, calls = 1
  PROVE  ParseInv'
<1>0. Parsing /\ argv[i].kind = "end" /\ i' = Len(argv) + 1 /\ UNCHANGED <<value, Rest>>
      /\ extra' = extra \o SubSeq(argv, i + 1, Len(argv))
  BY DEF EndOfOptions
<1>1. /\ given \in Seq(Arg) /\ argv = given /\ i \in 1..Len(given) /\ i <= EndAt
      /\ (i > 1 => ~Fed(i - 1)) /\ Len(given) \in Nat
      /\ extra \in Seq(Arg) /\ Len(extra) \in Nat /\ Len(extra) <= i - 1
      /\ Picked(extra, Before(LeftOver, i))
      /\ \A v \in Var : SaidLast(Before(Sets(v), i), value[v])
  BY <1>0, Here
<1>2. i = EndAt /\ DOMAIN given = 1..Len(given)
  BY <1>0, <1>1, At, EndIs
<1>3. LeftOver \in SUBSET Nat /\ (\A v : Sets(v) \in SUBSET Nat) /\ i \in Nat
  BY <1>1, Subsets
<1>4. Before(LeftOver, i') = Before(LeftOver, i) \cup ((i + 1)..Len(given))
  <2>1. ASSUME NEW j \in 1..Len(given)
        PROVE  j \in LeftOver <=> j \in Before(LeftOver, i) \/ j \in (i + 1)..Len(given)
    BY <1>1, <1>2 DEF LeftOver, Stays, Before
  <2>2. LeftOver \subseteq 1..Len(given)
    BY <1>2 DEF LeftOver
  <2>3. \A j \in 1..Len(given) : j < i'
    BY <1>0, <1>1
  <2>4. (i + 1)..Len(given) \subseteq 1..Len(given)
    BY <1>1
  <2> QED
    BY <2>1, <2>2, <2>3, <2>4 DEF Before
<1>5. Picked(extra', Before(LeftOver, i'))
  <2>1. \A k \in Before(LeftOver, i) : k < i
    BY DEF Before
  <2>2. Before(LeftOver, i) \in SUBSET Nat
    BY <1>3 DEF Before
  <2> QED
    BY <1>0, <1>1, <1>4, <2>1, <2>2, PickedRest
<1>6. Len(extra') <= i' - 1
  <2> DEFINE r == SubSeq(given, i + 1, Len(given))
  <2>1. r \in Seq(Arg) /\ Len(r) = Len(given) - i
    <3>1. /\ i + 1 \in Int /\ Len(given) \in Int /\ Len(given) - (i + 1) + 1 = Len(given) - i
          /\ \A k \in (i + 1)..Len(given) : given[k] \in Arg
          /\ i + 1 <= Len(given) \/ Len(given) - i = 0
      BY <1>1, ElementOfSeq
    <3>2. /\ r \in Seq(Arg)
          /\ Len(r) = IF i + 1 <= Len(given) THEN Len(given) - (i + 1) + 1 ELSE 0
      BY <3>1, SubSeqProperties
    <3> QED
      BY <3>1, <3>2
  <2> HIDE DEF r
  <2>2. Len(extra \o r) = Len(extra) + Len(r)
    BY <1>1, <2>1, ConcatProperties
  <2> QED
    BY <1>0, <1>1, <2>1, <2>2 DEF r
<1>7. \A v \in Var : SaidLast(Before(Sets(v), i'), value'[v])
  <2> SUFFICES ASSUME NEW v \in Var PROVE SaidLast(Before(Sets(v), i'), value'[v])
    OBVIOUS
  <2>1. \A j \in i..(i' - 1) : j \notin Sets(v)
    BY <1>0, <1>1, <1>2 DEF Sets
  <2>2. i' \in Nat /\ i <= i'
    BY <1>0, <1>1
  <2>4. Sets(v) \in SUBSET Nat
    BY <1>3
  <2>3. SaidLast(Before(Sets(v), i), value'[v])
    BY <1>0, <1>1
  <2> QED
    BY <1>3, <2>1, <2>2, <2>3, <2>4, SaidKept
<1>8. i' \in 1..(Len(given) + 1) /\ i' = Len(given) + 1 /\ i' - 1 = Len(given)
  BY <1>0, <1>1
<1>9. ~Fed(i' - 1)
  BY <1>1, <1>8 DEF Fed
<1>10. phase = "parse"
       /\ UNCHANGED <<option_list, option_map, argv, phase, calls, given, room>>
  BY <1>0 DEF Parsing, Rest
<1> QED
  BY <1>5, <1>6, <1>7, <1>8, <1>9, <1>10, Pass

-----------------------------------------------------------------------------
(* Before the loop: nothing is left over, and nothing has been said.       *)
LEMMA Fresh ==
  /\ given \in Seq(Arg) /\ argv = given /\ i = 1 /\ extra = << >>
  /\ room = Len(given) /\ \A v \in Var : value[v] = NONE
  /\ phase = "parsed" => given = << >>
  => ParseInv /\ ParsedInv
<1> SUFFICES ASSUME given \in Seq(Arg), argv = given, i = 1, extra = << >>,
                    room = Len(given), \A v \in Var : value[v] = NONE,
                    phase = "parsed" => given = << >>
             PROVE  ParseInv /\ ParsedInv
  OBVIOUS
<1>1. /\ Len(given) \in Nat /\ DOMAIN given = 1..Len(given)
      /\ EndAt \in 1..(Len(given) + 1)
  BY EndIs
<1>2. Before(LeftOver, 1) = {} /\ \A v \in Var : Before(Sets(v), 1) = {}
  BY <1>1 DEF Before, LeftOver, Sets
<1>3. ParseInv
  <2>1. Picked(extra, Before(LeftOver, i)) /\ Len(extra) = 0
    BY <1>2, PickedEmpty
  <2>2. \A v \in Var : SaidLast(Before(Sets(v), i), value[v])
    BY <1>2 DEF SaidLast
  <2>3. i \in 1..(Len(given) + 1) /\ i <= EndAt /\ ~(i > 1)
    BY <1>1
  <2> QED
    BY <2>1, <2>2, <2>3 DEF ParseInv
<1>4. ASSUME phase = "parsed" PROVE Picked(argv, LeftOver)
  BY <1>1, <1>4, PickedEmpty DEF LeftOver
<1>5. ASSUME phase = "parsed", NEW v \in Var PROVE SaidLast(Sets(v), value[v])
  <2>1. Sets(v) = {}
    BY <1>1, <1>5 DEF Sets
  <2> QED
    BY <2>1 DEF SaidLast
<1> QED
  BY <1>3, <1>4, <1>5 DEF ParsedInv

LEMMA StartStep ==
  ASSUME OptInv, OptTypes', NEW args, args \in Seq(Arg), phase = "setup", Start(args)
  PROVE  ParseInv' /\ ParsedInv'
<1>1. /\ (given \in Seq(Arg) /\ argv = given /\ i = 1 /\ extra = << >>)'
      /\ (room = Len(given) /\ \A v \in Var : value[v] = NONE)'
      /\ (phase = "parsed" => given = << >>)'
  BY DEF Start, OptInv, OptTypes
<1>2. (/\ given \in Seq(Arg) /\ argv = given /\ i = 1 /\ extra = << >>
       /\ room = Len(given) /\ \A v \in Var : value[v] = NONE
       /\ phase = "parsed" => given = << >>
       => ParseInv /\ ParsedInv)'
  BY Fresh, PTL
<1> QED
  BY <1>1, <1>2

(* After the loop: what was left over becomes argv, for which it has room. *)
LEMMA LastStep ==
  ASSUME OptInv, UpdateExtra, calls = 1
  PROVE  ParsedInv' /\ phase' = "parsed"
<1>1. /\ phase = "parse" /\ i > Len(argv) /\ argv' = extra
      /\ phase' = IF Len(extra) > room THEN "overrun" ELSE "parsed"
      /\ UNCHANGED <<option_list, option_map, extra, value, i, calls, given, room>>
  BY DEF UpdateExtra
<1>2. /\ given \in Seq(Arg) /\ argv = given /\ room = Len(given)
      /\ i \in 1..(Len(given) + 1) /\ extra \in Seq(Arg) /\ Len(extra) <= i - 1
      /\ Picked(extra, Before(LeftOver, i))
      /\ \A v \in Var : SaidLast(Before(Sets(v), i), value[v])
  BY <1>1 DEF OptInv, OptTypes, ParseInv
<1>3. /\ Len(given) \in Nat /\ DOMAIN given = 1..Len(given) /\ i = Len(given) + 1
      /\ EndAt \in 1..(Len(given) + 1) /\ Len(extra) \in Nat
  BY <1>1, <1>2, EndIs, LenProperties
<1>4. phase' = "parsed"
  BY <1>1, <1>2, <1>3
<1>5. Before(LeftOver, i) = LeftOver /\ \A v : Before(Sets(v), i) = Sets(v)
  BY <1>3 DEF Before, LeftOver, Sets
<1>6. LeftOver' = LeftOver /\ \A v : Sets(v)' = Sets(v)
  BY <1>1 DEF LeftOver, Stays, Sets, Fed, Waits, OfType, Entry, IsOption, EndAt
<1>7. \A n : SaidAt(n)' = SaidAt(n)
  BY <1>1 DEF SaidAt, Fed, Waits, OfType, Entry, IsOption, EndAt
<1>8. Picked(argv, LeftOver)'
  BY <1>1, <1>2, <1>5, <1>6 DEF Picked
<1>9. ASSUME NEW v \in Var PROVE SaidLast(Sets(v), value[v])'
  <2>1. SaidLast(Sets(v), value[v])
    BY <1>2, <1>5
  <2>2. Sets(v)' = Sets(v) /\ value' = value
    BY <1>1, <1>6
  <2> QED
    BY <1>7, <2>1, <2>2 DEF SaidLast
<1> QED
  BY <1>4, <1>8, <1>9 DEF ParsedInv

-----------------------------------------------------------------------------
(* What every step keeps of the variables' types and of phase and calls.   *)
LEMMA OptTypesNext ==
  ASSUME OptTypes, [OptNext]_optVars
  PROVE  OptTypes'
<1>1. ASSUME NEW o \in OptStr, cfuopt_add_entry(o) PROVE OptTypes'
  BY <1>1 DEF OptTypes, cfuopt_add_entry
<1>2. ASSUME NEW args \in Seq(Arg), Start(args) PROVE OptTypes'
  BY <1>2 DEF OptTypes, Start
<1>3. CASE cfuopt_parse
  <2>1. SeqOf(Arg, MaxArgs) \subseteq Seq(Arg)
    <3>1. 0..MaxArgs \subseteq Nat
      BY OptionsAssumption
    <3> QED
      BY <3>1, SeqDef DEF SeqOf
  <2> QED
    BY <1>2, <1>3, <2>1 DEF cfuopt_parse, OptTypes
<1>4. CASE IsData \/ EndOfOptions
  <2>1. /\ Parsing /\ i' \in Nat \ {0} /\ UNCHANGED <<value, Rest>>
        /\ extra' \in Seq(Arg)
    <3>1. CASE IsData
      <4>1. argv[i] \in Arg
        <5>1. i \in 1..Len(argv)
          BY <3>1 DEF OptTypes, IsData, Parsing
        <5> QED
          BY <5>1, ElementOfSeq DEF OptTypes
      <4> QED
        BY <3>1, <4>1, AppendProperties DEF OptTypes, IsData, After
    <3>2. CASE EndOfOptions
      <4>1. SubSeq(argv, i + 1, Len(argv)) \in Seq(Arg) /\ Len(argv) \in Nat
        <5>1. /\ Len(argv) \in Nat /\ i \in Nat
              /\ \A k \in (i + 1)..Len(argv) : argv[k] \in Arg
          BY LenProperties, ElementOfSeq DEF OptTypes
        <5> QED
          BY <5>1, SubSeqProperties DEF OptTypes
      <4> QED
        BY <3>2, <4>1, ConcatProperties DEF OptTypes, EndOfOptions
    <3> QED
      BY <1>4, <3>1, <3>2
  <2> QED
    BY <2>1 DEF OptTypes, Parsing, Rest
<1>5. CASE Ignored \/ BoolOption \/ ValueOption
  <2>1. /\ Parsing /\ i' \in Nat \ {0} /\ UNCHANGED <<extra, Rest>>
        /\ value' = value \/ \E e, w : _set_entry_val(e, w)
    BY <1>5 DEF Ignored, BoolOption, ValueOption, After, Skip, OptTypes
  <2>2. value' = [v \in Var |-> value'[v]]
    BY <2>1 DEF OptTypes, _set_entry_val
  <2> QED
    BY <2>1, <2>2 DEF OptTypes, Parsing, Rest
<1>6. CASE UpdateExtra
  BY <1>6 DEF OptTypes, UpdateExtra
<1>7. CASE cfuopt_destroy
  BY <1>7 DEF OptTypes, cfuopt_destroy
<1>8. CASE UNCHANGED optVars
  BY <1>8 DEF OptTypes, optVars
<1> QED
  BY <1>1, <1>3, <1>4, <1>5, <1>6, <1>7, <1>8 DEF OptNext

LEMMA OptStays ==
  ASSUME OptInv, UNCHANGED optVars
  PROVE  ParseInv' /\ ParsedInv'
<1>1. EndAt' = EndAt /\ LeftOver' = LeftOver /\ \A v : Sets(v)' = Sets(v)
  BY DEF optVars, LeftOver, Stays, Sets, Fed, Waits, OfType, Entry, IsOption, EndAt
<1>2. (\A n : SaidAt(n)' = SaidAt(n)) /\ \A n : Fed(n)' <=> Fed(n)
  BY DEF optVars, SaidAt, Fed, Waits, OfType, Entry, IsOption, EndAt
<1>3. /\ \A s, K : Picked(s, K)' <=> Picked(s, K)
      /\ \A S, w : SaidLast(S, w)' <=> SaidLast(S, w)
  BY <1>2 DEF Picked, SaidLast, optVars
<1> QED
  BY <1>1, <1>2, <1>3 DEF OptInv, ParseInv, ParsedInv, Before, optVars

LEMMA OptInvNext ==
  ASSUME OptInv, [OptNext]_optVars
  PROVE  OptInv'
<1>1. OptTypes'
  BY OptTypesNext DEF OptInv
<1>2. calls \in Nat /\ calls' \in Nat
  BY <1>1 DEF OptInv, OptTypes
<1>3. CASE UNCHANGED optVars
  BY <1>1, <1>3, OptStays DEF OptInv, optVars
<1>4. CASE phase' \in {"setup", "gone"}
  BY <1>1, <1>4 DEF OptInv, OptTypes, ParseInv, ParsedInv
<1>5. CASE calls' > 1
  BY <1>1, <1>5 DEF OptInv, ParseInv, ParsedInv
<1>6. ASSUME NEW args \in Seq(Arg), phase = "setup", Start(args) PROVE OptInv'
  BY <1>1, <1>6, StartStep DEF OptInv, Start
<1>7. CASE cfuopt_parse
  <2>1. CASE phase = "setup" /\ \E args \in SeqOf(Arg, MaxArgs) : Start(args)
    <3>1. SeqOf(Arg, MaxArgs) \subseteq Seq(Arg)
      <4>1. 0..MaxArgs \subseteq Nat
        BY OptionsAssumption
      <4> QED
        BY <4>1, SeqDef DEF SeqOf
    <3> QED
      BY <1>6, <2>1, <3>1
  <2>2. CASE phase = "parsed" /\ Start(argv)
    BY <1>2, <1>5, <2>2 DEF OptInv, OptTypes, Start
  <2> QED
    BY <1>7, <2>1, <2>2 DEF cfuopt_parse
<1>8. CASE IsData \/ EndOfOptions \/ Ignored \/ BoolOption \/ ValueOption
  <2>1. calls' = calls /\ phase = "parse" /\ phase' = "parse"
    BY <1>8 DEF IsData, EndOfOptions, Ignored, BoolOption, ValueOption, Parsing, Rest
  <2>2. calls = 1 => ParseInv'
    BY <1>8, DataStep, EndStep, IgnoredStep, BoolStep, ValueStep
  <2>3. ParseInv'
    BY <2>1, <2>2 DEF ParseInv
  <2> QED
    BY <1>1, <2>1, <2>3 DEF OptInv, ParsedInv
<1>9. CASE UpdateExtra
  <2>1. calls' = calls /\ calls > 0
    BY <1>9 DEF UpdateExtra, OptInv, OptTypes
  <2>2. CASE calls = 1
    BY <1>1, <1>9, <2>2, LastStep DEF OptInv, ParseInv
  <2> QED
    BY <1>2, <1>5, <2>1, <2>2
<1>10. CASE \E o \in OptStr : cfuopt_add_entry(o)
  BY <1>4, <1>10 DEF cfuopt_add_entry
<1>11. CASE cfuopt_destroy
  BY <1>4, <1>11 DEF cfuopt_destroy
<1> QED
  BY <1>3, <1>7, <1>8, <1>9, <1>10, <1>11 DEF OptNext

-----------------------------------------------------------------------------
(* The last of several places is the greatest of them.                     *)
LEMMA TheSetting ==
  ASSUME given \in Seq(Arg), NEW v \in Var, NEW w, SaidLast(Sets(v), w)
  PROVE  w = Setting(v)
<1>1. CASE Sets(v) = {}
  BY <1>1 DEF SaidLast, Setting
<1>2. CASE Sets(v) # {}
  <2>1. PICK j \in Sets(v) : (\A k \in Sets(v) : k <= j) /\ w = SaidAt(j)
    BY <1>2 DEF SaidLast
  <2>2. Sets(v) \in SUBSET Nat
    BY Subsets
  <2>3. Max(Sets(v)) = j
    <3>1. \A x \in Sets(v) : (\A y \in Sets(v) : x >= y) <=> x = j
      BY <2>1, <2>2
    <3> QED
      BY <3>1 DEF Max
  <2> QED
    BY <1>2, <2>1, <2>3 DEF Setting, SaidAt
<1> QED
  BY <1>1, <1>2

(* From every state of a program with its options and its configuration.   *)
THEOREM ParseInvariance == ReadSpec => []OptInv
<1>1. ReadInit => OptInv
  <2> SUFFICES ASSUME OptInit PROVE OptInv
    BY DEF ReadInit
  <2> QED
    BY DEF OptInit, OptInv, OptTypes, ParseInv, ParsedInv
<1>2. OptInv /\ [ReadNext]_readVars => OptInv'
  BY OptInvNext DEF ReadNext, Load, readVars
<1> QED
  BY <1>1, <1>2, PTL DEF ReadSpec

THEOREM AlwaysParsedAsMeant == ReadSpec => []ParsedAsMeant
<1>1. OptInv => ParsedAsMeant
  <2> SUFFICES ASSUME OptInv PROVE ParsedAsMeant
    OBVIOUS
  <2>1. given \in Seq(Arg) /\ ParsedInv /\ (phase = "overrun" => calls > 1)
    BY DEF OptInv, OptTypes
  <2>2. ASSUME calls = 1, phase = "parsed"
        PROVE  Picked(argv, LeftOver) /\ \A v \in Var : value[v] = Setting(v)
    BY <2>1, <2>2, TheSetting DEF ParsedInv
  <2> QED
    BY <2>1, <2>2 DEF ParsedAsMeant
<1> QED
  BY <1>1, ParseInvariance, PTL

-----------------------------------------------------------------------------
(* A greater number comes behind the others of a set.                      *)
LEMMA NthNext ==
  ASSUME NEW K \in SUBSET Nat, IsFiniteSet(K), NEW j \in Nat, \A k \in K : k < j
  PROVE  /\ Cardinality(K) \in Nat /\ IsFiniteSet(K \cup {j})
         /\ Cardinality(K \cup {j}) = Cardinality(K) + 1
         /\ \A n \in 1..Cardinality(K) : Nth(K \cup {j}, n) = Nth(K, n)
         /\ Nth(K \cup {j}, Cardinality(K) + 1) = j
<1> DEFINE J == K \cup {j}
           c == Cardinality(K)
<1>1. j \notin K /\ c \in Nat /\ IsFiniteSet(J) /\ Cardinality(J) = c + 1
  <2>1. j \notin K
    OBVIOUS
  <2> QED
    BY <2>1, FS_AddElement, FS_CardinalityType
<1>2. ASSUME NEW p \in K
      PROVE  {k \in J : k <= p} = {k \in K : k <= p} /\ Cardinality({k \in K : k <= p}) <= c
  <2>1. {k \in J : k <= p} = {k \in K : k <= p}
    <3>1. p \in Nat /\ p < j
      OBVIOUS
    <3>2. ~(j <= p)
      BY <3>1
    <3> QED
      BY <3>2
  <2>2. {k \in K : k <= p} \in SUBSET K
    OBVIOUS
  <2> QED
    BY <2>1, <2>2, FS_Subset
<1>3. {k \in J : k <= j} = J
  <2>1. \A k \in J : k <= j
    OBVIOUS
  <2> QED
    BY <2>1
<1> HIDE DEF J, c
<1>4. ASSUME NEW n \in 1..c
      PROVE  {p \in J : Cardinality({k \in J : k <= p}) = n}
               = {p \in K : Cardinality({k \in K : k <= p}) = n}
  <2>1. Cardinality({k \in J : k <= j}) # n
    BY <1>1, <1>3
  <2> QED
    BY <1>2, <2>1 DEF J
<1>5. {p \in J : Cardinality({k \in J : k <= p}) = c + 1} = {j}
  <2>1. Cardinality({k \in J : k <= j}) = c + 1
    BY <1>1, <1>3
  <2>2. ASSUME NEW p \in K PROVE Cardinality({k \in J : k <= p}) # c + 1
    <3>1. Cardinality({k \in K : k <= p}) \in Nat
      <4>1. {k \in K : k <= p} \in SUBSET K
        OBVIOUS
      <4> QED
        BY <4>1, FS_Subset, FS_CardinalityType
    <3>2. {k \in J : k <= p} = {k \in K : k <= p} /\ Cardinality({k \in K : k <= p}) <= c
      BY <1>2
    <3>3. Cardinality({k \in K : k <= p}) # c + 1
      BY <1>1, <3>1, <3>2
    <3> QED
      BY <3>2, <3>3
  <2> QED
    BY <2>1, <2>2 DEF J
<1>6. \A n \in 1..c : Nth(J, n) = Nth(K, n)
  BY <1>4 DEF Nth
<1>7. Nth(J, c + 1) = j
  BY <1>5 DEF Nth
<1> QED
  BY <1>1, <1>6, <1>7 DEF J, c

(* A finite set of numbers is bounded by one of them.                      *)
LEMMA Greatest ==
  ASSUME NEW K \in SUBSET Nat, K # {}, NEW b \in Nat, \A k \in K : k <= b
  PROVE  \E m \in K : \A k \in K : k <= m
<1> DEFINE S == {b - k : k \in K}
<1>1. S \in SUBSET Nat /\ S # {}
  <2>1. \A k \in K : b - k \in Nat
    OBVIOUS
  <2> QED
    BY <2>1
<1>2. PICK s \in S : \A t \in S : s <= t
  <2> HIDE DEF S
  <2> QED
    BY <1>1, Least
<1>3. PICK m \in K : s = b - m
  BY <1>2
<1>4. ASSUME NEW k \in K PROVE k <= m
  <2>1. b - k \in S
    OBVIOUS
  <2>2. b - m <= b - k
    BY <1>2, <1>3, <2>1
  <2> QED
    BY <2>2
<1> QED
  BY <1>4

(* The numbers of a bounded set are in order, each at one place.           *)
Ordered(K) ==
  /\ \A n \in 1..Cardinality(K) : Nth(K, n) \in K
  /\ \A n, m \in 1..Cardinality(K) : n < m => Nth(K, n) < Nth(K, m)
  /\ \A k \in K : \E n \in 1..Cardinality(K) : Nth(K, n) = k

LEMMA OrderedNext ==
  ASSUME NEW K \in SUBSET Nat, IsFiniteSet(K), NEW j \in Nat, \A k \in K : k < j,
         Ordered(K)
  PROVE  Ordered(K \cup {j})
<1> DEFINE J == K \cup {j}
           c == Cardinality(K)
<1>1. /\ c \in Nat /\ Cardinality(J) = c + 1
      /\ \A n \in 1..c : Nth(J, n) = Nth(K, n)
      /\ Nth(J, c + 1) = j
  BY NthNext
<1>2. /\ \A n \in 1..c : Nth(K, n) \in K
      /\ \A n, m \in 1..c : n < m => Nth(K, n) < Nth(K, m)
      /\ \A k \in K : \E n \in 1..c : Nth(K, n) = k
  BY DEF Ordered
<1>3. K \subseteq J /\ j \in J /\ \A k \in J : k \in K \/ k = j
  OBVIOUS
<1> HIDE DEF J, c
<1>4. \A n \in 1..(c + 1) : n \in 1..c \/ n = c + 1
  BY <1>1
<1>5. \A n \in 1..c : n \in 1..(c + 1)
  BY <1>1
<1>6. \A n \in 1..(c + 1) : Nth(J, n) \in J
  BY <1>1, <1>2, <1>3, <1>4
<1>7. ASSUME NEW n \in 1..(c + 1), NEW m \in 1..(c + 1), n < m
      PROVE  Nth(J, n) < Nth(J, m)
  <2>1. n \in 1..c
    BY <1>1, <1>7
  <2>2. CASE m = c + 1
    BY <1>1, <1>2, <2>1, <2>2
  <2>3. CASE m # c + 1
    BY <1>1, <1>2, <1>4, <1>7, <2>1, <2>3
  <2> QED
    BY <2>2, <2>3
<1>8. ASSUME NEW k \in J PROVE \E n \in 1..(c + 1) : Nth(J, n) = k
  <2>1. c + 1 \in 1..(c + 1)
    BY <1>1
  <2>2. CASE k = j
    BY <1>1, <2>1, <2>2
  <2>3. CASE k \in K
    BY <1>1, <1>2, <1>5, <2>3
  <2> QED
    BY <1>3, <2>2, <2>3
<1>9. Ordered(J)
  BY <1>1, <1>6, <1>7, <1>8 DEF Ordered
<1> QED
  BY <1>9 DEF J

LEMMA InOrderIs ==
  ASSUME NEW b \in Nat, NEW K \in SUBSET (0..b)
  PROVE  IsFiniteSet(K) /\ Cardinality(K) \in Nat /\ Ordered(K)
<1> DEFINE Bad == {J \in SUBSET (0..b) : ~Ordered(J)}
           T == {Cardinality(J) : J \in Bad}
<1>1. ASSUME NEW J \in SUBSET (0..b)
      PROVE  IsFiniteSet(J) /\ Cardinality(J) \in Nat /\ J \in SUBSET Nat
  <2>1. IsFiniteSet(0..b)
    BY FS_Interval
  <2>2. IsFiniteSet(J)
    BY <2>1, FS_Subset
  <2>3. J \in SUBSET Nat
    OBVIOUS
  <2> QED
    BY <2>2, <2>3, FS_CardinalityType
<1>2. SUFFICES ASSUME Bad # {} PROVE FALSE
  BY <1>1
<1>3. PICK t \in T : \A u \in T : t <= u
  <2>1. T \in SUBSET Nat /\ T # {}
    BY <1>1, <1>2
  <2> HIDE DEF T
  <2> QED
    BY <2>1, Least
<1>4. PICK J \in Bad : t = Cardinality(J)
  BY <1>3
<1>5. J \in SUBSET (0..b) /\ IsFiniteSet(J) /\ Cardinality(J) \in Nat /\ J \in SUBSET Nat
  BY <1>1, <1>4
<1>6. J # {}
  BY <1>4, FS_EmptySet DEF Ordered
<1>7. PICK j \in J : \A k \in J : k <= j
  <2>1. \A k \in J : k <= b
    BY <1>5
  <2> QED
    BY <1>5, <1>6, <2>1, Greatest
<1> DEFINE K1 == J \ {j}
<1>8. /\ K1 \in SUBSET (0..b) /\ K1 \in SUBSET Nat /\ IsFiniteSet(K1)
      /\ Cardinality(K1) = Cardinality(J) - 1 /\ j \in Nat
      /\ J = K1 \cup {j}
  BY <1>5, FS_RemoveElement
<1>9. \A k \in K1 : k < j
  BY <1>5, <1>7
<1>10. Ordered(K1)
  <2>1. ASSUME K1 \in Bad PROVE FALSE
    <3>1. Cardinality(K1) \in T
      BY <2>1
    <3>2. t <= Cardinality(K1)
      BY <1>3, <3>1
    <3> QED
      BY <1>4, <1>5, <1>8, <3>2
  <2> QED
    BY <1>8, <2>1
<1> HIDE DEF K1
<1>11. Ordered(J)
  BY <1>8, <1>9, <1>10, OrderedNext
<1> QED
  BY <1>4, <1>11

-----------------------------------------------------------------------------
(* Paths of tags that lines of a file may have.                            *)
TagSet == {<<Fold[l.type], Fold[l.name]>> : l \in Line}
Path == Seq(TagSet)

ConfTypes ==
  /\ read \in Seq(Line) /\ cur_conf \in Path /\ stack \in Seq(Path)
  /\ parse = "none" => /\ read = << >> /\ cur_conf = Top /\ containers = {Top}
                       /\ directives = << >> /\ got = Nothing
  /\ parse = "parsing" => got = Nothing
  /\ parse \in {"none", "parsed"} => stack = << >>

(* The container that is being read, those around it on the stack, and how *)
(* many of the tags that are open are not closed from each of them on.     *)
Place == Len(read) + 1
TreeInv ==
  /\ cur_conf = Around(Place)
  /\ Len(stack) = Len(cur_conf)
  /\ \A n \in 1..Len(stack) : stack[n] = [k \in 1..(n - 1) |-> cur_conf[k]]
  /\ \A j \in Open(Place) :
       Cardinality(Tags("open", j, Place - 1)) =
         Cardinality(Tags("close", j, Place - 1)) + Cardinality({m \in Open(Place) : j <= m})

SaidInv ==
  directives = [n \in 1..Cardinality(Lines("directive")) |->
     LET j == Nth(Lines("directive"), n)
     IN [at |-> Around(j), name |-> Fold[read[j].name], values |-> _get_next_value(read[j])]]
TagsInv ==
  /\ containers = {Top} \cup {Append(Around(j), Tag(j)) : j \in Lines("open")}
  /\ \A j \in Lines("close") : Around(j) # Top /\ Last(Around(j))[1] = Fold[read[j].type]
GotInv ==
  got.n = 1 =>
    LET s == Outside(got.name)
    IN IF s = {} THEN Gives(<< >>) ELSE Gives(_get_next_value(read[Max(s)]))

ReadInv ==
  /\ ConfTypes
  /\ parse = "parsing" => TreeInv
  /\ parse \in {"parsing", "parsed"} => SaidInv /\ TagsInv /\ GotInv

-----------------------------------------------------------------------------
(* One more line.                                                          *)
LEMMA OneMore ==
  ASSUME read \in Seq(Line), NEW l \in Line, read' = Append(read, l)
  PROVE  /\ Len(read) \in Nat /\ DOMAIN read = 1..Len(read)
         /\ Len(read') = Len(read) + 1 /\ DOMAIN read' = 1..(Len(read) + 1)
         /\ read' \in Seq(Line)
         /\ \A j \in 1..Len(read) : read'[j] = read[j] /\ read[j] \in Line
         /\ read'[Len(read) + 1] = l
         /\ Place \in Nat /\ Place = Len(read) + 1 /\ Place' = Len(read) + 2
  BY AppendProperties, LenProperties, ElementOfSeq DEF Place

LEMMA OpenIs ==
  ASSUME NEW k \in Nat \ {0}
  PROVE  /\ IsFiniteSet(Open(k)) /\ Cardinality(Open(k)) \in Nat /\ Ordered(Open(k))
         /\ Open(k) \subseteq 1..(k - 1) /\ Open(k) \in SUBSET Nat
         /\ Around(k) = [n \in 1..Cardinality(Open(k)) |-> Tag(Nth(Open(k), n))]
         /\ DOMAIN Around(k) = 1..Cardinality(Open(k))
         /\ \A n \in 1..Cardinality(Open(k)) :
              Nth(Open(k), n) \in 1..(k - 1) /\ Around(k)[n] = Tag(Nth(Open(k), n))
<1>1. Open(k) \subseteq 1..(k - 1) /\ 1..(k - 1) \subseteq 0..k
  BY DEF Open
<1>2. /\ IsFiniteSet(Open(k)) /\ Cardinality(Open(k)) \in Nat /\ Ordered(Open(k))
      /\ Open(k) \in SUBSET Nat
  <2>1. Open(k) \in SUBSET (0..k) /\ k \in Nat
    BY <1>1
  <2>2. Open(k) \in SUBSET Nat
    BY <1>1
  <2> QED
    BY <2>1, <2>2, InOrderIs
<1>3. Around(k) = [n \in 1..Cardinality(Open(k)) |-> Tag(Nth(Open(k), n))]
  BY DEF Around, InOrder
<1>4. \A n \in 1..Cardinality(Open(k)) : Nth(Open(k), n) \in 1..(k - 1)
  BY <1>1, <1>2 DEF Ordered
<1> QED
  BY <1>1, <1>2, <1>3, <1>4

LEMMA LinesAre ==
  ASSUME read \in Seq(Line), NEW kind
  PROVE  /\ IsFiniteSet(Lines(kind)) /\ Cardinality(Lines(kind)) \in Nat
         /\ Ordered(Lines(kind)) /\ Lines(kind) \in SUBSET Nat
         /\ Lines(kind) \subseteq 1..Len(read)
         /\ \A n \in 1..Cardinality(Lines(kind)) : Nth(Lines(kind), n) \in Lines(kind)
<1>1. Len(read) \in Nat /\ DOMAIN read = 1..Len(read)
  BY LenProperties
<1>2. Lines(kind) \subseteq 1..Len(read)
  BY <1>1 DEF Lines
<1>3. Lines(kind) \in SUBSET (0..Len(read)) /\ Lines(kind) \in SUBSET Nat
  BY <1>1, <1>2
<1>4. /\ IsFiniteSet(Lines(kind)) /\ Cardinality(Lines(kind)) \in Nat
      /\ Ordered(Lines(kind))
  BY <1>1, <1>3, InOrderIs
<1> QED
  BY <1>2, <1>3, <1>4 DEF Ordered

(* What was around the lines that have been read stays around them.        *)
LEMMA AroundStays ==
  ASSUME read \in Seq(Line), NEW l \in Line, read' = Append(read, l)
  PROVE  /\ \A j \in 1..Len(read) : Tag(j)' = Tag(j)
         /\ \A k \in 1..Place : Open(k)' = Open(k) /\ Around(k)' = Around(k)
<1>1. /\ Len(read) \in Nat /\ \A j \in 1..Len(read) : read'[j] = read[j]
      /\ Place = Len(read) + 1
  BY OneMore
<1>2. \A j \in 1..Len(read) : Tag(j)' = Tag(j)
  BY <1>1 DEF Tag
<1>3. ASSUME NEW k \in 1..Place PROVE Open(k)' = Open(k)
  <2>1. k \in Nat \ {0} /\ \A j \in 1..(k - 1) : j \in 1..Len(read)
    BY <1>1
  <2>2. ASSUME NEW j \in 1..(k - 1), NEW m \in j..(k - 1), NEW kind
        PROVE  Tags(kind, j, m)' = Tags(kind, j, m)
    <3>1. \A p \in j..m : p \in 1..Len(read)
      BY <1>1, <2>1
    <3> QED
      BY <1>1, <3>1 DEF Tags
  <2>3. \A j \in 1..(k - 1) : \A m \in j..(k - 1) : Balanced(j, m)' <=> Balanced(j, m)
    BY <2>2 DEF Balanced
  <2> QED
    BY <1>1, <2>1, <2>3 DEF Open
<1>4. ASSUME NEW k \in 1..Place PROVE Around(k)' = Around(k)
  <2>1. k \in Nat \ {0} /\ \A j \in 1..(k - 1) : j \in 1..Len(read)
    BY <1>1
  <2>2. \A n \in 1..Cardinality(Open(k)) : Nth(Open(k), n) \in 1..(k - 1)
    BY <2>1, OpenIs
  <2>3. Around(k) = [n \in 1..Cardinality(Open(k)) |-> Tag(Nth(Open(k), n))]
    BY <2>1, OpenIs
  <2>4. Around(k)' = [n \in 1..Cardinality(Open(k)) |->
                        LET j == Nth(Open(k), n)
                        IN <<Fold[read'[j].type], Fold[read'[j].name]>>]
    BY <1>3 DEF Around, InOrder, Tag
  <2>5. \A n \in 1..Cardinality(Open(k)) : read'[Nth(Open(k), n)] = read[Nth(Open(k), n)]
    BY <1>1, <2>1, <2>2
  <2> QED
    BY <2>3, <2>4, <2>5 DEF Tag
<1> QED
  BY <1>2, <1>3, <1>4

LEMMA LinesNext ==
  ASSUME read \in Seq(Line), NEW l \in Line, read' = Append(read, l), NEW kind
  PROVE  Lines(kind)' = IF l.kind = kind THEN Lines(kind) \cup {Place} ELSE Lines(kind)
  BY OneMore DEF Lines

(* How many tags there are from a line on, with the new one.               *)
LEMMA TagsNext ==
  ASSUME read \in Seq(Line), NEW l \in Line, read' = Append(read, l), NEW kind,
         NEW N \in Nat \ {0}, N = Place, NEW j \in 1..N
  PROVE  /\ Cardinality(Tags(kind, j, N - 1)) \in Nat
         /\ l.kind = kind =>
              Cardinality(Tags(kind, j, N)') = Cardinality(Tags(kind, j, N - 1)) + 1
         /\ l.kind # kind =>
              Cardinality(Tags(kind, j, N)') = Cardinality(Tags(kind, j, N - 1))
<1> DEFINE K == Tags(kind, j, N - 1)
<1>1. /\ N \in Nat \ {0} /\ \A m \in 1..(N - 1) : read'[m] = read[m]
      /\ read'[N] = l
  BY OneMore
<1>2. IsFiniteSet(K) /\ Cardinality(K) \in Nat /\ N \notin K
  <2>1. IsFiniteSet(j..(N - 1))
    <3>1. j \in Int /\ N - 1 \in Int
      OBVIOUS
    <3> QED
      BY <3>1, FS_Interval
  <2>2. K \in SUBSET (j..(N - 1)) /\ N \notin j..(N - 1)
    BY <1>1 DEF Tags
  <2>3. IsFiniteSet(K)
    BY <2>1, <2>2, FS_Subset
  <2> QED
    BY <2>2, <2>3, FS_CardinalityType
<1>3. Tags(kind, j, N)' = IF l.kind = kind THEN K \cup {N} ELSE K
  <2>1. j..N = j..(N - 1) \cup {N}
    <3>1. j \in Int /\ N \in Int /\ j <= N
      OBVIOUS
    <3>2. \A m \in Int : m \in j..N <=> m \in j..(N - 1) \/ m = N
      BY <3>1
    <3> QED
      BY <3>1, <3>2
  <2>2. \A m \in j..(N - 1) : read'[m] = read[m]
    <3>1. \A m \in j..(N - 1) : m \in 1..(N - 1)
      OBVIOUS
    <3> QED
      BY <1>1, <3>1
  <2> QED
    BY <1>1, <2>1, <2>2 DEF Tags
<1>4. Cardinality(K \cup {N}) = Cardinality(K) + 1
  BY <1>2, FS_AddElement
<1> QED
  BY <1>2, <1>3, <1>4

(* The tags that are open behind a new line.                               *)
LEMMA StaysOpen ==
  ASSUME read \in Seq(Line), NEW l \in Line, read' = Append(read, l),
         NEW N \in Nat \ {0}, N = Place, NEW M \in Nat, M = N + 1
  PROVE  /\ Place' = M /\ N \in Nat \ {0}
         /\ \A j \in 1..(N - 1) :
              j \in Open(M)' <=>
                j \in Open(N) /\
                Cardinality(Tags("open", j, N)') # Cardinality(Tags("close", j, N)')
         /\ N \in Open(M)' <=> l.kind = "open"
         /\ Open(M)' \subseteq 1..N /\ Open(N) \subseteq 1..(N - 1)
<1>1. /\ N \in Nat \ {0} /\ Place' = M
      /\ \A m \in 1..(N - 1) : read'[m] = read[m]
      /\ read'[N] = l
  BY OneMore
<1>2. ASSUME NEW j \in 1..N, NEW m \in j..(N - 1)
      PROVE  Balanced(j, m)' <=> Balanced(j, m)
  <2>1. \A p \in j..m : read'[p] = read[p]
    <3>1. \A p \in j..m : p \in 1..(N - 1)
      OBVIOUS
    <3> QED
      BY <1>1, <3>1
  <2>2. \A kind : Tags(kind, j, m)' = Tags(kind, j, m)
    BY <2>1 DEF Tags
  <2> QED
    BY <2>2 DEF Balanced
<1>3. Open(M)' = {j \in 1..N : read'[j].kind = "open" /\
                                   ~\E m \in j..N : Balanced(j, m)'}
  <2>1. Open(M)' = {j \in 1..(M - 1) : read'[j].kind = "open" /\
                                       ~\E m \in j..(M - 1) : Balanced(j, m)'}
    BY DEF Open
  <2>2. M - 1 = N
    OBVIOUS
  <2> QED
    BY <2>1, <2>2
<1>4. ASSUME NEW j \in 1..N
      PROVE  (\E m \in j..N : Balanced(j, m)') <=>
               (\E m \in j..(N - 1) : Balanced(j, m)) \/ Balanced(j, N)'
  <2>1. j..N = j..(N - 1) \cup {N}
    <3>1. j \in Int /\ N \in Int /\ j <= N
      OBVIOUS
    <3>2. \A m \in Int : m \in j..N <=> m \in j..(N - 1) \/ m = N
      BY <3>1
    <3> QED
      BY <3>1, <3>2
  <2> QED
    BY <1>2, <2>1
<1>5. ASSUME NEW j \in 1..(N - 1)
      PROVE  j \in Open(M)' <=>
               j \in Open(N) /\
               Cardinality(Tags("open", j, N)') # Cardinality(Tags("close", j, N)')
  <2>1. j \in 1..N /\ read'[j] = read[j]
    <3>1. \A p \in 1..(N - 1) : p \in 1..N
      OBVIOUS
    <3> QED
      BY <1>1, <3>1
  <2>2. j \in Open(M)' <=>
          read[j].kind = "open" /\ (~\E m \in j..(N - 1) : Balanced(j, m)) /\ ~Balanced(j, N)'
    BY <1>3, <1>4, <2>1
  <2> QED
    BY <2>2 DEF Open, Balanced
<1>6. N \in Open(M)' <=> l.kind = "open"
  <2>1. N \in 1..N /\ N..(N - 1) = {}
    BY <1>1
  <2>2. N \in Open(M)' <=> l.kind = "open" /\ ~Balanced(N, N)'
    BY <1>1, <1>3, <1>4, <2>1
  <2>3. ASSUME l.kind = "open" PROVE ~Balanced(N, N)'
    <3>1. \A kind : Tags(kind, N, N - 1) = {}
      BY <2>1 DEF Tags
    <3>2. /\ Cardinality(Tags("open", N, N)') = Cardinality(Tags("open", N, N - 1)) + 1
          /\ Cardinality(Tags("close", N, N)') = Cardinality(Tags("close", N, N - 1))
      BY <2>1, <2>3, TagsNext
    <3>3. Cardinality({}) = 0
      BY FS_EmptySet
    <3>4. /\ Cardinality(Tags("open", N, N - 1)) = 0
          /\ Cardinality(Tags("close", N, N - 1)) = 0
      BY <3>1, <3>3
    <3>5. Cardinality(Tags("open", N, N)') # Cardinality(Tags("close", N, N)')
      BY <3>2, <3>4
    <3> QED
      BY <3>5 DEF Balanced
  <2> QED
    BY <2>2, <2>3
<1>7. Open(M)' \subseteq 1..N /\ Open(N) \subseteq 1..(N - 1)
  BY <1>3 DEF Open
<1> QED
  BY <1>1, <1>5, <1>6, <1>7

(* From each tag that is open on, that many are not closed.                *)
LEMMA FromOn ==
  ASSUME NEW K \in SUBSET Nat, IsFiniteSet(K), NEW j \in K
  PROVE  /\ Cardinality({m \in K : j <= m}) \in Nat \ {0}
         /\ IsFiniteSet({m \in K : j <= m})
<1>1. {m \in K : j <= m} \in SUBSET K /\ j \in {m \in K : j <= m}
  OBVIOUS
<1>2. IsFiniteSet({m \in K : j <= m})
  BY <1>1, FS_Subset
<1>3. Cardinality({m \in K : j <= m}) # 0
  BY <1>1, <1>2, FS_EmptySet
<1> QED
  BY <1>2, <1>3, FS_CardinalityType

LEMMA NoTag ==
  ASSUME read \in Seq(Line), NEW l \in Line, read' = Append(read, l),
         NEW N \in Nat \ {0}, N = Place, NEW M \in Nat, M = N + 1,
         \A j \in Open(N) :
           Cardinality(Tags("open", j, N - 1)) =
             Cardinality(Tags("close", j, N - 1)) + Cardinality({m \in Open(N) : j <= m}),
         l.kind \notin {"open", "close"}
  PROVE  /\ Open(M)' = Open(N)
         /\ \A j \in Open(N) :
              Cardinality(Tags("open", j, N)') =
                Cardinality(Tags("close", j, N)') + Cardinality({m \in Open(N) : j <= m})
<1>1. /\ \A j \in 1..(N - 1) :
           j \in Open(M)' <=>
             j \in Open(N) /\
             Cardinality(Tags("open", j, N)') # Cardinality(Tags("close", j, N)')
      /\ N \notin Open(M)'
      /\ Open(M)' \subseteq 1..N /\ Open(N) \subseteq 1..(N - 1)
  BY StaysOpen
<1>2. IsFiniteSet(Open(N)) /\ Open(N) \in SUBSET Nat
  BY OpenIs
<1>3. ASSUME NEW j \in Open(N)
      PROVE  /\ Cardinality(Tags("open", j, N)') =
                  Cardinality(Tags("close", j, N)') + Cardinality({m \in Open(N) : j <= m})
             /\ Cardinality(Tags("open", j, N)') # Cardinality(Tags("close", j, N)')
  <2>1. j \in 1..N
    BY <1>1
  <2>2. /\ Cardinality(Tags("open", j, N)') = Cardinality(Tags("open", j, N - 1))
        /\ Cardinality(Tags("close", j, N)') = Cardinality(Tags("close", j, N - 1))
        /\ Cardinality(Tags("close", j, N - 1)) \in Nat
    BY <2>1, TagsNext
  <2>3. Cardinality({m \in Open(N) : j <= m}) \in Nat \ {0}
    BY <1>2, FromOn
  <2> QED
    BY <2>2, <2>3
<1>4. \A j \in 1..N : j \in 1..(N - 1) \/ j = N
  OBVIOUS
<1>5. Open(M)' = Open(N)
  <2>1. Open(M)' \subseteq 1..(N - 1)
    BY <1>1, <1>4
  <2>2. \A j \in 1..(N - 1) : j \in Open(M)' <=> j \in Open(N)
    BY <1>1, <1>3
  <2> QED
    BY <1>1, <2>1, <2>2
<1> QED
  BY <1>3, <1>5

LEMMA NewTag ==
  ASSUME read \in Seq(Line), NEW l \in Line, read' = Append(read, l),
         NEW N \in Nat \ {0}, N = Place, NEW M \in Nat, M = N + 1,
         \A j \in Open(N) :
           Cardinality(Tags("open", j, N - 1)) =
             Cardinality(Tags("close", j, N - 1)) + Cardinality({m \in Open(N) : j <= m}),
         l.kind = "open"
  PROVE  /\ Open(M)' = Open(N) \cup {N}
         /\ \A j \in Open(M)' :
              Cardinality(Tags("open", j, N)') =
                Cardinality(Tags("close", j, N)') + Cardinality({m \in Open(M)' : j <= m})
<1>1. /\ \A j \in 1..(N - 1) :
           j \in Open(M)' <=>
             j \in Open(N) /\
             Cardinality(Tags("open", j, N)') # Cardinality(Tags("close", j, N)')
      /\ N \in Open(M)'
      /\ Open(M)' \subseteq 1..N /\ Open(N) \subseteq 1..(N - 1)
  BY StaysOpen
<1>2. IsFiniteSet(Open(N)) /\ Open(N) \in SUBSET Nat /\ N \notin Open(N)
  BY <1>1, OpenIs
<1>3. ASSUME NEW j \in Open(N)
      PROVE  /\ Cardinality(Tags("open", j, N)') =
                  Cardinality(Tags("close", j, N)') + Cardinality({m \in Open(N) : j <= m}) + 1
             /\ Cardinality(Tags("open", j, N)') # Cardinality(Tags("close", j, N)')
  <2>1. j \in 1..N
    BY <1>1
  <2>2. /\ Cardinality(Tags("open", j, N)') = Cardinality(Tags("open", j, N - 1)) + 1
        /\ Cardinality(Tags("close", j, N)') = Cardinality(Tags("close", j, N - 1))
        /\ Cardinality(Tags("close", j, N - 1)) \in Nat
    BY <2>1, TagsNext
  <2>3. Cardinality({m \in Open(N) : j <= m}) \in Nat \ {0}
    BY <1>2, FromOn
  <2> QED
    BY <2>2, <2>3
<1>4. \A j \in 1..N : j \in 1..(N - 1) \/ j = N
  OBVIOUS
<1>5. Open(M)' = Open(N) \cup {N}
  BY <1>1, <1>3, <1>4
<1>6. ASSUME NEW j \in Open(N)
      PROVE  Cardinality({m \in Open(M)' : j <= m}) = Cardinality({m \in Open(N) : j <= m}) + 1
  <2> DEFINE S == {m \in Open(N) : j <= m}
  <2>1. j <= N
    BY <1>1
  <2>2. {m \in Open(M)' : j <= m} = S \cup {N}
    BY <1>5, <2>1
  <2>3. N \notin S /\ IsFiniteSet(S)
    BY <1>2, FromOn
  <2> HIDE DEF S
  <2>4. Cardinality(S \cup {N}) = Cardinality(S) + 1
    BY <2>3, FS_AddElement
  <2> QED
    BY <2>2, <2>4 DEF S
<1>7. Cardinality(Tags("open", N, N)') =
        Cardinality(Tags("close", N, N)') + Cardinality({m \in Open(M)' : N <= m})
  <2>1. N \in 1..N /\ \A kind : Tags(kind, N, N - 1) = {}
    BY DEF Tags
  <2>2. Cardinality({}) = 0
    BY FS_EmptySet
  <2>3. /\ Cardinality(Tags("open", N, N)') = Cardinality(Tags("open", N, N - 1)) + 1
        /\ Cardinality(Tags("close", N, N)') = Cardinality(Tags("close", N, N - 1))
    BY <2>1, TagsNext
  <2>4. {m \in Open(M)' : N <= m} = {N}
    <3>1. \A m \in Open(N) : ~(N <= m)
      BY <1>1
    <3> QED
      BY <1>5, <3>1
  <2>5. Cardinality({m \in Open(M)' : N <= m}) = 1
    BY <2>4, FS_Singleton
  <2>6. /\ Cardinality(Tags("open", N, N - 1)) = 0
        /\ Cardinality(Tags("close", N, N - 1)) = 0
    BY <2>1, <2>2
  <2> QED
    BY <2>3, <2>5, <2>6
<1>8. ASSUME NEW j \in Open(M)'
      PROVE  Cardinality(Tags("open", j, N)') =
               Cardinality(Tags("close", j, N)') + Cardinality({m \in Open(M)' : j <= m})
  <2>1. CASE j = N
    BY <1>7, <2>1
  <2>2. CASE j \in Open(N)
    <3>1. j \in 1..N /\ Cardinality({m \in Open(N) : j <= m}) \in Nat
      BY <1>1, <1>2, <2>2, FromOn
    <3>2. Cardinality(Tags("close", j, N)') = Cardinality(Tags("close", j, N - 1))
          /\ Cardinality(Tags("close", j, N - 1)) \in Nat
      BY <3>1, TagsNext
    <3>3. Cardinality(Tags("open", j, N)') =
            Cardinality(Tags("close", j, N)') + Cardinality({m \in Open(N) : j <= m}) + 1
      BY <1>3, <2>2
    <3>4. Cardinality({m \in Open(M)' : j <= m}) = Cardinality({m \in Open(N) : j <= m}) + 1
      BY <1>6, <2>2
    <3> QED
      BY <3>1, <3>2, <3>3, <3>4
  <2> QED
    BY <1>5, <1>8, <2>1, <2>2
<1> QED
  BY <1>5, <1>8

LEMMA LastTag ==
  ASSUME read \in Seq(Line), NEW l \in Line, read' = Append(read, l),
         NEW N \in Nat \ {0}, N = Place, NEW M \in Nat, M = N + 1,
         \A j \in Open(N) :
           Cardinality(Tags("open", j, N - 1)) =
             Cardinality(Tags("close", j, N - 1)) + Cardinality({m \in Open(N) : j <= m}),
         l.kind = "close", NEW g \in Open(N), \A m \in Open(N) : m <= g
  PROVE  /\ Open(M)' = Open(N) \ {g}
         /\ \A j \in Open(M)' :
              Cardinality(Tags("open", j, N)') =
                Cardinality(Tags("close", j, N)') + Cardinality({m \in Open(M)' : j <= m})
<1>1. /\ \A j \in 1..(N - 1) :
           j \in Open(M)' <=>
             j \in Open(N) /\
             Cardinality(Tags("open", j, N)') # Cardinality(Tags("close", j, N)')
      /\ N \notin Open(M)'
      /\ Open(M)' \subseteq 1..N /\ Open(N) \subseteq 1..(N - 1)
  BY StaysOpen
<1>2. IsFiniteSet(Open(N)) /\ Open(N) \in SUBSET Nat
  BY OpenIs
<1> DEFINE W(j) == Cardinality({m \in Open(N) : j <= m})
           V(j) == Cardinality({m \in Open(N) \ {g} : j <= m})
<1>0. \A j \in Open(N) :
        /\ Cardinality(Tags("open", j, N - 1)) = Cardinality(Tags("close", j, N - 1)) + W(j)
        /\ W(j) \in Nat
  BY <1>2, FromOn
<1>3. ASSUME NEW j \in Open(N)
      PROVE  /\ Cardinality(Tags("open", j, N)') + 1 = Cardinality(Tags("close", j, N)') + W(j)
             /\ Cardinality(Tags("open", j, N)') \in Nat
             /\ Cardinality(Tags("close", j, N)') \in Nat
  <2>1. j \in 1..N
    BY <1>1
  <2>2. /\ Cardinality(Tags("open", j, N)') = Cardinality(Tags("open", j, N - 1))
        /\ Cardinality(Tags("close", j, N)') = Cardinality(Tags("close", j, N - 1)) + 1
        /\ Cardinality(Tags("close", j, N - 1)) \in Nat
        /\ Cardinality(Tags("open", j, N - 1)) \in Nat
    BY <2>1, TagsNext
  <2>3. /\ Cardinality(Tags("open", j, N - 1)) = Cardinality(Tags("close", j, N - 1)) + W(j)
        /\ W(j) \in Nat
    BY <1>0
  <2> HIDE DEF W
  <2>4. Cardinality(Tags("open", j, N)') + 1 = Cardinality(Tags("close", j, N)') + W(j)
    BY <2>2, <2>3
  <2>5. Cardinality(Tags("open", j, N)') \in Nat /\ Cardinality(Tags("close", j, N)') \in Nat
    BY <2>2
  <2> QED
    BY <2>4, <2>5
<1>4. W(g) = 1
  <2>1. {m \in Open(N) : g <= m} = {g}
    BY <1>2
  <2> QED
    BY <2>1, FS_Singleton
<1>5. ASSUME NEW j \in Open(N), j # g
      PROVE  V(j) + 1 = W(j) /\ V(j) \in Nat \ {0}
  <2> DEFINE S == {m \in Open(N) : j <= m}
  <2>1. /\ {m \in Open(N) \ {g} : j <= m} = S \ {g}
        /\ g \in S
    BY <1>2
  <2>2. IsFiniteSet(S) /\ Cardinality(S) \in Nat
    BY <1>2, FromOn
  <2>3. Cardinality(S \ {g}) = Cardinality(S) - 1
    <3> HIDE DEF S
    <3> QED
      BY <2>1, <2>2, FS_RemoveElement
  <2>4. V(j) \in Nat \ {0}
    <3>1. /\ Open(N) \ {g} \in SUBSET Nat /\ IsFiniteSet(Open(N) \ {g})
          /\ j \in Open(N) \ {g}
      BY <1>2, <1>5, FS_RemoveElement
    <3> QED
      BY <3>1, FromOn
  <2>5. W(j) = Cardinality(S) /\ V(j) = Cardinality(S \ {g})
    BY <2>1
  <2> HIDE DEF S, W, V
  <2> QED
    BY <2>2, <2>3, <2>4, <2>5
<1> HIDE DEF W, V
<1>6. \A j \in 1..N : j \in 1..(N - 1) \/ j = N
  OBVIOUS
<1>7. ASSUME NEW j \in Open(N)
      PROVE  Cardinality(Tags("open", j, N)') = Cardinality(Tags("close", j, N)') <=> j = g
  <2>1. CASE j = g
    BY <1>3, <1>4, <2>1
  <2>2. CASE j # g
    BY <1>3, <1>5, <2>2
  <2> QED
    BY <2>1, <2>2
<1>8. Open(M)' = Open(N) \ {g}
  BY <1>1, <1>6, <1>7
<1>9. ASSUME NEW j \in Open(N) \ {g}
      PROVE  Cardinality(Tags("open", j, N)') =
               Cardinality(Tags("close", j, N)') + V(j)
  BY <1>3, <1>5
<1> QED
  BY <1>8, <1>9 DEF V

(* What is around the next line: the same, one more, or one less.          *)
LEMMA AroundIs ==
  ASSUME read \in Seq(Line), NEW k \in 1..Place
  PROVE  /\ Around(k) \in Path /\ Len(Around(k)) = Cardinality(Open(k))
         /\ DOMAIN Around(k) = 1..Cardinality(Open(k))
<1>1. Len(read) \in Nat /\ Place = Len(read) + 1 /\ \A j \in 1..Len(read) : read[j] \in Line
  BY LenProperties, ElementOfSeq DEF Place
<1>2. /\ Cardinality(Open(k)) \in Nat
      /\ Around(k) = [n \in 1..Cardinality(Open(k)) |-> Tag(Nth(Open(k), n))]
      /\ \A n \in 1..Cardinality(Open(k)) : Nth(Open(k), n) \in 1..(k - 1)
  BY <1>1, OpenIs
<1>3. \A j \in 1..(k - 1) : Tag(j) \in TagSet
  <2>1. \A j \in 1..(k - 1) : read[j] \in Line
    BY <1>1
  <2> QED
    BY <2>1 DEF Tag, TagSet
<1>4. Around(k) \in [1..Cardinality(Open(k)) -> TagSet]
  BY <1>2, <1>3
<1>5. Around(k) \in Seq(TagSet)
  BY <1>2, <1>4, SeqDef
<1>6. DOMAIN Around(k) = 1..Cardinality(Open(k))
  BY <1>4
<1>7. Len(Around(k)) = Cardinality(Open(k))
  BY <1>2, <1>5, <1>6, LenProperties
<1> QED
  BY <1>5, <1>6, <1>7 DEF Path

LEMMA AroundDeeper ==
  ASSUME read \in Seq(Line), NEW l \in Line, read' = Append(read, l),
         NEW N \in Nat \ {0}, N = Place, NEW M \in Nat, M = N + 1,
         Open(M)' = Open(N) \cup {N}
  PROVE  /\ Around(M)' = Append(Around(N), <<Fold[l.type], Fold[l.name]>>)
         /\ Around(N) \in Path /\ <<Fold[l.type], Fold[l.name]>> \in TagSet
<1> DEFINE t == <<Fold[l.type], Fold[l.name]>>
<1>1. /\ \A j \in 1..(N - 1) : read'[j] = read[j]
      /\ read'[N] = l /\ N \in 1..Place
  BY OneMore
<1>2. PICK K : K = Open(N)
  OBVIOUS
<1>3. PICK c : c = Cardinality(K)
  OBVIOUS
<1>4. /\ IsFiniteSet(K) /\ c \in Nat /\ K \in SUBSET Nat /\ K \subseteq 1..(N - 1)
      /\ \A n \in 1..c : Nth(K, n) \in 1..(N - 1) /\ Around(N)[n] = Tag(Nth(K, n))
  BY <1>2, <1>3, OpenIs
<1>5. Around(N) \in Path /\ Len(Around(N)) = c /\ DOMAIN Around(N) = 1..c
  BY <1>1, <1>2, <1>3, AroundIs
<1>6. /\ Cardinality(K \cup {N}) = c + 1
      /\ \A n \in 1..c : Nth(K \cup {N}, n) = Nth(K, n)
      /\ Nth(K \cup {N}, c + 1) = N
  <2>1. \A k \in K : k < N
    BY <1>4
  <2> QED
    BY <1>3, <1>4, <2>1, NthNext
<1>7. PICK J : J = K \cup {N}
  OBVIOUS
<1>8. Around(M)' = [n \in 1..(c + 1) |->
                      <<Fold[read'[Nth(J, n)].type], Fold[read'[Nth(J, n)].name]>>]
  <2>1. Open(M)' = J /\ Cardinality(J) = c + 1
    BY <1>2, <1>6, <1>7
  <2>2. Around(M)' = [n \in 1..Cardinality(J) |->
                        <<Fold[read'[Nth(J, n)].type], Fold[read'[Nth(J, n)].name]>>]
    BY <2>1 DEF Around, InOrder, Tag
  <2> QED
    BY <2>1, <2>2
<1>9. ASSUME NEW n \in 1..c
      PROVE  <<Fold[read'[Nth(J, n)].type], Fold[read'[Nth(J, n)].name]>> = Around(N)[n]
  BY <1>1, <1>4, <1>6, <1>7 DEF Tag
<1>10. t \in TagSet
  BY DEF TagSet
<1>11. /\ Append(Around(N), t) \in Seq(TagSet) /\ Len(Append(Around(N), t)) = c + 1
       /\ \A n \in 1..c : Append(Around(N), t)[n] = Around(N)[n]
       /\ Append(Around(N), t)[c + 1] = t
  BY <1>5, <1>10, AppendProperties DEF Path
<1>12. Append(Around(N), t) = [n \in 1..(c + 1) |-> Append(Around(N), t)[n]]
  <2> DEFINE a == Append(Around(N), t)
  <2>1. a \in Seq(TagSet) /\ Len(a) = c + 1
    BY <1>11
  <2> HIDE DEF a
  <2>2. a \in [1..(c + 1) -> TagSet]
    BY <2>1, LenProperties
  <2>3. a = [n \in 1..(c + 1) |-> a[n]]
    BY <2>2
  <2> QED
    BY <2>3 DEF a
<1>13. \A n \in 1..(c + 1) : n \in 1..c \/ n = c + 1
  BY <1>4
<1>14. \A n \in 1..(c + 1) :
         <<Fold[read'[Nth(J, n)].type], Fold[read'[Nth(J, n)].name]>> = Append(Around(N), t)[n]
  <2>1. ASSUME NEW n \in 1..c
        PROVE  <<Fold[read'[Nth(J, n)].type], Fold[read'[Nth(J, n)].name]>>
                 = Append(Around(N), t)[n]
    BY <1>9, <1>11
  <2>2. <<Fold[read'[Nth(J, c + 1)].type], Fold[read'[Nth(J, c + 1)].name]>>
          = Append(Around(N), t)[c + 1]
    <3>1. Nth(J, c + 1) = N
      BY <1>6, <1>7
    <3>2. read'[Nth(J, c + 1)] = l
      BY <1>1, <3>1
    <3> QED
      BY <1>11, <3>2
  <2> QED
    BY <1>13, <2>1, <2>2
<1>15. Around(M)' = Append(Around(N), t)
  BY <1>8, <1>12, <1>14
<1> QED
  BY <1>5, <1>10, <1>15

LEMMA AroundShallower ==
  ASSUME read \in Seq(Line), NEW l \in Line, read' = Append(read, l),
         NEW N \in Nat \ {0}, N = Place, NEW M \in Nat, M = N + 1,
         NEW g \in Open(N), \A m \in Open(N) : m <= g, Open(M)' = Open(N) \ {g}
  PROVE  Around(M)' = [n \in 1..(Len(Around(N)) - 1) |-> Around(N)[n]]
<1>1. \A j \in 1..(N - 1) : read'[j] = read[j]
  BY OneMore
<1>2. PICK K : K = Open(N) \ {g}
  OBVIOUS
<1>3. PICK c : c = Cardinality(K)
  OBVIOUS
<1>4. /\ IsFiniteSet(Open(N)) /\ Open(N) \in SUBSET Nat
      /\ \A n \in 1..Cardinality(Open(N)) :
           Nth(Open(N), n) \in 1..(N - 1) /\ Around(N)[n] = Tag(Nth(Open(N), n))
  BY OpenIs
<1>5. /\ IsFiniteSet(K) /\ K \in SUBSET Nat /\ g \in Nat /\ Open(N) = K \cup {g}
      /\ \A k \in K : k < g
  <2>1. IsFiniteSet(K)
    BY <1>2, <1>4, FS_RemoveElement
  <2>2. \A k \in K : k < g
    BY <1>2, <1>4
  <2> QED
    BY <1>2, <1>4, <2>1, <2>2
<1>6. /\ c \in Nat /\ Cardinality(Open(N)) = c + 1
      /\ \A n \in 1..c : Nth(Open(N), n) = Nth(K, n)
  <2>1. /\ Cardinality(K) \in Nat /\ Cardinality(K \cup {g}) = Cardinality(K) + 1
        /\ \A n \in 1..Cardinality(K) : Nth(K \cup {g}, n) = Nth(K, n)
    BY <1>5, NthNext
  <2> QED
    BY <1>3, <1>5, <2>1
<1>7. Around(M)' = [n \in 1..c |-> <<Fold[read'[Nth(K, n)].type], Fold[read'[Nth(K, n)].name]>>]
  <2>1. Open(M)' = K
    BY <1>2
  <2>2. Around(M)' = [n \in 1..Cardinality(K) |->
                        <<Fold[read'[Nth(K, n)].type], Fold[read'[Nth(K, n)].name]>>]
    BY <2>1 DEF Around, InOrder, Tag
  <2> QED
    BY <1>3, <2>2
<1>8. ASSUME NEW n \in 1..c
      PROVE  <<Fold[read'[Nth(K, n)].type], Fold[read'[Nth(K, n)].name]>> = Around(N)[n]
  <2>1. n \in 1..(c + 1)
    BY <1>6
  <2>2. Nth(K, n) \in 1..(N - 1) /\ Around(N)[n] = Tag(Nth(K, n))
    BY <1>4, <1>6, <2>1
  <2> QED
    BY <1>1, <2>2 DEF Tag
<1>9. Len(Around(N)) - 1 = c
  <2>1. N \in 1..Place
    OBVIOUS
  <2>2. Len(Around(N)) = Cardinality(Open(N))
    BY <2>1, AroundIs
  <2> QED
    BY <1>6, <2>2
<1> QED
  BY <1>7, <1>8, <1>9

LEMMA AroundSame ==
  ASSUME read \in Seq(Line), NEW l \in Line, read' = Append(read, l),
         NEW N \in Nat \ {0}, N = Place, NEW M \in Nat, M = N + 1,
         Open(M)' = Open(N)
  PROVE  Around(M)' = Around(N)
<1>1. \A j \in 1..(N - 1) : read'[j] = read[j]
  BY OneMore
<1>2. PICK K : K = Open(N)
  OBVIOUS
<1>3. /\ \A n \in 1..Cardinality(K) : Nth(K, n) \in 1..(N - 1)
      /\ Around(N) = [n \in 1..Cardinality(K) |-> Tag(Nth(K, n))]
  BY <1>2, OpenIs
<1>4. Around(M)' = [n \in 1..Cardinality(K) |->
                      <<Fold[read'[Nth(K, n)].type], Fold[read'[Nth(K, n)].name]>>]
  <2>1. Open(M)' = K
    BY <1>2
  <2> QED
    BY <2>1 DEF Around, InOrder, Tag
<1>5. \A n \in 1..Cardinality(K) : read'[Nth(K, n)] = read[Nth(K, n)]
  BY <1>1, <1>3
<1> QED
  BY <1>3, <1>4, <1>5 DEF Tag

(* An element more, whatever the sequence has.                             *)
LEMMA Appended ==
  ASSUME NEW c \in Nat, NEW s, s = [n \in 1..c |-> s[n]], NEW e
  PROVE  Append(s, e) = [n \in 1..(c + 1) |-> IF n = c + 1 THEN e ELSE s[n]]
<1> DEFINE S == {s[n] : n \in 1..c} \cup {e}
           a == Append(s, e)
<1>1. s \in Seq(S) /\ Len(s) = c
  <2>1. s \in [1..c -> S]
    BY Zenon
  <2> HIDE DEF S
  <2>2. s \in Seq(S) /\ DOMAIN s = 1..c
    BY <2>1, SeqDef
  <2> QED
    BY <2>2, LenProperties
<1>2. e \in S
  OBVIOUS
<1> HIDE DEF S
<1>3. /\ a \in Seq(S) /\ Len(a) = c + 1
      /\ \A n \in 1..c : a[n] = s[n]
      /\ a[c + 1] = e
  BY <1>1, <1>2, AppendProperties
<1> HIDE DEF a
<1>4. a = [n \in 1..(c + 1) |-> a[n]]
  BY <1>3, LenProperties, SeqDef
<1>5. \A n \in 1..(c + 1) : a[n] = IF n = c + 1 THEN e ELSE s[n]
  <2>1. \A n \in 1..(c + 1) : n \in 1..c \/ n = c + 1
    OBVIOUS
  <2>2. \A n \in 1..c : n # c + 1
    OBVIOUS
  <2> QED
    BY <1>3, <2>1, <2>2
<1>6. a = [n \in 1..(c + 1) |-> IF n = c + 1 THEN e ELSE s[n]]
  BY <1>4, <1>5
<1> QED
  BY <1>6 DEF a

-----------------------------------------------------------------------------
(* What has been read, with a line more.                                   *)
SaidBy(K, n) ==
  LET j == Nth(K, n)
  IN [at |-> Around(j), name |-> Fold[read[j].name], values |-> _get_next_value(read[j])]

LEMMA SaidStays ==
  ASSUME read \in Seq(Line), NEW l \in Line, read' = Append(read, l),
         NEW K, K = Lines("directive"), NEW n \in 1..Cardinality(K)
  PROVE  SaidBy(K, n)' = SaidBy(K, n)
<1>1. PICK j : j = Nth(K, n)
  OBVIOUS
<1>2. j \in 1..Len(read) /\ Len(read) \in Nat
  BY <1>1, LinesAre, LenProperties
<1>3. j \in 1..Place /\ read'[j] = read[j]
  BY <1>2, OneMore DEF Place
<1>4. Around(j)' = Around(j)
  BY <1>3, AroundStays
<1> QED
  BY <1>1, <1>3, <1>4 DEF SaidBy

LEMMA SaidKeeps ==
  ASSUME read \in Seq(Line), NEW l \in Line, read' = Append(read, l), SaidInv,
         l.kind # "directive", directives' = directives
  PROVE  SaidInv'
<1>1. PICK K : K = Lines("directive")
  OBVIOUS
<1>2. directives = [n \in 1..Cardinality(K) |-> SaidBy(K, n)]
  BY <1>1 DEF SaidInv, SaidBy
<1>3. Lines("directive")' = K
  BY <1>1, LinesNext
<1>4. directives' = [n \in 1..Cardinality(K) |-> SaidBy(K, n)']
  BY <1>1, <1>2, SaidStays
<1> QED
  BY <1>3, <1>4 DEF SaidInv, SaidBy

LEMMA SaidMore ==
  ASSUME read \in Seq(Line), NEW l \in Line, read' = Append(read, l), SaidInv,
         l.kind = "directive",
         directives' = Append(directives,
           [at |-> Around(Place), name |-> Fold[l.name], values |-> _get_next_value(l)])
  PROVE  SaidInv'
<1>1. PICK K : K = Lines("directive")
  OBVIOUS
<1>2. PICK c : c = Cardinality(K)
  OBVIOUS
<1>3. PICK N : N = Place
  OBVIOUS
<1>4. N \in Nat \ {0} /\ N = Len(read) + 1 /\ Len(read) \in Nat /\ read'[N] = l
  BY <1>3, OneMore
<1>5. /\ c \in Nat /\ IsFiniteSet(K) /\ K \in SUBSET Nat /\ \A k \in K : k < N
  <2>1. K \subseteq 1..Len(read) /\ c \in Nat /\ IsFiniteSet(K) /\ K \in SUBSET Nat
    BY <1>1, <1>2, LinesAre
  <2> QED
    BY <1>4, <2>1
<1>6. PICK J : J = K \cup {N}
  OBVIOUS
<1>7. /\ Cardinality(J) = c + 1 /\ Nth(J, c + 1) = N
      /\ \A n \in 1..c : Nth(J, n) = Nth(K, n)
  BY <1>2, <1>4, <1>5, <1>6, NthNext
<1>8. Lines("directive")' = J
  BY <1>1, <1>3, <1>6, LinesNext
<1>9. directives = [n \in 1..c |-> SaidBy(K, n)]
  BY <1>1, <1>2 DEF SaidInv, SaidBy
<1> DEFINE e == [at |-> Around(N), name |-> Fold[l.name], values |-> _get_next_value(l)]
<1>10. directives' = [n \in 1..(c + 1) |-> IF n = c + 1 THEN e ELSE directives[n]]
  <2>1. directives = [n \in 1..c |-> directives[n]]
    BY <1>9
  <2>2. directives' = Append(directives, e)
    BY <1>3
  <2> HIDE DEF e
  <2> QED
    BY <1>5, <2>1, <2>2, Appended
<1>11. ASSUME NEW n \in 1..c PROVE SaidBy(J, n)' = directives[n]
  <2>1. SaidBy(K, n)' = SaidBy(K, n)
    BY <1>1, <1>2, SaidStays
  <2>2. SaidBy(J, n)' = SaidBy(K, n)'
    BY <1>7 DEF SaidBy
  <2> QED
    BY <1>9, <2>1, <2>2
<1>12. SaidBy(J, c + 1)' = e
  <2>1. Around(N)' = Around(N)
    <3>1. N \in 1..Place
      BY <1>3, <1>4
    <3> QED
      BY <3>1, AroundStays
  <2> QED
    BY <1>4, <1>7, <2>1 DEF SaidBy
<1>13. \A n \in 1..(c + 1) : n \in 1..c \/ n = c + 1
  BY <1>5
<1>14. \A n \in 1..c : n # c + 1
  BY <1>5
<1> HIDE DEF e
<1>15. directives' = [n \in 1..(c + 1) |-> SaidBy(J, n)']
  BY <1>10, <1>11, <1>12, <1>13, <1>14
<1> QED
  BY <1>7, <1>8, <1>15 DEF SaidInv, SaidBy

LEMMA TagsStep ==
  ASSUME read \in Seq(Line), NEW l \in Line, read' = Append(read, l), TagsInv,
         NEW N \in Nat \ {0}, N = Place,
         containers' = IF l.kind = "open"
                       THEN containers \cup {Append(Around(N), <<Fold[l.type], Fold[l.name]>>)}
                       ELSE containers,
         l.kind = "close" => Around(N) # Top /\ Last(Around(N))[1] = Fold[l.type]
  PROVE  TagsInv'
<1>1. N = Len(read) + 1 /\ Len(read) \in Nat /\ read'[N] = l /\ N \in 1..Place
  BY OneMore
<1>2. \A j \in 1..Len(read) : Around(j)' = Around(j) /\ Tag(j)' = Tag(j) /\ read'[j] = read[j]
  <2>1. \A j \in 1..Len(read) : j \in 1..Place
    BY <1>1
  <2> QED
    BY <2>1, OneMore, AroundStays
<1>3. Around(N)' = Around(N) /\ Tag(N)' = <<Fold[l.type], Fold[l.name]>>
  BY <1>1, AroundStays DEF Tag
<1>4. PICK O : O = Lines("open")
  OBVIOUS
<1>5. PICK C : C = Lines("close")
  OBVIOUS
<1>6. O \subseteq 1..Len(read) /\ C \subseteq 1..Len(read)
  BY <1>4, <1>5, LinesAre
<1>7. Lines("open")' = IF l.kind = "open" THEN O \cup {N} ELSE O
  BY <1>4, LinesNext
<1>8. Lines("close")' = IF l.kind = "close" THEN C \cup {N} ELSE C
  BY <1>5, LinesNext
<1> DEFINE In == {Append(Around(j), Tag(j)) : j \in O}
<1>9. {Append(Around(j)', Tag(j)') : j \in O} = In
  BY <1>2, <1>6
<1>10. containers = {Top} \cup In /\ Top' = Top
  BY <1>4 DEF TagsInv, Top
<1>11. containers' = {Top}' \cup {Append(Around(j)', Tag(j)') : j \in Lines("open")'}
  <2>1. CASE l.kind = "open"
    <3>1. {Append(Around(j)', Tag(j)') : j \in O \cup {N}}
            = {Append(Around(j)', Tag(j)') : j \in O} \cup {Append(Around(N)', Tag(N)')}
      OBVIOUS
    <3>2. Append(Around(N)', Tag(N)') = Append(Around(N), <<Fold[l.type], Fold[l.name]>>)
      BY <1>3
    <3> HIDE DEF In
    <3> QED
      BY <1>7, <1>9, <1>10, <2>1, <3>1, <3>2
  <2>2. CASE l.kind # "open"
    <3> HIDE DEF In
    <3> QED
      BY <1>7, <1>9, <1>10, <2>2
  <2> QED
    BY <2>1, <2>2
<1>12. \A j \in Lines("close")' : Around(j)' # Top' /\ Last(Around(j)')[1] = Fold[read'[j].type]
  <2>1. \A j \in C : Around(j) # Top /\ Last(Around(j))[1] = Fold[read[j].type]
    BY <1>5 DEF TagsInv
  <2>2. \A j \in C : Around(j)' # Top' /\ Last(Around(j)')[1] = Fold[read'[j].type]
    BY <1>2, <1>6, <1>10, <2>1
  <2>3. l.kind = "close" => Around(N)' # Top' /\ Last(Around(N)')[1] = Fold[read'[N].type]
    BY <1>1, <1>3, <1>10
  <2> QED
    BY <1>8, <2>2, <2>3
<1> QED
  BY <1>11, <1>12 DEF TagsInv

LEMMA ToTree ==
  ASSUME read \in Seq(Line), NEW l \in Line, read' = Append(read, l),
         NEW N \in Nat \ {0}, N = Place, NEW M \in Nat, M = N + 1,
         cur_conf' = Around(M)', Len(stack') = Len(cur_conf'),
         \A n \in 1..Len(stack') : stack'[n] = [k \in 1..(n - 1) |-> cur_conf'[k]],
         \A j \in Open(M)' :
           Cardinality(Tags("open", j, N)') =
             Cardinality(Tags("close", j, N)') + Cardinality({m \in Open(M)' : j <= m})
  PROVE  TreeInv'
<1>1. Place' = M /\ Place' - 1 = N
  BY OneMore
<1>2. Around(Place)' = Around(M)' /\ Open(Place)' = Open(M)'
  BY <1>1 DEF Around, Open, Balanced, Tags, Tag, InOrder
<1>3. \A kind, j : Tags(kind, j, Place - 1)' = Tags(kind, j, N)'
  BY <1>1 DEF Tags
<1> QED
  BY <1>2, <1>3 DEF TreeInv

(* The open containers, with a line more.                                  *)
LEMMA TreeIs ==
  ASSUME TreeInv, NEW N \in Nat \ {0}, N = Place
  PROVE  /\ cur_conf = Around(N)
         /\ Len(stack) = Len(cur_conf)
         /\ \A n \in 1..Len(stack) : stack[n] = [k \in 1..(n - 1) |-> cur_conf[k]]
         /\ \A j \in Open(N) :
              Cardinality(Tags("open", j, N - 1)) =
                Cardinality(Tags("close", j, N - 1)) + Cardinality({m \in Open(N) : j <= m})
  BY DEF TreeInv

LEMMA TreeSame ==
  ASSUME ConfTypes, TreeInv, NEW l \in Line, read' = Append(read, l),
         l.kind \notin {"open", "close"}, UNCHANGED <<stack, cur_conf>>
  PROVE  TreeInv'
<1>1. read \in Seq(Line)
  BY DEF ConfTypes
<1>2. PICK N \in Nat \ {0} : N = Place
  BY <1>1, OneMore
<1>3. PICK M \in Nat : M = N + 1
  OBVIOUS
<1>4. /\ cur_conf = Around(N)
      /\ Len(stack) = Len(cur_conf)
      /\ \A n \in 1..Len(stack) : stack[n] = [k \in 1..(n - 1) |-> cur_conf[k]]
      /\ \A j \in Open(N) :
           Cardinality(Tags("open", j, N - 1)) =
             Cardinality(Tags("close", j, N - 1)) + Cardinality({m \in Open(N) : j <= m})
  BY <1>2, TreeIs
<1>5. /\ Open(M)' = Open(N)
      /\ \A j \in Open(N) :
           Cardinality(Tags("open", j, N)') =
             Cardinality(Tags("close", j, N)') + Cardinality({m \in Open(N) : j <= m})
  BY <1>1, <1>2, <1>3, <1>4, NoTag
<1>6. Around(M)' = Around(N)
  BY <1>1, <1>2, <1>3, <1>5, AroundSame
<1>7. /\ cur_conf' = Around(M)' /\ Len(stack') = Len(cur_conf')
      /\ \A n \in 1..Len(stack') : stack'[n] = [k \in 1..(n - 1) |-> cur_conf'[k]]
  BY <1>4, <1>6
<1> QED
  BY <1>1, <1>2, <1>3, <1>5, <1>7, ToTree

LEMMA TreeDeeper ==
  ASSUME ConfTypes, TreeInv, NEW l \in Line, read' = Append(read, l), l.kind = "open",
         stack' = Append(stack, cur_conf),
         cur_conf' = Append(cur_conf, <<Fold[l.type], Fold[l.name]>>)
  PROVE  TreeInv'
<1>1. read \in Seq(Line)
  BY DEF ConfTypes
<1>2. PICK N \in Nat \ {0} : N = Place
  BY <1>1, OneMore
<1>3. PICK M \in Nat : M = N + 1
  OBVIOUS
<1>4. /\ cur_conf = Around(N)
      /\ Len(stack) = Len(cur_conf)
      /\ \A n \in 1..Len(stack) : stack[n] = [k \in 1..(n - 1) |-> cur_conf[k]]
      /\ \A j \in Open(N) :
           Cardinality(Tags("open", j, N - 1)) =
             Cardinality(Tags("close", j, N - 1)) + Cardinality({m \in Open(N) : j <= m})
  BY <1>2, TreeIs
<1>5. /\ Open(M)' = Open(N) \cup {N}
      /\ \A j \in Open(M)' :
           Cardinality(Tags("open", j, N)') =
             Cardinality(Tags("close", j, N)') + Cardinality({m \in Open(M)' : j <= m})
  BY <1>1, <1>2, <1>3, <1>4, NewTag
<1> DEFINE t == <<Fold[l.type], Fold[l.name]>>
<1>6. Around(M)' = Append(Around(N), t) /\ t \in TagSet
  BY <1>1, <1>2, <1>3, <1>5, AroundDeeper
<1> HIDE DEF t
<1>7. /\ cur_conf \in Seq(TagSet) /\ stack \in Seq(Path) /\ cur_conf \in Path
      /\ cur_conf' = Append(cur_conf, t) /\ stack' = Append(stack, cur_conf)
  BY DEF ConfTypes, Path, t
<1>8. PICK c \in Nat : c = Len(cur_conf)
  BY <1>7, LenProperties
<1>9. /\ Len(cur_conf') = c + 1 /\ Len(stack') = c + 1
      /\ \A k \in 1..c : cur_conf'[k] = cur_conf[k]
      /\ \A n \in 1..c : stack'[n] = stack[n]
      /\ stack'[c + 1] = cur_conf
  BY <1>4, <1>6, <1>7, <1>8, AppendProperties
<1>10. cur_conf = [k \in 1..c |-> cur_conf[k]]
  BY <1>7, <1>8, LenProperties
<1>11. ASSUME NEW n \in 1..(c + 1)
       PROVE  stack'[n] = [k \in 1..(n - 1) |-> cur_conf'[k]]
  <2>1. \A k \in 1..(n - 1) : k \in 1..c
    OBVIOUS
  <2>2. stack'[n] = [k \in 1..(n - 1) |-> cur_conf[k]]
    <3>1. CASE n = c + 1
      <4>1. 1..(n - 1) = 1..c
        BY <3>1
      <4> QED
        BY <1>9, <1>10, <3>1, <4>1
    <3>2. CASE n \in 1..c
      BY <1>4, <1>8, <1>9, <3>2
    <3>3. n = c + 1 \/ n \in 1..c
      OBVIOUS
    <3> QED
      BY <3>1, <3>2, <3>3
  <2> QED
    BY <1>9, <2>1, <2>2
<1>12. /\ cur_conf' = Around(M)' /\ Len(stack') = Len(cur_conf')
       /\ \A n \in 1..Len(stack') : stack'[n] = [k \in 1..(n - 1) |-> cur_conf'[k]]
  BY <1>4, <1>6, <1>7, <1>9, <1>11
<1> QED
  BY <1>1, <1>2, <1>3, <1>5, <1>12, ToTree

LEMMA TreeShallower ==
  ASSUME ConfTypes, TreeInv, NEW l \in Line, read' = Append(read, l), l.kind = "close",
         cur_conf # Top, cur_conf' = Last(stack), stack' = Front(stack)
  PROVE  TreeInv' /\ cur_conf' \in Path /\ stack' \in Seq(Path)
<1>1. read \in Seq(Line)
  BY DEF ConfTypes
<1>2. PICK N \in Nat \ {0} : N = Place
  BY <1>1, OneMore
<1>3. PICK M \in Nat : M = N + 1
  OBVIOUS
<1>4. /\ cur_conf = Around(N)
      /\ Len(stack) = Len(cur_conf)
      /\ \A n \in 1..Len(stack) : stack[n] = [k \in 1..(n - 1) |-> cur_conf[k]]
      /\ \A j \in Open(N) :
           Cardinality(Tags("open", j, N - 1)) =
             Cardinality(Tags("close", j, N - 1)) + Cardinality({m \in Open(N) : j <= m})
  BY <1>2, TreeIs
<1>5. cur_conf \in Seq(TagSet) /\ stack \in Seq(Path)
  BY DEF ConfTypes, Path
<1>6. PICK c \in Nat : c = Len(cur_conf)
  BY <1>5, LenProperties
<1>7. c # 0
  BY <1>5, <1>6, EmptySeq DEF Top
<1>8. Open(N) # {} /\ Open(N) \in SUBSET Nat /\ \A k \in Open(N) : k <= N
  <2>1. N \in 1..Place
    BY <1>2
  <2>2. Cardinality(Open(N)) = c
    BY <1>1, <1>4, <1>6, <2>1, AroundIs
  <2>3. Open(N) # {}
    BY <1>7, <2>2, FS_EmptySet
  <2> QED
    BY <2>3, OpenIs
<1>9. PICK g \in Open(N) : \A k \in Open(N) : k <= g
  BY <1>8, Greatest
<1>10. /\ Open(M)' = Open(N) \ {g}
       /\ \A j \in Open(M)' :
            Cardinality(Tags("open", j, N)') =
              Cardinality(Tags("close", j, N)') + Cardinality({m \in Open(M)' : j <= m})
  BY <1>1, <1>2, <1>3, <1>4, <1>9, LastTag
<1>11. Around(M)' = [n \in 1..(c - 1) |-> cur_conf[n]]
  BY <1>1, <1>2, <1>3, <1>4, <1>6, <1>9, <1>10, AroundShallower
<1>12. cur_conf' = [n \in 1..(c - 1) |-> cur_conf[n]] /\ cur_conf' \in Path
  <2>1. c \in 1..Len(stack) /\ cur_conf' = stack[c]
    BY <1>4, <1>6, <1>7 DEF Last
  <2> QED
    BY <1>4, <1>5, <2>1, ElementOfSeq
<1>13. /\ stack' \in Seq(Path) /\ Len(stack') = c - 1
       /\ \A n \in 1..(c - 1) : stack'[n] = stack[n]
  <2>1. stack' = SubSeq(stack, 1, c - 1) /\ 1 \in Int /\ c - 1 \in Int
    BY <1>4, <1>6 DEF Front
  <2>2. \A n \in 1..(c - 1) : stack[n] \in Path
    BY <1>4, <1>5, <1>6, ElementOfSeq
  <2>3. /\ SubSeq(stack, 1, c - 1) \in Seq(Path)
        /\ Len(SubSeq(stack, 1, c - 1)) = IF 1 <= c - 1 THEN c - 1 - 1 + 1 ELSE 0
        /\ \A n \in 1..(c - 1 - 1 + 1) : SubSeq(stack, 1, c - 1)[n] = stack[1 + n - 1]
    BY <2>1, <2>2, SubSeqProperties
  <2>4. Len(stack') = c - 1
    BY <1>7, <2>1, <2>3
  <2>5. \A n \in 1..(c - 1) : n \in 1..(c - 1 - 1 + 1) /\ 1 + n - 1 = n
    OBVIOUS
  <2> QED
    BY <2>1, <2>3, <2>4, <2>5
<1>14. Len(cur_conf') = c - 1
  <2>1. c - 1 \in Nat /\ cur_conf' \in Seq(TagSet) /\ DOMAIN cur_conf' = 1..(c - 1)
    BY <1>7, <1>12 DEF Path
  <2> QED
    BY <2>1, LenProperties
<1>15. ASSUME NEW n \in 1..(c - 1)
       PROVE  stack'[n] = [k \in 1..(n - 1) |-> cur_conf'[k]]
  <2>1. \A k \in 1..(n - 1) : k \in 1..(c - 1)
    OBVIOUS
  <2>2. stack'[n] = [k \in 1..(n - 1) |-> cur_conf[k]]
    <3>1. n \in 1..Len(stack)
      BY <1>4, <1>6
    <3> QED
      BY <1>4, <1>13, <3>1
  <2> QED
    BY <1>12, <2>1, <2>2
<1>16. TreeInv'
  <2>1. /\ cur_conf' = Around(M)' /\ Len(stack') = Len(cur_conf')
        /\ \A n \in 1..Len(stack') : stack'[n] = [k \in 1..(n - 1) |-> cur_conf'[k]]
    BY <1>11, <1>12, <1>13, <1>14, <1>15
  <2> QED
    BY <1>1, <1>2, <1>3, <1>10, <2>1, ToTree
<1> QED
  BY <1>12, <1>13, <1>16

-----------------------------------------------------------------------------
(* The steps.                                                              *)
LEMMA NothingRead ==
  ASSUME read = << >>, cur_conf = Top, stack = << >>, containers = {Top},
         directives = << >>, got = Nothing
  PROVE  TreeInv /\ SaidInv /\ TagsInv /\ GotInv
<1>1. Len(read) = 0 /\ Place = 1 /\ DOMAIN read = {}
  BY EmptySeq DEF Place
<1>2. Open(1) = {} /\ \A kind : Lines(kind) = {}
  <2>1. Open(1) \subseteq 1..(1 - 1) /\ 1..(1 - 1) = {}
    BY DEF Open
  <2> QED
    BY <1>1, <2>1 DEF Lines
<1>3. Cardinality({}) = 0
  BY FS_EmptySet
<1>4. Around(Place) = Top
  <2>1. Around(Place) = [n \in 1..Cardinality(Open(1)) |-> Tag(Nth(Open(1), n))]
    BY <1>1 DEF Around, InOrder
  <2>2. 1..Cardinality(Open(1)) = {}
    <3>1. Cardinality(Open(1)) = 0
      BY <1>2, <1>3
    <3> QED
      BY <3>1
  <2> QED
    BY <2>1, <2>2 DEF Top
<1>5. TreeInv
  <2>1. Len(stack) = 0 /\ Len(cur_conf) = 0 /\ 1..Len(stack) = {} /\ Open(Place) = {}
    BY <1>1, <1>2, EmptySeq DEF Top
  <2> QED
    BY <1>4, <2>1 DEF TreeInv
<1>6. SaidInv
  <2>1. 1..Cardinality(Lines("directive")) = {}
    BY <1>2, <1>3
  <2> QED
    BY <2>1 DEF SaidInv
<1>7. TagsInv
  BY <1>2 DEF TagsInv
<1>8. GotInv
  BY DEF GotInv, Nothing, NotFound
<1> QED
  BY <1>5, <1>6, <1>7, <1>8

LEMMA SameAround ==
  ASSUME UNCHANGED read
  PROVE  /\ \A kind, j, k : Tags(kind, j, k)' = Tags(kind, j, k)
         /\ \A kind : Lines(kind)' = Lines(kind)
         /\ \A k : Open(k)' = Open(k) /\ Around(k)' = Around(k) /\ Tag(k)' = Tag(k)
<1>1. \A kind, j, k : Tags(kind, j, k)' = Tags(kind, j, k)
  BY DEF Tags
<1>2. \A kind : Lines(kind)' = Lines(kind)
  BY DEF Lines
<1>3. \A k : Open(k)' = Open(k)
  <2>1. \A j, k : Balanced(j, k)' <=> Balanced(j, k)
    BY <1>1 DEF Balanced
  <2> QED
    BY <2>1 DEF Open
<1>4. \A j : Tag(j)' = Tag(j)
  BY DEF Tag
<1>5. ASSUME NEW k PROVE Around(k)' = Around(k)
  <2>1. PICK K : K = Open(k)
    OBVIOUS
  <2>2. Around(k)' = [n \in 1..Cardinality(K) |->
                        <<Fold[read[Nth(K, n)].type], Fold[read[Nth(K, n)].name]>>]
    <3>1. Open(k)' = K
      BY <1>3, <2>1
    <3> QED
      BY <3>1 DEF Around, InOrder, Tag
  <2>3. Around(k) = [n \in 1..Cardinality(K) |->
                       <<Fold[read[Nth(K, n)].type], Fold[read[Nth(K, n)].name]>>]
    BY <2>1 DEF Around, InOrder, Tag
  <2> QED
    BY <2>2, <2>3
<1> QED
  BY <1>1, <1>2, <1>3, <1>4, <1>5

LEMMA SaidAgain ==
  ASSUME UNCHANGED <<containers, directives, read>>
  PROVE  (SaidInv => SaidInv') /\ (TagsInv => TagsInv')
<1>1. SaidInv => SaidInv'
  BY SameAround DEF SaidInv
<1>2. TagsInv => TagsInv'
  BY SameAround DEF TagsInv, Top
<1> QED
  BY <1>1, <1>2

LEMMA Unread ==
  ASSUME UNCHANGED <<cur_conf, containers, directives, got, read>>
  PROVE  /\ SaidInv => SaidInv'
         /\ TagsInv => TagsInv'
         /\ GotInv => GotInv'
         /\ stack' = stack /\ TreeInv => TreeInv'
<1>1. GotInv => GotInv'
  <2>1. \A a : Outside(a)' = Outside(a)
    BY SameAround DEF Outside, Top
  <2> QED
    BY <2>1 DEF GotInv, Gives
<1>2. stack' = stack /\ TreeInv => TreeInv'
  <2>1. Place' = Place
    BY DEF Place
  <2>2. /\ Around(Place)' = Around(Place) /\ Open(Place)' = Open(Place)
        /\ \A kind, j : Tags(kind, j, Place - 1)' = Tags(kind, j, Place - 1)
    BY <2>1 DEF Around, InOrder, Tag, Open, Balanced, Tags
  <2> SUFFICES ASSUME stack' = stack, TreeInv PROVE TreeInv'
    OBVIOUS
  <2>3. /\ cur_conf' = Around(Place)' /\ Len(stack') = Len(cur_conf')
        /\ \A n \in 1..Len(stack') : stack'[n] = [k \in 1..(n - 1) |-> cur_conf'[k]]
    BY <2>2 DEF TreeInv
  <2>4. \A j \in Open(Place) :
          Cardinality(Tags("open", j, Place - 1)) =
            Cardinality(Tags("close", j, Place - 1)) + Cardinality({m \in Open(Place) : j <= m})
    BY DEF TreeInv
  <2>5. \A j \in Open(Place)' :
          Cardinality(Tags("open", j, Place - 1)') =
            Cardinality(Tags("close", j, Place - 1)')
              + Cardinality({m \in Open(Place)' : j <= m})
    BY <2>2, <2>4
  <2> QED
    BY <2>3, <2>5 DEF TreeInv
<1> QED
  BY <1>1, <1>2, SaidAgain

(* A line that is read is not looked up yet.                               *)
LEMMA ReadOn ==
  ASSUME ReadInv, NEW l \in Line, Reads(l), UNCHANGED got
  PROVE  /\ ConfTypes /\ TreeInv /\ SaidInv /\ TagsInv
         /\ read \in Seq(Line) /\ read' \in Seq(Line) /\ read' = Append(read, l)
         /\ parse = "parsing" /\ got' = Nothing /\ GotInv'
<1>1. /\ ConfTypes /\ TreeInv /\ SaidInv /\ TagsInv
      /\ read \in Seq(Line) /\ read' = Append(read, l) /\ parse = "parsing"
      /\ got' = Nothing
  BY DEF ReadInv, Reads, ConfTypes
<1>2. GotInv'
  <2>1. got'.n # 1
    BY <1>1 DEF Nothing, NotFound
  <2> QED
    BY <2>1 DEF GotInv
<1> QED
  BY <1>1, <1>2, OneMore

LEMMA ReadStep ==
  ASSUME ReadInv, NEW l \in Line, Blank(l) \/ OpeningTag(l) \/ ClosingTag(l) \/ Directive(l)
  PROVE  ReadInv'
<1>0. Reads(l) /\ UNCHANGED got
  BY DEF Blank, OpeningTag, ClosingTag, Directive
<1>1. /\ ConfTypes /\ TreeInv /\ SaidInv /\ TagsInv
      /\ read \in Seq(Line) /\ read' \in Seq(Line) /\ read' = Append(read, l)
      /\ parse = "parsing" /\ got' = Nothing /\ GotInv'
  BY <1>0, ReadOn
<1>2. cur_conf \in Path /\ stack \in Seq(Path)
  BY <1>1 DEF ConfTypes
<1>3. PICK N \in Nat \ {0} : N = Place
  BY <1>1, OneMore
<1>4. cur_conf = Around(N)
  BY <1>1, <1>3, TreeIs
<1>5. CASE parse' \in {"failed", "crashed"} /\ UNCHANGED <<stack, cur_conf>>
  <2>1. ConfTypes'
    BY <1>1, <1>2, <1>5 DEF ConfTypes
  <2> QED
    BY <1>5, <2>1 DEF ReadInv
<1>6. CASE parse' = "parsing" /\ cur_conf' \in Path /\ stack' \in Seq(Path)
           /\ TreeInv' /\ SaidInv' /\ TagsInv'
  <2>1. ConfTypes'
    BY <1>1, <1>6 DEF ConfTypes
  <2> QED
    BY <1>1, <1>6, <2>1 DEF ReadInv
<1>7. CASE Blank(l)
  <2>1. /\ l.kind = "blank"
        /\ UNCHANGED <<stack, cur_conf, containers, directives, parse, got>>
    BY <1>7 DEF Blank
  <2>2. TreeInv'
    BY <1>1, <2>1, TreeSame
  <2>3. SaidInv'
    BY <1>1, <2>1, SaidKeeps
  <2>4. TagsInv'
    BY <1>1, <1>3, <2>1, TagsStep
  <2> QED
    BY <1>1, <1>2, <1>6, <2>1, <2>2, <2>3, <2>4
<1>8. CASE Directive(l)
  <2>1. /\ l.kind = "directive"
        /\ directives' = Append(directives,
             [at |-> cur_conf, name |-> Fold[l.name], values |-> _get_next_value(l)])
        /\ UNCHANGED <<stack, cur_conf, containers, parse, got>>
    BY <1>8 DEF Directive
  <2>2. TreeInv'
    BY <1>1, <2>1, TreeSame
  <2>3. SaidInv'
    BY <1>1, <1>3, <1>4, <2>1, SaidMore
  <2>4. TagsInv'
    BY <1>1, <1>3, <2>1, TagsStep
  <2> QED
    BY <1>1, <1>2, <1>6, <2>1, <2>2, <2>3, <2>4
<1>9. CASE OpeningTag(l)
  <2>1. l.kind = "open"
    BY <1>9 DEF OpeningTag
  <2>2. CASE l.type = Unnamed
    BY <1>5, <1>9, <2>2 DEF OpeningTag, Stops
  <2>3. CASE l.type # Unnamed
    <3> DEFINE t == <<Fold[l.type], Fold[l.name]>>
    <3>1. /\ containers' = containers \cup {Append(cur_conf, t)}
          /\ stack' = Append(stack, cur_conf) /\ cur_conf' = Append(cur_conf, t)
          /\ UNCHANGED <<directives, parse>>
      BY <1>9, <2>3 DEF OpeningTag, Child
    <3>2. TreeInv'
      BY <1>1, <2>1, <3>1, TreeDeeper
    <3>3. SaidInv'
      BY <1>1, <2>1, <3>1, SaidKeeps
    <3>4. TagsInv'
      BY <1>1, <1>3, <1>4, <2>1, <3>1, TagsStep
    <3>5. cur_conf' \in Path /\ stack' \in Seq(Path)
      <4>1. t \in TagSet
        BY DEF TagSet
      <4> HIDE DEF t
      <4> QED
        BY <1>2, <3>1, <4>1, AppendProperties DEF Path
    <3> QED
      BY <1>1, <1>6, <3>1, <3>2, <3>3, <3>4, <3>5
  <2> QED
    BY <2>2, <2>3
<1>10. CASE ClosingTag(l)
  <2>1. l.kind = "close"
    BY <1>10 DEF ClosingTag
  <2>2. CASE l.type = Unnamed \/ cur_conf = Top \/ Fold[l.type] # Last(cur_conf)[1]
    <3>1. parse' \in {"failed", "crashed"} /\ UNCHANGED <<stack, cur_conf>>
      BY <1>10, <2>2 DEF ClosingTag, Stops
    <3> QED
      BY <1>5, <3>1
  <2>3. CASE l.type # Unnamed /\ cur_conf # Top /\ Fold[l.type] = Last(cur_conf)[1]
    <3>1. /\ cur_conf' = Last(stack) /\ stack' = Front(stack)
          /\ UNCHANGED <<containers, directives, parse>>
      BY <1>10, <2>3 DEF ClosingTag, Popped
    <3>2. TreeInv' /\ cur_conf' \in Path /\ stack' \in Seq(Path)
      BY <1>1, <2>1, <2>3, <3>1, TreeShallower
    <3>3. SaidInv'
      BY <1>1, <2>1, <3>1, SaidKeeps
    <3>4. TagsInv'
      <4>1. Around(N) # Top /\ Last(Around(N))[1] = Fold[l.type]
        BY <1>4, <2>3
      <4> QED
        BY <1>1, <1>3, <2>1, <3>1, <4>1, TagsStep
    <3> QED
      BY <1>1, <1>6, <3>1, <3>2, <3>3, <3>4
  <2> QED
    BY <2>2, <2>3
<1> QED
  BY <1>7, <1>8, <1>9, <1>10

(* A lookup of one value finds what the file says last.                    *)
LEMMA LookedUp ==
  ASSUME read \in Seq(Line), SaidInv, NEW a,
         got' \in {cfuconf_get_directive_one_arg(a), cfuconf_get_directive_n_args(a, 2)},
         UNCHANGED <<directives, read>>
  PROVE  GotInv'
<1>1. SUFFICES ASSUME got'.n = 1 PROVE GotInv'
  BY DEF GotInv
<1>2. PICK v : v = _get_directive_last_val_list(a)
  OBVIOUS
<1>3. /\ got'.name = a
      /\ IF Len(v) >= 1 THEN got'.rv = 0 /\ got'.values = <<v[1]>> ELSE got'.rv = -1
  <2>1. got' = cfuconf_get_directive_one_arg(a)
    BY <1>1 DEF cfuconf_get_directive_n_args, Values, NotFound
  <2> QED
    BY <1>2, <2>1 DEF cfuconf_get_directive_one_arg, Values, NotFound
<1>4. PICK K : K = Lines("directive")
  OBVIOUS
<1>5. PICK c : c = Cardinality(K)
  OBVIOUS
<1>6. c \in Nat /\ Ordered(K) /\ K \in SUBSET Nat
  BY <1>4, <1>5, LinesAre
<1>7. directives = [n \in 1..c |-> SaidBy(K, n)]
  BY <1>4, <1>5 DEF SaidInv, SaidBy
<1>8. /\ Outside(a)' = Outside(a) /\ read' = read
      /\ \A w : Gives(w)' <=> IF Len(w) >= 1 THEN got'.rv = 0 /\ got'.values = <<w[1]>>
                              ELSE got'.rv = -1
  BY SameAround DEF Outside, Top, Gives
<1>9. \A p \in Outside(a) : \E n \in Said(a) : p = Nth(K, n)
  <2> SUFFICES ASSUME NEW p \in Outside(a) PROVE \E n \in Said(a) : p = Nth(K, n)
    OBVIOUS
  <2>1. p \in K /\ Around(p) = Top /\ Fold[read[p].name] = Fold[a]
    BY <1>4 DEF Outside
  <2>2. PICK n \in 1..c : Nth(K, n) = p
    BY <1>5, <1>6, <2>1 DEF Ordered
  <2>3. directives[n].at = Top /\ directives[n].name = Fold[a] /\ n \in DOMAIN directives
    BY <1>7, <2>1, <2>2 DEF SaidBy
  <2> QED
    BY <2>2, <2>3 DEF Said
<1>10. ASSUME NEW m \in Said(a)
       PROVE  /\ m \in 1..c /\ Nth(K, m) \in Outside(a) /\ Nth(K, m) \in Nat
              /\ directives[m].values = _get_next_value(read[Nth(K, m)])
  <2>1. m \in 1..c /\ directives[m].at = Top /\ directives[m].name = Fold[a]
    BY <1>7 DEF Said
  <2>2. PICK j : j = Nth(K, m)
    OBVIOUS
  <2>3. j \in K /\ Around(j) = Top /\ Fold[read[j].name] = Fold[a]
    BY <1>5, <1>6, <1>7, <2>1, <2>2 DEF SaidBy, Ordered
  <2>4. directives[m].values = _get_next_value(read[j])
    BY <1>7, <2>1, <2>2 DEF SaidBy
  <2> QED
    BY <1>4, <1>6, <2>1, <2>2, <2>3, <2>4 DEF Outside
<1>11. CASE Said(a) = {}
  <2>1. v = << >> /\ Outside(a) = {}
    BY <1>2, <1>9, <1>11 DEF _get_directive_last_val_list
  <2>2. Gives(<< >>)'
    BY <1>3, <1>8, <2>1
  <2> QED
    BY <1>3, <1>8, <2>1, <2>2 DEF GotInv
<1>12. CASE Said(a) # {}
  <2>1. PICK m \in Said(a) : \A k \in Said(a) : k <= m
    <3>1. Said(a) \in SUBSET Nat /\ \A k \in Said(a) : k <= c
      BY <1>6, <1>10
    <3> QED
      BY <1>6, <1>12, <3>1, Greatest
  <2>2. v = directives[m].values
    <3>1. Said(a) \subseteq Nat
      BY <1>6, <1>10
    <3>2. \A x \in Said(a) : (\A y \in Said(a) : x >= y) <=> x = m
      BY <2>1, <3>1
    <3>3. Max(Said(a)) = m
      BY <3>2 DEF Max
    <3> QED
      BY <1>2, <1>12, <3>3 DEF _get_directive_last_val_list
  <2>3. PICK j \in Outside(a) : j = Nth(K, m) /\ j \in Nat
    BY <1>10
  <2>4. ASSUME NEW p \in Outside(a) PROVE p \in Nat /\ p <= j
    <3>1. PICK n \in Said(a) : p = Nth(K, n)
      BY <1>9
    <3>2. n \in 1..c /\ m \in 1..c /\ n <= m /\ p \in Nat
      BY <1>10, <2>1, <3>1
    <3>3. CASE n = m
      BY <2>3, <3>1, <3>2, <3>3
    <3>4. CASE n < m
      <4>1. Nth(K, n) < Nth(K, m)
        BY <1>5, <1>6, <3>2, <3>4 DEF Ordered
      <4> QED
        BY <2>3, <3>1, <3>2, <4>1
    <3> QED
      BY <1>6, <3>2, <3>3, <3>4
  <2>5. Max(Outside(a)) = j
    <3>1. \A x \in Outside(a) : (\A y \in Outside(a) : x >= y) <=> x = j
      BY <2>3, <2>4
    <3> QED
      BY <3>1 DEF Max
  <2>6. v = _get_next_value(read[j])
    BY <1>10, <2>2, <2>3
  <2>7. Gives(_get_next_value(read[j]))'
    BY <1>3, <1>8, <2>6
  <2>8. Outside(a) # {}
    BY <2>3
  <2> QED
    BY <1>3, <1>8, <2>5, <2>7, <2>8 DEF GotInv
<1> QED
  BY <1>11, <1>12

LEMMA ReadNexts ==
  ASSUME ReadInv, ConfNext
  PROVE  ReadInv'
<1>0. ConfTypes
  BY DEF ReadInv
<1>1. CASE cfuconf_parse_file
  <2>1. /\ parse = "none" /\ parse' \in {"parsing", "failed"}
        /\ UNCHANGED <<stack, cur_conf, containers, directives, got, read>>
    BY <1>1 DEF cfuconf_parse_file
  <2>2. /\ read = << >> /\ cur_conf = Top /\ stack = << >> /\ containers = {Top}
        /\ directives = << >> /\ got = Nothing
    BY <1>0, <2>1 DEF ConfTypes
  <2>3. TreeInv' /\ SaidInv' /\ TagsInv' /\ GotInv'
    BY <2>1, <2>2, NothingRead, Unread
  <2>4. ConfTypes'
    BY <1>0, <2>1, <2>2 DEF ConfTypes
  <2> QED
    BY <2>3, <2>4 DEF ReadInv
<1>2. CASE EndOfFile
  <2>1. /\ parse = "parsing" /\ parse' = "parsed" /\ stack' = << >>
        /\ UNCHANGED <<cur_conf, containers, directives, got, read>>
    BY <1>2 DEF EndOfFile
  <2>2. SaidInv' /\ TagsInv' /\ GotInv'
    BY <2>1, Unread DEF ReadInv
  <2>3. << >> \in Seq(Path)
    BY EmptySeq
  <2>4. ConfTypes'
    BY <1>0, <2>1, <2>3 DEF ConfTypes
  <2> QED
    BY <2>1, <2>2, <2>4 DEF ReadInv
<1>3. CASE cfuconf_destroy
  <2>1. /\ parse = "parsed" /\ parse' = "none"
        /\ cur_conf' = Top /\ containers' = {Top} /\ directives' = << >>
        /\ got' = Nothing /\ read' = << >> /\ UNCHANGED stack
    BY <1>3 DEF cfuconf_destroy
  <2>2. << >> \in Seq(Line) /\ Top \in Path /\ Top' = Top /\ Nothing' = Nothing
    BY EmptySeq DEF Top, Path, Nothing, NotFound
  <2>3. ConfTypes'
    BY <1>0, <2>1, <2>2 DEF ConfTypes
  <2> QED
    BY <2>1, <2>3 DEF ReadInv
<1>4. ASSUME NEW l \in Line, Blank(l) \/ OpeningTag(l) \/ ClosingTag(l) \/ Directive(l)
      PROVE  ReadInv'
  BY <1>4, ReadStep
<1>5. ASSUME NEW l \in Line, Lookup(l.name)
      PROVE  ReadInv'
  <2>1. /\ parse = "parsed" /\ parse' = "parsed"
        /\ got' \in {cfuconf_get_directive_one_arg(l.name),
                     cfuconf_get_directive_n_args(l.name, 2)}
        /\ UNCHANGED <<stack, cur_conf, containers, directives, parse, read>>
    BY <1>5 DEF Lookup
  <2>2. read \in Seq(Line) /\ SaidInv /\ TagsInv
    BY <2>1 DEF ReadInv, ConfTypes
  <2>3. GotInv'
    BY <2>1, <2>2, LookedUp
  <2>4. SaidInv' /\ TagsInv'
    BY <2>1, <2>2, SaidAgain
  <2>5. ConfTypes'
    BY <1>0, <2>1 DEF ConfTypes
  <2> QED
    BY <2>1, <2>3, <2>4, <2>5 DEF ReadInv
<1> QED
  BY <1>1, <1>2, <1>3, <1>4, <1>5 DEF ConfNext

-----------------------------------------------------------------------------
(* The last element of a text before a place that is no quote.             *)
LEMMA LastOther ==
  ASSUME NEW q, NEW n \in Nat, NEW p \in 2..n, q[1] # Quote
  PROVE  LET b == {j \in 1..(p - 1) : q[j] # Quote}
         IN /\ b # {} /\ Max(b) \in 1..(p - 1) /\ q[Max(b)] # Quote
            /\ \A j \in (Max(b) + 1)..(p - 1) : q[j] = Quote
<1> DEFINE b == {j \in 1..(p - 1) : q[j] # Quote}
<1>1. p \in Nat /\ b # {} /\ b \in SUBSET Nat /\ \A k \in b : k <= p
  <2>1. 1 \in b
    OBVIOUS
  <2> QED
    BY <2>1
<1>2. PICK x \in b : \A k \in b : k <= x
  <2> HIDE DEF b
  <2> QED
    BY <1>1, Greatest
<1>3. Max(b) = x
  <2>1. \A y \in b : (\A k \in b : y >= k) <=> y = x
    BY <1>1, <1>2
  <2> HIDE DEF b
  <2> QED
    BY <1>2, <2>1 DEF Max
<1>4. x \in 1..(p - 1) /\ q[x] # Quote
  OBVIOUS
<1>5. ASSUME NEW j \in (x + 1)..(p - 1) PROVE q[j] = Quote
  <2>1. j \in 1..(p - 1) /\ ~(j <= x)
    BY <1>4
  <2> QED
    BY <1>2, <2>1
<1> QED
  BY <1>1, <1>3, <1>4, <1>5

(* What is well quoted ends at its last quote.                             *)
LEMMA Ends ==
  ASSUME NEW q, Len(q) \in Nat, DOMAIN q = 1..Len(q), WellQuoted(q),
         NEW n \in Nat, n = Len(q), n >= 2
  PROVE  _get_quoted_value(q) = IF q[n - 1] = Quote THEN {} ELSE {n}
<1>0. \A k \in Nat \ {0} :
        /\ \A p \in 1..k : p \in 1..(k - 1) \/ p = k
        /\ \A x \in 1..(k - 1) : x # k - 1 => /\ x + 1 < k
                                              /\ k - 1 \in (x + 1)..(k - 1)
                                              /\ x + 1 \in (x + 1)..(k - 1)
  OBVIOUS
<1>1. /\ q[n] = Quote /\ q[1] # Quote
      /\ \A j \in 1..(n - 1) : q[j] = Escape <=> j + 1 < n /\ q[j + 1] = Quote
  BY DEF WellQuoted
<1> DEFINE b(p) == {j \in 1..(p - 1) : q[j] # Quote}
<1>2. \A p : p \in _get_quoted_value(q) <=>
        p \in 1..n /\ q[p] = Quote /\ (b(p) = {} \/ q[Max(b(p))] # Escape)
  BY DEF _get_quoted_value
<1>3. ASSUME NEW p \in 2..n
      PROVE  /\ b(p) # {} /\ Max(b(p)) \in 1..(p - 1) /\ q[Max(b(p))] # Quote
             /\ \A j \in (Max(b(p)) + 1)..(p - 1) : q[j] = Quote
  BY <1>1, LastOther
<1> HIDE DEF b
<1>4. ASSUME NEW p \in 1..(n - 1) PROVE p \notin _get_quoted_value(q)
  <2>1. CASE p = 1
    BY <1>1, <1>2, <2>1
  <2>2. CASE p # 1 /\ q[p] = Quote
    <3>1. p \in 2..n
      BY <2>2
    <3>2. PICK x \in 1..(p - 1) : x = Max(b(p))
      BY <1>3, <3>1
    <3>3. q[x + 1] = Quote
      <4>1. x + 1 = p \/ x + 1 \in (x + 1)..(p - 1)
        OBVIOUS
      <4> QED
        BY <1>3, <2>2, <3>1, <3>2, <4>1
    <3>4. q[x] = Escape
      <4>1. x \in 1..(n - 1) /\ x + 1 < n
        OBVIOUS
      <4> QED
        BY <1>1, <3>3, <4>1
    <3> QED
      BY <1>2, <1>3, <3>1, <3>2, <3>4
  <2>3. CASE q[p] # Quote
    BY <1>2, <2>3
  <2> QED
    BY <2>1, <2>2, <2>3
<1>5. n \in 2..n
  OBVIOUS
<1>9. n \in Nat \ {0}
  OBVIOUS
<1>6. PICK x \in 1..(n - 1) : x = Max(b(n))
  BY <1>3, <1>5
<1>7. CASE q[n - 1] = Quote
  <2>1. x + 1 < n /\ x + 1 \in (x + 1)..(n - 1)
    <3>1. x # n - 1
      BY <1>3, <1>5, <1>6, <1>7
    <3> QED
      BY <1>0, <1>9, <3>1
  <2>2. q[x + 1] = Quote
    BY <1>3, <1>5, <1>6, <2>1
  <2>3. n \notin _get_quoted_value(q)
    <3>1. q[x] = Escape
      BY <1>1, <2>1, <2>2
    <3> QED
      BY <1>2, <1>3, <1>5, <1>6, <3>1
  <2>4. \A p \in 1..n : p \in 1..(n - 1) \/ p = n
    BY <1>0, <1>9
  <2> QED
    BY <1>2, <1>4, <1>7, <2>3, <2>4
<1>8. CASE q[n - 1] # Quote
  <2>1. x = n - 1
    <3>1. SUFFICES ASSUME x # n - 1 PROVE FALSE
      OBVIOUS
    <3>2. n - 1 \in (x + 1)..(n - 1)
      BY <1>0, <1>9, <3>1
    <3> QED
      BY <1>3, <1>5, <1>6, <1>8, <3>2
  <2>2. q[x] # Escape
    <3>1. ~(x + 1 < n)
      BY <2>1
    <3> QED
      BY <1>1, <3>1
  <2>3. n \in _get_quoted_value(q)
    <3>1. n \in 1..n
      OBVIOUS
    <3> QED
      BY <1>1, <1>2, <1>6, <2>2, <3>1
  <2>4. \A p \in 1..n : p \in 1..(n - 1) \/ p = n
    BY <1>0, <1>9
  <2> QED
    BY <1>2, <1>4, <1>8, <2>3, <2>4
<1> QED
  BY <1>7, <1>8

LEMMA Understands ==
  ASSUME NEW l, Len(l.quoted) \in Nat, DOMAIN l.quoted = 1..Len(l.quoted),
         Promised(l.quoted)
  PROVE  _get_next_value(l) = Meant(l)
<1>1. PICK q : q = l.quoted
  OBVIOUS
<1>2. PICK n \in Nat : n = Len(q)
  BY <1>1
<1>3. /\ DOMAIN q = 1..n /\ WellQuoted(q)
      /\ n # 1 /\ (n > 1 => q[n - 1] # Quote)
  BY <1>1, <1>2 DEF Promised
<1>4. CASE n = 0
  <2>1. _get_quoted_value(q) = {}
    BY <1>3, <1>4 DEF _get_quoted_value
  <2> QED
    BY <1>1, <1>2, <1>4, <2>1 DEF _get_next_value, Meant
<1>5. CASE n >= 2
  <2>1. _get_quoted_value(q) = IF q[n - 1] = Quote THEN {} ELSE {n}
    BY <1>2, <1>3, <1>5, Ends
  <2>2. CASE q[n - 1] # Quote
    <3>1. Min(_get_quoted_value(q)) = n /\ 1 \notin _get_quoted_value(q)
      <4>1. _get_quoted_value(q) = {n}
        BY <2>1, <2>2
      <4> QED
        BY <1>5, <4>1 DEF Min
    <3> DEFINE s == SubSeq(q, 1, n - 1)
    <3>2. Front(q) = s
      BY <1>2 DEF Front
    <3>3. DOMAIN s = 1..(n - 1) /\ \A j \in 1..(n - 1) : s[j] = q[j]
      <4> DEFINE S == {q[j] : j \in 1..(n - 1)}
      <4>1. \A j \in 1..(n - 1) : q[j] \in S
        OBVIOUS
      <4> HIDE DEF S
      <4>2. /\ s \in Seq(S)
            /\ Len(s) = IF 1 <= n - 1 THEN n - 1 - 1 + 1 ELSE 0
            /\ \A j \in 1..(n - 1 - 1 + 1) : s[j] = q[1 + j - 1]
        <5>1. 1 \in Int /\ n - 1 \in Int
          OBVIOUS
        <5> HIDE DEF s
        <5> QED
          BY <4>1, <5>1, SubSeqProperties DEF s
      <4> HIDE DEF s
      <4>3. Len(s) = n - 1
        BY <1>5, <4>2
      <4>4. \A j \in 1..(n - 1) : j \in 1..(n - 1 - 1 + 1) /\ 1 + j - 1 = j
        OBVIOUS
      <4> QED
        BY <4>2, <4>3, <4>4, LenProperties
    <3> HIDE DEF s
    <3>4. ASSUME NEW j \in 1..(n - 1) PROVE Kept(s, j) <=> q[j] # Escape
      <4>1. SUFFICES ASSUME q[j] = Escape PROVE ~Kept(s, j)
        BY <3>3 DEF Kept
      <4>2. /\ \A k \in 1..(n - 1) : q[k] = Escape <=> k + 1 < n /\ q[k + 1] = Quote
            /\ Quote # Escape
        BY <1>2, <1>3, ConfigurationAssumption DEF WellQuoted
      <4>3. CASE j > 1
        <5>1. j - 1 \in 1..(n - 1) /\ j - 1 + 1 = j
          BY <4>3
        <5>2. q[j - 1] # Escape
          BY <4>1, <4>2, <5>1
        <5> QED
          BY <3>3, <4>1, <4>3, <5>1, <5>2 DEF Kept
      <4>4. CASE j = 1
        <5>1. 1 + 1 < n /\ q[1 + 1] = Quote
          BY <4>1, <4>2, <4>4
        <5>2. 2 \in 1..(n - 1) /\ q[2] # Escape
          BY <4>2, <5>1
        <5> QED
          BY <3>3, <4>1, <4>4, <5>2 DEF Kept
      <4> QED
        BY <4>3, <4>4
    <3>5. {j \in DOMAIN s : Kept(s, j)} = {j \in 1..(n - 1) : q[j] # Escape}
      BY <3>3, <3>4
    <3>6. _dup_c_str_n_drop_escape(s) = Chosen(s, {j \in 1..(n - 1) : q[j] # Escape})
      BY <3>5 DEF _dup_c_str_n_drop_escape
    <3>7. _get_next_value(l) = l.values \o <<_dup_c_str_n_drop_escape(s)>>
      <4>1. _get_quoted_value(q) # {}
        BY <2>1, <2>2
      <4> QED
        BY <1>1, <3>1, <4>1 DEF _get_next_value, s
    <3>8. Meant(l) = l.values \o <<Chosen(s, {j \in 1..(n - 1) : q[j] # Escape})>>
      <4>1. n # 0 /\ \A j \in 1..(n - 1) : l.quoted[j] = q[j]
        BY <1>1, <1>5
      <4>2. Front(l.quoted) = s /\ Len(l.quoted) = n
        BY <1>1, <1>2, <3>2
      <4> QED
        BY <1>1, <4>1, <4>2 DEF Meant
    <3> QED
      BY <3>6, <3>7, <3>8
  <2> QED
    BY <1>3, <1>5, <2>2
<1> QED
  BY <1>3, <1>4, <1>5

LEMMA Nested ==
  ASSUME ReadInv
  PROVE  NestedAsWritten
<1>1. SUFFICES ASSUME parse \in {"parsing", "parsed"} PROVE NestedAsWritten
  BY DEF NestedAsWritten
<1>2. SaidInv /\ TagsInv /\ GotInv /\ read \in Seq(Line)
  BY <1>1 DEF ReadInv, ConfTypes
<1>3. PICK K : K = Lines("directive")
  OBVIOUS
<1>4. PICK c : c = Cardinality(K)
  OBVIOUS
<1>5. directives = [n \in 1..c |-> SaidBy(K, n)]
  BY <1>2, <1>3, <1>4 DEF SaidInv, SaidBy
<1>6. PICK said : said = InOrder(K)
  OBVIOUS
<1>7. DOMAIN said = 1..c /\ \A n \in 1..c : said[n] = Nth(K, n)
  BY <1>4, <1>6 DEF InOrder
<1>8. DOMAIN directives = DOMAIN said
  BY <1>5, <1>7
<1>9. ASSUME NEW n \in DOMAIN said
      PROVE  /\ directives[n].at = Around(said[n])
             /\ directives[n].name = Fold[read[said[n]].name]
             /\ Understood(said[n], directives[n].values)
  <2>1. n \in 1..c /\ said[n] = Nth(K, n)
    BY <1>7
  <2>2. /\ directives[n].at = Around(said[n])
        /\ directives[n].name = Fold[read[said[n]].name]
        /\ directives[n].values = _get_next_value(read[said[n]])
    BY <1>5, <2>1 DEF SaidBy
  <2>3. read[said[n]] \in Line
    <3>1. said[n] \in 1..Len(read)
      BY <1>2, <1>3, <1>4, <2>1, LinesAre
    <3> QED
      BY <1>2, <3>1, ElementOfSeq
  <2>4. Understood(said[n], directives[n].values)
    <3>1. PICK l \in Line : l = read[said[n]]
      BY <2>3
    <3>2. Promised(l.quoted) => _get_next_value(l) = Meant(l)
      BY ConfigurationAssumption, Understands
    <3> QED
      BY <2>2, <3>1, <3>2 DEF Understood
  <2> QED
    BY <2>2, <2>4
<1>10. got.n = 1 => FindsLast
  <2> SUFFICES ASSUME got.n = 1 PROVE FindsLast
    OBVIOUS
  <2>1. PICK s : s = Outside(got.name)
    OBVIOUS
  <2>2. CASE s = {}
    BY <1>2, <2>1, <2>2 DEF GotInv, FindsLast
  <2>3. ASSUME s # {}, Promised(read[Max(s)].quoted) PROVE Gives(Meant(read[Max(s)]))
    <3>1. Gives(_get_next_value(read[Max(s)]))
      BY <1>2, <2>1, <2>3 DEF GotInv
    <3>2. /\ s \in SUBSET Nat /\ Len(read) \in Nat
          /\ \A k \in s : k \in 1..Len(read) /\ k <= Len(read)
      BY <1>2, <2>1, LinesAre, LenProperties DEF Outside
    <3>3. PICK m \in s : \A k \in s : k <= m
      BY <2>3, <3>2, Greatest
    <3>4. Max(s) = m
      <4>1. \A x \in s : (\A y \in s : x >= y) <=> x = m
        BY <3>2, <3>3
      <4> QED
        BY <3>3, <4>1 DEF Max
    <3>5. PICK l \in Line : l = read[Max(s)]
      BY <1>2, <3>2, <3>3, <3>4, ElementOfSeq
    <3>6. _get_next_value(l) = Meant(l)
      BY <2>3, <3>5, ConfigurationAssumption, Understands
    <3> QED
      BY <3>1, <3>5, <3>6
  <2> QED
    BY <2>1, <2>2, <2>3 DEF FindsLast
<1> QED
  BY <1>2, <1>3, <1>6, <1>8, <1>9, <1>10 DEF NestedAsWritten, TagsInv

(* What has been read stands in the containers that are open, which are on *)
(* the stack (cfuconf.c).                                                  *)
THEOREM ReadInvariance == ReadSpec => []ReadInv
<1>1. ReadInit => ReadInv
  <2> SUFFICES ASSUME ReadInit PROVE ReadInv
    OBVIOUS
  <2>1. ConfInit
    BY DEF ReadInit
  <2>2. << >> \in Seq(Line) /\ << >> \in Seq(Path) /\ Top \in Path
    BY EmptySeq DEF Top, Path
  <2>3. ConfTypes
    BY <2>1, <2>2 DEF ConfInit, ConfTypes
  <2> QED
    BY <2>1, <2>3 DEF ReadInv, ConfInit
<1>2. ReadInv /\ [ReadNext]_readVars => ReadInv'
  <2> SUFFICES ASSUME ReadInv, [ReadNext]_readVars PROVE ReadInv'
    OBVIOUS
  <2>1. CASE ConfNext
    BY <2>1, ReadNexts
  <2>2. CASE UNCHANGED confVars
    <3>1. UNCHANGED <<stack, cur_conf, containers, directives, parse, got, read>>
      BY <2>2 DEF confVars
    <3>2. /\ SaidInv => SaidInv'
          /\ TagsInv => TagsInv'
          /\ GotInv => GotInv'
          /\ TreeInv => TreeInv'
      BY <3>1, Unread
    <3>3. ConfTypes => ConfTypes'
      BY <3>1 DEF ConfTypes, Top, Nothing, NotFound
    <3> QED
      BY <3>1, <3>2, <3>3 DEF ReadInv
  <2> QED
    BY <2>1, <2>2 DEF ReadNext, Load, readVars
<1> QED
  BY <1>1, <1>2, PTL DEF ReadSpec

(* A configuration that is accepted has every directive in the containers  *)
(* whose tags enclose it, in the order of the file, a container for every  *)
(* tag and no closing tag that does not match, and values that are what    *)
(* the text in quotes means; a lookup of one value finds the last one of   *)
(* the file (cfuconf.c).  Empty values, those that end in an escaped quote *)
(* and lookups of several values are left out.                             *)
THEOREM AlwaysNestedAsWritten == ReadSpec => []NestedAsWritten
<1>1. ReadInv => NestedAsWritten
  BY Nested
<1> QED
  BY <1>1, ReadInvariance, PTL

=============================================================================
