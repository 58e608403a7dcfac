-------------------------- MODULE PersistenceProofs --------------------------
(***************************************************************************)
(* What the client keeps in its database and its log files.  The           *)
(* invariants of StateData hold for every set of deployments and state     *)
(* names, those of Authorization for any number of servers and faults,     *)
(* those of DeploymentLog for any number of files, deployments and entries *)
(* and however often the rotation is cut short.                            *)
(***************************************************************************)
EXTENDS StateData, Authorization, DeploymentLog, FiniteSetTheorems, WellFoundedInduction, TLAPS

------------------------------------------------------------------------------
(* The deployment logs.                                                    *)

\* A set of files with one file at most of a deployment, and numbers that
\* grow with the age.
Ordered(fs) ==
    /\ IsFiniteSet(fs) /\ fs \subseteq Nat \X Nat
    /\ \A f, g \in fs : f # g =>
        \/ f[2] < g[2] /\ f[1] > g[1]
        \/ g[2] < f[2] /\ g[1] > f[1]

\* Deployment d has a file.
Kept(d) == \E f \in DOMAIN files : f[2] = d

\* The deployments before the current one that logged something.
Before == {d \in Deployments : d < current /\ logged[d] > 0}

\* Those of them that came after d.
Since(d) == {e \in Before : e > d}

\* The files are in order, hold what was logged, and the current deployment
\* has the first one, or none.  A file that was renamed is older than those
\* that are to be renamed, and there is room between them.
FilesInv ==
    /\ current \in Deployments /\ logged \in [Deployments -> Nat]
    /\ Ordered(DOMAIN files)
    /\ \A f \in DOMAIN files : f[1] > 0 /\ f[2] \in 1 .. current /\ logged[f[2]] > 0
    /\ \A f \in DOMAIN files : f[2] = current => f = <<1, current>>
    /\ files = [f \in DOMAIN files |-> logged[f[2]]]
    /\ ~Kept(current) => logged[current] = 0
    /\ \A d \in Deployments : d > current => logged[d] = 0
    /\ toRename \subseteq DOMAIN files
    /\ toRename # {} => enabling = "rotate" /\ ~Kept(current)
    /\ \A f \in toRename : \A g \in DOMAIN files \ toRename : g[2] < f[2] /\ g[1] > f[1] + 1
    /\ enabling = "rotate" /\ ~Kept(current) => \A f \in DOMAIN files \ toRename : f[1] > 1
    /\ enabling \in {"no", "rotate"}
    /\ enabling = "rotate" => ~loggingEnabled
    /\ ~loggingEnabled => logger = NoFile
    /\ logger # NoFile => logger = <<1, current>> /\ logger \in DOMAIN files

\* Not too few and not too many files are deleted.
RoomInv ==
    /\ \A d \in Before : Cardinality(Since(d)) < MaxLogFiles - 1 => Kept(d)
    /\ loggingEnabled => Cardinality(DOMAIN files) <= MaxLogFiles
    /\ enabling = "rotate" =>
        Cardinality(DOMAIN files) <= IF Kept(current) THEN MaxLogFiles ELSE Room

\* The inductive invariant of the logs.
LogInv == FilesInv /\ RoomInv

------------------------------------------------------------------------------
\* A set of numbers has a least one.
LEMMA Least ==
    ASSUME NEW S \in SUBSET Nat, S # {}
    PROVE  \E m \in S : \A n \in S : m <= n
<1>1. PICK m \in S : \A n \in S : ~(<<n, m>> \in OpToRel(<, Nat))
  BY NatLessThanWellFounded, WFMin, Zenon
<1>2. \A n \in S : ~(n < m)
  BY <1>1, Zenon DEF OpToRel
<1> QED BY <1>2

\* In order, an older file is one of an earlier deployment.
LEMMA OlderIsEarlier ==
    ASSUME NEW fs, Ordered(fs), NEW f \in fs, NEW g \in fs
    PROVE  /\ Older(f, g) <=> f[2] < g[2]
           /\ Older(f, g) <=> f[1] > g[1]
           /\ f # g => Older(f, g) \/ Older(g, f)
           /\ f[1] \in Nat /\ f[2] \in Nat
BY DEF Ordered, Older

\* Some of the files are in order when all are.
LEMMA SubOrdered ==
    ASSUME NEW fs, Ordered(fs), NEW gs \in SUBSET fs
    PROVE  Ordered(gs)
BY FS_Subset, Zenon DEF Ordered

\* There is an oldest file, and Oldest is it.
LEMMA OldestFile ==
    ASSUME NEW fs, Ordered(fs), fs # {}
    PROVE  Oldest(fs) \in fs /\ \A g \in fs \ {Oldest(fs)} : Older(Oldest(fs), g)
<1> DEFINE S == {f[2] : f \in fs}
<1>1. S \in SUBSET Nat /\ S # {}
  BY Zenon DEF Ordered
<1>2. \E m \in S : \A n \in S : m <= n
  <2> HIDE DEF S
  <2> QED BY <1>1, Least, Zenon
<1>3. PICK f \in fs : \A g \in fs : f[2] <= g[2]
  BY <1>2, Zenon
<1>4. \A g \in fs \ {f} : Older(f, g)
  BY <1>3, OlderIsEarlier
<1> QED BY <1>4, Zenon DEF Oldest

\* There is a newest file, and Newest is it.
LEMMA NewestFile ==
    ASSUME NEW fs, Ordered(fs), fs # {}
    PROVE  Newest(fs) \in fs /\ \A g \in fs \ {Newest(fs)} : Older(g, Newest(fs))
<1> DEFINE S == {f[1] : f \in fs}
<1>1. S \in SUBSET Nat /\ S # {}
  BY Zenon DEF Ordered
<1>2. \E m \in S : \A n \in S : m <= n
  <2> HIDE DEF S
  <2> QED BY <1>1, Least, Zenon
<1>3. PICK f \in fs : \A g \in fs : f[1] <= g[1]
  BY <1>2, Zenon
<1>4. \A g \in fs \ {f} : Older(g, f)
  BY <1>3, OlderIsEarlier
<1> QED BY <1>4, Zenon DEF Newest

\* Trimmed leaves n files at most.
LEMMA TrimmedCount ==
    ASSUME NEW fs, Ordered(fs), NEW n \in Nat
    PROVE  /\ Trimmed(fs, n) \in SUBSET fs /\ IsFiniteSet(Trimmed(fs, n))
           /\ Cardinality(Trimmed(fs, n)) <= n
<1> DEFINE newer(f) == {g \in fs : Older(f, g)}
           rank == [f \in Trimmed(fs, n) |-> Cardinality(newer(f))]
<1>1. Trimmed(fs, n) \in SUBSET fs
  BY Zenon DEF Trimmed
<1>2. \A f \in fs : IsFiniteSet(newer(f)) /\ Cardinality(newer(f)) \in Nat
  BY FS_Subset, FS_CardinalityType, Zenon DEF Ordered
<1>3. \A f \in Trimmed(fs, n) : Cardinality(newer(f)) \in 0 .. n - 1
  BY <1>1, <1>2 DEF Trimmed
<1>4. \A f, g \in fs : Older(f, g) => Cardinality(newer(g)) < Cardinality(newer(f))
  <2> SUFFICES ASSUME NEW f \in fs, NEW g \in fs, Older(f, g)
               PROVE  Cardinality(newer(g)) < Cardinality(newer(f))
    OBVIOUS
  <2>1. newer(g) \in SUBSET newer(f)
    <3> SUFFICES ASSUME NEW h \in fs, Older(g, h) PROVE Older(f, h)
      OBVIOUS
    <3>1. f[2] < g[2] /\ g[2] < h[2] /\ f[2] \in Nat /\ g[2] \in Nat /\ h[2] \in Nat
      BY OlderIsEarlier, Zenon
    <3> QED BY <3>1, OlderIsEarlier
  <2>2. g \in newer(f) /\ g \notin newer(g)
    BY OlderIsEarlier
  <2>3. Cardinality(newer(g)) <= Cardinality(newer(f)) /\ Cardinality(newer(g)) # Cardinality(newer(f))
    BY <1>2, <2>1, <2>2, FS_Subset, Zenon
  <2> QED BY <1>2, <2>3
<1>5. \A f, g \in fs : f # g => Cardinality(newer(f)) # Cardinality(newer(g))
  <2> SUFFICES ASSUME NEW f \in fs, NEW g \in fs, f # g
               PROVE  Cardinality(newer(f)) # Cardinality(newer(g))
    OBVIOUS
  <2>1. Older(f, g) \/ Older(g, f)
    BY OlderIsEarlier, Zenon
  <2> HIDE DEF newer
  <2> QED BY <1>2, <1>4, <2>1
<1>6. rank \in Injection(Trimmed(fs, n), 0 .. n - 1)
  <2>1. rank \in [Trimmed(fs, n) -> 0 .. n - 1]
    BY <1>3, Zenon
  <2>2. \A f, g \in Trimmed(fs, n) : rank[f] = rank[g] => f = g
    <3> HIDE DEF newer
    <3> QED BY <1>1, <1>5, Zenon
  <2> QED BY <2>1, <2>2, Zenon DEF Injection, IsInjective
<1>7. IsFiniteSet(0 .. n - 1) /\ Cardinality(0 .. n - 1) = n
  BY FS_Interval
<1> QED BY <1>1, <1>6, <1>7, FS_Injection

------------------------------------------------------------------------------
\* Only finitely many deployments came before.
LEMMA SinceFinite ==
    ASSUME LogAssumption, NEW d
    PROVE  IsFiniteSet(Since(d)) /\ Cardinality(Since(d)) \in Nat
<1>1. IsFiniteSet(Deployments)
  BY FS_Interval DEF LogAssumption, Deployments
<1>2. Since(d) \in SUBSET Deployments
  BY Zenon DEF Since, Before
<1> QED BY <1>1, <1>2, FS_Subset, FS_CardinalityType, Zenon

\* Earlier deployments are as they were.
LEMMA SameBefore ==
    ASSUME LogInv, current' = current,
           \A d \in Deployments : d < current => logged'[d] = logged[d]
    PROVE  Before' = Before /\ \A d : Since(d)' = Since(d)
<1>1. Before' = Before
  BY Zenon DEF Before
<1> QED BY <1>1, Zenon DEF Since

\* The files newer than that of an earlier deployment belong to deployments
\* since, or to the current one.
LEMMA NewerCount ==
    ASSUME LogAssumption, FilesInv, NEW f \in DOMAIN files
    PROVE  LET newer == {g \in DOMAIN files : Older(f, g)}
           IN  /\ IsFiniteSet(newer) /\ Cardinality(newer) \in Nat
               /\ Cardinality(newer) <= Cardinality(Since(f[2])) + (IF Kept(current) THEN 1 ELSE 0)
<1> DEFINE newer == {g \in DOMAIN files : Older(f, g)}
           of == [g \in newer |-> g[2]]
           later == IF Kept(current) THEN Since(f[2]) \union {current} ELSE Since(f[2])
<1>1. Ordered(DOMAIN files) /\ IsFiniteSet(DOMAIN files)
  BY Zenon DEF FilesInv, Ordered
<1>2. IsFiniteSet(newer) /\ Cardinality(newer) \in Nat
  BY <1>1, FS_Subset, FS_CardinalityType, Zenon
<1>3. \A g \in newer : g[2] \in later
  <2> SUFFICES ASSUME NEW g \in DOMAIN files, Older(f, g) PROVE g[2] \in later
    OBVIOUS
  <2>1. f[2] < g[2]
    BY <1>1, OlderIsEarlier, Zenon
  <2>2. g[2] \in 1 .. current /\ logged[g[2]] > 0 /\ current \in Deployments /\ g[2] \in Deployments
    BY DEF FilesInv, Deployments
  <2>3. CASE g[2] = current
    BY <2>3, Zenon DEF Kept
  <2>4. CASE g[2] # current
    BY <2>1, <2>2, <2>4 DEF Since, Before, Deployments
  <2> QED BY <2>3, <2>4, Zenon
<1>4. \A g, h \in newer : g[2] = h[2] => g = h
  BY <1>1, OlderIsEarlier
<1>5. of \in Injection(newer, later)
  <2>1. of \in [newer -> later]
    BY <1>3, Zenon
  <2>2. \A g, h \in newer : of[g] = of[h] => g = h
    BY <1>4, Zenon
  <2> QED BY <2>1, <2>2, Zenon DEF Injection, IsInjective
<1>6. /\ IsFiniteSet(later)
      /\ Cardinality(later) <= Cardinality(Since(f[2])) + (IF Kept(current) THEN 1 ELSE 0)
  <2>1. IsFiniteSet(Since(f[2])) /\ Cardinality(Since(f[2])) \in Nat
    BY SinceFinite, Zenon
  <2>2. /\ IsFiniteSet(Since(f[2]) \union {current})
        /\ Cardinality(Since(f[2]) \union {current}) <= Cardinality(Since(f[2])) + 1
    <3> DEFINE S == Since(f[2])
    <3>1. IsFiniteSet(S) /\ Cardinality(S) \in Nat
      BY <2>1, Zenon
    <3> HIDE DEF S
    <3>2. /\ IsFiniteSet(S \union {current})
          /\ Cardinality(S \union {current}) = IF current \in S THEN Cardinality(S) ELSE Cardinality(S) + 1
      BY <3>1, FS_AddElement, Zenon
    <3>3. Cardinality(S \union {current}) <= Cardinality(S) + 1
      BY <3>1, <3>2
    <3> QED BY <3>2, <3>3, Zenon DEF S
  <2> QED BY <2>1, <2>2
<1>7. Cardinality(newer) <= Cardinality(later) /\ Cardinality(later) \in Nat
  <2> HIDE DEF newer, later, of
  <2> QED BY <1>5, <1>6, FS_Injection, FS_CardinalityType, Zenon
<1> HIDE DEF newer, later, of
<1>8. Cardinality(newer) <= Cardinality(Since(f[2])) + (IF Kept(current) THEN 1 ELSE 0)
  BY <1>2, <1>6, <1>7, SinceFinite
<1> QED BY <1>2, <1>8, Zenon DEF newer

\* Enable deletes old files, and renames what is left unless there is a file
\* of this deployment.
LEMMA EnableKeeps ==
    ASSUME LogAssumption, LogInv, Enable
    PROVE  /\ DOMAIN files' \subseteq DOMAIN files /\ files' = [f \in DOMAIN files' |-> files[f]]
           /\ Kept(current) => toRename' = {} /\ <<1, current>> \in DOMAIN files'
                                 /\ DOMAIN files' = Trimmed(DOMAIN files, MaxLogFiles)
           /\ ~Kept(current) => toRename' = DOMAIN files' /\
                  DOMAIN files' = Trimmed(Trimmed(DOMAIN files, MaxLogFiles), Room)
           /\ Cardinality(DOMAIN files') <= IF Kept(current) THEN MaxLogFiles ELSE Room
<1> DEFINE few == Trimmed(DOMAIN files, MaxLogFiles)
           kept == IF few # {} /\ Rotates THEN Trimmed(few, Room) ELSE few
<1>1. /\ files' = [f \in kept |-> files[f]]
      /\ toRename' = IF few # {} /\ Rotates THEN kept ELSE {}
  BY Zenon DEF Enable
<1>2. MaxLogFiles \in Nat \ {0} /\ Room \in Nat /\ Room < MaxLogFiles
  BY DEF LogAssumption, Room
<1>3. Ordered(DOMAIN files)
  BY Zenon DEF LogInv, FilesInv
<1>4. few \in SUBSET DOMAIN files /\ IsFiniteSet(few) /\ Cardinality(few) <= MaxLogFiles
  BY <1>2, <1>3, TrimmedCount, Zenon
<1>5. Ordered(few)
  BY <1>3, <1>4, SubOrdered, Zenon
<1>6. Trimmed(few, Room) \in SUBSET few /\ Cardinality(Trimmed(few, Room)) <= Room
  BY <1>2, <1>5, TrimmedCount, Zenon
<1>7. few # {} => Newest(few) \in few /\ \A g \in few \ {Newest(few)} : Older(g, Newest(few))
  BY <1>5, NewestFile, Zenon
<1>8. CASE Kept(current)
  <2>1. <<1, current>> \in DOMAIN files /\ \A f \in DOMAIN files : ~Older(<<1, current>>, f)
    <3>1. PICK c \in DOMAIN files : c[2] = current /\ c = <<1, current>>
      BY <1>8, Zenon DEF Kept, LogInv, FilesInv
    <3>2. \A f \in DOMAIN files : f[2] \in 1 .. current
      BY Zenon DEF LogInv, FilesInv
    <3> QED BY <1>3, <3>1, <3>2, OlderIsEarlier
  <2>2. {g \in DOMAIN files : Older(<<1, current>>, g)} = {}
    BY <2>1, Zenon
  <2>3. <<1, current>> \in few
    BY <1>2, <2>1, <2>2, FS_EmptySet DEF Trimmed
  <2>4. Newest(few) = <<1, current>>
    BY <1>4, <1>7, <2>1, <2>3, Zenon
  <2>5. ~Rotates
    BY <2>4 DEF Rotates
  <2> QED BY <1>1, <1>4, <1>8, <2>3, <2>5, Zenon
<1>9. CASE ~Kept(current)
  <2>1. few # {} => Rotates
    BY <1>4, <1>7, <1>9, Zenon DEF Rotates, Kept
  <2>2. few = {} => Trimmed(few, Room) = {}
    BY <1>6, Zenon
  <2>3. DOMAIN files' = Trimmed(few, Room) /\ toRename' = DOMAIN files'
    BY <1>1, <2>1, <2>2, Zenon
  <2> QED BY <1>1, <1>4, <1>6, <1>9, <2>1, <2>3, Zenon
<1> QED BY <1>8, <1>9, Zenon

\* What was kept before Enable is kept after it.
LEMMA EnableSpares ==
    ASSUME LogAssumption, LogInv, Enable, NEW d \in Before, Cardinality(Since(d)) < MaxLogFiles - 1
    PROVE  Kept(d)'
<1>1. PICK f \in DOMAIN files : f[2] = d
  BY Zenon DEF LogInv, RoomInv, Kept
<1> DEFINE F == DOMAIN files
           newer == {g \in F : Older(f, g)}
           few == Trimmed(F, MaxLogFiles)
<1>2. MaxLogFiles \in Nat \ {0} /\ Room \in Nat /\ Room = MaxLogFiles - 1
  BY DEF LogAssumption, Room
<1>3. /\ IsFiniteSet(newer) /\ Cardinality(newer) \in Nat
      /\ Cardinality(newer) <= Cardinality(Since(d)) + (IF Kept(current) THEN 1 ELSE 0)
  BY <1>1, NewerCount, Zenon DEF LogInv
<1>4. Cardinality(Since(d)) \in Nat
  BY SinceFinite, Zenon
<1>5. Cardinality(newer) < MaxLogFiles
  <2> HIDE DEF newer
  <2> QED BY <1>2, <1>3, <1>4
<1>6. f \in few
  BY <1>5, Zenon DEF Trimmed
<1>7. CASE Kept(current)
  BY <1>1, <1>6, <1>7, EnableKeeps, Zenon DEF Kept
<1>8. CASE ~Kept(current)
  <2>1. Cardinality(newer) < Room
    <3> HIDE DEF newer
    <3> QED BY <1>2, <1>3, <1>4, <1>8
  <2>2. {g \in few : Older(f, g)} \in SUBSET newer
    BY Zenon DEF Trimmed
  <2>3. /\ Cardinality({g \in few : Older(f, g)}) <= Cardinality(newer)
        /\ Cardinality({g \in few : Older(f, g)}) \in Nat
    <3> HIDE DEF newer
    <3> QED BY <1>3, <2>2, FS_Subset, FS_CardinalityType, Zenon
  <2>4. Cardinality({g \in few : Older(f, g)}) < Room
    <3> HIDE DEF newer, few
    <3> QED BY <1>2, <1>3, <2>1, <2>3
  <2>5. f \in Trimmed(few, Room)
    BY <1>6, <2>4, Zenon DEF Trimmed
  <2> QED BY <1>1, <1>8, <2>5, EnableKeeps, Zenon DEF Kept
<1> QED BY <1>7, <1>8, Zenon

\* Enable deletes what is too old and begins to rename the rest.
LEMMA EnableInv ==
    ASSUME LogAssumption, LogInv, Enable
    PROVE  LogInv'
<1>1. UNCHANGED <<current, loggingEnabled, logger, logged>> /\ ~loggingEnabled /\ enabling' = "rotate"
  BY Zenon DEF Enable
<1>2. /\ DOMAIN files' \in SUBSET DOMAIN files /\ files' = [f \in DOMAIN files' |-> files[f]]
      /\ Kept(current) => toRename' = {} /\ <<1, current>> \in DOMAIN files'
      /\ ~Kept(current) => toRename' = DOMAIN files'
      /\ Cardinality(DOMAIN files') <= IF Kept(current) THEN MaxLogFiles ELSE Room
  BY EnableKeeps, Zenon
<1>3. Kept(current)' <=> Kept(current)
  BY <1>1, <1>2, Zenon DEF Kept
<1>4. Ordered(DOMAIN files)'
  BY <1>2, SubOrdered, Zenon DEF LogInv, FilesInv, Ordered
<1>5. FilesInv'
  BY <1>1, <1>2, <1>3, <1>4 DEF LogInv, FilesInv
<1>6. Before' = Before /\ \A d : Since(d)' = Since(d)
  BY <1>1, SameBefore, Zenon
<1>7. RoomInv'
  BY <1>1, <1>2, <1>3, <1>6, EnableSpares, Zenon DEF RoomInv
<1> QED BY <1>5, <1>7, Zenon DEF LogInv

\* Renaming the oldest file first keeps the order.
LEMMA RenameInv ==
    ASSUME LogAssumption, LogInv, RenameNext
    PROVE  LogInv'
<1> DEFINE f == Oldest(toRename)
           r == Rotated(f)
           F == DOMAIN files
<1>1. /\ UNCHANGED <<current, loggingEnabled, logger, enabling, logged>>
      /\ enabling = "rotate" /\ toRename # {} /\ toRename' = toRename \ {f}
      /\ files' = [g \in (F \ {f}) \union {r} |-> IF g = r THEN files[f] ELSE files[g]]
  BY Zenon DEF RenameNext
<1>2. Ordered(F) /\ toRename \in SUBSET F /\ ~Kept(current)
  BY <1>1, Zenon DEF LogInv, FilesInv
<1>3. f \in toRename /\ f \in F /\ \A g \in toRename \ {f} : f[2] < g[2] /\ f[1] > g[1]
  BY <1>1, <1>2, SubOrdered, OldestFile, OlderIsEarlier, Zenon
<1>4. f[1] \in Nat /\ f[2] \in Nat /\ r = <<f[1] + 1, f[2]>> /\ r[1] = f[1] + 1 /\ r[2] = f[2]
  BY <1>2, <1>3, OlderIsEarlier, Zenon DEF Rotated
<1>5. DOMAIN files' = (F \ {f}) \union {r}
  BY <1>1, Zenon
<1>6. \A g \in F \ {f} : g[1] \in Nat /\ g[2] \in Nat /\
          (\/ r[2] < g[2] /\ r[1] > g[1]
           \/ g[2] < r[2] /\ g[1] > r[1])
  <2> SUFFICES ASSUME NEW g \in F \ {f}
               PROVE  /\ g[1] \in Nat /\ g[2] \in Nat
                      /\ \/ r[2] < g[2] /\ r[1] > g[1]
                         \/ g[2] < r[2] /\ g[1] > r[1]
    OBVIOUS
  <2>1. g[1] \in Nat /\ g[2] \in Nat
    BY <1>2, OlderIsEarlier, Zenon
  <2>2. g \notin toRename => g[2] < f[2] /\ g[1] > f[1] + 1
    BY <1>3, Zenon DEF LogInv, FilesInv
  <2> HIDE DEF f, r
  <2> QED BY <1>3, <1>4, <2>1, <2>2
<1>7. IsFiniteSet(DOMAIN files') /\ Cardinality(DOMAIN files') <= Cardinality(F)
  <2>1. /\ IsFiniteSet(F \ {f}) /\ Cardinality(F \ {f}) = Cardinality(F) - 1
        /\ Cardinality(F) \in Nat
    BY <1>2, <1>3, FS_RemoveElement, FS_CardinalityType, Zenon DEF Ordered
  <2>2. IsFiniteSet((F \ {f}) \union {r}) /\ Cardinality((F \ {f}) \union {r}) <= Cardinality(F \ {f}) + 1
    <3> HIDE DEF f, r, F
    <3>1. Cardinality(F \ {f}) \in Nat
      BY <2>1, FS_CardinalityType, Zenon
    <3>2. /\ IsFiniteSet((F \ {f}) \union {r})
          /\ \/ Cardinality((F \ {f}) \union {r}) = Cardinality(F \ {f})
             \/ Cardinality((F \ {f}) \union {r}) = Cardinality(F \ {f}) + 1
      BY <2>1, FS_AddElement, Zenon
    <3> DEFINE n == Cardinality(F \ {f})
               m == Cardinality((F \ {f}) \union {r})
    <3>3. n \in Nat /\ (m = n \/ m = n + 1)
      BY <3>1, <3>2, Zenon
    <3> HIDE DEF n, m
    <3>4. m <= n + 1
      BY <3>3
    <3> QED BY <3>2, <3>4, Zenon DEF n, m
  <2>3. Cardinality((F \ {f}) \union {r}) \in Nat
    BY <2>2, FS_CardinalityType, Zenon
  <2> HIDE DEF f, r, F
  <2> QED BY <1>5, <2>1, <2>2, <2>3
<1> HIDE DEF f, r
<1>8. Ordered(DOMAIN files')
  <2>1. DOMAIN files' \subseteq Nat \X Nat
    BY <1>2, <1>4, <1>5 DEF Ordered
  <2>2. ASSUME NEW g \in DOMAIN files', NEW h \in DOMAIN files', g # h
        PROVE  \/ g[2] < h[2] /\ g[1] > h[1]
               \/ h[2] < g[2] /\ h[1] > g[1]
    <3>1. CASE g \in F /\ h \in F
      BY <1>2, <2>2, <3>1, Zenon DEF Ordered
    <3>2. CASE g \in F \ {f} /\ h = r
      BY <1>4, <1>6, <3>2, Zenon
    <3>3. CASE h \in F \ {f} /\ g = r
      BY <1>4, <1>6, <3>3, Zenon
    <3> QED BY <1>5, <2>2, <3>1, <3>2, <3>3, Zenon
  <2> QED BY <1>7, <2>1, <2>2, Zenon DEF Ordered
<1>9. \A d : Kept(d)' <=> Kept(d)
  BY <1>3, <1>4, <1>5, Zenon DEF Kept
<1>10. \A g \in DOMAIN files' :
        /\ g[1] > 0 /\ g[2] \in 1 .. current /\ logged[g[2]] > 0 /\ g[2] # current
        /\ files'[g] = logged[g[2]]
  <2>1. \A g \in F : /\ g[1] > 0 /\ g[2] \in 1 .. current /\ logged[g[2]] > 0 /\ g[2] # current
                     /\ files[g] = logged[g[2]]
    BY <1>2, Zenon DEF LogInv, FilesInv, Kept
  <2> QED BY <1>1, <1>3, <1>4, <1>5, <2>1
<1>11. \A h \in toRename' : \A g \in DOMAIN files' \ toRename' : g[2] < h[2] /\ g[1] > h[1] + 1
  <2> SUFFICES ASSUME NEW h \in toRename \ {f}, NEW g \in DOMAIN files', g \notin toRename \ {f}
               PROVE  g[2] < h[2] /\ g[1] > h[1] + 1
    BY <1>1, Zenon
  <2>1. h[1] \in Nat /\ h[2] \in Nat
    BY <1>2, OlderIsEarlier, Zenon
  <2>2. CASE g = r
    BY <1>3, <1>4, <2>1, <2>2
  <2>3. CASE g \in F \ toRename
    BY <2>3, Zenon DEF LogInv, FilesInv
  <2> QED BY <1>3, <1>5, <2>2, <2>3, Zenon
<1>12. \A g \in DOMAIN files' \ toRename' : g[1] > 1
  <2>1. \A g \in F \ toRename : g[1] > 1
    BY <1>1, <1>2, Zenon DEF LogInv, FilesInv
  <2>2. r[1] > 1
    BY <1>3, <1>4 DEF LogInv, FilesInv
  <2> QED BY <1>1, <1>5, <2>1, <2>2, Zenon
<1>13. /\ toRename' \subseteq DOMAIN files'
       /\ files' = [g \in DOMAIN files' |-> logged'[g[2]]]
  BY <1>1, <1>2, <1>5, <1>10, Zenon
<1>14. ~Kept(current)' /\ (~Kept(current)' => logged'[current'] = 0) /\ logger = NoFile
  BY <1>1, <1>2, <1>9, Zenon DEF LogInv, FilesInv
<1>15. FilesInv'
  BY <1>1, <1>8, <1>10, <1>11, <1>12, <1>13, <1>14, Zenon DEF LogInv, FilesInv
<1>16. Before' = Before /\ \A d : Since(d)' = Since(d)
  BY <1>1, SameBefore, Zenon
<1>17. RoomInv'
  <2>1. Cardinality(F) \in Nat /\ Cardinality(DOMAIN files') \in Nat
    BY <1>2, <1>7, FS_CardinalityType, Zenon DEF Ordered
  <2>2. /\ ~loggingEnabled /\ Cardinality(F) <= Room /\ Room \in Nat
    BY <1>1, <1>2 DEF LogInv, FilesInv, RoomInv, Room, LogAssumption
  <2>3. Cardinality(DOMAIN files') <= Room
    <3> HIDE DEF F
    <3> QED BY ONLY <1>7, <2>1, <2>2
  <2> QED BY <1>1, <1>9, <1>14, <1>16, <2>2, <2>3, Zenon DEF LogInv, RoomInv
<1> QED BY <1>15, <1>17, Zenon DEF LogInv

\* The current deployment has the first file from now on.
LEMMA OpenInv ==
    ASSUME LogAssumption, LogInv, OpenLog
    PROVE  LogInv'
<1> DEFINE c == <<1, current>>
           F == DOMAIN files
<1>1. /\ UNCHANGED <<current, toRename>> /\ enabling = "rotate" /\ enabling' = "no" /\ toRename = {}
      /\ logger' = c /\ loggingEnabled' = TRUE /\ logged' = [logged EXCEPT ![current] = @ + 1]
      /\ files' = [g \in F \union {c} |-> (IF g \in F THEN files[g] ELSE 0) + (IF g = c THEN 1 ELSE 0)]
  BY Zenon DEF OpenLog
<1>2. DOMAIN files' = F \union {c} /\ current \in Deployments /\ current \in Nat \ {0}
  BY <1>1 DEF LogInv, FilesInv, Deployments
<1>3. /\ logged \in [Deployments -> Nat] /\ logged' \in [Deployments -> Nat]
      /\ logged'[current] = logged[current] + 1
      /\ \A d \in Deployments : d # current => logged'[d] = logged[d]
  BY <1>1, <1>2 DEF LogInv, FilesInv
<1>4. Ordered(F) /\ \A g \in F : /\ g[1] > 0 /\ g[2] \in 1 .. current /\ logged[g[2]] > 0
                                 /\ g[2] = current => g = c
                                 /\ files[g] = logged[g[2]]
  BY Zenon DEF LogInv, FilesInv
<1>5. c \notin F => logged[current] = 0 /\ \A g \in F : g[1] > 1 /\ g[2] < current
  <2> SUFFICES ASSUME c \notin F
               PROVE  logged[current] = 0 /\ \A g \in F : g[1] > 1 /\ g[2] < current
    OBVIOUS
  <2>1. ~Kept(current)
    BY <1>4, Zenon DEF Kept
  <2>2. logged[current] = 0 /\ \A g \in F : g[1] > 1
    BY <1>1, <2>1, Zenon DEF LogInv, FilesInv
  <2> QED BY <1>2, <1>4, <2>1, <2>2 DEF Kept
<1>6. Kept(current)'
  BY <1>1, <1>2 DEF Kept
<1>7. /\ IsFiniteSet(DOMAIN files') /\ Cardinality(DOMAIN files') <= MaxLogFiles
  <2>1. IsFiniteSet(F) /\ Cardinality(F) \in Nat
    BY <1>4, FS_CardinalityType, Zenon DEF Ordered
  <2>2. /\ IsFiniteSet(F \union {c})
        /\ Cardinality(F \union {c}) = IF c \in F THEN Cardinality(F) ELSE Cardinality(F) + 1
    <3> HIDE DEF F, c
    <3> QED BY <2>1, FS_AddElement, Zenon
  <2>3. Kept(current) <=> c \in F
    BY <1>4, Zenon DEF Kept
  <2>4. Cardinality(F) <= IF c \in F THEN MaxLogFiles ELSE MaxLogFiles - 1
    BY <1>1, <2>3, Zenon DEF LogInv, RoomInv, Room
  <2> HIDE DEF F, c
  <2> QED BY <1>2, <2>1, <2>2, <2>4 DEF LogAssumption
<1>8. Ordered(DOMAIN files')
  <2>1. DOMAIN files' \subseteq Nat \X Nat
    <3>1. F \subseteq Nat \X Nat /\ c \in Nat \X Nat
      BY <1>2, <1>4, Zenon DEF Ordered
    <3> HIDE DEF F, c
    <3> QED BY ONLY <1>2, <3>1, Zenon
  <2>2. ASSUME NEW g \in DOMAIN files', NEW h \in DOMAIN files', g # h
        PROVE  \/ g[2] < h[2] /\ g[1] > h[1]
               \/ h[2] < g[2] /\ h[1] > g[1]
    <3>1. CASE g \in F /\ h \in F
      BY <1>4, <2>2, <3>1, Zenon DEF Ordered
    <3>2. CASE g \in F /\ h = c /\ c \notin F
      BY <1>5, <3>2, Zenon
    <3>3. CASE h \in F /\ g = c /\ c \notin F
      BY <1>5, <3>3, Zenon
    <3> QED BY <1>2, <2>2, <3>1, <3>2, <3>3, Zenon
  <2> QED BY <1>7, <2>1, <2>2, Zenon DEF Ordered
<1>9. \A g \in DOMAIN files' : /\ g[1] > 0 /\ g[2] \in 1 .. current
                               /\ g[2] = current => g = c
  BY <1>2, <1>4
<1>10. \A g \in DOMAIN files' : files'[g] = logged'[g[2]] /\ logged'[g[2]] > 0
  <2> SUFFICES ASSUME NEW g \in DOMAIN files'
               PROVE  files'[g] = logged'[g[2]] /\ logged'[g[2]] > 0
    OBVIOUS
  <2>1. CASE g = c
    <3>1. files'[g] = (IF c \in F THEN files[c] ELSE 0) + 1
      BY <1>1, <2>1, Zenon
    <3>2. c[2] = current /\ logged[current] \in Nat
      BY <1>2, <1>3, Zenon
    <3> QED BY <1>3, <1>4, <1>5, <2>1, <3>1, <3>2
  <2>2. CASE g \in F /\ g # c
    <3>1. files'[g] = files[g] + 0
      BY <1>1, <2>2, Zenon
    <3>2. g[2] \in Deployments /\ g[2] # current
      BY <1>2, <1>4, <2>2 DEF Deployments
    <3>3. files[g] \in Nat
      BY <1>3, <1>4, <2>2, <3>2
    <3> QED BY <1>3, <1>4, <2>2, <3>1, <3>2, <3>3
  <2> QED BY <1>2, <2>1, <2>2, Zenon
<1>11. files' = [g \in DOMAIN files' |-> logged'[g[2]]]
  BY <1>1, <1>10, Zenon
<1>12. \A d \in Deployments : d > current => logged'[d] = 0
  BY <1>2, <1>3 DEF LogInv, FilesInv
<1>13. FilesInv'
  BY <1>1, <1>2, <1>3, <1>6, <1>8, <1>9, <1>10, <1>11, <1>12, Zenon DEF FilesInv
<1>14. Before' = Before /\ \A d : Since(d)' = Since(d)
  BY <1>1, <1>2, <1>3, SameBefore DEF Deployments
<1>15. RoomInv'
  BY <1>1, <1>2, <1>6, <1>7, <1>14, Zenon DEF LogInv, RoomInv, Kept
<1> QED BY <1>13, <1>15, Zenon DEF LogInv

\* An entry goes to the open file.
LEMMA FireInv ==
    ASSUME LogAssumption, LogInv, Fire
    PROVE  LogInv'
<1> DEFINE c == <<1, current>>
<1>1. /\ UNCHANGED <<current, loggingEnabled, logger, enabling, toRename>>
      /\ logged' = [logged EXCEPT ![current] = @ + 1]
      /\ logger = c /\ c \in DOMAIN files /\ files' = [files EXCEPT ![c] = @ + 1]
  BY Zenon DEF Fire, LogInv, FilesInv
<1>2. DOMAIN files' = DOMAIN files /\ current \in Deployments /\ current \in Nat \ {0}
  BY <1>1 DEF LogInv, FilesInv, Deployments
<1>3. /\ logged \in [Deployments -> Nat] /\ logged' \in [Deployments -> Nat]
      /\ logged'[current] = logged[current] + 1
      /\ \A d \in Deployments : d # current => logged'[d] = logged[d]
  BY <1>1, <1>2 DEF LogInv, FilesInv
<1>4. \A g \in DOMAIN files : /\ g[1] > 0 /\ g[2] \in 1 .. current /\ logged[g[2]] > 0
                              /\ g[2] = current => g = c
                              /\ files[g] = logged[g[2]]
  BY Zenon DEF LogInv, FilesInv
<1>5. \A d : Kept(d)' <=> Kept(d)
  BY <1>2, Zenon DEF Kept
<1>6. Kept(current)
  BY <1>1, Zenon DEF Kept
<1>7. \A g \in DOMAIN files' : files'[g] = logged'[g[2]] /\ logged'[g[2]] > 0
  <2> SUFFICES ASSUME NEW g \in DOMAIN files
               PROVE  files'[g] = logged'[g[2]] /\ logged'[g[2]] > 0
    BY <1>2, Zenon
  <2>1. CASE g = c
    BY <1>1, <1>2, <1>3, <1>4, <2>1
  <2>2. CASE g # c
    <3>1. g[2] \in Deployments /\ g[2] # current
      BY <1>2, <1>4, <2>2 DEF Deployments
    <3> QED BY <1>1, <1>3, <1>4, <2>2, <3>1, Zenon
  <2> QED BY <2>1, <2>2, Zenon
<1>8. files' = [g \in DOMAIN files' |-> logged'[g[2]]]
  <2>1. files = [g \in DOMAIN files |-> files[g]]
    BY Zenon DEF LogInv, FilesInv
  <2> QED BY <1>1, <1>2, <1>7, <2>1, Zenon
<1>9. \A d \in Deployments : d > current => logged'[d] = 0
  BY <1>2, <1>3 DEF LogInv, FilesInv
<1>10. Ordered(DOMAIN files')
  BY <1>2, Zenon DEF LogInv, FilesInv
<1>11. Kept(current)'
  BY <1>1, <1>2, Zenon DEF Kept
<1>12. FilesInv'
  BY <1>1, <1>2, <1>3, <1>4, <1>6, <1>7, <1>8, <1>9, <1>10, <1>11, Zenon DEF LogInv, FilesInv
<1>13. Before' = Before /\ \A d : Since(d)' = Since(d)
  BY <1>1, <1>2, <1>3, SameBefore DEF Deployments
<1>14. RoomInv'
  BY <1>1, <1>2, <1>5, <1>6, <1>11, <1>13, Zenon DEF LogInv, RoomInv
<1> QED BY <1>12, <1>14, Zenon DEF LogInv

\* The next deployment, and the current one becomes an earlier one.
LEMMA DisableInv ==
    ASSUME LogAssumption, LogInv, Disable
    PROVE  LogInv'
<1>1. /\ UNCHANGED <<files, enabling, toRename, logged>> /\ enabling = "no" /\ toRename = {}
      /\ current' = current + 1 /\ current < MaxDeployments /\ logger' = NoFile
      /\ loggingEnabled' => loggingEnabled
  BY DEF Disable, LogInv, FilesInv
<1>2. current \in Deployments /\ current \in Nat \ {0} /\ current' \in Deployments
  BY <1>1 DEF LogInv, FilesInv, Deployments, LogAssumption
<1>3. \A f \in DOMAIN files : f[2] \in 1 .. current
  BY Zenon DEF LogInv, FilesInv
<1>4. ~Kept(current)' /\ logged[current'] = 0
  BY <1>1, <1>2, <1>3 DEF Kept, LogInv, FilesInv
<1>5. \A f \in DOMAIN files : f[2] \in 1 .. current' /\ f[2] # current'
  BY <1>1, <1>2, <1>3
<1>6. \A d \in Deployments : d > current' => logged[d] = 0
  BY <1>1, <1>2 DEF LogInv, FilesInv, Deployments
<1>7. FilesInv'
  BY <1>1, <1>2, <1>4, <1>5, <1>6 DEF LogInv, FilesInv
<1>8. \A d \in Before' : Cardinality(Since(d)') < MaxLogFiles - 1 => Kept(d)'
  <2> SUFFICES ASSUME NEW d \in Before', Cardinality(Since(d)') < MaxLogFiles - 1 PROVE Kept(d)'
    OBVIOUS
  <2>1. d \in Deployments /\ d < current + 1 /\ logged[d] > 0
    BY <1>1, Zenon DEF Before
  <2>2. CASE d = current
    BY <1>1, <2>1, <2>2 DEF Kept, LogInv, FilesInv
  <2>3. CASE d # current
    <3>1. d \in Before
      BY <1>2, <2>1, <2>3 DEF Before, Deployments
    <3>2. Since(d) \in SUBSET Since(d)'
      BY <1>1, <1>2 DEF Since, Before, Deployments
    <3>3. IsFiniteSet(Since(d)')
      <4>1. IsFiniteSet(Deployments)
        BY FS_Interval DEF LogAssumption, Deployments
      <4>2. Since(d)' \in SUBSET Deployments
        BY Zenon DEF Since, Before
      <4> QED BY <4>1, <4>2, FS_Subset, Zenon
    <3>4. /\ Cardinality(Since(d)) <= Cardinality(Since(d)')
          /\ Cardinality(Since(d)) \in Nat /\ Cardinality(Since(d)') \in Nat
      BY <3>2, <3>3, FS_Subset, FS_CardinalityType, Zenon
    <3>5. Cardinality(Since(d)) < MaxLogFiles - 1
      BY <3>4 DEF LogAssumption
    <3> QED BY <1>1, <3>1, <3>5, Zenon DEF LogInv, RoomInv, Kept
  <2> QED BY <2>2, <2>3, Zenon
<1>9. RoomInv'
  BY <1>1, <1>8, Zenon DEF LogInv, RoomInv
<1> QED BY <1>7, <1>9, Zenon DEF LogInv

\* A power cut, or a log that cannot be opened, loses the logger, and not
\* the files.
LEMMA CutInv ==
    ASSUME LogInv, PowerCut \/ OpenFails
    PROVE  LogInv'
<1>1. /\ UNCHANGED <<current, files, logged>> /\ ~loggingEnabled' /\ logger' = NoFile
      /\ enabling' = "no" /\ toRename' = {}
  <2>1. CASE PowerCut
    BY <2>1, Zenon DEF PowerCut
  <2>2. CASE OpenFails
    BY <2>2, Zenon DEF OpenFails, LogInv, FilesInv
  <2> QED BY <2>1, <2>2, Zenon
<1>2. \A d : Kept(d)' <=> Kept(d)
  BY <1>1, Zenon DEF Kept
<1>3. Before' = Before /\ \A d : Since(d)' = Since(d)
  BY <1>1, SameBefore, Zenon
<1>4. FilesInv'
  <2>1. /\ current' \in Deployments /\ logged' \in [Deployments -> Nat]
        /\ Ordered(DOMAIN files')
        /\ files' = [f \in DOMAIN files' |-> logged'[f[2]]]
    BY <1>1, Zenon DEF LogInv, FilesInv
  <2>2. /\ \A f \in DOMAIN files' : f[1] > 0 /\ f[2] \in 1 .. current' /\ logged'[f[2]] > 0
        /\ \A f \in DOMAIN files' : f[2] = current' => f = <<1, current'>>
        /\ \A d \in Deployments : d > current' => logged'[d] = 0
    BY <1>1, Zenon DEF LogInv, FilesInv
  <2>3. ~Kept(current)' => logged'[current'] = 0
    BY <1>1, Zenon DEF LogInv, FilesInv, Kept
  <2>4. Ordered(DOMAIN files)'
    BY <2>1, Zenon DEF Ordered
  <2> QED BY <1>1, <2>1, <2>2, <2>3, <2>4, Zenon DEF FilesInv
<1>5. RoomInv'
  BY <1>1, <1>2, <1>3, Zenon DEF LogInv, RoomInv
<1> QED BY <1>4, <1>5, Zenon DEF LogInv

\* The first deployment finds no files.
LEMMA LogInitInv ==
    ASSUME LogAssumption
    PROVE  LogInit => LogInv
<1> SUFFICES ASSUME LogInit PROVE LogInv
  OBVIOUS
<1>1. /\ current = 1 /\ DOMAIN files = {} /\ files = [f \in {} |-> 0] /\ toRename = {}
      /\ ~loggingEnabled /\ logger = NoFile /\ enabling = "no"
      /\ logged = [d \in Deployments |-> 0]
  BY Zenon DEF LogInit
<1>2. Ordered(DOMAIN files) /\ 1 \in Deployments
  BY <1>1, FS_EmptySet DEF Ordered, LogAssumption, Deployments
<1>3. files = [f \in DOMAIN files |-> logged[f[2]]]
  BY <1>1, Zenon
<1>4. FilesInv
  BY <1>1, <1>2, <1>3, Zenon DEF FilesInv
<1>5. Before = {}
  BY <1>1 DEF Before
<1> QED BY <1>1, <1>4, <1>5, Zenon DEF LogInv, RoomInv

\* LogInv is an invariant as long as no rename has failed.
LEMMA SpecLog == LogSpec => [](misplaced \/ LogInv)
<1>1. LogInit => LogInv
  BY LogAssumption, LogInitInv, Zenon
<1>2. (misplaced \/ LogInv) /\ [LogNext]_logVars => (misplaced \/ LogInv)'
  <2> SUFFICES ASSUME misplaced \/ LogInv, [LogNext]_logVars, ~misplaced' PROVE LogInv'
    OBVIOUS
  <2>1. ~RenameFails /\ misplaced' = misplaced
    BY Zenon DEF RenameFails, LogNext, logVars, Enable, RenameNext, OpenLog, OpenFails, Fire,
       Disable, PowerCut
  <2>2. LogInv
    BY <2>1, Zenon
  <2>3. CASE UNCHANGED logVars
    <3>1. UNCHANGED <<current, files, loggingEnabled, logger, enabling, toRename, logged>>
      BY <2>3, Zenon DEF logVars
    <3>2. Before' = Before /\ \A d : Since(d)' = Since(d)
      BY <2>2, <3>1, SameBefore, Zenon
    <3>3. \A d : Kept(d)' <=> Kept(d)
      BY <3>1, Zenon DEF Kept
    <3>4. FilesInv'
      BY <2>2, <3>1, Zenon DEF LogInv, FilesInv, Kept
    <3>5. RoomInv'
      BY <2>2, <3>1, <3>2, Zenon DEF LogInv, RoomInv, Kept
    <3> QED BY <3>4, <3>5, Zenon DEF LogInv
  <2> QED BY <2>1, <2>2, <2>3, LogAssumption, EnableInv, RenameInv, OpenInv, FireInv, DisableInv,
             CutInv, Zenon DEF LogNext
<1> QED BY <1>1, <1>2, PTL DEF LogSpec

\* The one file of a deployment is what GetLogs sends.
LEMMA LogsOfKept ==
    ASSUME FilesInv, NEW d, Kept(d)
    PROVE  LogsOf(d) = logged[d]
<1>1. PICK f \in DOMAIN files : f[2] = d
  BY Zenon DEF Kept
<1>2. {g \in DOMAIN files : g[2] = d} = {f}
  BY <1>1, OlderIsEarlier DEF FilesInv
<1>3. Oldest({f}) = f
  BY Zenon DEF Oldest
<1>4. LogsOf(d) = files[f]
  BY <1>2, <1>3, Zenon DEF LogsOf
<1> QED BY <1>1, <1>4, Zenon DEF FilesInv

\* What GetLogs sends of the deployment at hand is all that was logged for it,
\* however many deployments there were and however often a rotation was cut
\* short or a log could not be opened, unless a rename has failed.
THEOREM LogsAreComplete == LogSpec => []LogIsComplete
<1>1. misplaced \/ LogInv => LogIsComplete
  <2> SUFFICES ASSUME LogInv PROVE LogsOf(current) = logged[current]
    BY Zenon DEF LogIsComplete
  <2>1. CASE Kept(current)
    BY <2>1, LogsOfKept, Zenon DEF LogInv
  <2>2. CASE ~Kept(current)
    <3>1. {f \in DOMAIN files : f[2] = current} = {}
      BY <2>2, Zenon DEF Kept
    <3> QED BY <2>2, <3>1, Zenon DEF LogsOf, LogInv, FilesInv
  <2> QED BY <2>1, <2>2, Zenon
<1> QED BY <1>1, SpecLog, PTL

\* The logs of the last deployments survive, complete, as many as there is
\* room for beside the current one, and an open logger leaves no more files
\* than that, for every number of files, unless a rename has failed.
THEOREM LogsAreKept == LogSpec => []LastLogsKept
<1>1. misplaced \/ LogInv => LastLogsKept
  <2> SUFFICES ASSUME LogInv PROVE LastLogsKept
    BY Zenon DEF LastLogsKept
  <2>1. ASSUME NEW d \in Before, Cardinality(Since(d)) < MaxLogFiles - 1
        PROVE  LogsOf(d) = logged[d]
    BY <2>1, LogsOfKept, Zenon DEF LogInv, RoomInv
  <2>2. loggingEnabled => Cardinality(DOMAIN files) <= MaxLogFiles
    BY Zenon DEF LogInv, RoomInv
  <2> QED BY <2>1, <2>2, Zenon DEF LastLogsKept, Before, Since
<1> QED BY <1>1, SpecLog, PTL

------------------------------------------------------------------------------
(* The token.                                                              *)

\* CopyIsStored is not inductive: loadAuth keeps a copy it finds, so nothing
\* may be left in it while a token is asked for.
AuthInv ==
    /\ CopyIsStored
    /\ pc \in {"ask", "store"} => authToken = None

\* Before the first start there is no token.
LEMMA AuthInitInv == AuthInit => AuthInv
BY Zenon DEF AuthInit, AuthInv, CopyIsStored

\* Every step keeps the invariant; the servers do not touch the device.
LEMMA AuthNextInv == AuthInv /\ [AuthNext]_authVars => AuthInv'
\* The process starts from the disk, or ends.
<1>ProcessInv.
    ASSUME AuthInv, StartDaemon \/ Crash
    PROVE  AuthInv'
  <2> USE <1>ProcessInv
  <2>1. CASE StartDaemon
    BY <2>1, Zenon DEF StartDaemon, AuthInv, CopyIsStored, None
  <2>2. CASE Crash
    BY <2>2, Zenon DEF Crash, AuthInv, CopyIsStored
  <2> QED BY <2>1, <2>2, Zenon

\* Looking for a token fills an empty copy.
<1>LookInv.
    ASSUME AuthInv, Idle \/ Authorize
    PROVE  AuthInv'
  BY <1>LookInv, Zenon DEF Idle, Authorize, LoadAuth, GoOn, IsAuthorized, NotAuthorized, AuthInv,
     CopyIsStored

\* Before a token is asked for, the copy is emptied.
<1>BootstrapInv.
    ASSUME AuthInv, Bootstrap
    PROVE  AuthInv'
  <2> USE <1>BootstrapInv
  <2>1. pc = "bootstrap" /\ UNCHANGED stored
    BY Zenon DEF Bootstrap
  <2>2. Bootstrapped \/ BootstrapFailed
    BY Zenon DEF Bootstrap, GenerateKey, GenerateKeyFails
  <2>3. /\ authToken' \in {authToken, None}
        /\ pc' \in {"ask", "store"} => authToken' = None
    BY <2>2, Zenon DEF Bootstrapped, BootstrapFailed, Fatal
  <2>4. CopyIsStored'
    BY <2>1, <2>3, Zenon DEF AuthInv, CopyIsStored
  <2> QED BY <2>3, <2>4, Zenon DEF AuthInv

\* A token is asked for with an empty copy, and the copy is filled with what
\* was stored.
<1>TokenInv.
    ASSUME AuthInv, Remove \/ Ask \/ StoreToken
    PROVE  AuthInv'
  <2> USE <1>TokenInv
  <2>1. pc \notin {"off", "down"}
    BY Zenon DEF Remove, Ask, StoreToken
  <2>2. CASE Remove
    BY <2>1, <2>2 DEF Remove, RemoveAuthToken, AuthInv, CopyIsStored
  <2>3. CASE Ask
    <3>1. authToken' = None
      BY <2>3, Zenon DEF Ask, AuthInv
    <3> QED BY <3>1, Zenon DEF AuthInv, CopyIsStored
  <2>4. CASE StoreToken
    BY <2>1, <2>4 DEF StoreToken, LoadAuth, Fatal, AuthInv, CopyIsStored
  <2> QED BY <2>2, <2>3, <2>4, Zenon

\* A request uses the copy; the caller may remove the token.
<1>RequestInv.
    ASSUME AuthInv, Check \/ Send \/ Failover \/ Served
    PROVE  AuthInv'
  <2> USE <1>RequestInv
  <2>1. /\ UNCHANGED authToken /\ stored' \in {stored, None}
        /\ pc \notin {"off", "down"} /\ pc' \notin {"ask", "store"}
    BY Zenon DEF Check, Send, Failover, Served, RemoveAuthToken, tokenVars
  <2> QED BY <2>1, Zenon DEF AuthInv, CopyIsStored

<1> SUFFICES ASSUME AuthInv, [AuthNext]_authVars PROVE AuthInv'
  OBVIOUS
<1>1. CASE AuthStep
  BY <1>1, <1>LookInv, <1>BootstrapInv, <1>TokenInv, <1>RequestInv, Zenon DEF AuthStep
<1>2. CASE Expire \/ Reject \/ \E s \in Servers : Accept(s)
  BY <1>2, Zenon DEF Expire, Reject, Accept, AuthInv, CopyIsStored, tokenVars
<1>3. CASE UNCHANGED authVars
  BY <1>3, Zenon DEF authVars, AuthInv, CopyIsStored, tokenVars
<1> QED BY <1>1, <1>2, <1>3, <1>ProcessInv, Zenon DEF AuthNext

\* The invariant holds in every state of every behaviour.
LEMMA AuthSpecInv == AuthSpec => []AuthInv
BY AuthInitInv, AuthNextInv, PTL DEF AuthSpec

\* Whatever fails and whenever, the token a request carries in memory is the
\* one in the database as long as both exist: no path through Authorize,
\* reauthorize and RemoveAuthToken leaves a copy that loadAuth would not
\* replace.
THEOREM CopyAgrees == AuthSpec => []CopyIsStored
<1>1. AuthInv => CopyIsStored
  BY Zenon DEF AuthInv
<1> QED BY <1>1, AuthSpecInv, PTL

------------------------------------------------------------------------------
(* The state data.                                                         *)

\* What holds while the old client runs: it has looked at nothing the new one
\* left, and before the new client is first booted its entry is the one last
\* recorded, nothing is counted, and a copy of the new client is about the
\* same update only if an earlier attempt at it left that copy.
OldClientInv ==
    client = "old" =>
        /\ ~permanent
        /\ update = Unknown
        /\ stateData.version = 1 /\ ~fellBack =>
               /\ last = [id |-> stateData.id, name |-> stateData.name]
               /\ stores = 0
               /\ uncommitted # NoEntry => retried \/ uncommitted.id # stateData.id

\* While the new client has an update in memory: with a schema update both
\* entries are about it and the committed one is the old client's; without,
\* the committed one is its own.
UpdateInv ==
    update \in Update =>
        /\ update.schema =>
               /\ stateData.version = 1
               /\ stateData.id = update.id
               /\ uncommitted # NoEntry
               /\ uncommitted.id = update.id
        /\ ~update.schema => stateData.version = 2

\* Whenever the new client runs, what it would load is what was recorded last.
LoadInv ==
    client = "new" /\ stateData # NoEntry =>
        Loaded.id = last.id /\ (retried \/ Loaded.name = last.name)

\* The count that the next store or load continues.
ActiveCount ==
    IF update \in Update
    THEN CountOf(IF update.schema THEN uncommitted ELSE stateData)
    ELSE CountOf(Loaded)

\* It is no smaller than the number of calls since it was restarted.
CountInv ==
    client = "new" /\ stateData # NoEntry => stores <= ActiveCount

\* The new client uses its own format, and is without an update, only once it
\* is committed or has given the update up.
FormatInv ==
    permanent \/ ended \/
        /\ stateData.version # 2
        /\ client = "new" => update # NoUpdate /\ stateData # NoEntry

Inv ==
    /\ TypeOK
    /\ OldDataIntact
    /\ ResumesLastState
    /\ LoopDetected
    /\ OneAuthority
    /\ OldClientInv
    /\ UpdateInv
    /\ LoadInv
    /\ CountInv
    /\ FormatInv

------------------------------------------------------------------------------
(* The invariant is inductive.                                             *)

\* What stands for no update is none.
LEMMA UpdateShape ==
    NoUpdate \notin Update /\ Unknown \notin Update /\ NoUpdate # Unknown
<1>1. NoUpdate # Unknown
  BY DEF NoUpdate, Unknown
<1>2. NoUpdate \notin Update /\ Unknown \notin Update
  BY DEF NoUpdate, Unknown, Update
<1> QED BY <1>1, <1>2, Zenon

\* An empty database satisfies the invariant.
LEMMA InitInv == Init => Inv
<1> SUFFICES ASSUME Init PROVE Inv
  OBVIOUS
<1> USE DEF Init
<1>1. TypeOK
  BY Zenon DEF TypeOK
<1>2. OldDataIntact /\ ResumesLastState /\ UpdateInv /\ LoadInv
  BY UpdateShape, Zenon DEF OldDataIntact, ResumesLastState, UpdateInv, LoadInv
<1>3. LoopDetected /\ CountInv
  BY StoreCountAssumption DEF LoopDetected, CountInv
<1>4. OneAuthority
  BY DEF OneAuthority, NoEntry
<1>5. FormatInv /\ OldClientInv
  <2>1. stateData.version = 0
    BY DEF NoEntry
  <2>2. CASE client = "old"
    <3>1. ~permanent /\ client # "new"
      BY <2>2
    <3> QED BY <2>1, <3>1 DEF FormatInv, OldClientInv
  <2>3. CASE client = "new"
    <3>1. permanent /\ client # "old"
      BY <2>3
    <3> QED BY <3>1, Zenon DEF FormatInv, OldClientInv
  <2> QED BY <2>2, <2>3, Zenon
<1> QED BY <1>1, <1>2, <1>3, <1>4, <1>5, Zenon DEF Inv

\* Every step keeps the invariant.
LEMMA NextInv == Inv /\ [Next]_vars => Inv'
(* Facts about counts and entries.                                         *)

\* The count written back stays within its maximum: it is one more than the
\* count before, or starts again at one.
<1>NextCountBound.
    ASSUME NEW c \in 0 .. MaximumStateDataStoreCount
    PROVE  /\ NextCount(c) \in 1 .. MaximumStateDataStoreCount
           /\ ~Exceeded(c) => NextCount(c) = c + 1
  BY <1>NextCountBound, StoreCountAssumption DEF NextCount, Exceeded

\* An entry and the absence of one are told apart by the version.
<1>EntryShape.
    ASSUME NEW e \in Entry \union {NoEntry}
    PROVE  /\ e = NoEntry <=> e.version = 0
           /\ e # NoEntry => /\ e \in Entry
                             /\ e.version \in {1, 2}
                             /\ e.id \in UpdateIDs
                             /\ e.name \in Names
                             /\ e.count \in 0 .. MaximumStateDataStoreCount
           /\ CountOf(e) \in 0 .. MaximumStateDataStoreCount
  BY <1>EntryShape, StoreCountAssumption DEF Entry, NoEntry, CountOf

\* What LoadStateData works on is an entry about the update of the committed
\* one, whichever of the two it picks.
<1>LoadedShape.
    ASSUME Inv, stateData # NoEntry
    PROVE  Loaded \in Entry /\ Loaded.id = stateData.id
  BY <1>LoadedShape, <1>EntryShape, Zenon DEF Inv, TypeOK, Loaded

\* What is loaded after the memory is lost counts on from where it was.
<1>ActiveLoaded.
    ASSUME Inv
    PROVE  ActiveCount = CountOf(Loaded)
  <2> USE <1>ActiveLoaded DEF Inv
  <2>1. CASE update \in Update
    <3>1. update.schema \in BOOLEAN
      BY <2>1, Zenon DEF Update
    <3>2. CASE update.schema
      BY <2>1, <3>2, Zenon DEF UpdateInv, ActiveCount, Loaded
    <3>3. CASE ~update.schema
      <4>1. stateData.version # 1
        BY <2>1, <3>3 DEF UpdateInv
      <4> QED BY <2>1, <3>3, <4>1, Zenon DEF ActiveCount, Loaded
    <3> QED BY <3>1, <3>2, <3>3, Zenon
  <2>2. CASE update \notin Update
    BY <2>2, Zenon DEF ActiveCount
  <2> QED BY <2>1, <2>2, Zenon

\* A step that counts up keeps the calls within the count.
<1>CountStoreBound.
    ASSUME NEW c \in 0 .. MaximumStateDataStoreCount, stores \in Nat, stores <= c, CountStore(c)
    PROVE  stores' \in Nat /\ stores' <= NextCount(c)
  BY <1>CountStoreBound, <1>NextCountBound, StoreCountAssumption DEF CountStore

(* The old client and the boots.                                           *)

\* The old client begins a deployment over whatever is left: a copy of the
\* new client is about another update, or of an earlier attempt at this one.
<1>OldStartInv.
    ASSUME Inv, NEW u \in UpdateIDs, NEW n \in Names, OldStart(u, n)
    PROVE  Inv'
  <2> USE <1>OldStartInv
  <2> USE DEF Inv, OldStart, TypeOK
  <2>0. stateData' \in Entry /\ last' \in [id : UpdateIDs, name : Names]
    BY StoreCountAssumption DEF Entry
  <2>1. TypeOK'
    BY <2>0, Zenon
  <2>2. ResumesLastState' /\ UpdateInv' /\ LoadInv' /\ CountInv'
    BY UpdateShape, Zenon DEF OldClientInv, ResumesLastState, UpdateInv, LoadInv, CountInv
  <2>3. OldDataIntact' /\ LoopDetected' /\ OneAuthority' /\ FormatInv'
    BY StoreCountAssumption DEF OldDataIntact, LoopDetected, OneAuthority, FormatInv, NoEntry
  <2>4. OldClientInv'
    BY Zenon DEF OldClientInv
  <2> QED BY <2>1, <2>2, <2>3, <2>4, Zenon

\* The old client stores: it alone writes its entry.
<1>OldStoreInv.
    ASSUME Inv, NEW n \in Names, OldStore(n)
    PROVE  Inv'
  <2> USE <1>OldStoreInv
  <2> USE DEF Inv, OldStore, TypeOK
  <2>0. stateData \in Entry
    BY <1>EntryShape
  <2>1. TypeOK'
    BY <2>0, Zenon DEF Entry
  <2>2. ResumesLastState' /\ UpdateInv' /\ LoadInv' /\ CountInv'
    BY UpdateShape, Zenon DEF OldClientInv, ResumesLastState, UpdateInv, LoadInv, CountInv
  <2>3. stateData'.version = 1 /\ stateData'.id = stateData.id /\ stateData'.name = n
    BY <2>0, Zenon DEF Entry
  <2>4. OldDataIntact' /\ LoopDetected'
    BY Zenon DEF OldDataIntact, LoopDetected
  <2>5. OneAuthority' /\ FormatInv'
    BY <2>3 DEF OneAuthority, FormatInv
  <2>6. OldClientInv'
    BY <2>3, Zenon DEF OldClientInv
  <2> QED BY <2>1, <2>2, <2>4, <2>5, <2>6, Zenon

\* The old client removes its entry; a copy of the new client may stay.
<1>OldFinishInv.
    ASSUME Inv, OldFinish
    PROVE  Inv'
  <2> USE <1>OldFinishInv
  <2> USE DEF Inv, OldFinish, TypeOK
  <2>1. TypeOK'
    BY Zenon
  <2>2. ResumesLastState' /\ UpdateInv' /\ LoadInv' /\ CountInv'
    BY UpdateShape, Zenon DEF OldClientInv, ResumesLastState, UpdateInv, LoadInv, CountInv
  <2>3. OldDataIntact' /\ LoopDetected' /\ OneAuthority' /\ FormatInv' /\ OldClientInv'
    BY DEF OldDataIntact, LoopDetected, OneAuthority, FormatInv, OldClientInv, NoEntry
  <2> QED BY <2>1, <2>2, <2>3, Zenon

\* The new client is booted for the first time: its leftover copy, if any, is
\* about another update or of an earlier attempt, so that it will load the
\* old client's entry or that copy.
<1>BootNewInv.
    ASSUME Inv, BootNew
    PROVE  Inv'
  <2> USE <1>BootNewInv
  <2> USE DEF Inv, BootNew, TypeOK, disk, history
  <2>1. TypeOK' /\ OldDataIntact' /\ LoopDetected' /\ OneAuthority'
    BY Zenon DEF OldDataIntact, LoopDetected, OneAuthority
  <2>2. ResumesLastState' /\ UpdateInv' /\ OldClientInv'
    BY UpdateShape, Zenon DEF OldClientInv, ResumesLastState, UpdateInv
  <2>3. FormatInv'
    BY UpdateShape DEF FormatInv, NoEntry
  <2>4. stateData # NoEntry /\ last = [id |-> stateData.id, name |-> stateData.name] /\ stores = 0
    BY DEF OldClientInv, NoEntry
  <2>5. Loaded' = Loaded /\ Loaded.id = stateData.id
    BY <2>4, <1>LoadedShape, Zenon DEF Loaded
  <2>6. retried \/ Loaded = stateData
    BY Zenon DEF OldClientInv, Loaded
  <2>7. LoadInv'
    BY <2>4, <2>5, <2>6, Zenon DEF LoadInv
  <2>8. CountInv'
    <3>1. ActiveCount' = CountOf(Loaded)
      BY <2>5, UpdateShape, Zenon DEF ActiveCount, CountOf
    <3>2. CountOf(Loaded) \in 0 .. MaximumStateDataStoreCount
      BY <2>4, <1>LoadedShape, <1>EntryShape, Zenon
    <3> HIDE DEF Inv, TypeOK
    <3> QED BY <2>4, <3>1, <3>2, StoreCountAssumption DEF CountInv
  <2> QED BY <2>1, <2>2, <2>3, <2>7, <2>8, Zenon

\* The old client is booted again and finds its entry as it left it.
<1>FallBackInv.
    ASSUME Inv, FallBack
    PROVE  Inv'
  <2> USE <1>FallBackInv
  <2> USE DEF Inv, FallBack, TypeOK, disk, history
  <2>1. TypeOK' /\ OldDataIntact' /\ LoopDetected' /\ OneAuthority'
    BY Zenon DEF OldDataIntact, LoopDetected, OneAuthority
  <2>2. ResumesLastState' /\ UpdateInv' /\ LoadInv' /\ CountInv' /\ OldClientInv'
    <3>1. ResumesLastState' /\ UpdateInv'
      BY UpdateShape, Zenon DEF ResumesLastState, UpdateInv
    <3>2. LoadInv' /\ CountInv'
      BY DEF LoadInv, CountInv
    <3>3. OldClientInv'
      BY Zenon DEF OldClientInv
    <3> QED BY <3>1, <3>2, <3>3, Zenon
  <2>3. FormatInv'
    BY DEF FormatInv
  <2> QED BY <2>1, <2>2, <2>3, Zenon

\* A restart forgets the memory; what is loaded next is what was recorded.
<1>RestartInv.
    ASSUME Inv, Restart
    PROVE  Inv'
  <2> USE <1>RestartInv
  <2>0. ActiveCount = CountOf(Loaded)
    BY <1>ActiveLoaded, Zenon
  <2> USE DEF Inv, Restart, TypeOK, disk, history
  <2>1. TypeOK' /\ OldDataIntact' /\ LoopDetected' /\ OneAuthority'
    BY Zenon DEF OldDataIntact, LoopDetected, OneAuthority
  <2>2. ResumesLastState' /\ UpdateInv'
    BY UpdateShape, Zenon DEF ResumesLastState, UpdateInv
  <2>3. OldClientInv' /\ FormatInv'
    BY UpdateShape DEF OldClientInv, FormatInv
  <2>4. LoadInv'
    BY Zenon DEF LoadInv, Loaded
  <2>5. ActiveCount' = ActiveCount
    BY <2>0, UpdateShape, Zenon DEF ActiveCount, Loaded, CountOf
  <2>6. CountInv'
    BY <2>5, Zenon DEF CountInv
  <2> QED BY <2>1, <2>2, <2>3, <2>4, <2>6, Zenon

(* The new client.                                                         *)

\* Without an entry a load finds that there is no update.
<1>LoadNothingInv.
    ASSUME Inv, LoadStateData, stateData = NoEntry
    PROVE  Inv'
  <2> USE <1>LoadNothingInv
  <2> USE DEF Inv, LoadStateData, TypeOK, disk
  <2>1. TypeOK' /\ OldDataIntact' /\ LoopDetected' /\ OneAuthority'
    BY Zenon DEF OldDataIntact, LoopDetected, OneAuthority
  <2>2. ResumesLastState' /\ UpdateInv'
    BY UpdateShape, Zenon DEF ResumesLastState, UpdateInv
  <2>3. OldClientInv' /\ LoadInv' /\ CountInv'
    BY DEF OldClientInv, LoadInv, CountInv
  <2>4. FormatInv'
    BY DEF FormatInv
  <2> QED BY <2>1, <2>2, <2>3, <2>4, Zenon

\* A load writes the upgraded entry under the key it will go on with.
<1>LoadStateDataInv.
    ASSUME Inv, LoadStateData, stateData # NoEntry
    PROVE  Inv'
  <2> USE <1>LoadStateDataInv
  <2> DEFINE schema == stateData.version = 1
  <2> DEFINE entry == [Loaded EXCEPT !.version = 2, !.count = NextCount(Loaded.count)]
  <2>1. /\ Loaded \in Entry
        /\ Loaded.id = stateData.id
        /\ Loaded.id \in UpdateIDs /\ Loaded.name \in Names
        /\ Loaded.count \in 0 .. MaximumStateDataStoreCount
        /\ NextCount(Loaded.count) \in 1 .. MaximumStateDataStoreCount
        /\ stores <= Loaded.count
    <3>1. Loaded \in Entry /\ Loaded.id = stateData.id
      BY <1>LoadedShape, Zenon
    <3>2. Loaded # NoEntry
      BY <3>1 DEF Entry, NoEntry
    <3>3. ActiveCount = Loaded.count
      BY <3>2, UpdateShape, Zenon DEF LoadStateData, ActiveCount, CountOf
    <3> QED BY <3>1, <3>2, <3>3, <1>EntryShape, <1>NextCountBound, Zenon
            DEF Inv, LoadStateData, CountInv
  <2>2. /\ entry \in Entry
        /\ entry # NoEntry
        /\ entry.version = 2
        /\ entry.id = stateData.id
        /\ entry.name = Loaded.name
        /\ entry.count = NextCount(Loaded.count)
    <3>1. entry = [version |-> 2, id |-> Loaded.id, name |-> Loaded.name,
                   count |-> NextCount(Loaded.count)]
      <4> DEFINE sd == Loaded
      <4>1. sd \in Entry
        BY <2>1, Zenon
      <4>2. entry = [sd EXCEPT !.version = 2, !.count = NextCount(sd.count)]
        OBVIOUS
      <4> HIDE DEF sd, entry
      <4>3. entry = [version |-> 2, id |-> sd.id, name |-> sd.name, count |-> NextCount(sd.count)]
        BY <4>1, <4>2, Zenon DEF Entry
      <4> QED BY <4>3, Zenon DEF sd
    <3> HIDE DEF entry
    <3>2. NextCount(Loaded.count) \in 0 .. MaximumStateDataStoreCount
      BY <2>1, StoreCountAssumption
    <3> QED BY <2>1, <3>1, <3>2, Zenon DEF Entry, NoEntry
  <2>3. /\ update' = [id |-> stateData.id, schema |-> schema, name |-> Loaded.name]
        /\ uncommitted' = IF schema THEN entry ELSE uncommitted
        /\ stateData' = IF schema THEN stateData ELSE entry
        /\ stores' \in Nat
        /\ stores' <= NextCount(Loaded.count)
    BY <2>1, <1>CountStoreBound, Zenon DEF LoadStateData, Inv, TypeOK
  <2>4. /\ client = "new" /\ update = Unknown /\ stateData # NoEntry
        /\ UNCHANGED <<client, permanent, fellBack, oldView, ended, retried, last>>
    BY Zenon DEF LoadStateData
  <2>5. /\ update' \in Update /\ update' # NoUpdate
        /\ update'.schema = schema /\ update'.id = stateData.id /\ update'.name = Loaded.name
    <3>1. /\ update' \in Update
          /\ update'.schema = schema /\ update'.id = stateData.id /\ update'.name = Loaded.name
      BY <2>1, <2>3, Zenon DEF Update
    <3> QED BY <3>1, UpdateShape, Zenon
  <2>6. stateData # NoEntry /\ stateData.version \in {1, 2}
    BY <2>4, <1>EntryShape, Zenon DEF Inv, TypeOK
  <2> HIDE DEF schema, entry
  <2>7. TypeOK'
    BY <2>2, <2>3, <2>4, <2>5, Zenon DEF Inv, TypeOK
  <2>8. OldDataIntact'
    BY <2>3, <2>4, <2>6, Zenon DEF Inv, OldDataIntact, FormatInv, schema
  <2>9. LoopDetected'
    <3> DEFINE c == NextCount(Loaded.count)
    <3>1. c \in 1 .. MaximumStateDataStoreCount /\ stores' \in Nat /\ stores' <= c
      BY <2>1, <2>3, Zenon
    <3> HIDE DEF c
    <3>2. stores' <= MaximumStateDataStoreCount
      BY <3>1, StoreCountAssumption
    <3> QED BY <3>2, Zenon DEF LoopDetected
  <2>10. OneAuthority'
    BY <2>2, <2>3, <2>6, SMTT(40) DEF Inv, OneAuthority, schema
  <2>11. ResumesLastState'
    BY <2>1, <2>4, <2>5, Zenon DEF Inv, ResumesLastState, LoadInv
  <2>12. OldClientInv'
    BY <2>4 DEF OldClientInv
  <2>13. UpdateInv'
    BY <2>2, <2>3, <2>5, Zenon DEF UpdateInv, schema
  <2>14. LoadInv'
    BY <2>1, <2>2, <2>3, <2>4, <2>6, Zenon DEF Inv, LoadInv, Loaded, schema
  <2>15. CountInv'
    BY <2>2, <2>3, <2>5, Zenon DEF CountInv, ActiveCount, CountOf
  <2>16. FormatInv'
    BY <2>2, <2>3, <2>4, <2>5, <2>6, Zenon DEF Inv, FormatInv, schema
  <2> QED BY <2>7, <2>8, <2>9, <2>10, <2>11, <2>12, <2>13, <2>14, <2>15, <2>16, Zenon DEF Inv

\* What a write leaves behind, under either key: everything but the counts.
<1>WriteKeeps.
    ASSUME Inv, NEW u \in UpdateIDs, NEW n \in Names, NEW s \in BOOLEAN, Write(u, n, s),
           client = "new", s => update \in Update /\ update.schema /\ u = update.id,
           ~s => permanent \/ ended,
           stores' \in Nat,
           UNCHANGED <<client, permanent, fellBack, oldView, ended>>
    PROVE  /\ TypeOK' /\ OldDataIntact' /\ ResumesLastState' /\ OneAuthority'
           /\ OldClientInv' /\ UpdateInv' /\ LoadInv' /\ FormatInv'
           /\ ActiveCount' = NextCount(CountOf(IF s THEN uncommitted ELSE stateData))
  <2> USE <1>WriteKeeps
  <2> DEFINE c == NextCount(CountOf(IF s THEN uncommitted ELSE stateData))
  <2> DEFINE entry == [version |-> 2, id |-> u, name |-> n, count |-> c]
  <2>1. /\ stateData' = IF s THEN stateData ELSE entry
        /\ uncommitted' = IF s THEN entry ELSE NoEntry
    BY Zenon DEF Write, Key
  <2>2. /\ update' = [id |-> u, schema |-> s, name |-> n]
        /\ last' = [id |-> u, name |-> n]
        /\ retried' = FALSE
    BY Zenon DEF Write
  <2>3. /\ update' \in Update /\ update' # NoUpdate
        /\ update'.id = u /\ update'.schema = s /\ update'.name = n
        /\ last'.id = u /\ last'.name = n
        /\ last' \in [id : UpdateIDs, name : Names]
    <3>1. /\ update' \in Update
          /\ update'.id = u /\ update'.schema = s /\ update'.name = n
          /\ last'.id = u /\ last'.name = n
          /\ last' \in [id : UpdateIDs, name : Names]
      BY <2>2, Zenon DEF Update
    <3> QED BY <3>1, UpdateShape, Zenon
  <2>4. c \in 0 .. MaximumStateDataStoreCount
    BY <1>EntryShape, <1>NextCountBound, StoreCountAssumption DEF Inv, TypeOK
  <2> HIDE DEF c
  <2>5. /\ entry \in Entry /\ entry # NoEntry
        /\ entry.version = 2 /\ entry.id = u /\ entry.name = n /\ entry.count = c
    BY <2>4, Zenon DEF Entry, NoEntry
  <2>6. s => stateData.version = 1 /\ stateData.id = u /\ stateData # NoEntry
    BY DEF Inv, UpdateInv, NoEntry
  <2> HIDE DEF entry
  <2>7. TypeOK'
    BY <2>1, <2>2, <2>3, <2>5, Zenon DEF Inv, TypeOK
  <2>8. OldDataIntact'
    BY <2>1, <2>6, Zenon DEF Inv, OldDataIntact
  <2>9. ResumesLastState'
    BY <2>3, Zenon DEF ResumesLastState
  <2>10. OneAuthority'
    BY <2>1, <2>6 DEF OneAuthority
  <2>11. OldClientInv'
    BY DEF OldClientInv
  <2>12. UpdateInv'
    BY <2>1, <2>3, <2>5, <2>6, Zenon DEF UpdateInv
  <2>13. LoadInv'
    <3>1. CASE s
      BY <2>1, <2>3, <2>5, <2>6, <3>1, Zenon DEF LoadInv, Loaded
    <3>2. CASE ~s
      <4>1. Loaded' = entry
        BY <2>1, <2>5, <3>2 DEF Loaded
      <4> QED BY <2>3, <2>5, <4>1, Zenon DEF LoadInv
    <3> QED BY <3>1, <3>2, Zenon
  <2>14. FormatInv'
    BY <2>1, <2>3, <2>5, <2>6, Zenon DEF Inv, FormatInv
  <2>15. ActiveCount' = c
    BY <2>1, <2>3, <2>5, Zenon DEF ActiveCount, CountOf
  <2> QED BY <2>7, <2>8, <2>9, <2>10, <2>11, <2>12, <2>13, <2>14, <2>15, Zenon DEF c

\* A deployment begins over whatever entry is left, and counts on from it.
<1>StartInv.
    ASSUME Inv, NEW u \in UpdateIDs, NEW n \in Names, Start(u, n)
    PROVE  Inv'
  <2> USE <1>StartInv
  <2> DEFINE c == CountOf(stateData)
  <2>1. /\ client = "new" /\ (permanent \/ ended) /\ Write(u, n, FALSE)
        /\ UNCHANGED <<client, permanent, fellBack, oldView, ended>>
        /\ stores' = IF Exceeded(c) THEN 0 ELSE 1
    BY DEF Start, Inv, FormatInv
  <2>2. c \in 0 .. MaximumStateDataStoreCount
    BY <1>EntryShape, Zenon DEF Inv, TypeOK
  <2> HIDE DEF c
  <2>3. /\ stores' \in Nat /\ stores' <= NextCount(c)
        /\ NextCount(c) \in 1 .. MaximumStateDataStoreCount
    BY <2>1, <2>2, <1>NextCountBound, StoreCountAssumption
  <2>4. /\ TypeOK' /\ OldDataIntact' /\ ResumesLastState' /\ OneAuthority'
        /\ OldClientInv' /\ UpdateInv' /\ LoadInv' /\ FormatInv'
        /\ ActiveCount' = NextCount(c)
    BY <2>1, <2>3, <1>WriteKeeps, Zenon DEF c
  <2>5. CountInv' /\ LoopDetected'
    BY <2>3, <2>4, StoreCountAssumption DEF CountInv, LoopDetected
  <2> QED BY <2>4, <2>5, Zenon DEF Inv

\* A store follows the schema flag of the update.
<1>StoreStateDataInv.
    ASSUME Inv, NEW n \in Names, StoreStateData(n)
    PROVE  Inv'
  <2> USE <1>StoreStateDataInv
  <2> DEFINE c == CountOf(IF update.schema THEN uncommitted ELSE stateData)
  <2>1. /\ client = "new" /\ update \in Update
        /\ Write(update.id, n, update.schema) /\ CountStore(c)
        /\ UNCHANGED <<client, permanent, fellBack, oldView, ended>>
    BY Zenon DEF StoreStateData
  <2>2. /\ update.schema \in BOOLEAN /\ update.id \in UpdateIDs
        /\ ~update.schema => permanent \/ ended
        /\ stateData # NoEntry
    BY <2>1 DEF Inv, Update, UpdateInv, FormatInv, NoEntry
  <2>3. c \in 0 .. MaximumStateDataStoreCount /\ stores \in Nat /\ stores <= c
    BY <2>1, <2>2, <1>EntryShape, Zenon DEF Inv, TypeOK, CountInv, ActiveCount
  <2> HIDE DEF c
  <2>4. /\ stores' \in Nat /\ stores' <= NextCount(c)
        /\ NextCount(c) \in 1 .. MaximumStateDataStoreCount
    BY <2>1, <2>3, <1>CountStoreBound, <1>NextCountBound, Zenon
  <2>5. /\ TypeOK' /\ OldDataIntact' /\ ResumesLastState' /\ OneAuthority'
        /\ OldClientInv' /\ UpdateInv' /\ LoadInv' /\ FormatInv'
        /\ ActiveCount' = NextCount(c)
    BY <2>1, <2>2, <2>4, <1>WriteKeeps, Zenon DEF c
  <2>6. CountInv' /\ LoopDetected'
    BY <2>4, <2>5, StoreCountAssumption DEF CountInv, LoopDetected
  <2> QED BY <2>5, <2>6, Zenon DEF Inv

\* A commit changes no entry.
<1>CommitUpdateInv.
    ASSUME Inv, CommitUpdate
    PROVE  Inv'
  <2> USE <1>CommitUpdateInv
  <2> USE DEF Inv, CommitUpdate, TypeOK, disk, history
  <2>1. TypeOK' /\ OldDataIntact' /\ LoopDetected' /\ OneAuthority' /\ FormatInv'
    BY Zenon DEF OldDataIntact, LoopDetected, OneAuthority, FormatInv
  <2>2. ResumesLastState' /\ UpdateInv' /\ LoadInv'
    BY Zenon DEF ResumesLastState, UpdateInv, LoadInv, Loaded
  <2>3. OldClientInv'
    BY DEF OldClientInv
  <2>4. CountInv'
    BY Zenon DEF CountInv, ActiveCount, Loaded, CountOf
  <2> QED BY <2>1, <2>2, <2>3, <2>4, Zenon

\* The store after the commit replaces the old client's entry and removes the
\* copy in one transaction.
<1>StoreCommitInv.
    ASSUME Inv, NEW n \in Names, StoreCommit(n)
    PROVE  Inv'
  <2> USE <1>StoreCommitInv
  <2> DEFINE c == CountOf(stateData)
  <2>1. /\ client = "new" /\ update \in Update /\ permanent /\ Write(update.id, n, FALSE)
        /\ UNCHANGED <<client, permanent, fellBack, oldView, ended>>
        /\ stores' = IF update.schema THEN 1 ELSE IF Exceeded(c) THEN 0 ELSE stores + 1
    BY Zenon DEF StoreCommit
  <2>2. /\ update.id \in UpdateIDs /\ stateData # NoEntry
    BY <2>1 DEF Inv, Update, UpdateInv, NoEntry
  <2>3. /\ c \in 0 .. MaximumStateDataStoreCount /\ stores \in Nat
        /\ ~update.schema => stores <= c
    BY <2>1, <2>2, <1>EntryShape, Zenon DEF Inv, TypeOK, CountInv, ActiveCount
  <2> HIDE DEF c
  <2>4. /\ stores' \in Nat /\ stores' <= NextCount(c)
        /\ NextCount(c) \in 1 .. MaximumStateDataStoreCount
    BY <2>1, <2>3, <1>NextCountBound, StoreCountAssumption
  <2>5. /\ TypeOK' /\ OldDataIntact' /\ ResumesLastState' /\ OneAuthority'
        /\ OldClientInv' /\ UpdateInv' /\ LoadInv' /\ FormatInv'
        /\ ActiveCount' = NextCount(c)
    BY <2>1, <2>2, <2>4, <1>WriteKeeps, Zenon DEF c
  <2>6. CountInv' /\ LoopDetected'
    BY <2>4, <2>5, StoreCountAssumption DEF CountInv, LoopDetected
  <2> QED BY <2>5, <2>6, Zenon DEF Inv

\* The entry is removed at the end of the update, or stays.
<1>RemoveStateDataInv.
    ASSUME Inv, RemoveStateData
    PROVE  Inv'
  <2> USE <1>RemoveStateDataInv
  <2>0. ActiveCount = CountOf(Loaded)
    BY <1>ActiveLoaded, Zenon
  <2> USE DEF Inv, RemoveStateData, TypeOK
  <2>1. TypeOK' /\ LoopDetected'
    BY Zenon DEF LoopDetected
  <2>2. OldDataIntact' /\ FormatInv'
    BY Zenon DEF OldDataIntact, FormatInv
  <2>3. OneAuthority' /\ OldClientInv'
    BY DEF OneAuthority, OldClientInv, NoEntry
  <2>4. ResumesLastState' /\ UpdateInv'
    BY UpdateShape, Zenon DEF ResumesLastState, UpdateInv
  <2>5. LoadInv'
    BY Zenon DEF LoadInv, Loaded
  <2>6. stateData' # NoEntry => ActiveCount' = ActiveCount
    BY <2>0, UpdateShape, Zenon DEF ActiveCount, Loaded, CountOf
  <2>7. CountInv'
    BY <2>6, Zenon DEF CountInv
  <2> QED BY <2>1, <2>2, <2>3, <2>4, <2>5, <2>7, Zenon

<1> SUFFICES ASSUME Inv, [Next]_vars PROVE Inv'
  OBVIOUS
<1>1. CASE UNCHANGED vars
  <2> USE <1>1 DEF vars, Inv
  <2>1. TypeOK' /\ OldDataIntact' /\ LoopDetected'
    BY ZenonT(40) DEF TypeOK, OldDataIntact, LoopDetected, ActiveCount, CountOf
  <2>2. OneAuthority' /\ FormatInv' /\ ResumesLastState'
    BY Zenon DEF OneAuthority, FormatInv, ResumesLastState
  <2>3. UpdateInv' /\ OldClientInv' /\ LoadInv' /\ CountInv'
    BY Zenon DEF OldClientInv, UpdateInv, LoadInv, Loaded, CountInv, ActiveCount, CountOf
  <2> QED BY <2>1, <2>2, <2>3, Zenon
<1>2. ASSUME NEW u \in UpdateIDs, NEW n \in Names, OldStart(u, n) \/ Start(u, n) PROVE Inv'
  BY <1>2, <1>OldStartInv, <1>StartInv, Zenon
<1>3. ASSUME NEW n \in Names, OldStore(n) \/ StoreStateData(n) \/ StoreCommit(n) PROVE Inv'
  BY <1>3, <1>OldStoreInv, <1>StoreStateDataInv, <1>StoreCommitInv, Zenon
<1>4. CASE OldFinish \/ BootNew \/ FallBack \/ Restart
  BY <1>4, <1>OldFinishInv, <1>BootNewInv, <1>FallBackInv, <1>RestartInv, Zenon
<1>5. CASE LoadStateData \/ CommitUpdate \/ RemoveStateData
  BY <1>5, <1>LoadNothingInv, <1>LoadStateDataInv, <1>CommitUpdateInv, <1>RemoveStateDataInv, Zenon
<1> QED BY <1>1, <1>2, <1>3, <1>4, <1>5, Zenon DEF Next

\* The invariant holds in every state of every behaviour.
LEMMA SpecInv == Spec => []Inv
BY InitInv, NextInv, PTL DEF Spec

\* The entries of the database are always well-formed (StoreStateData,
\* LoadStateData).
THEOREM TypeCorrect == Spec => []TypeOK
BY SpecInv, PTL DEF Inv

\* A new client that is neither committed nor has given the update up never
\* touches what the old client left in the database (the keys of
\* StoreStateDataAndTransaction), whatever was left there before.
THEOREM OldDataIsKept == Spec => []OldDataIntact
BY SpecInv, PTL DEF Inv

\* A restarted client goes on with the update recorded last, and from its
\* state unless that update was attempted before (the choice of LoadStateData
\* between the two entries), also when deployments begin over entries that
\* were not removed and under IDs that were used before.
THEOREM RestartResumes == Spec => []ResumesLastState
BY SpecInv, PTL DEF Inv

\* A client that stores and restarts in an endless loop is told so within the
\* maximum number of stores.
THEOREM LoopsAreDetected == Spec => []LoopDetected
BY SpecInv, PTL DEF Inv

\* There are never two entries in the new format.
THEOREM OneEntryCounts == Spec => []OneAuthority
BY SpecInv, PTL DEF Inv
==============================================================================
