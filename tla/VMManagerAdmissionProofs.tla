---------------------- MODULE VMManagerAdmissionProofs ----------------------
(***************************************************************************)
(* Proofs about the capacity the manager's machines use, for any number of *)
(* ids and generations and any limits.  What resourceUsageLocked adds up   *)
(* is a sum over the ids; a step changes what one id counts for, so the    *)
(* sum changes by as much (UseChange), and the limits follow from what     *)
(* checkCapacityLocked admits.                                             *)
(***************************************************************************)
EXTENDS VMManagerProofs, FiniteSetTheorems

-----------------------------------------------------------------------------
(* Sums over a finite set, by induction over its subsets.                  *)

\* Induction over the naturals, for a set of them.
LEMMA SetInduction ==
    ASSUME NEW P, 0 \in P, \A n \in Nat : n \in P => n + 1 \in P
    PROVE  Nat \subseteq P
<1> DEFINE T == Nat \ P
<1>1. SUFFICES ASSUME T # {} PROVE FALSE
    OBVIOUS
<1>2. PICK x \in T : \A y \in T : ~(<<y, x>> \in OpToRel(<, Nat))
    <2>1. T \subseteq Nat
        OBVIOUS
    <2> HIDE DEF T
    <2> QED BY <1>1, <2>1, NatLessThanWellFounded, WFMin, Zenon
<1>3. \A y \in T : ~(y < x)
    BY <1>2, Zenon DEF OpToRel
<1>4. x # 0 /\ x - 1 \in Nat
    OBVIOUS
<1>5. x - 1 \notin T
    BY <1>3, <1>4
<1> QED BY <1>4, <1>5

\* The element that a sum takes first.
First(s) == CHOOSE x \in s : TRUE

\* sum gives what f adds up to on each of the sets D.
Adds(sum, f, D) ==
    \A s \in D : sum[s] = IF s = {} THEN 0 ELSE f[First(s)] + sum[s \ {First(s)}]

\* Taking that element away leaves a smaller set.
LEMMA Smaller ==
    ASSUME NEW S, IsFiniteSet(S), NEW s \in SUBSET S
    PROVE  /\ Cardinality(s) \in Nat
           /\ Cardinality(s) = 0 <=> s = {}
           /\ s # {} => /\ First(s) \in s /\ s \ {First(s)} \in SUBSET S
                        /\ Cardinality(s \ {First(s)}) = Cardinality(s) - 1
<1>1. IsFiniteSet(s)
    BY FS_Subset
<1>2. Cardinality(s) \in Nat /\ (Cardinality(s) = 0 <=> s = {})
    BY <1>1, FS_CardinalityType, FS_EmptySet
<1>3. ASSUME s # {} PROVE First(s) \in s
    BY <1>3 DEF First
<1>4. ASSUME s # {} PROVE Cardinality(s \ {First(s)}) = Cardinality(s) - 1
    BY <1>1, <1>3, <1>4, FS_RemoveElement
<1> QED BY <1>2, <1>3, <1>4

\* Induction over the subsets of a finite set, in the order a sum takes the
\* elements.
LEMMA SubsetInduction ==
    ASSUME NEW S, IsFiniteSet(S), NEW P, {} \in P,
           \A s \in SUBSET S : s # {} /\ s \ {First(s)} \in P => s \in P
    PROVE  SUBSET S \subseteq P
<1> DEFINE Q == {n \in Nat : \A s \in SUBSET S : Cardinality(s) = n => s \in P}
<1>1. 0 \in Q
    BY Smaller, Zenon
<1>2. ASSUME NEW n \in Nat, n \in Q PROVE n + 1 \in Q
    <2> SUFFICES ASSUME NEW s \in SUBSET S, Cardinality(s) = n + 1 PROVE s \in P
        OBVIOUS
    <2>0. s # {}
        BY Smaller
    <2>1. s # {} /\ s \ {First(s)} \in SUBSET S /\ Cardinality(s \ {First(s)}) = n
        BY <2>0, Smaller
    <2>2. s \ {First(s)} \in P
        BY <1>2, <2>1
    <2> QED BY <2>1, <2>2
<1> HIDE DEF Q
<1>3. Nat \subseteq Q
    BY <1>1, <1>2, SetInduction
<1> QED BY <1>3, Smaller, Zenon DEF Q

\* There is a function that adds up f over every subset, built for one more
\* element at a time.
LEMMA SumExists ==
    ASSUME NEW S, IsFiniteSet(S), NEW f \in [S -> Int]
    PROVE  \E sum \in [SUBSET S -> Int] : Adds(sum, f, SUBSET S)
<1> DEFINE Upto(n) == {s \in SUBSET S : Cardinality(s) <= n}
           P == {n \in Nat : \E sum \in [Upto(n) -> Int] : Adds(sum, f, Upto(n))}
<1>0. \A s \in SUBSET S : Cardinality(s) \in Nat /\ (Cardinality(s) = 0 <=> s = {})
    BY Smaller, Zenon
<1>1. 0 \in P
    <2> DEFINE zero == [s \in Upto(0) |-> 0]
    <2>1. \A s \in Upto(0) : s = {}
        BY <1>0
    <2>2. zero \in [Upto(0) -> Int] /\ Adds(zero, f, Upto(0))
        BY <2>1 DEF Adds
    <2> QED BY <2>2
<1>2. ASSUME NEW n \in Nat, n \in P PROVE n + 1 \in P
    <2>1. PICK sum \in [Upto(n) -> Int] : Adds(sum, f, Upto(n))
        BY <1>2
    <2> DEFINE more == [s \in Upto(n + 1) |-> IF s = {} THEN 0 ELSE f[First(s)] + sum[s \ {First(s)}]]
    <2>2. ASSUME NEW s \in Upto(n + 1), s # {}
          PROVE  First(s) \in S /\ s \ {First(s)} \in Upto(n)
        BY <1>0, <2>2, Smaller
    <2>3. \A s \in Upto(n) : s \in Upto(n + 1)
        BY <1>0
    <2> HIDE DEF Upto
    <2>4. more \in [Upto(n + 1) -> Int]
        BY <2>2
    <2>5. \A s \in Upto(n) : more[s] = sum[s]
        BY <2>1, <2>3 DEF Adds
    <2>6. Adds(more, f, Upto(n + 1))
        BY <2>2, <2>3, <2>5, Zenon DEF Adds
    <2> HIDE DEF more
    <2> QED BY <2>4, <2>6
<1> HIDE DEF P
<1>3. Nat \subseteq P
    BY <1>1, <1>2, SetInduction
<1>4. Cardinality(S) \in P
    BY <1>3, FS_CardinalityType
<1>5. Upto(Cardinality(S)) = SUBSET S
    <2>1. \A s \in SUBSET S : Cardinality(s) <= Cardinality(S)
        BY FS_Subset
    <2> QED BY <2>1
<1> QED BY <1>4, <1>5 DEF P

\* The sum is what its recursive function says.
LEMMA SumIs ==
    ASSUME NEW S, IsFiniteSet(S), NEW f \in [S -> Int]
    PROVE  \E sum \in [SUBSET S -> Int] : Adds(sum, f, SUBSET S) /\ SumFunction(f) = sum[S]
<1> DEFINE iter == CHOOSE iter : iter = [s \in SUBSET S |->
                        IF s = {} THEN 0 ELSE f[First(s)] + iter[s \ {First(s)}]]
<1>1. PICK sum \in [SUBSET S -> Int] : Adds(sum, f, SUBSET S)
    BY SumExists, Zenon
<1>2. sum = [s \in SUBSET S |-> IF s = {} THEN 0 ELSE f[First(s)] + sum[s \ {First(s)}]]
    BY <1>1 DEF Adds
<1>3. iter = [s \in SUBSET S |-> IF s = {} THEN 0 ELSE f[First(s)] + iter[s \ {First(s)}]]
    BY <1>2, Zenon
<1>4. SumFunction(f) = iter[S]
    BY DEF SumFunction, SumFunctionOnSet, FoldFunctionOnSet, MapThenFoldSet, First
<1> HIDE DEF iter
<1>5. \A s \in SUBSET S : iter[s] = IF s = {} THEN 0 ELSE f[First(s)] + iter[s \ {First(s)}]
    BY <1>3
<1> DEFINE P == {s \in SUBSET S : iter[s] \in Int}
<1>6. SUBSET S \subseteq P
    <2>1. {} \in P
        <3>1. {} \in SUBSET S
            OBVIOUS
        <3>2. iter[{}] = 0
            BY <1>5, <3>1, Zenon
        <3> QED BY <3>1, <3>2
    <2>2. ASSUME NEW s \in SUBSET S, s # {}, s \ {First(s)} \in P PROVE s \in P
        <3>1. First(s) \in S
            BY <2>2, Smaller, Zenon
        <3>2. iter[s] = f[First(s)] + iter[s \ {First(s)}]
            BY <1>5, <2>2
        <3> QED BY <2>2, <3>1, <3>2
    <2> HIDE DEF P
    <2> QED BY <2>1, <2>2, SubsetInduction
<1>7. iter = [s \in SUBSET S |-> iter[s]]
    BY <1>3
<1>8. iter \in [SUBSET S -> Int]
    BY <1>6, <1>7
<1>9. Adds(iter, f, SUBSET S)
    BY <1>5 DEF Adds
<1> QED BY <1>4, <1>8, <1>9

\* When one element of f changes, the sum changes by as much.
LEMMA SumOne ==
    ASSUME NEW S, IsFiniteSet(S), NEW f \in [S -> Nat], NEW g \in [S -> Nat], NEW i \in S,
           \A j \in S : j # i => g[j] = f[j]
    PROVE  /\ SumFunction(f) \in Int /\ SumFunction(g) \in Int
           /\ SumFunction(g) + f[i] = SumFunction(f) + g[i]
<1>0. f \in [S -> Int] /\ g \in [S -> Int]
    OBVIOUS
<1>1. PICK F \in [SUBSET S -> Int] : Adds(F, f, SUBSET S) /\ SumFunction(f) = F[S]
    BY <1>0, SumIs, Zenon
<1>2. PICK G \in [SUBSET S -> Int] : Adds(G, g, SUBSET S) /\ SumFunction(g) = G[S]
    BY <1>0, SumIs
<1> DEFINE P == {s \in SUBSET S : G[s] = IF i \in s THEN F[s] + g[i] - f[i] ELSE F[s]}
<1>3. {} \in P
    BY <1>1, <1>2, Zenon DEF Adds
<1>4. ASSUME NEW s \in SUBSET S, s # {}, s \ {First(s)} \in P PROVE s \in P
    <2> DEFINE x == First(s)
               t == s \ {x}
    <2>1. x \in s /\ x \in S /\ t \in SUBSET S
        BY <1>4, Smaller
    <2>2. F[s] = f[x] + F[t] /\ G[s] = g[x] + G[t]
        BY <1>1, <1>2, <1>4 DEF Adds
    <2>3. G[t] = IF i \in t THEN F[t] + g[i] - f[i] ELSE F[t]
        BY <1>4
    <2>4. i \in t <=> i \in s /\ i # x
        OBVIOUS
    <2>5. F[t] \in Int /\ G[t] \in Int /\ f[x] \in Nat /\ g[x] \in Nat /\ f[i] \in Nat /\ g[i] \in Nat
        BY <2>1
    <2> HIDE DEF x, t
    <2>6. CASE i = x
        BY <2>1, <2>2, <2>3, <2>4, <2>5, <2>6
    <2>7. CASE i # x
        <3>1. g[x] = f[x]
            BY <2>1, <2>7
        <3> QED BY <2>1, <2>2, <2>3, <2>4, <2>5, <2>7, <3>1
    <2> QED BY <2>6, <2>7
<1> HIDE DEF P
<1>5. S \in P
    BY <1>3, <1>4, SubsetInduction
<1>6. G[S] = F[S] + g[i] - f[i] /\ F[S] \in Int /\ G[S] \in Int
    BY <1>5 DEF P
<1> QED BY <1>1, <1>2, <1>6

-----------------------------------------------------------------------------
(* Admission.                                                              *)

\* What resourceUsageLocked adds up for an id.
Usage == [memoryMB : Nat, cpus : Nat]

UseKnown == \A i \in Ids : MachineUse(i) \in Usage /\ ReservedUse(i) \in Usage

\* The manager knows what each of its ids counts for.
LEMMA UseType == TypeOK /\ MachineInv /\ DemandInv => UseKnown
<1> SUFFICES ASSUME TypeOK, MachineInv, DemandInv, NEW i \in Ids
             PROVE  MachineUse(i) \in Usage /\ ReservedUse(i) \in Usage
    BY DEF UseKnown
<1>1. Demands \subseteq Usage /\ Nothing \in Usage
    BY ConstantsAssumption DEF Usage, Nothing
<1>2. running[i] # None => demand[running[i]] \in Demands
    BY DEF TypeOK, MachineInv, DemandInv
<1>3. reservations[i] # None => reservations[i] \in Demands
    BY DEF TypeOK
<1> QED BY <1>1, <1>2, <1>3 DEF MachineUse, ReservedUse

\* Two sums of which one index changes.
LEMMA TwoSums ==
    ASSUME NEW S, IsFiniteSet(S), NEW i \in S,
           NEW f \in [S -> Nat], NEW g \in [S -> Nat], NEW f2 \in [S -> Nat], NEW g2 \in [S -> Nat],
           \A j \in S : j # i => f2[j] = f[j] /\ g2[j] = g[j]
    PROVE  /\ SumFunction(f) + SumFunction(g) \in Int /\ SumFunction(f2) + SumFunction(g2) \in Int
           /\ (SumFunction(f2) + SumFunction(g2)) + (f[i] + g[i])
                = (SumFunction(f) + SumFunction(g)) + (f2[i] + g2[i])
<1> DEFINE a == SumFunction(f)
           b == SumFunction(g)
           c == SumFunction(f2)
           d == SumFunction(g2)
<1>1. a \in Int /\ c \in Int /\ c + f[i] = a + f2[i]
    BY SumOne
<1>2. b \in Int /\ d \in Int /\ d + g[i] = b + g2[i]
    BY SumOne
<1>3. f[i] \in Nat /\ g[i] \in Nat /\ f2[i] \in Nat /\ g2[i] \in Nat
    OBVIOUS
<1> HIDE DEF a, b, c, d
<1>4. a + b \in Int /\ c + d \in Int /\ (c + d) + (f[i] + g[i]) = (a + b) + (f2[i] + g2[i])
    BY <1>1, <1>2, <1>3
<1> QED BY <1>4 DEF a, b, c, d

\* When one id changes, the sums change by what it counts for.
LEMMA UseChange ==
    ASSUME NEW i \in Ids,
           \A j \in Ids : MachineUse(j) \in Usage /\ ReservedUse(j) \in Usage,
           \A j \in Ids : MachineUse(j)' \in Usage /\ ReservedUse(j)' \in Usage,
           \A j \in Ids : j # i => MachineUse(j)' = MachineUse(j) /\ ReservedUse(j)' = ReservedUse(j)
    PROVE  /\ UsedMemory \in Int /\ UsedMemory' \in Int /\ UsedCPUs \in Int /\ UsedCPUs' \in Int
           /\ UsedMemory' + (MachineUse(i).memoryMB + ReservedUse(i).memoryMB)
                = UsedMemory + (MachineUse(i)'.memoryMB + ReservedUse(i)'.memoryMB)
           /\ UsedCPUs' + (MachineUse(i).cpus + ReservedUse(i).cpus)
                = UsedCPUs + (MachineUse(i)'.cpus + ReservedUse(i)'.cpus)
<1>0. IsFiniteSet(Ids)
    BY ConstantsAssumption
<1>1. \A u \in Usage : u.memoryMB \in Nat /\ u.cpus \in Nat
    BY DEF Usage
<1>2. /\ UsedMemory \in Int /\ UsedMemory' \in Int
      /\ UsedMemory' + (MachineUse(i).memoryMB + ReservedUse(i).memoryMB)
            = UsedMemory + (MachineUse(i)'.memoryMB + ReservedUse(i)'.memoryMB)
    <2> DEFINE f == [j \in Ids |-> MachineUse(j).memoryMB]
               g == [j \in Ids |-> ReservedUse(j).memoryMB]
               f2 == [j \in Ids |-> MachineUse(j)'.memoryMB]
               g2 == [j \in Ids |-> ReservedUse(j)'.memoryMB]
    <2>1. f \in [Ids -> Nat] /\ g \in [Ids -> Nat] /\ f2 \in [Ids -> Nat] /\ g2 \in [Ids -> Nat]
        BY <1>1
    <2>2. \A j \in Ids : j # i => f2[j] = f[j] /\ g2[j] = g[j]
        OBVIOUS
    <2>3. /\ f[i] = MachineUse(i).memoryMB /\ g[i] = ReservedUse(i).memoryMB
          /\ f2[i] = MachineUse(i)'.memoryMB /\ g2[i] = ReservedUse(i)'.memoryMB
        OBVIOUS
    <2>4. UsedMemory = SumFunction(f) + SumFunction(g) /\ UsedMemory' = SumFunction(f2) + SumFunction(g2)
        BY DEF UsedMemory
    <2> HIDE DEF f, g, f2, g2
    <2>5. /\ SumFunction(f) + SumFunction(g) \in Int /\ SumFunction(f2) + SumFunction(g2) \in Int
          /\ (SumFunction(f2) + SumFunction(g2)) + (f[i] + g[i])
                = (SumFunction(f) + SumFunction(g)) + (f2[i] + g2[i])
        BY <1>0, <2>1, <2>2, TwoSums
    <2> QED BY <2>3, <2>4, <2>5
<1>3. /\ UsedCPUs \in Int /\ UsedCPUs' \in Int
      /\ UsedCPUs' + (MachineUse(i).cpus + ReservedUse(i).cpus)
            = UsedCPUs + (MachineUse(i)'.cpus + ReservedUse(i)'.cpus)
    <2> DEFINE f == [j \in Ids |-> MachineUse(j).cpus]
               g == [j \in Ids |-> ReservedUse(j).cpus]
               f2 == [j \in Ids |-> MachineUse(j)'.cpus]
               g2 == [j \in Ids |-> ReservedUse(j)'.cpus]
    <2>1. f \in [Ids -> Nat] /\ g \in [Ids -> Nat] /\ f2 \in [Ids -> Nat] /\ g2 \in [Ids -> Nat]
        BY <1>1
    <2>2. \A j \in Ids : j # i => f2[j] = f[j] /\ g2[j] = g[j]
        OBVIOUS
    <2>3. /\ f[i] = MachineUse(i).cpus /\ g[i] = ReservedUse(i).cpus
          /\ f2[i] = MachineUse(i)'.cpus /\ g2[i] = ReservedUse(i)'.cpus
        OBVIOUS
    <2>4. UsedCPUs = SumFunction(f) + SumFunction(g) /\ UsedCPUs' = SumFunction(f2) + SumFunction(g2)
        BY DEF UsedCPUs
    <2> HIDE DEF f, g, f2, g2
    <2>5. /\ SumFunction(f) + SumFunction(g) \in Int /\ SumFunction(f2) + SumFunction(g2) \in Int
          /\ (SumFunction(f2) + SumFunction(g2)) + (f[i] + g[i])
                = (SumFunction(f) + SumFunction(g)) + (f2[i] + g2[i])
        BY <1>0, <2>1, <2>2, TwoSums
    <2> QED BY <2>3, <2>4, <2>5
<1> QED BY <1>2, <1>3

\* A set of which one element changes.
LEMMA CountOne ==
    ASSUME NEW A, IsFiniteSet(A), NEW S \in SUBSET A, NEW T \in SUBSET A, NEW i, S \ {i} = T \ {i}
    PROVE  /\ Cardinality(S) \in Nat /\ Cardinality(T) \in Nat
           /\ Cardinality(T) + (IF i \in S THEN 1 ELSE 0) = Cardinality(S) + (IF i \in T THEN 1 ELSE 0)
<1>1. IsFiniteSet(S) /\ IsFiniteSet(T)
    BY FS_Subset
<1>2. Cardinality(S) \in Nat /\ Cardinality(T) \in Nat
    BY <1>1, FS_CardinalityType
<1> DEFINE c == Cardinality(S \ {i})
<1>3. c = IF i \in S THEN Cardinality(S) - 1 ELSE Cardinality(S)
    BY <1>1, FS_RemoveElement
<1>4. c = IF i \in T THEN Cardinality(T) - 1 ELSE Cardinality(T)
    BY <1>1, FS_RemoveElement
<1> HIDE DEF c
<1> QED BY <1>2, <1>3, <1>4

\* When one id changes, so does the number of machines and starts.
LEMMA CountChange ==
    ASSUME NEW i \in Ids, \A j \in Ids : j # i => running'[j] = running[j] /\ starting'[j] = starting[j]
    PROVE  /\ Cardinality(Running) \in Nat /\ Cardinality(Running)' \in Nat
           /\ Cardinality(Starting) \in Nat /\ Cardinality(Starting)' \in Nat
           /\ Cardinality(Running)' + (IF running[i] = None THEN 0 ELSE 1)
                = Cardinality(Running) + (IF running'[i] = None THEN 0 ELSE 1)
           /\ Cardinality(Starting)' + (IF starting[i] = None THEN 0 ELSE 1)
                = Cardinality(Starting) + (IF starting'[i] = None THEN 0 ELSE 1)
<1>1. IsFiniteSet(Ids)
    BY ConstantsAssumption
<1>2. /\ Running \in SUBSET Ids /\ Running' \in SUBSET Ids /\ Running \ {i} = Running' \ {i}
      /\ (i \in Running <=> running[i] # None) /\ (i \in Running' <=> running'[i] # None)
    BY DEF Running
<1>3. /\ Starting \in SUBSET Ids /\ Starting' \in SUBSET Ids /\ Starting \ {i} = Starting' \ {i}
      /\ (i \in Starting <=> starting[i] # None) /\ (i \in Starting' <=> starting'[i] # None)
    BY DEF Starting
<1>4. /\ Cardinality(Running) \in Nat /\ Cardinality(Running') \in Nat
      /\ Cardinality(Running') + (IF i \in Running THEN 1 ELSE 0)
            = Cardinality(Running) + (IF i \in Running' THEN 1 ELSE 0)
    BY <1>1, <1>2, CountOne
<1>5. /\ Cardinality(Starting) \in Nat /\ Cardinality(Starting') \in Nat
      /\ Cardinality(Starting') + (IF i \in Starting THEN 1 ELSE 0)
            = Cardinality(Starting) + (IF i \in Starting' THEN 1 ELSE 0)
    BY <1>1, <1>3, CountOne
<1> QED BY <1>2, <1>3, <1>4, <1>5

\* The same of the state after a step.
LEMMA UseTypeNext == (TypeOK /\ MachineInv /\ DemandInv => UseKnown)'
BY UseType, PTL

\* A start keeps what it asked for.
LEMMA NextDemand == TypeOK /\ DemandInv /\ [Next]_vars => DemandInv'
<1> SUFFICES ASSUME TypeOK, DemandInv, [Next]_vars PROVE DemandInv'
    OBVIOUS
<1> USE DEF registry, shutdown, start
<1>1. ASSUME NEW g \in Gens, NEW i \in Ids, NEW d \in Demands, StartInstanceStream(g, i, d)
      PROVE  DemandInv'
    <2>1. phase' = [phase EXCEPT ![g] = "booting"] /\ demand' = [demand EXCEPT ![g] = d]
        BY <1>1 DEF StartInstanceStream
    <2> QED BY <2>1 DEF TypeOK, DemandInv
<1>2. ASSUME NEW g \in Gens, NEW p, phase' = [phase EXCEPT ![g] = p], phase[g] # "unused",
             demand' = demand
      PROVE  DemandInv'
    BY <1>2 DEF TypeOK, DemandInv
<1>3. CASE UNCHANGED <<phase, demand>>
    BY <1>3 DEF DemandInv
<1>4. ASSUME NEW g \in Gens, HostStarted(g) \/ addInstanceShares(g) \/ startVNCServer(g)
                             \/ CloseLateStart(g)
      PROVE  DemandInv'
    BY <1>2, <1>4 DEF HostStarted, addInstanceShares, startVNCServer, Step, CloseLateStart, CloseLate
<1>5. ASSUME NEW g \in Gens, HostFailed(g) \/ CloseFailedStart(g) \/ Publish(g) PROVE DemandInv'
    BY <1>2, <1>5, Zenon
       DEF HostFailed, CloseFailedStart, finishStart, Publish, PublishUnless, Abandon, Register
<1>6. ASSUME NEW g \in Gens, GuestExit(g) \/ Watch(g) \/ StopClose(g) \/ StopFinish(g) PROVE DemandInv'
    BY <1>3, <1>6, Zenon
       DEF GuestExit, Watch, WatchUnless, StopClose, StopFinish, StopSucceeds, StopFails
<1>7. ASSUME NEW i \in Ids, ShutdownInstance(i) PROVE DemandInv'
    BY <1>3, <1>7, Zenon DEF ShutdownInstance
<1>8. ASSUME NEW c \in Calls, ShutdownAll(c) \/ ShutdownAllReturn(c) \/ ShutdownAllExpire(c)
      PROVE  DemandInv'
    BY <1>3, <1>8, Zenon DEF ShutdownAll, ShutdownAllReturn, ShutdownAllExpire, Return
<1>9. CASE UNCHANGED vars
    BY <1>3, <1>9 DEF vars
<1> QED BY <1>1, <1>4, <1>5, <1>6, <1>7, <1>8, <1>9, StepCases

\* Every id but one counts for what it did.
OnlyAt(i) ==
    \A j \in Ids : j # i =>
        /\ running'[j] = running[j] /\ starting'[j] = starting[j]
        /\ MachineUse(j)' = MachineUse(j) /\ ReservedUse(j)' = ReservedUse(j)

\* The reservations are those of the starts.
Reserved == \A i \in Ids : reservations[i] = IF starting[i] = None THEN None ELSE demand[starting[i]]

\* A step in which one id comes to count for no more stays within the limits.
LEMMA LimitsKept ==
    ASSUME AdmissionRespected, Reserved', NEW i \in Ids, OnlyAt(i),
           \A j \in Ids : MachineUse(j) \in Usage /\ ReservedUse(j) \in Usage,
           \A j \in Ids : MachineUse(j)' \in Usage /\ ReservedUse(j)' \in Usage,
           MachineUse(i)'.memoryMB + ReservedUse(i)'.memoryMB
               <= MachineUse(i).memoryMB + ReservedUse(i).memoryMB,
           MachineUse(i)'.cpus + ReservedUse(i)'.cpus <= MachineUse(i).cpus + ReservedUse(i).cpus,
           (IF running'[i] = None THEN 0 ELSE 1) + (IF starting'[i] = None THEN 0 ELSE 1)
                <= (IF running[i] = None THEN 0 ELSE 1) + (IF starting[i] = None THEN 0 ELSE 1)
    PROVE  AdmissionRespected'
<1>1. /\ UsedMemory \in Int /\ UsedMemory' \in Int /\ UsedCPUs \in Int /\ UsedCPUs' \in Int
      /\ UsedMemory' + (MachineUse(i).memoryMB + ReservedUse(i).memoryMB)
            = UsedMemory + (MachineUse(i)'.memoryMB + ReservedUse(i)'.memoryMB)
      /\ UsedCPUs' + (MachineUse(i).cpus + ReservedUse(i).cpus)
            = UsedCPUs + (MachineUse(i)'.cpus + ReservedUse(i)'.cpus)
    BY UseChange DEF OnlyAt
<1>2. \A u \in Usage : u.memoryMB \in Nat /\ u.cpus \in Nat
    BY DEF Usage
<1>3. UsedMemory' <= UsedMemory /\ UsedCPUs' <= UsedCPUs
    BY <1>1, <1>2
<1>4. Cardinality(Running)' + Cardinality(Starting)' <= Cardinality(Running) + Cardinality(Starting)
      /\ Cardinality(Running) + Cardinality(Starting) \in Nat
      /\ Cardinality(Running)' + Cardinality(Starting)' \in Nat
    BY CountChange DEF OnlyAt
<1>5. MaxVMs \in Nat /\ MaxMemoryMB \in Nat /\ MaxCPUs \in Nat
    BY ConstantsAssumption
<1>6. MaxVMs > 0 => Cardinality(Running)' + Cardinality(Starting)' <= MaxVMs
    BY <1>4, <1>5 DEF AdmissionRespected
<1>7. (MaxMemoryMB > 0 => UsedMemory' <= MaxMemoryMB) /\ (MaxCPUs > 0 => UsedCPUs' <= MaxCPUs)
    BY <1>1, <1>3, <1>5 DEF AdmissionRespected
<1> QED BY <1>6, <1>7 DEF AdmissionRespected, Reserved

\* A start is admitted only if its demand fits what is left.
LEMMA StartFits ==
    ASSUME AdmissionRespected, Reserved', NEW i \in Ids, OnlyAt(i), NEW d \in Demands,
           checkCapacityLocked(d),
           \A j \in Ids : MachineUse(j) \in Usage /\ ReservedUse(j) \in Usage,
           \A j \in Ids : MachineUse(j)' \in Usage /\ ReservedUse(j)' \in Usage,
           MachineUse(i) = Nothing, ReservedUse(i) = Nothing,
           MachineUse(i)' = Nothing, ReservedUse(i)' \in {Nothing, d},
           running[i] = None, starting[i] = None, running'[i] = None
    PROVE  AdmissionRespected'
<1>0. d.memoryMB \in Nat /\ d.cpus \in Nat /\ MaxVMs \in Nat /\ MaxMemoryMB \in Nat /\ MaxCPUs \in Nat
    BY ConstantsAssumption
<1>1. /\ UsedMemory \in Int /\ UsedMemory' \in Int /\ UsedCPUs \in Int /\ UsedCPUs' \in Int
      /\ UsedMemory' + (MachineUse(i).memoryMB + ReservedUse(i).memoryMB)
            = UsedMemory + (MachineUse(i)'.memoryMB + ReservedUse(i)'.memoryMB)
      /\ UsedCPUs' + (MachineUse(i).cpus + ReservedUse(i).cpus)
            = UsedCPUs + (MachineUse(i)'.cpus + ReservedUse(i)'.cpus)
    BY UseChange DEF OnlyAt
<1>2. Nothing.memoryMB = 0 /\ Nothing.cpus = 0
    BY DEF Nothing
<1>3. UsedMemory' <= UsedMemory + d.memoryMB /\ UsedCPUs' <= UsedCPUs + d.cpus
    BY <1>0, <1>1, <1>2
<1>4. /\ Cardinality(Running)' + Cardinality(Starting)'
            <= Cardinality(Running) + Cardinality(Starting) + 1
      /\ Cardinality(Running) + Cardinality(Starting) \in Nat
      /\ Cardinality(Running)' + Cardinality(Starting)' \in Nat
    BY CountChange DEF OnlyAt
<1>5. MaxVMs > 0 => Cardinality(Running)' + Cardinality(Starting)' <= MaxVMs
    BY <1>0, <1>4 DEF checkCapacityLocked
<1>6. MaxMemoryMB > 0 => UsedMemory' <= MaxMemoryMB
    BY <1>0, <1>1, <1>3 DEF checkCapacityLocked
<1>7. MaxCPUs > 0 => UsedCPUs' <= MaxCPUs
    BY <1>0, <1>1, <1>3 DEF checkCapacityLocked
<1> QED BY <1>5, <1>6, <1>7 DEF AdmissionRespected, Reserved

\* Every step keeps the machines admitted within the limits.
LEMMA AdmissionStep ==
    /\ TypeOK /\ StartInv /\ MachineInv /\ DemandInv /\ AdmissionRespected
    /\ TypeOK' /\ MachineInv' /\ DemandInv' /\ [Next]_vars
    => AdmissionRespected'
<1> SUFFICES ASSUME TypeOK, StartInv, MachineInv, DemandInv, AdmissionRespected,
                    TypeOK', MachineInv', DemandInv', [Next]_vars
             PROVE  AdmissionRespected'
    OBVIOUS
<1>a. \A j \in Ids : MachineUse(j) \in Usage /\ ReservedUse(j) \in Usage
    BY UseType DEF UseKnown
<1>b. \A j \in Ids : MachineUse(j)' \in Usage /\ ReservedUse(j)' \in Usage
    BY UseTypeNext DEF UseKnown
<1>c. \A u \in Usage : u.memoryMB \in Nat /\ u.cpus \in Nat
    BY DEF Usage
<1>d. Nothing.memoryMB = 0 /\ Nothing.cpus = 0
    BY DEF Nothing
<1>t. /\ running \in [Ids -> Gens \cup {None}] /\ starting \in [Ids -> Gens \cup {None}]
      /\ reservations \in [Ids -> Demands \cup {None}] /\ demand \in [Gens -> Demands \cup {None}]
    BY DEF TypeOK
<1>e. Reserved
    BY DEF AdmissionRespected, Reserved
<1>1. ASSUME NEW g \in Gens, NEW i \in Ids, NEW d \in Demands, StartInstanceStream(g, i, d)
      PROVE  AdmissionRespected'
    <2>1. /\ phase[g] = "unused" /\ running[i] = None /\ starting[i] = None /\ checkCapacityLocked(d)
          /\ reservations' = [reservations EXCEPT ![i] = d]
          /\ starting' = [starting EXCEPT ![i] = g]
          /\ demand' = [demand EXCEPT ![g] = d]
          /\ running' = running
        BY <1>1, Zenon DEF StartInstanceStream
    <2>2. \A j \in Ids : running[j] # g /\ starting[j] # g
        <3>1. \A j \in Ids : running[j] = g => phase[g] = "registered"
            BY NoneApart DEF MachineInv
        <3>2. \A j \in Ids : starting[j] = g => InFlight(g)
            BY NoneApart DEF StartInv
        <3> QED BY <2>1, <3>1, <3>2, Zenon DEF InFlight
    <2>3. Reserved'
        BY <2>1, <2>2, <1>e, NoneApart, <1>t DEF Reserved
    <2>4. \A j \in Ids : MachineUse(j)' = MachineUse(j)
        BY <2>1, <2>2, <1>t DEF MachineUse
    <2>5. \A j \in Ids : j # i => ReservedUse(j)' = ReservedUse(j)
        BY <2>1, <1>t DEF ReservedUse
    <2>6. OnlyAt(i)
        <3>1. \A j \in Ids : j # i => running'[j] = running[j] /\ starting'[j] = starting[j]
            BY <2>1, <1>t
        <3> QED BY <2>4, <2>5, <3>1, Zenon DEF OnlyAt
    <2>7. MachineUse(i) = Nothing /\ ReservedUse(i) = Nothing /\ MachineUse(i)' = Nothing
        BY <2>1, <2>4, <1>e DEF MachineUse, ReservedUse, Reserved
    <2>8. ReservedUse(i)' \in {Nothing, d}
        BY <2>1, <1>t DEF ReservedUse
    <2>9. running'[i] = None
        BY <2>1
    <2> QED BY <2>1, <2>3, <2>6, <2>7, <2>8, <2>9, <1>a, <1>b, StartFits
<1>2. ASSUME NEW g \in Gens, InFlight(g), ForgetStart(g), demand' = demand PROVE AdmissionRespected'
    <2>0. PICK i \in Ids : i = id[g]
        <3>1. phase[g] # "unused"
            BY <1>2 DEF InFlight
        <3> QED BY <3>1 DEF StartInv
    <2>1. starting[i] = g /\ running[i] = None
        BY <1>2, <2>0, NoneApart DEF StartInv
    <2>2. /\ starting' = [starting EXCEPT ![i] = None]
          /\ reservations' = [reservations EXCEPT ![i] = None]
          /\ running' = running /\ demand' = demand
        BY <1>2, <2>0, <2>1, <1>t DEF ForgetStart
    <2>3. Reserved'
        BY <2>1, <2>2, <1>e, <1>t DEF Reserved
    <2>4. \A j \in Ids : MachineUse(j)' = MachineUse(j)
        BY <2>2 DEF MachineUse
    <2>5. ReservedUse(i)' = Nothing /\ \A j \in Ids : j # i => ReservedUse(j)' = ReservedUse(j)
        BY <2>1, <2>2, <1>t DEF ReservedUse
    <2>6. OnlyAt(i)
        <3>1. \A j \in Ids : j # i => running'[j] = running[j] /\ starting'[j] = starting[j]
            BY <2>2, <1>t
        <3> QED BY <2>4, <2>5, <3>1, Zenon DEF OnlyAt
    <2>7. /\ MachineUse(i)'.memoryMB + ReservedUse(i)'.memoryMB
                 <= MachineUse(i).memoryMB + ReservedUse(i).memoryMB
          /\ MachineUse(i)'.cpus + ReservedUse(i)'.cpus <= MachineUse(i).cpus + ReservedUse(i).cpus
        <3>1. MachineUse(i) \in Usage /\ ReservedUse(i) \in Usage /\ MachineUse(i)' = MachineUse(i)
            BY <2>1, <2>4, <1>a
        <3> QED BY <3>1, <2>5, <1>c, <1>d
    <2>8. (IF running'[i] = None THEN 0 ELSE 1) + (IF starting'[i] = None THEN 0 ELSE 1)
            <= (IF running[i] = None THEN 0 ELSE 1) + (IF starting[i] = None THEN 0 ELSE 1)
        BY <2>1, <2>2, <1>t
    <2> QED BY <2>1, <2>3, <2>6, <2>7, <2>8, <1>a, <1>b, LimitsKept
<1>3. ASSUME NEW g \in Gens, InFlight(g), Register(g), demand' = demand PROVE AdmissionRespected'
    <2>0. PICK i \in Ids : i = id[g]
        BY <1>3 DEF StartInv, InFlight
    <2>1. starting[i] = g /\ running[i] = None
        BY <1>3, <2>0, NoneApart DEF StartInv
    <2>2. /\ starting' = [starting EXCEPT ![i] = None]
          /\ reservations' = [reservations EXCEPT ![i] = None]
          /\ running' = [running EXCEPT ![i] = g] /\ demand' = demand
        BY <1>3, <2>0 DEF Register
    <2>3. Reserved'
        BY <2>1, <2>2, <1>e, <1>t DEF Reserved
    <2>4. MachineUse(i) = Nothing /\ MachineUse(i)' = demand[g]
          /\ \A j \in Ids : j # i => MachineUse(j)' = MachineUse(j)
        BY <2>1, <2>2, NoneApart, <1>t DEF MachineUse
    <2>5. ReservedUse(i)' = Nothing /\ \A j \in Ids : j # i => ReservedUse(j)' = ReservedUse(j)
        BY <2>1, <2>2, <1>t DEF ReservedUse
    <2>6. OnlyAt(i)
        <3>1. \A j \in Ids : j # i => running'[j] = running[j] /\ starting'[j] = starting[j]
            BY <2>2, <1>t
        <3> QED BY <2>4, <2>5, <3>1, Zenon DEF OnlyAt
    <2>7. ReservedUse(i) = demand[g]
        BY <2>1, <1>e, NoneApart, ConstantsAssumption, <1>3
           DEF Reserved, ReservedUse, DemandInv, InFlight
    <2>8. /\ MachineUse(i)'.memoryMB + ReservedUse(i)'.memoryMB
                 <= MachineUse(i).memoryMB + ReservedUse(i).memoryMB
          /\ MachineUse(i)'.cpus + ReservedUse(i)'.cpus <= MachineUse(i).cpus + ReservedUse(i).cpus
        <3>1. demand[g] \in Usage
            BY <2>1, <2>7, <1>a
        <3>2. demand[g].memoryMB \in Nat /\ demand[g].cpus \in Nat
            BY <3>1, <1>c
        <3> QED BY <3>2, <2>4, <2>5, <2>7, <1>d
    <2>9. (IF running'[i] = None THEN 0 ELSE 1) + (IF starting'[i] = None THEN 0 ELSE 1)
            <= (IF running[i] = None THEN 0 ELSE 1) + (IF starting[i] = None THEN 0 ELSE 1)
        BY <2>1, <2>2, NoneApart, <1>t
    <2> QED BY <2>1, <2>3, <2>6, <2>8, <2>9, <1>a, <1>b, LimitsKept
<1>4. ASSUME NEW g \in Gens, phase[g] # "unused", Unregister(g), demand' = demand
      PROVE  AdmissionRespected'
    <2>1. PICK i \in Ids : i = id[g]
        BY <1>4 DEF StartInv
    <2>2. /\ running' = [running EXCEPT ![i] = IF @ = g THEN None ELSE @]
          /\ starting' = starting /\ reservations' = reservations /\ demand' = demand
        BY <1>4, <2>1 DEF Unregister
    <2>3. Reserved'
        BY <2>2, <1>e DEF Reserved
    <2>4. MachineUse(i)' \in {Nothing, MachineUse(i)}
          /\ \A j \in Ids : j # i => MachineUse(j)' = MachineUse(j)
        BY <2>1, <2>2, NoneApart, <1>t DEF MachineUse
    <2>5. \A j \in Ids : ReservedUse(j)' = ReservedUse(j)
        BY <2>2 DEF ReservedUse
    <2>6. OnlyAt(i)
        <3>1. \A j \in Ids : j # i => running'[j] = running[j] /\ starting'[j] = starting[j]
            BY <2>2, <1>t
        <3> QED BY <2>4, <2>5, <3>1, Zenon DEF OnlyAt
    <2>7. /\ MachineUse(i)'.memoryMB + ReservedUse(i)'.memoryMB
                 <= MachineUse(i).memoryMB + ReservedUse(i).memoryMB
          /\ MachineUse(i)'.cpus + ReservedUse(i)'.cpus <= MachineUse(i).cpus + ReservedUse(i).cpus
        <3>1. MachineUse(i) \in Usage /\ ReservedUse(i) \in Usage /\ ReservedUse(i)' = ReservedUse(i)
            BY <2>1, <2>5, <1>a
        <3> QED BY <3>1, <2>4, <1>c, <1>d
    <2>8. (IF running'[i] = None THEN 0 ELSE 1) + (IF starting'[i] = None THEN 0 ELSE 1)
            <= (IF running[i] = None THEN 0 ELSE 1) + (IF starting[i] = None THEN 0 ELSE 1)
        BY <2>1, <2>2, <1>t
    <2> QED BY <2>1, <2>3, <2>6, <2>7, <2>8, <1>a, <1>b, LimitsKept
<1>5. CASE UNCHANGED <<running, starting, reservations, demand>>
    BY <1>5 DEF AdmissionRespected, Running, Starting, UsedMemory, UsedCPUs, MachineUse, ReservedUse
<1>6. ASSUME NEW g \in Gens, HostStarted(g) \/ addInstanceShares(g) \/ startVNCServer(g)
                             \/ CloseLateStart(g)
      PROVE  AdmissionRespected'
    BY <1>5, <1>6, Zenon
       DEF HostStarted, addInstanceShares, startVNCServer, Step, CloseLateStart, CloseLate,
           registry, start
<1>7. ASSUME NEW g \in Gens, HostFailed(g) \/ CloseFailedStart(g) PROVE AdmissionRespected'
    <2>1. InFlight(g)
        BY <1>7 DEF HostFailed, CloseFailedStart, InFlight
    <2>2. ForgetStart(g) /\ demand' = demand
        BY <1>7, Zenon DEF HostFailed, CloseFailedStart, finishStart, registry, start
    <2> QED BY <2>1, <2>2, <1>2
<1>8. ASSUME NEW g \in Gens, Publish(g) PROVE AdmissionRespected'
    <2>1. InFlight(g)
        BY <1>8 DEF Publish, PublishUnless, InFlight
    <2>2. (ForgetStart(g) \/ Register(g)) /\ demand' = demand
        BY <1>8, Zenon DEF Publish, PublishUnless, Abandon
    <2> QED BY <2>1, <2>2, <1>2, <1>3
<1>9. ASSUME NEW g \in Gens, Watch(g) \/ StopFinish(g) PROVE AdmissionRespected'
    <2>1. phase[g] # "unused"
        BY <1>9 DEF Watch, WatchUnless, StopFinish, StopSucceeds, StopFails, MachineInv
    <2>2. demand' = demand /\ (Unregister(g) \/ UNCHANGED <<running, starting, reservations>>)
        BY <1>9, Zenon
           DEF Watch, WatchUnless, WatchRecords, StopFinish, StopSucceeds, StopFails, registry, start
    <2> QED BY <2>1, <2>2, <1>4, <1>5, Zenon
<1>10. ASSUME NEW g \in Gens, GuestExit(g) \/ StopClose(g) PROVE AdmissionRespected'
    BY <1>5, <1>10, Zenon DEF GuestExit, StopClose, registry, start
<1>11. ASSUME NEW i \in Ids, ShutdownInstance(i) PROVE AdmissionRespected'
    BY <1>5, <1>11, Zenon DEF ShutdownInstance, registry, start
<1>12. ASSUME NEW c \in Calls, ShutdownAll(c) \/ ShutdownAllReturn(c) \/ ShutdownAllExpire(c)
       PROVE  AdmissionRespected'
    BY <1>5, <1>12, Zenon DEF ShutdownAll, ShutdownAllReturn, ShutdownAllExpire, Return, registry, start
<1>13. CASE UNCHANGED vars
    BY <1>5, <1>13 DEF vars, registry, start
<1> QED BY <1>1, <1>6, <1>7, <1>8, <1>9, <1>10, <1>11, <1>12, <1>13, StepCases

\* A sum of zeros is zero.
LEMMA SumZero ==
    ASSUME NEW S, IsFiniteSet(S), NEW f \in [S -> Nat], \A i \in S : f[i] = 0
    PROVE  SumFunction(f) = 0
<1>0. f \in [S -> Int]
    OBVIOUS
<1>1. PICK F \in [SUBSET S -> Int] : Adds(F, f, SUBSET S) /\ SumFunction(f) = F[S]
    BY <1>0, SumIs, Zenon
<1> DEFINE P == {s \in SUBSET S : F[s] = 0}
<1>2. {} \in P
    BY <1>1 DEF Adds
<1>3. ASSUME NEW s \in SUBSET S, s # {}, s \ {First(s)} \in P PROVE s \in P
    <2>1. First(s) \in S
        BY <1>3, Smaller
    <2>2. F[s] = f[First(s)] + F[s \ {First(s)}]
        BY <1>1, <1>3 DEF Adds
    <2> QED BY <1>3, <2>1, <2>2
<1> HIDE DEF P
<1>4. S \in P
    BY <1>2, <1>3, SubsetInduction
<1> QED BY <1>1, <1>4 DEF P

\* Nothing is admitted at first.
LEMMA InitAdmission == Init => DemandInv /\ AdmissionRespected
<1> SUFFICES ASSUME Init PROVE DemandInv /\ AdmissionRespected
    OBVIOUS
<1>1. \A i \in Ids : running[i] = None /\ starting[i] = None /\ reservations[i] = None
    BY DEF Init
<1>2. \A i \in Ids : MachineUse(i) = Nothing /\ ReservedUse(i) = Nothing
    BY <1>1 DEF MachineUse, ReservedUse
<1>3. Nothing.memoryMB = 0 /\ Nothing.cpus = 0
    BY DEF Nothing
<1>4. IsFiniteSet(Ids) /\ MaxVMs \in Nat /\ MaxMemoryMB \in Nat /\ MaxCPUs \in Nat
    BY ConstantsAssumption
<1> DEFINE f1 == [i \in Ids |-> MachineUse(i).memoryMB]
           f2 == [i \in Ids |-> ReservedUse(i).memoryMB]
           f3 == [i \in Ids |-> MachineUse(i).cpus]
           f4 == [i \in Ids |-> ReservedUse(i).cpus]
<1>5. /\ f1 \in [Ids -> Nat] /\ f2 \in [Ids -> Nat] /\ f3 \in [Ids -> Nat] /\ f4 \in [Ids -> Nat]
      /\ \A i \in Ids : f1[i] = 0 /\ f2[i] = 0 /\ f3[i] = 0 /\ f4[i] = 0
    BY <1>2, <1>3
<1>6. UsedMemory = SumFunction(f1) + SumFunction(f2) /\ UsedCPUs = SumFunction(f3) + SumFunction(f4)
    BY DEF UsedMemory, UsedCPUs
<1> HIDE DEF f1, f2, f3, f4
<1>7. SumFunction(f1) = 0 /\ SumFunction(f2) = 0 /\ SumFunction(f3) = 0 /\ SumFunction(f4) = 0
    BY <1>4, <1>5, SumZero
<1>8. UsedMemory = 0 /\ UsedCPUs = 0
    BY <1>6, <1>7
<1>9. Cardinality(Running) = 0 /\ Cardinality(Starting) = 0
    <2>1. Running = {} /\ Starting = {}
        BY <1>1 DEF Running, Starting
    <2> QED BY <2>1, FS_EmptySet
<1>10. DemandInv
    BY DEF Init, DemandInv
<1> QED BY <1>1, <1>4, <1>8, <1>9, <1>10 DEF AdmissionRespected

\* Whatever starts, fails, exits and is stopped at the same time, the number of
\* machines, their memory and their CPUs stay within the limits: a start is
\* counted from the critical section that checks the capacity, and the machine
\* takes over its reservation in the one that publishes it.
THEOREM CapacityKept == Spec => []AdmissionRespected
<1>1. IndInv /\ IndInv' /\ DemandInv /\ AdmissionRespected /\ [Next]_vars
        => DemandInv' /\ AdmissionRespected'
    BY NextDemand, AdmissionStep DEF IndInv
<1> QED BY <1>1, InitAdmission, Inductive, PTL DEF Spec
=============================================================================
