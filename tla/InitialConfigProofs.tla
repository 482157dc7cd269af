-------------------------- MODULE InitialConfigProofs --------------------------
(***************************************************************************)
(* Theorems about InitialConfig, for any MIBs and any number of            *)
(* indications, faults and requests of other machines.                     *)
(***************************************************************************)
EXTENDS InitialConfig, NumberFacts, SequenceTheorems

-----------------------------------------------------------------------------
(***************************************************************************)
(* The operators on bits.                                                  *)
(***************************************************************************)
LEMMA BitValue ==
    /\ Bit \in [Nat -> Nat]
    /\ Bit[0] = 1
    /\ \A n \in Nat : Bit[n + 1] = 2 * Bit[n]
  <1> DEFINE step == [n \in Nat |-> [x \in Nat |-> 2 * x]]
             prev == [n \in Nat |-> IF n = 0 THEN 0 ELSE n - 1]
  <1>1. \E f \in [Nat -> Nat] : \A n \in Nat : f[n] = IF n = 0 THEN 1 ELSE step[n][f[prev[n]]]
    <2>1. /\ step \in [Nat -> [Nat -> Nat]] /\ prev \in [Nat -> Nat]
          /\ \A i \in Nat \ {0} : prev[i] < i
      OBVIOUS
    <2> DEFINE V == Nat
               one == 1
    <2>2. one \in V /\ step \in [Nat -> [V -> V]]
      BY <2>1
    <2> HIDE DEF step, prev, V, one
    <2>3. Descends(prev)
      BY <2>1 DEF Descends
    <2>4. PICK f \in [Nat -> V] : IsRecursion(f, one, step, prev)
      BY <2>2, <2>3, RecursionExists
    <2>5. QED
      BY <2>4 DEF V, one, IsRecursion
  <1>2. PICK f \in [Nat -> Nat] : \A n \in Nat : f[n] = IF n = 0 THEN 1 ELSE step[n][f[prev[n]]]
    BY <1>1
  <1>3. f = [n \in Nat |-> IF n = 0 THEN 1 ELSE 2 * f[n - 1]]
    <2>1. \A n \in Nat : n # 0 => step[n][f[prev[n]]] = 2 * f[n - 1]
      OBVIOUS
    <2> HIDE DEF step, prev
    <2>2. QED
      BY <1>2, <2>1
  <1>4. Bit = [n \in Nat |-> IF n = 0 THEN 1 ELSE 2 * Bit[n - 1]]
    BY <1>3 DEF Bit
  <1>5. Bit[0] = 1 /\ \A n \in Nat : Bit[n + 1] = 2 * Bit[n]
    BY <1>4
  <1>6. Bit \in [Nat -> Nat]
    <2> DEFINE S == {n \in Nat : Bit[n] \in Nat}
    <2>1. 0 \in S /\ \A n \in S : n + 1 \in S
      BY <1>5
    <2>2. S = Nat
      <3> HIDE DEF S
      <3>1. S \in SUBSET Nat
        BY DEF S
      <3>2. QED
        BY <2>1, <3>1, SetInduction
    <2>3. QED
      BY <1>4, <2>2
  <1>7. QED
    BY <1>5, <1>6

LEMMA OrValue ==
    \A a, b \in Nat :
        Or[a][b] = IF a = 0 \/ b = 0 THEN a + b
                   ELSE 2 * Or[a \div 2][b \div 2] + (IF a % 2 = 1 \/ b % 2 = 1 THEN 1 ELSE 0)
  <1> DEFINE V == [Nat -> Nat]
             zero == [b \in Nat |-> b]
             next(a, h) == [b \in Nat |->
                 IF a = 0 \/ b = 0 THEN a + b
                 ELSE 2 * h[b \div 2] + (IF a % 2 = 1 \/ b % 2 = 1 THEN 1 ELSE 0)]
             step == [a \in Nat |-> [h \in V |-> next(a, h)]]
             half == [a \in Nat |-> a \div 2]
  <1>1. zero \in V /\ half \in [Nat -> Nat] /\ \A a \in Nat \ {0} : half[a] < a
    OBVIOUS
  <1>2. step \in [Nat -> [V -> V]]
    <2>1. ASSUME NEW a \in Nat, NEW h \in V
          PROVE  next(a, h) \in V
      <3>1. ASSUME NEW b \in Nat
            PROVE  (IF a = 0 \/ b = 0 THEN a + b
                    ELSE 2 * h[b \div 2] + (IF a % 2 = 1 \/ b % 2 = 1 THEN 1 ELSE 0)) \in Nat
        <4>1. b \div 2 \in Nat
          OBVIOUS
        <4>2. h[b \div 2] \in Nat
          BY <4>1
        <4>3. QED
          BY <4>2
      <3>2. QED
        BY <3>1
    <2> HIDE DEF V, next
    <2>2. ASSUME NEW a \in Nat
          PROVE  [h \in V |-> next(a, h)] \in [V -> V]
      BY <2>1
    <2>3. QED
      BY <2>2
  <1> HIDE DEF V, step
  <1>3. PICK f \in [Nat -> V] : \A a \in Nat : f[a] = IF a = 0 THEN zero ELSE step[a][f[half[a]]]
    <2> HIDE DEF zero, half
    <2>1. Descends(half)
      BY <1>1 DEF Descends
    <2>2. PICK f \in [Nat -> V] : IsRecursion(f, zero, step, half)
      BY <1>1, <1>2, <2>1, RecursionExists
    <2>3. QED
      BY <2>2 DEF IsRecursion
  <1>4. \A a \in Nat : f[a] = [b \in Nat |->
            IF a = 0 \/ b = 0 THEN a + b
            ELSE 2 * f[a \div 2][b \div 2] + (IF a % 2 = 1 \/ b % 2 = 1 THEN 1 ELSE 0)]
    <2>1. ASSUME NEW a \in Nat, a # 0
          PROVE  f[a] = next(a, f[a \div 2])
      <3>1. a \div 2 \in Nat
        OBVIOUS
      <3>2. f[a \div 2] \in V /\ half[a] = a \div 2
        BY <3>1
      <3> HIDE DEF half, zero, next
      <3>3. f[a] = step[a][f[a \div 2]]
        BY <1>3, <2>1, <3>2
      <3>4. QED
        BY <3>2, <3>3 DEF step
    <2>2. f[0] = zero
      <3> HIDE DEF zero
      <3>1. QED
        BY <1>3
    <2>3. QED
      BY <2>1, <2>2
  <1>5. f = [a \in Nat |-> [b \in Nat |->
            IF a = 0 \/ b = 0 THEN a + b
            ELSE 2 * f[a \div 2][b \div 2] + (IF a % 2 = 1 \/ b % 2 = 1 THEN 1 ELSE 0)]]
    BY <1>4
  <1>6. Or = [a \in Nat |-> [b \in Nat |->
            IF a = 0 \/ b = 0 THEN a + b
            ELSE 2 * Or[a \div 2][b \div 2] + (IF a % 2 = 1 \/ b % 2 = 1 THEN 1 ELSE 0)]]
    BY <1>5 DEF Or
  <1>7. QED
    BY <1>6

\* A number below 1 << n and one that is shifted by n have no bit in common.
LEMMA OrAdds ==
    \A n, x, y \in Nat : y < Bit[n] => Or[x * Bit[n]][y] = x * Bit[n] + y
  <1> DEFINE S == {n \in Nat : \A x, y \in Nat : y < Bit[n] => Or[x * Bit[n]][y] = x * Bit[n] + y}
  <1>1. 0 \in S
    <2>1. SUFFICES ASSUME NEW x \in Nat, NEW y \in Nat, y < Bit[0]
                   PROVE  Or[x * Bit[0]][y] = x * Bit[0] + y
      OBVIOUS
    <2>2. x * Bit[0] = x /\ y = 0
      BY <2>1, BitValue
    <2>3. QED
      BY <2>2, OrValue
  <1>2. ASSUME NEW n \in S
        PROVE  n + 1 \in S
    <2>1. SUFFICES ASSUME NEW x \in Nat, NEW y \in Nat, y < Bit[n + 1]
                   PROVE  Or[x * Bit[n + 1]][y] = x * Bit[n + 1] + y
      OBVIOUS
    <2> DEFINE z == x * Bit[n]
               h == y \div 2
    <2>2. Bit[n] \in Nat /\ Bit[n + 1] = 2 * Bit[n]
      BY BitValue
    <2>3. z \in Nat /\ x * Bit[n + 1] = 2 * z
      BY <2>2
    <2>4. h \in Nat /\ h < Bit[n] /\ y = 2 * h + (IF y % 2 = 1 THEN 1 ELSE 0)
      BY <2>1, <2>2
    <2>5. Or[z][h] = z + h
      BY <1>2, <2>4
    <2> HIDE DEF z, h
    <2> DEFINE t == 2 * z
               bit == IF y % 2 = 1 THEN 1 ELSE 0
    <2>6. t \in Nat /\ t \div 2 = z /\ t % 2 = 0 /\ bit \in Nat /\ y = 2 * h + bit
      BY <2>3, <2>4
    <2> HIDE DEF t
    <2>7. Or[t][y] = t + y
      <3>1. Or[t][y] = IF t = 0 \/ y = 0 THEN t + y
                       ELSE 2 * Or[t \div 2][y \div 2] + (IF t % 2 = 1 \/ y % 2 = 1 THEN 1 ELSE 0)
        BY <2>6, OrValue
      <3>2. Or[t \div 2][y \div 2] = z + h
        BY <2>5, <2>6 DEF h
      <3>3. (IF t % 2 = 1 \/ y % 2 = 1 THEN 1 ELSE 0) = bit
        BY <2>6
      <3>4. t = 2 * z
        BY DEF t
      <3> HIDE DEF bit
      <3>5. QED
        BY <2>3, <2>4, <2>6, <3>1, <3>2, <3>3, <3>4
    <2>8. QED
      BY <2>3, <2>7 DEF t
  <1>3. S = Nat
    <2> HIDE DEF S
    <2>1. S \in SUBSET Nat
      BY DEF S
    <2>2. QED
      BY <1>1, <1>2, <2>1, SetInduction
  <1>4. QED
    BY <1>3

(* mkUniPortNum: the bits of the UNI's id and those of the ONU's id do not  *)
(* overlap as long as the id has room, so that the or of them is their sum *)
(* and two UNIs never share a port number.                                 *)
THEOREM PortNumbers ==
    /\ MaxUnisPerOnu \in Nat /\ OnuId * MaxUnisPerOnu \in Nat
    /\ \A id \in Nat : id < MaxUnisPerOnu => PortNum(id) = OnuId * MaxUnisPerOnu + id
  <1>1. OnuId \in Nat /\ UniBits \in Nat
    BY InitialConfigAssumption DEF InitialConfigAssumption
  <1>2. MaxUnisPerOnu \in Nat
    BY <1>1, BitValue DEF MaxUnisPerOnu
  <1>3. OnuId * MaxUnisPerOnu \in Nat
    BY <1>1, <1>2
  <1>4. QED
    BY <1>1, <1>2, <1>3, OrAdds DEF PortNum, MaxUnisPerOnu

-----------------------------------------------------------------------------
(***************************************************************************)
(* The ports.                                                              *)
(***************************************************************************)
LEMMA SortedKeys ==
    ASSUME NEW S \in SUBSET Nat, IsFiniteSet(S)
    PROVE  /\ Cardinality(S) \in Nat
           /\ SortedInstKeys(S) \in [1 .. Cardinality(S) -> S]
           /\ \A i, j \in 1 .. Cardinality(S) : i < j => SortedInstKeys(S)[i] < SortedInstKeys(S)[j]
           /\ \A x \in S : \E i \in 1 .. Cardinality(S) : SortedInstKeys(S)[i] = x
  <1> DEFINE N == Cardinality(S)
             key == [i \in 1 .. N |-> CHOOSE x \in S : Rank(S)[x] = i - 1]
  <1>1. N \in Nat
    BY FS_CardinalityType
  <1>2. ASSUME NEW i \in 1 .. N
        PROVE  key[i] \in S /\ Rank(S)[key[i]] = i - 1
    <2>1. i - 1 \in 0 .. N - 1
      BY <1>1
    <2>2. \E x \in S : Rank(S)[x] = i - 1
      BY <2>1, RankIsBijection DEF Surjection
    <2>3. QED
      BY <2>2
  <1>3. key \in [1 .. N -> S]
    BY <1>2
  <1>4. \A i, j \in DOMAIN key : i < j => key[i] < key[j]
    <2>1. SUFFICES ASSUME NEW i \in 1 .. N, NEW j \in 1 .. N, i < j
                   PROVE  key[i] < key[j]
      OBVIOUS
    <2>2. Rank(S)[key[i]] < Rank(S)[key[j]]
      <3> HIDE DEF key
      <3> QED
        BY <1>1, <1>2, <2>1
    <2>3. key[i] \in S /\ key[j] \in S
      BY <1>2
    <2> HIDE DEF key
    <2>4. QED
      BY <2>2, <2>3, RankIsBijection
  <1> HIDE DEF key
  <1> DEFINE f == SortedInstKeys(S)
  <1>5. f \in [1 .. N -> S] /\ \A i, j \in 1 .. N : i < j => f[i] < f[j]
    BY <1>1, <1>3, <1>4 DEF SortedInstKeys
  <1> HIDE DEF f
  <1>6. f \in Injection(1 .. N, S)
    <2>1. ASSUME NEW i \in 1 .. N, NEW j \in 1 .. N, f[i] = f[j]
          PROVE  i = j
      <3>1. f[i] \in S /\ f[j] \in S
        BY <1>5
      <3>2. \A x \in S : ~ (x < x)
        OBVIOUS
      <3>3. ~ (f[i] < f[j]) /\ ~ (f[j] < f[i])
        BY <2>1, <3>1, <3>2
      <3>4. ~ (i < j) /\ ~ (j < i)
        BY <1>5, <3>3
      <3>5. QED
        BY <1>1, <3>4
    <2>2. QED
      BY <1>5, <2>1 DEF Injection, IsInjective
  <1>7. IsFiniteSet(1 .. N) /\ Cardinality(1 .. N) = N
    <2>1. /\ IsFiniteSet(1 .. N)
          /\ Cardinality(1 .. N) = IF 1 > N THEN 0 ELSE N - 1 + 1
      BY <1>1, FS_Interval
    <2>2. QED
      BY <1>1, <2>1
  <1>8. f \in Surjection(1 .. N, S)
    BY <1>6, <1>7, FS_Injection
  <1>9. \A x \in S : \E i \in 1 .. N : f[i] = x
    BY <1>8 DEF Surjection
  <1>10. QED
    BY <1>1, <1>5, <1>9 DEF f

PortType == [type : {"pptp", "veip"}, inst : Nat, uniID : Nat]

LEMMA PortsType ==
    ASSUME NEW m \in Mibs
    PROVE  /\ DOMAIN AddUniPorts(PortsOf(m)) = {PortNum(PortsOf(m)[i].uniID) : i \in DOMAIN PortsOf(m)}
           /\ IsFiniteSet(DOMAIN AddUniPorts(PortsOf(m)))
           /\ \A n \in DOMAIN AddUniPorts(PortsOf(m)) : AddUniPorts(PortsOf(m))[n] \in PortType
  <1> DEFINE p == SortedInstKeys(m.pptp)
             v == SortedInstKeys(m.veip)
             seq == PortsOf(m)
             all == AddUniPorts(seq)
  <1>1. /\ Cardinality(m.pptp) \in Nat /\ p \in [1 .. Cardinality(m.pptp) -> m.pptp]
        /\ Cardinality(m.veip) \in Nat /\ v \in [1 .. Cardinality(m.veip) -> m.veip]
        /\ m.pptp \subseteq Nat /\ m.veip \subseteq Nat
    BY SortedKeys, InitialConfigAssumption DEF InitialConfigAssumption
  <1>2. p \in Seq(Nat) /\ v \in Seq(Nat)
    BY <1>1
  <1> DEFINE N == Len(p) + Len(v)
  <1>3. N \in Nat /\ DOMAIN seq = 1 .. N
    BY <1>2 DEF PortsOf
  <1>4. ASSUME NEW i \in 1 .. N
        PROVE  seq[i] \in PortType
    <2>1. CASE i <= Len(p)
      BY <1>2, <2>1 DEF PortsOf, Port, PortType
    <2>2. CASE ~ (i <= Len(p))
      <3>1. i - Len(p) \in 1 .. Len(v)
        BY <1>2, <2>2
      <3>2. v[i - Len(p)] \in Nat /\ i - 1 \in Nat
        BY <1>2, <3>1
      <3>3. seq[i] = Port("veip", v[i - Len(p)], i - 1)
        BY <2>2 DEF PortsOf
      <3>4. QED
        BY <3>2, <3>3 DEF Port, PortType
    <2>3. QED
      BY <2>1, <2>2
  <1> HIDE DEF p, v, N, seq
  <1>5. DOMAIN all = {PortNum(seq[i].uniID) : i \in 1 .. N}
    BY <1>3 DEF AddUniPorts
  <1>6. IsFiniteSet(DOMAIN all)
    <2> DEFINE f == [i \in 1 .. N |-> PortNum(seq[i].uniID)]
    <2>1. f \in Surjection(1 .. N, DOMAIN all)
      BY <1>5 DEF Surjection
    <2>2. IsFiniteSet(1 .. N)
      BY <1>3, FS_Interval
    <2>3. QED
      BY <2>1, <2>2, FS_Surjection
  <1>7. ASSUME NEW n \in DOMAIN all
        PROVE  all[n] \in PortType
    <2> DEFINE same == {i \in 1 .. N : PortNum(seq[i].uniID) = n}
    <2>1. same # {} /\ same \in SUBSET Nat /\ IsFiniteSet(same)
      <3>1. IsFiniteSet(1 .. N)
        BY <1>3, FS_Interval
      <3>2. QED
        BY <1>3, <1>5, <3>1, FS_Subset
    <2>2. \E i \in same : \A j \in same : i <= j
      BY <2>1, Minimum
    <2>3. all[n] = seq[CHOOSE i \in same : \A j \in same : i <= j]
      BY <1>3, <1>5 DEF AddUniPorts
    <2>4. (CHOOSE i \in same : \A j \in same : i <= j) \in 1 .. N
      BY <2>2
    <2>5. QED
      BY <1>4, <2>3, <2>4
  <1>8. QED
    BY <1>3, <1>5, <1>6, <1>7 DEF seq

\* The UNIs of m.
InstancesOf(m) == ({"pptp"} \X m.pptp) \cup ({"veip"} \X m.veip)
UniOf(p) == <<p.type, p.inst>>

LEMMA BeforeIsOrder ==
    ASSUME NEW u \in {"pptp", "veip"} \X Nat, NEW v \in {"pptp", "veip"} \X Nat, Before(u, v)
    PROVE  u # v /\ ~ Before(v, u)
  BY DEF Before

LEMMA PortFields ==
    ASSUME NEW t \in {"pptp", "veip"}, NEW x \in Nat, NEW id \in Nat
    PROVE  /\ Port(t, x, id) \in PortType
           /\ Port(t, x, id).uniID = id
           /\ UniOf(Port(t, x, id)) = <<t, x>>
  BY DEF Port, PortType, UniOf

\* The ports are listed in order, and each UNI has one.
LEMMA PortList ==
    ASSUME NEW m \in Mibs
    PROVE  \E N \in Nat :
               /\ PortsOf(m) \in [1 .. N -> PortType]
               /\ \A i \in 1 .. N : PortsOf(m)[i].uniID = i - 1
               /\ \A i, j \in 1 .. N :
                    i < j => Before(UniOf(PortsOf(m)[i]), UniOf(PortsOf(m)[j]))
               /\ InstancesOf(m) = {UniOf(PortsOf(m)[i]) : i \in 1 .. N}
  <1> DEFINE p == SortedInstKeys(m.pptp)
             v == SortedInstKeys(m.veip)
             P == Cardinality(m.pptp)
             Q == Cardinality(m.veip)
             seq == PortsOf(m)
  <1>1. m.pptp \in SUBSET Nat /\ IsFiniteSet(m.pptp) /\ m.veip \in SUBSET Nat /\ IsFiniteSet(m.veip)
    BY InitialConfigAssumption DEF InitialConfigAssumption
  <1>2. /\ P \in Nat /\ p \in [1 .. P -> m.pptp]
        /\ \A i, j \in 1 .. P : i < j => p[i] < p[j]
        /\ \A x \in m.pptp : \E i \in 1 .. P : p[i] = x
    BY <1>1, SortedKeys
  <1>3. /\ Q \in Nat /\ v \in [1 .. Q -> m.veip]
        /\ \A i, j \in 1 .. Q : i < j => v[i] < v[j]
        /\ \A x \in m.veip : \E i \in 1 .. Q : v[i] = x
    BY <1>1, SortedKeys
  <1>4. Len(p) = P /\ Len(v) = Q
    <2> DEFINE A == m.pptp
               B == m.veip
    <2>1. P \in Nat /\ Q \in Nat /\ p \in [1 .. P -> A] /\ v \in [1 .. Q -> B]
      BY <1>2, <1>3
    <2> HIDE DEF p, v, P, Q, A, B
    <2>2. QED
      BY <2>1
  <1>5. seq = [i \in 1 .. P + Q |->
                  IF i <= P THEN Port("pptp", p[i], i - 1) ELSE Port("veip", v[i - P], i - 1)]
    BY <1>4 DEF PortsOf
  <1> HIDE DEF p, v, P, Q, seq
  <1>6. ASSUME NEW i \in 1 .. P
        PROVE  /\ i \in 1 .. P + Q /\ p[i] \in m.pptp /\ p[i] \in Nat
               /\ seq[i] \in PortType /\ seq[i].uniID = i - 1
               /\ UniOf(seq[i]) = <<"pptp", p[i]>>
    <2>1. i \in 1 .. P + Q /\ i <= P /\ i - 1 \in Nat
      BY <1>2, <1>3
    <2>2. p[i] \in m.pptp /\ p[i] \in Nat
      BY <1>1, <1>2
    <2>3. seq[i] = Port("pptp", p[i], i - 1)
      BY <1>5, <2>1
    <2>4. QED
      BY <2>1, <2>2, <2>3, PortFields
  <1>7. ASSUME NEW i \in 1 .. P + Q, ~ (i <= P)
        PROVE  /\ i - P \in 1 .. Q /\ v[i - P] \in m.veip /\ v[i - P] \in Nat
               /\ seq[i] \in PortType /\ seq[i].uniID = i - 1
               /\ UniOf(seq[i]) = <<"veip", v[i - P]>>
    <2>1. i - P \in 1 .. Q /\ i - 1 \in Nat
      BY <1>2, <1>3, <1>7
    <2>2. v[i - P] \in m.veip /\ v[i - P] \in Nat
      BY <1>1, <1>3, <2>1
    <2>3. seq[i] = Port("veip", v[i - P], i - 1)
      BY <1>5, <1>7
    <2>4. QED
      BY <2>1, <2>2, <2>3, PortFields
  <1>8. \A i \in 1 .. P + Q : i \in 1 .. P \/ ~ (i <= P)
    BY <1>2
  <1>9. \A i \in 1 .. P + Q : seq[i] \in PortType /\ seq[i].uniID = i - 1
    <2>1. SUFFICES ASSUME NEW i \in 1 .. P + Q
                   PROVE  seq[i] \in PortType /\ seq[i].uniID = i - 1
      OBVIOUS
    <2>2. CASE i \in 1 .. P
      BY <1>6, <2>2
    <2>3. CASE ~ (i <= P)
      BY <1>7, <2>3
    <2>4. QED
      BY <1>8, <2>2, <2>3
  <1>10. \A i, j \in 1 .. P + Q : i < j => Before(UniOf(seq[i]), UniOf(seq[j]))
    <2>1. SUFFICES ASSUME NEW i \in 1 .. P + Q, NEW j \in 1 .. P + Q, i < j
                   PROVE  Before(UniOf(seq[i]), UniOf(seq[j]))
      OBVIOUS
    <2>2. CASE i \in 1 .. P /\ j \in 1 .. P
      <3>1. p[i] < p[j]
        BY <1>2, <2>1, <2>2
      <3>2. UniOf(seq[i]) = <<"pptp", p[i]>> /\ UniOf(seq[j]) = <<"pptp", p[j]>>
        BY <1>6, <2>2
      <3>3. QED
        BY <3>1, <3>2 DEF Before
    <2>3. CASE i \in 1 .. P /\ ~ (j <= P)
      <3>1. UniOf(seq[i])[1] = "pptp"
        BY <1>6, <2>3
      <3>2. UniOf(seq[j])[1] = "veip"
        BY <1>7, <2>3
      <3>3. QED
        BY <3>1, <3>2 DEF Before
    <2>4. CASE ~ (i <= P) /\ ~ (j <= P)
      <3>1. i - P \in 1 .. Q /\ j - P \in 1 .. Q /\ i - P < j - P
        BY <1>2, <1>3, <1>7, <2>1, <2>4
      <3>2. v[i - P] < v[j - P]
        BY <1>3, <3>1
      <3>3. UniOf(seq[i]) = <<"veip", v[i - P]>> /\ UniOf(seq[j]) = <<"veip", v[j - P]>>
        BY <1>7, <2>4
      <3>4. QED
        BY <3>2, <3>3 DEF Before
    <2>5. ~ (~ (i <= P) /\ j \in 1 .. P)
      BY <1>2, <1>3, <2>1
    <2>6. QED
      BY <1>8, <2>2, <2>3, <2>4, <2>5
  <1>11. InstancesOf(m) = {UniOf(seq[i]) : i \in 1 .. P + Q}
    <2>1. ASSUME NEW i \in 1 .. P + Q
          PROVE  UniOf(seq[i]) \in InstancesOf(m)
      <3>1. CASE i \in 1 .. P
        BY <1>6, <3>1 DEF InstancesOf
      <3>2. CASE ~ (i <= P)
        BY <1>7, <3>2 DEF InstancesOf
      <3>3. QED
        BY <1>8, <3>1, <3>2
    <2>2. ASSUME NEW x \in m.pptp
          PROVE  \E i \in 1 .. P + Q : <<"pptp", x>> = UniOf(seq[i])
      <3>1. PICK i \in 1 .. P : p[i] = x
        BY <1>2
      <3>2. i \in 1 .. P + Q /\ UniOf(seq[i]) = <<"pptp", x>>
        BY <1>6, <3>1
      <3>3. QED
        BY <3>2
    <2>3. ASSUME NEW x \in m.veip
          PROVE  \E i \in 1 .. P + Q : <<"veip", x>> = UniOf(seq[i])
      <3>1. PICK j \in 1 .. Q : v[j] = x
        BY <1>3
      <3>2. j + P \in 1 .. P + Q /\ ~ (j + P <= P) /\ (j + P) - P = j
        BY <1>2, <1>3
      <3>3. UniOf(seq[j + P]) = <<"veip", x>>
        BY <1>7, <3>1, <3>2
      <3>4. QED
        BY <3>2, <3>3
    <2>4. QED
      BY <2>1, <2>2, <2>3 DEF InstancesOf
  <1>12. P + Q \in Nat /\ seq \in [1 .. P + Q -> PortType]
    <2>1. P + Q \in Nat
      BY <1>2, <1>3
    <2>2. seq = [i \in 1 .. P + Q |-> seq[i]]
      BY <1>5
    <2>3. QED
      BY <1>9, <2>1, <2>2
  <1>13. QED
    BY <1>9, <1>10, <1>11, <1>12 DEF seq

\* As long as the port number has room, each of them is added.
LEMMA PortsComplete ==
    ASSUME NEW m \in Mibs, Cardinality(InstancesOf(m)) <= MaxUnisPerOnu,
           NEW all, all = AddUniPorts(PortsOf(m))
    PROVE  /\ InstancesOf(m) = {UniOf(all[n]) : n \in DOMAIN all}
           /\ \A n, k \in DOMAIN all : n < k <=> Before(UniOf(all[n]), UniOf(all[k]))
  <1> DEFINE seq == PortsOf(m)
             base == OnuId * MaxUnisPerOnu
  <1>1. PICK N \in Nat :
            /\ seq \in [1 .. N -> PortType]
            /\ \A i \in 1 .. N : seq[i].uniID = i - 1
            /\ \A i, j \in 1 .. N : i < j => Before(UniOf(seq[i]), UniOf(seq[j]))
            /\ InstancesOf(m) = {UniOf(seq[i]) : i \in 1 .. N}
    BY PortList
  <1>2. MaxUnisPerOnu \in Nat /\ base \in Nat
        /\ \A id \in Nat : id < MaxUnisPerOnu => PortNum(id) = base + id
    BY PortNumbers
  <1> HIDE DEF seq, base
  <1>3. \A i \in 1 .. N : UniOf(seq[i]) \in {"pptp", "veip"} \X Nat
    BY <1>1 DEF UniOf, PortType
  <1>4. \A i, j \in 1 .. N : i < j <=> Before(UniOf(seq[i]), UniOf(seq[j]))
    <2>1. SUFFICES ASSUME NEW i \in 1 .. N, NEW j \in 1 .. N, Before(UniOf(seq[i]), UniOf(seq[j]))
                   PROVE  i < j
      BY <1>1
    <2>2. i # j /\ ~ Before(UniOf(seq[j]), UniOf(seq[i]))
      BY <1>3, <2>1, BeforeIsOrder
    <2>3. ~ (j < i)
      BY <1>1, <2>2
    <2>4. QED
      BY <1>1, <2>2, <2>3
  <1>5. Cardinality(InstancesOf(m)) = N
    <2> DEFINE f == [i \in 1 .. N |-> UniOf(seq[i])]
    <2>1. f \in Surjection(1 .. N, InstancesOf(m))
      BY <1>1 DEF Surjection
    <2>2. f \in Injection(1 .. N, InstancesOf(m))
      <3>1. ASSUME NEW i \in 1 .. N, NEW j \in 1 .. N, UniOf(seq[i]) = UniOf(seq[j])
            PROVE  i = j
        <4>1. ~ Before(UniOf(seq[i]), UniOf(seq[j])) /\ ~ Before(UniOf(seq[j]), UniOf(seq[i]))
          BY <1>3, <3>1, BeforeIsOrder
        <4>2. ~ (i < j) /\ ~ (j < i)
          BY <1>1, <4>1
        <4>3. QED
          BY <1>1, <4>2
      <3>2. f \in [1 .. N -> InstancesOf(m)]
        BY <2>1 DEF Surjection
      <3>3. QED
        BY <3>1, <3>2 DEF Injection, IsInjective
    <2> HIDE DEF f
    <2>3. /\ IsFiniteSet(1 .. N)
          /\ Cardinality(1 .. N) = IF 1 > N THEN 0 ELSE N - 1 + 1
      BY FS_Interval
    <2>4. Cardinality(1 .. N) = N
      BY <1>1, <2>3
    <2>5. QED
      BY <2>1, <2>2, <2>3, <2>4, FS_Surjection
  <1>6. ASSUME NEW i \in 1 .. N
        PROVE  PortNum(seq[i].uniID) = base + (i - 1)
    <2>1. seq[i].uniID = i - 1 /\ i - 1 \in Nat
      BY <1>1
    <2>2. i - 1 < MaxUnisPerOnu
      BY <1>1, <1>2, <1>5
    <2>3. QED
      BY <1>2, <2>1, <2>2
  <1>7. DOMAIN seq = 1 .. N
    BY <1>1
  <1>8. DOMAIN all = {base + (i - 1) : i \in 1 .. N}
    <2>1. DOMAIN all = {PortNum(seq[i].uniID) : i \in 1 .. N}
      BY <1>7 DEF AddUniPorts, seq
    <2>2. QED
      BY <1>6, <2>1
  <1>9. ASSUME NEW i \in 1 .. N
        PROVE  all[base + (i - 1)] = seq[i]
    <2> DEFINE same == {j \in 1 .. N : PortNum(seq[j].uniID) = base + (i - 1)}
    <2>1. same = {i}
      <3>1. \A j \in 1 .. N : PortNum(seq[j].uniID) = base + (i - 1) <=> j = i
        BY <1>2, <1>6
      <3>2. QED
        BY <3>1
    <2> HIDE DEF same
    <2>2. i <= i
      BY <1>1
    <2>3. (CHOOSE x \in same : \A j \in same : x <= j) = i
      BY <2>1, <2>2
    <2>4. base + (i - 1) \in DOMAIN all
      BY <1>8
    <2>5. all[base + (i - 1)] = seq[CHOOSE x \in same : \A j \in same : x <= j]
      BY <1>7, <2>4 DEF AddUniPorts, seq, same
    <2>6. QED
      BY <2>3, <2>5
  <1>10. InstancesOf(m) = {UniOf(all[n]) : n \in DOMAIN all}
    <2>1. \A i \in 1 .. N : base + (i - 1) \in DOMAIN all
      BY <1>8
    <2>2. \A n \in DOMAIN all : \E i \in 1 .. N : n = base + (i - 1)
      BY <1>8
    <2>3. {UniOf(seq[i]) : i \in 1 .. N} = {UniOf(all[n]) : n \in DOMAIN all}
      BY <1>9, <2>1, <2>2
    <2>4. QED
      BY <1>1, <2>3
  <1>11. ASSUME NEW n \in DOMAIN all, NEW k \in DOMAIN all
         PROVE  n < k <=> Before(UniOf(all[n]), UniOf(all[k]))
    <2>1. PICK i \in 1 .. N : n = base + (i - 1)
      BY <1>8
    <2>2. PICK j \in 1 .. N : k = base + (j - 1)
      BY <1>8
    <2>3. n < k <=> i < j
      BY <1>1, <1>2, <2>1, <2>2
    <2>4. all[n] = seq[i] /\ all[k] = seq[j]
      BY <1>9, <2>1, <2>2
    <2>5. QED
      BY <1>4, <2>3, <2>4
  <1>12. QED
    BY <1>10, <1>11

-----------------------------------------------------------------------------
(***************************************************************************)
(* The states of the machines.                                             *)
(***************************************************************************)
Edges ==
    {<<"download", "starting", "gal">>, <<"download", "gal", "onu2g">>,
     <<"download", "onu2g", "bridge">>, <<"download", "bridge", "done">>,
     <<"unlock", "starting", "onug">>, <<"unlock", "onug", "unis">>,
     <<"unlock", "unis", "done">>}

\* What the machines are in tells how far the goroutines of the handler are.
StateInv ==
    /\ state["download"] \in {"starting", "gal", "onu2g", "bridge", "done", "disabled",
                              "resetting"}
    /\ state["unlock"] \in {"starting", "onug", "unis", "done", "disabled", "resetting"}
    /\ task.sync \in {"ready", "named"}
           => state["download"] = "disabled" /\ task.downloaded = "none"
    /\ task.downloaded # "none" => state["download"] \in {"done", "disabled", "resetting"}
    /\ task.downloaded # "done" => state["unlock"] = "disabled" /\ task.enable = "none"
    /\ task.enable # "none" => state["unlock"] \in {"done", "disabled", "resetting"}
    /\ active # {} => task.enable = "done"

LEMMA FollowIsEdge ==
    \A e \in Edges : Follow(e[1], e[2]) = e[3]
  <1>1. /\ Follow("download", "starting") = "gal" /\ Follow("download", "gal") = "onu2g"
        /\ Follow("download", "onu2g") = "bridge" /\ Follow("download", "bridge") = "done"
    <2> DEFINE T == <<"starting", "gal", "onu2g", "bridge", "done">>
    <2>1. Table["download"] = T
      BY DEF Table, Machines
    <2>2. DOMAIN T = 1 .. 5 /\ T[1] = "starting" /\ T[2] = "gal" /\ T[3] = "onu2g"
          /\ T[4] = "bridge" /\ T[5] = "done"
      OBVIOUS
    <2> HIDE DEF T
    <2>3. /\ (CHOOSE i \in DOMAIN T : T[i] = "starting") = 1
          /\ (CHOOSE i \in DOMAIN T : T[i] = "gal") = 2
          /\ (CHOOSE i \in DOMAIN T : T[i] = "onu2g") = 3
          /\ (CHOOSE i \in DOMAIN T : T[i] = "bridge") = 4
      BY <2>2
    <2>4. QED
      BY <2>1, <2>2, <2>3 DEF Follow
  <1>2. /\ Follow("unlock", "starting") = "onug" /\ Follow("unlock", "onug") = "unis"
        /\ Follow("unlock", "unis") = "done"
    <2> DEFINE T == <<"starting", "onug", "unis", "done">>
    <2>1. Table["unlock"] = T
      BY DEF Table, Machines
    <2>2. DOMAIN T = 1 .. 4 /\ T[1] = "starting" /\ T[2] = "onug" /\ T[3] = "unis"
          /\ T[4] = "done"
      OBVIOUS
    <2> HIDE DEF T
    <2>3. /\ (CHOOSE i \in DOMAIN T : T[i] = "starting") = 1
          /\ (CHOOSE i \in DOMAIN T : T[i] = "onug") = 2
          /\ (CHOOSE i \in DOMAIN T : T[i] = "unis") = 3
      BY <2>2
    <2>4. QED
      BY <2>1, <2>2, <2>3 DEF Follow
  <1>3. QED
    BY <1>1, <1>2 DEF Edges

\* An event that is accepted.
Moves(m, s, to) ==
    /\ <<m, s, to>> \in Edges
    /\ callback[m] = None
    /\ state[m] = s /\ state' = [state EXCEPT ![m] = to]
    /\ callback' = [callback EXCEPT ![m] = IF to \in Simple THEN Entity(to, 0) ELSE None]
    /\ line' = IF to \in Simple THEN Append(line, Request(m, Entity(to, 0))) ELSE line
    /\ sent' = IF to \in Simple THEN sent \cup {Request(m, Entity(to, 0))} ELSE sent

Stays == UNCHANGED <<state, callback, line, sent>>

LEMMA Advances ==
    ASSUME StateInv, NEW m \in Machines, NEW s \in {"starting"} \cup Simple \cup Multi,
           Advance(m, s)
    PROVE  Stays \/ \E to \in Running : Moves(m, s, to)
  <1>1. CASE state[m] # s
    BY <1>1 DEF Advance, Stays
  <1>2. CASE state[m] = s
    <2>1. PICK to \in Running : <<m, s, to>> \in Edges
      BY <1>2 DEF StateInv, Machines, Simple, Multi, Running, Edges
    <2>2. Follow(m, s) = to
      <3> DEFINE e == <<m, s, to>>
      <3>1. e \in Edges /\ e[1] = m /\ e[2] = s /\ e[3] = to
        BY <2>1
      <3> HIDE DEF e
      <3>2. QED
        BY <3>1, FollowIsEdge
    <2>3. Request(m, Entity(to, 0)).entity = Entity(to, 0)
      BY DEF Request
    <2>4. Moves(m, s, to)
      BY <1>2, <2>1, <2>2, <2>3 DEF Advance, Moves
    <2>5. QED
      BY <2>4
  <1>3. QED
    BY <1>1, <1>2

-----------------------------------------------------------------------------
(***************************************************************************)
(* Types.                                                                  *)
(***************************************************************************)
PortsInv == IsFiniteSet(DOMAIN ports)
\* A goroutine that asks has something to ask for.
TodoInv ==
    \A m \in Machines :
        /\ work[m].at \in {"send", "record", "wait"} => work[m].todo # << >>
        /\ work[m].at = "next" => work[m].todo = << >>
TypeInv == TypeOK /\ StateInv /\ PortsInv /\ TodoInv

LEMMA Same ==
    /\ HandlerType /\ PortsInv /\ UNCHANGED handlerVars => HandlerType' /\ PortsInv'
    /\ MachineType /\ UNCHANGED machineVars => MachineType'
    /\ RoutineType /\ UNCHANGED routineVars => RoutineType'
    /\ OnuType /\ UNCHANGED onuVars => OnuType'
    /\ BoundType /\ UNCHANGED boundVars => BoundType'
    /\ StateInv /\ UNCHANGED <<state, task, active>> => StateInv'
    /\ TodoInv /\ UNCHANGED work => TodoInv'
  BY DEF HandlerType, PortsInv, handlerVars, MachineType, machineVars, RoutineType,
         routineVars, OnuType, onuVars, BoundType, boundVars, StateInv,
         TodoInv

LEMMA InitTypes == Init => TypeInv
  <1> SUFFICES ASSUME Init
               PROVE  TypeInv
    OBVIOUS
  <1>1. HandlerType /\ PortsInv
    <2>1. DOMAIN ports = {}
      BY DEF Init
    <2>2. QED
      BY <2>1, FS_EmptySet DEF Init, HandlerType, PortsInv
  <1>2. MachineType /\ StateInv
    BY DEF Init, MachineType, StateInv, Machines, Post
  <1>3. RoutineType /\ TodoInv
    BY DEF Init, RoutineType, TodoInv, Off, Goroutine
  <1>4. OnuType /\ BoundType
    <2>1. OnuType
      BY DEF Init, OnuType
    <2>2. downs \in Nat /\ others \in Nat /\ faults \in Nat
      BY DEF Init
    <2>3. missed \in BOOLEAN /\ late \in BOOLEAN
      BY DEF Init
    <2>4. QED
      BY <2>1, <2>2, <2>3 DEF BoundType
  <1>5. QED
    BY <1>1, <1>2, <1>3, <1>4 DEF TypeInv, TypeOK

LEMMA SimpleEntities ==
    /\ \A c \in Simple : Entity(c, 0) \in Entities
    /\ \A m \in Machines, e \in Entities : Request(m, e) \in Requests
  BY DEF Simple, Entity, Entities, Classes, Request, Requests

\* What an event leaves of the types.
LEMMA AdvanceTypes ==
    ASSUME TypeInv, NEW m \in Machines, NEW s \in {"starting"} \cup Simple \cup Multi,
           Advance(m, s), acked' \subseteq acked
    PROVE  /\ state' \in [Machines -> Running \cup {"disabled", "resetting"}]
           /\ callback' \in [Machines -> Entities \cup {None}]
           /\ OnuType'
  <1>1. MachineType /\ OnuType
    BY DEF TypeInv, TypeOK
  <1>2. CASE Stays
    BY <1>1, <1>2 DEF Stays, MachineType, OnuType
  <1>3. CASE \E to \in Running : Moves(m, s, to)
    <2>1. PICK to \in Running : Moves(m, s, to)
      BY <1>3
    <2>2. to \in Simple => Entity(to, 0) \in Entities /\ Request(m, Entity(to, 0)) \in Requests
      BY SimpleEntities
    <2>3. OnuType'
      BY <1>1, <2>1, <2>2 DEF Moves, OnuType
    <2>4. state' \in [Machines -> Running \cup {"disabled", "resetting"}]
      BY <1>1, <2>1 DEF Moves, MachineType
    <2>5. callback' \in [Machines -> Entities \cup {None}]
      BY <1>1, <2>1, <2>2 DEF Moves, MachineType
    <2>6. QED
      BY <2>3, <2>4, <2>5
  <1>4. QED
    BY <1>2, <1>3, Advances DEF TypeInv

\* The machine does not complete: the goroutines of the handler go on as before.
LEMMA AdvanceStates ==
    ASSUME StateInv, NEW m \in Machines, NEW s \in {"starting"} \cup Simple,
           Advance(m, s), UNCHANGED <<task, active>>
    PROVE  StateInv'
  <1>1. CASE Stays
    BY <1>1 DEF Stays, StateInv
  <1>2. CASE \E to \in Running : Moves(m, s, to)
    <2>1. PICK to \in Running : Moves(m, s, to)
      BY <1>2
    <2>2. QED
      BY <2>1 DEF Moves, StateInv, Edges, Simple
  <1>3. QED
    BY <1>1, <1>2, Advances

\* A reset leaves a machine that is at rest alone.
LEMMA ResetTypes ==
    ASSUME TypeInv, NEW m \in Machines,
           NEW p \in [start : Nat, reset : Nat, restart : Nat], Reset(m, p)
    PROVE  /\ MachineType'
           /\ commChan' \in [Machines -> Seq(Requests \cup {Abort})]
           /\ UNCHANGED task /\ active' \subseteq active => StateInv'
  <1>1. MachineType /\ RoutineType /\ StateInv
    BY DEF TypeInv, TypeOK
  <1>2. UNCHANGED callback
    BY DEF Reset
  <1>3. CASE state[m] \in Running
    <2>1. /\ state' = [state EXCEPT ![m] = "resetting"]
          /\ commChan' = [commChan EXCEPT ![m] = Append(@, Abort)]
          /\ posts' = [posts EXCEPT ![m] = [p EXCEPT !.restart = @ + 1]]
      BY <1>3 DEF Reset
    <2>2. [p EXCEPT !.restart = @ + 1] \in [start : Nat, reset : Nat, restart : Nat]
      <3>1. p.restart + 1 \in Nat
        OBVIOUS
      <3>2. QED
        BY <3>1
    <2>3. MachineType'
      BY <1>1, <1>2, <2>1, <2>2 DEF MachineType
    <2>4. commChan' \in [Machines -> Seq(Requests \cup {Abort})]
      BY <1>1, <2>1 DEF RoutineType
    <2>5. UNCHANGED task /\ active' \subseteq active => StateInv'
      BY <1>1, <1>3, <2>1 DEF StateInv, Machines, Running, Simple, Multi
    <2>6. QED
      BY <2>3, <2>4, <2>5
  <1>4. CASE state[m] \notin Running
    <2>1. posts' = [posts EXCEPT ![m] = p] /\ UNCHANGED <<state, commChan>>
      BY <1>4 DEF Reset
    <2>2. MachineType'
      BY <1>1, <1>2, <2>1 DEF MachineType
    <2>3. UNCHANGED task /\ active' \subseteq active => StateInv'
      BY <1>1, <2>1 DEF StateInv
    <2>4. QED
      BY <1>1, <2>1, <2>2, <2>3 DEF RoutineType
  <1>5. QED
    BY <1>3, <1>4

\* The goroutines that go through the UNIs.
Steps == {"off", "begin", "send", "record", "wait", "reset", "next", "gone"}
WorkType == [at : Steps, todo : Seq(Entities)]

LEMMA MovedTypes ==
    ASSUME TypeInv, NEW m \in Machines, NEW at \in Steps \ {"next"},
           at \in {"send", "record", "wait"} => work[m].todo # << >>,
           work' = Moved(m, at)
    PROVE  work' \in [Machines -> WorkType] /\ TodoInv'
  <1>1. work \in [Machines -> WorkType]
    BY DEF TypeInv, TypeOK, RoutineType, WorkType, Steps
  <1>2. work' = [work EXCEPT ![m] = Goroutine(at, work[m].todo)]
    BY <1>1 DEF Moved
  <1>3. /\ Goroutine(at, work[m].todo) \in WorkType
        /\ Goroutine(at, work[m].todo).at = at
        /\ Goroutine(at, work[m].todo).todo = work[m].todo
    BY <1>1 DEF Goroutine, WorkType
  <1>4. work' \in [Machines -> WorkType] /\ work'[m] = Goroutine(at, work[m].todo)
        /\ \A k \in Machines \ {m} : work'[k] = work[k]
    BY <1>1, <1>2, <1>3
  <1>5. QED
    BY <1>3, <1>4 DEF TypeInv, TodoInv

LEMMA ReleasedTypes ==
    ASSUME TypeInv, NEW m \in Machines, work[m].at \in {"record", "wait"},
           work' = [work EXCEPT ![m] = Released(@)]
    PROVE  work' \in [Machines -> WorkType] /\ TodoInv'
  <1>1. work \in [Machines -> WorkType] /\ work[m].todo # << >>
    BY DEF TypeInv, TypeOK, RoutineType, WorkType, Steps, TodoInv
  <1> DEFINE q == work[m].todo
             to == IF Len(q) = 1 THEN "next" ELSE "send"
  <1>2. q \in Seq(Entities) /\ q # << >>
    BY <1>1 DEF WorkType
  <1>3. /\ Tail(q) \in Seq(Entities)
        /\ Len(q) = 1 => Tail(q) = << >>
        /\ Len(q) # 1 => Tail(q) # << >>
    <2> HIDE DEF q
    <2>1. Tail(q) \in Seq(Entities) /\ Len(Tail(q)) = Len(q) - 1 /\ Len(q) \in Nat
      BY <1>2
    <2>2. Tail(q) = << >> <=> Len(Tail(q)) = 0
      BY <2>1, EmptySeq
    <2>3. QED
      BY <2>1, <2>2
  <1>4. work' = [work EXCEPT ![m] = Goroutine(to, Tail(q))]
    BY <1>1 DEF Released
  <1> HIDE DEF q
  <1>5. /\ Goroutine(to, Tail(q)) \in WorkType
        /\ Goroutine(to, Tail(q)).at = to
        /\ Goroutine(to, Tail(q)).todo = Tail(q)
    BY <1>3 DEF Goroutine, WorkType, Steps
  <1>6. /\ to = "send" => Tail(q) # << >>
        /\ to = "next" => Tail(q) = << >>
        /\ to \in {"send", "next"}
    BY <1>3
  <1> HIDE DEF to
  <1>7. work' \in [Machines -> WorkType] /\ work'[m] = Goroutine(to, Tail(q))
        /\ \A k \in Machines \ {m} : work'[k] = work[k]
    BY <1>1, <1>4, <1>5
  <1>8. QED
    BY <1>5, <1>6, <1>7 DEF TypeInv, TodoInv

\* The device handler.
LEMMA HandlerStepTypes ==
    ASSUME TypeInv, HandlerSteps
    PROVE  TypeInv'
  <1>0. /\ HandlerType /\ PortsInv /\ MachineType /\ RoutineType /\ OnuType /\ BoundType
        /\ StateInv /\ TodoInv
    BY DEF TypeInv, TypeOK
  <1>1. CASE NameMibSync
    <2>1. HandlerType' /\ PortsInv' /\ StateInv'
      BY <1>0, <1>1 DEF NameMibSync, Goes, HandlerType, PortsInv, StateInv, machineVars
    <2>2. QED
      BY <1>0, <1>1, <2>1, Same DEF NameMibSync, TypeInv, TypeOK, routineVars
  <1>2. CASE StartDownload
    <2>1. active = {} /\ task.sync = "named"
      BY <1>0, <1>2 DEF StartDownload, Goes, StateInv
    <2>2. HandlerType' /\ PortsInv'
      <3>1. /\ mib \in Mibs /\ mib' = mib /\ ports' = AddUniPorts(PortsOf(mib))
            /\ active' = active /\ reason' = reason
            /\ task' = [task EXCEPT !.sync = "gal"]
        BY <1>0, <1>2 DEF StartDownload, Goes, HandlerType
      <3>2. /\ IsFiniteSet(DOMAIN ports')
            /\ \A n \in DOMAIN ports' :
                 ports'[n] \in [type : {"pptp", "veip"}, inst : Nat, uniID : Nat]
        BY <3>1, PortsType DEF PortType
      <3>3. QED
        BY <1>0, <2>1, <3>1, <3>2 DEF HandlerType, PortsInv
    <2>3. MachineType' /\ StateInv'
      BY <1>0, <1>2 DEF StartDownload, Goes, HandlerType, MachineType, StateInv, Machines,
                        Running
    <2>4. RoutineType'
      BY <1>0, <1>2 DEF StartDownload, RoutineType
    <2>5. QED
      BY <1>0, <1>2, <2>2, <2>3, <2>4, Same DEF StartDownload, TypeInv, TypeOK, routineVars
  <1>3. CASE CreateGal
    <2>1. Advance("download", "starting") /\ "download" \in Machines
      BY <1>3 DEF CreateGal, Machines
    <2>2. HandlerType' /\ PortsInv'
      BY <1>0, <1>3 DEF CreateGal, Goes, HandlerType, PortsInv
    <2>3. MachineType' /\ OnuType'
      <3>1. /\ state' \in [Machines -> Running \cup {"disabled", "resetting"}]
            /\ callback' \in [Machines -> Entities \cup {None}] /\ OnuType'
        BY <1>3, <2>1, AdvanceTypes DEF CreateGal
      <3>2. QED
        BY <1>0, <1>3, <3>1 DEF CreateGal, MachineType
    <2>4. StateInv'
      <3>1. CASE Stays
        BY <1>0, <1>3, <3>1 DEF CreateGal, Goes, Stays, StateInv, HandlerType
      <3>2. CASE \E to \in Running : Moves("download", "starting", to)
        <4>1. PICK to \in Running : Moves("download", "starting", to)
          BY <3>2
        <4>2. state["download"] = "starting" /\ state' = [state EXCEPT !["download"] = "gal"]
          BY <4>1 DEF Moves, Edges
        <4>3. QED
          BY <1>0, <1>3, <4>2 DEF CreateGal, Goes, StateInv, HandlerType, MachineType, Machines
      <3>3. QED
        BY <1>0, <2>1, <3>1, <3>2, Advances
    <2>5. QED
      BY <1>0, <1>3, <2>2, <2>3, <2>4, Same DEF CreateGal, TypeInv, TypeOK, routineVars
  <1>4. CASE NameDownloaded
    <2>1. HandlerType' /\ PortsInv' /\ StateInv'
      BY <1>0, <1>4 DEF NameDownloaded, Goes, HandlerType, PortsInv, StateInv, machineVars
    <2>2. QED
      BY <1>0, <1>4, <2>1, Same DEF NameDownloaded, TypeInv, TypeOK, routineVars
  <1>5. CASE StartUnlock
    <2>1. HandlerType' /\ PortsInv'
      BY <1>0, <1>5 DEF StartUnlock, Goes, HandlerType, PortsInv
    <2>2. state' \in [Machines -> Running \cup {"disabled", "resetting"}] /\ StateInv'
      BY <1>0, <1>5 DEF StartUnlock, Goes, HandlerType, MachineType, StateInv, Machines,
                        Running
    <2>3. posts' \in [Machines -> [start : Nat, reset : Nat, restart : Nat]]
      <3>1. [posts["unlock"] EXCEPT !.start = 1] \in [start : Nat, reset : Nat, restart : Nat]
        BY <1>0 DEF MachineType, Machines
      <3>2. posts' = [posts EXCEPT !["unlock"] = [posts["unlock"] EXCEPT !.start = 1]]
        BY <1>0, <1>5 DEF StartUnlock, MachineType, Machines
      <3>3. QED
        BY <1>0, <3>1, <3>2 DEF MachineType
    <2>4. RoutineType'
      BY <1>0, <1>5 DEF StartUnlock, RoutineType
    <2>5. MachineType'
      BY <1>0, <1>5, <2>2, <2>3 DEF StartUnlock, MachineType
    <2>6. QED
      BY <1>0, <1>5, <2>1, <2>2, <2>4, <2>5, Same DEF StartUnlock, TypeInv, TypeOK, routineVars
  <1>6. CASE PostedStart
    <2>1. Advance("unlock", "starting") /\ "unlock" \in Machines
      BY <1>6 DEF PostedStart, Machines
    <2>2. /\ state' \in [Machines -> Running \cup {"disabled", "resetting"}]
          /\ callback' \in [Machines -> Entities \cup {None}] /\ OnuType'
      BY <1>6, <2>1, AdvanceTypes DEF PostedStart
    <2>3. posts' \in [Machines -> [start : Nat, reset : Nat, restart : Nat]]
      <3>1. posts["unlock"].start - 1 \in Nat
        BY <1>0, <1>6 DEF PostedStart, MachineType, Machines
      <3>2. [posts["unlock"] EXCEPT !.start = @ - 1] \in [start : Nat, reset : Nat, restart : Nat]
        BY <1>0, <3>1 DEF MachineType, Machines
      <3>3. posts' = [posts EXCEPT !["unlock"] = [posts["unlock"] EXCEPT !.start = @ - 1]]
        BY <1>0, <1>6 DEF PostedStart, MachineType, Machines
      <3>4. QED
        BY <1>0, <3>2, <3>3 DEF MachineType
    <2>4. MachineType'
      BY <2>2, <2>3 DEF MachineType
    <2>5. StateInv'
      BY <1>0, <1>6, <2>1, AdvanceStates DEF PostedStart, handlerVars
    <2>6. QED
      BY <1>0, <1>6, <2>2, <2>4, <2>5, Same DEF PostedStart, TypeInv, TypeOK, routineVars
  <1>7. CASE EnablePorts
    <2>1. HandlerType' /\ PortsInv' /\ StateInv'
      BY <1>0, <1>7 DEF EnablePorts, Goes, HandlerType, PortsInv, StateInv, machineVars
    <2>2. QED
      BY <1>0, <1>7, <2>1, Same DEF EnablePorts, TypeInv, TypeOK, routineVars
  <1>8. QED
    BY <1>1, <1>2, <1>3, <1>4, <1>5, <1>6, <1>7 DEF HandlerSteps

\* Indications, the ONU and other machines.
LEMMA OutsideTypes ==
    ASSUME TypeInv, Down \/ NameStopped \/ Answer \/ Fail \/ OtherRecords
    PROVE  TypeInv'
  <1>0. /\ HandlerType /\ PortsInv /\ MachineType /\ RoutineType /\ OnuType /\ BoundType
        /\ StateInv /\ TodoInv
    BY DEF TypeInv, TypeOK
  <1>1. CASE Down
    <2>1. HandlerType' /\ PortsInv'
      BY <1>0, <1>1 DEF Down, HandlerType, PortsInv
    <2>2. downs' \in Nat /\ UNCHANGED <<others, faults, missed, late>>
      BY <1>0, <1>1 DEF Down, BoundType
    <2>3. BoundType'
      BY <1>0, <2>2 DEF BoundType
    <2>4. /\ MachineType'
          /\ commChan' \in [Machines -> Seq(Requests \cup {Abort})]
          /\ StateInv'
      <3>0. UNCHANGED task /\ active' = {}
        BY <1>1 DEF Down
      <3>1. ASSUME NEW m \in Machines, Reset(m, posts[m])
            PROVE  /\ MachineType'
                   /\ commChan' \in [Machines -> Seq(Requests \cup {Abort})]
                   /\ StateInv'
        <4>1. posts[m] \in [start : Nat, reset : Nat, restart : Nat]
          BY <1>0 DEF MachineType
        <4>2. QED
          BY <3>0, <3>1, <4>1, ResetTypes
      <3>2. CASE UNCHANGED <<machineVars, commChan>>
        <4>1. MachineType'
          BY <1>0, <3>2, Same
        <4>2. StateInv'
          BY <1>0, <3>0, <3>2 DEF StateInv, machineVars
        <4>3. QED
          BY <1>0, <3>2, <4>1, <4>2 DEF RoutineType
      <3>3. QED
        BY <1>1, <3>1, <3>2 DEF Down, Machines
    <2>5. RoutineType'
      BY <1>0, <1>1, <2>4 DEF Down, RoutineType
    <2>6. QED
      BY <1>0, <1>1, <2>1, <2>3, <2>4, <2>5, Same DEF Down, TypeInv, TypeOK, routineVars
  <1>2. CASE NameStopped
    <2>1. HandlerType' /\ PortsInv' /\ StateInv'
      BY <1>0, <1>2 DEF NameStopped, HandlerType, PortsInv, StateInv, machineVars
    <2>2. QED
      BY <1>0, <1>2, <2>1, Same DEF NameStopped, TypeInv, TypeOK, routineVars
  <1>3. CASE Answer
    <2>1. Head(line) \in Requests /\ Tail(line) \in Seq(Requests) /\ line # << >>
      BY <1>0, <1>3 DEF Answer, OnuType
    <2>2. Head(line).from \in Machines
      BY <2>1 DEF Requests
    <2>3. OnuType'
      BY <1>0, <1>3, <2>1 DEF Answer, OnuType
    <2>4. commChan' \in [Machines -> Seq(Requests \cup {Abort})]
      <3> DEFINE to == Head(line).from
                 ch == Append(commChan[to], Head(line))
      <3>1. ch \in Seq(Requests \cup {Abort})
        BY <1>0, <2>1, <2>2 DEF RoutineType
      <3>2. commChan' = commChan \/ commChan' = [commChan EXCEPT ![to] = ch]
        BY <1>3 DEF Answer
      <3> HIDE DEF ch, to
      <3>3. QED
        BY <1>0, <3>1, <3>2 DEF RoutineType
    <2>5. RoutineType'
      BY <1>0, <1>3, <2>4 DEF Answer, RoutineType
    <2>6. StateInv'
      BY <1>0, <1>3, Same DEF Answer, machineVars, handlerVars
    <2>7. QED
      BY <1>0, <1>3, <2>3, <2>5, <2>6, Same DEF Answer, TypeInv, TypeOK, routineVars
  <1>4. CASE Fail
    <2>1. Tail(line) \in Seq(Requests)
      BY <1>0, <1>4 DEF Fail, OnuType
    <2>2. OnuType'
      BY <1>0, <1>4, <2>1 DEF Fail, OnuType
    <2>3. faults' \in Nat /\ UNCHANGED <<downs, others, missed, late>>
      BY <1>0, <1>4 DEF Fail, BoundType
    <2>4. BoundType'
      BY <1>0, <2>3 DEF BoundType
    <2>5. StateInv'
      BY <1>0, <1>4, Same DEF Fail, machineVars, handlerVars
    <2>6. QED
      BY <1>0, <1>4, <2>2, <2>4, <2>5, Same DEF Fail, TypeInv, TypeOK, routineVars
  <1>5. CASE OtherRecords
    <2>1. RoutineType'
      BY <1>0, <1>5 DEF OtherRecords, RoutineType
    <2>2. others' \in Nat /\ UNCHANGED <<downs, faults, missed, late>>
      BY <1>0, <1>5 DEF OtherRecords, BoundType
    <2>3. BoundType'
      BY <1>0, <2>2 DEF BoundType
    <2>4. StateInv'
      BY <1>0, <1>5, Same DEF OtherRecords, machineVars, handlerVars
    <2>5. QED
      BY <1>0, <1>5, <2>1, <2>3, <2>4, Same DEF OtherRecords, TypeInv, TypeOK, routineVars
  <1>6. QED
    BY <1>1, <1>2, <1>3, <1>4, <1>5

\* The message loops.
LEMMA LoopTypes ==
    ASSUME TypeInv, NEW m \in Machines, MessageLoop(m)
    PROVE  TypeInv'
  <1>0. /\ HandlerType /\ PortsInv /\ MachineType /\ RoutineType /\ OnuType /\ BoundType
        /\ StateInv /\ TodoInv
    BY DEF TypeInv, TypeOK
  <1>1. ASSUME NEW q, Reads(m, q)
        PROVE  /\ HandlerType' /\ PortsInv' /\ MachineType' /\ OnuType' /\ StateInv'
               /\ commChan' \in [Machines -> Seq(Requests \cup {Abort})]
               /\ missed' \in BOOLEAN => BoundType'
               /\ UNCHANGED lastTx
    <2>1. commChan[m] \in Seq(Requests \cup {Abort}) /\ commChan[m] # << >>
          /\ commChan' = [commChan EXCEPT ![m] = Tail(commChan[m])]
      BY <1>0, <1>1 DEF Reads, RoutineType
    <2>2. Tail(commChan[m]) \in Seq(Requests \cup {Abort})
      BY <2>1
    <2>3. commChan' \in [Machines -> Seq(Requests \cup {Abort})]
      BY <1>0, <2>1, <2>2 DEF RoutineType
    <2>4. UNCHANGED <<handlerVars, machineVars, lastTx, onuVars, downs, others, faults, late>>
      BY <1>1 DEF Reads
    <2>5. missed' \in BOOLEAN => BoundType'
      BY <1>0, <2>4 DEF BoundType
    <2>6. StateInv'
      BY <1>0, <2>4, Same DEF handlerVars, machineVars
    <2>7. QED
      BY <1>0, <2>3, <2>4, <2>5, <2>6, Same
  <1>2. CASE ReadAbort(m)
    <2>1. Reads(m, Abort) /\ loop' = [loop EXCEPT ![m] = "gone"] /\ UNCHANGED <<work, missed>>
      BY <1>2 DEF ReadAbort
    <2>2. missed' \in BOOLEAN
      BY <1>0, <2>1 DEF BoundType
    <2>3. commChan' \in [Machines -> Seq(Requests \cup {Abort})] /\ UNCHANGED lastTx
      BY <1>1, <2>1
    <2>4. RoutineType' /\ TodoInv'
      BY <1>0, <2>1, <2>3, Same DEF RoutineType
    <2>5. QED
      BY <1>1, <2>1, <2>2, <2>4 DEF TypeInv, TypeOK
  <1>3. CASE ReadUnexpected(m)
    <2>1. PICK q \in acked : Reads(m, q) /\ missed' = (missed \/ lastTx # q.entity)
      BY <1>3 DEF ReadUnexpected
    <2>2. missed' \in BOOLEAN
      BY <2>1
    <2>3. commChan' \in [Machines -> Seq(Requests \cup {Abort})] /\ UNCHANGED lastTx
      BY <1>1, <2>1
    <2>4. RoutineType' /\ TodoInv'
      BY <1>0, <1>3, <2>3, Same DEF RoutineType, ReadUnexpected
    <2>5. QED
      BY <1>1, <2>1, <2>2, <2>4 DEF TypeInv, TypeOK
  <1>4. CASE ReadSimple(m)
    <2>1. PICK q \in acked : /\ Reads(m, q) /\ q.entity.class \in Simple
                             /\ loop' = [loop EXCEPT ![m] = q.entity.class]
      BY <1>4 DEF ReadSimple
    <2>2. UNCHANGED <<work, missed>> /\ missed' \in BOOLEAN
      BY <1>0, <1>4 DEF ReadSimple, BoundType
    <2>3. commChan' \in [Machines -> Seq(Requests \cup {Abort})] /\ UNCHANGED lastTx
      BY <1>1, <2>1
    <2>4. RoutineType' /\ TodoInv'
      BY <1>0, <2>1, <2>2, <2>3, Same DEF RoutineType
    <2>5. QED
      BY <1>1, <2>1, <2>2, <2>4 DEF TypeInv, TypeOK
  <1>5. CASE ReadMulti(m)
    <2>1. PICK q \in acked : Reads(m, q)
      BY <1>5 DEF ReadMulti
    <2>2. missed' \in BOOLEAN
      BY <1>0, <1>5 DEF ReadMulti, BoundType
    <2>3. commChan' \in [Machines -> Seq(Requests \cup {Abort})] /\ UNCHANGED lastTx
      BY <1>1, <2>1
    <2>4. RoutineType' /\ TodoInv'
      <3>1. CASE work[m].at = "wait"
        BY <1>0, <1>5, <2>3, <3>1, ReleasedTypes DEF RoutineType, ReadMulti, WorkType, Steps
      <3>2. CASE work[m].at # "wait"
        BY <1>0, <1>5, <2>3, <3>2, Same DEF RoutineType, ReadMulti
      <3>3. QED
        BY <3>1, <3>2
    <2>5. QED
      BY <1>1, <2>1, <2>2, <2>4 DEF TypeInv, TypeOK
  <1>6. CASE PostEvent(m)
    <2>1. Advance(m, loop[m]) /\ loop[m] \in Simple /\ acked' = acked
      BY <1>6 DEF PostEvent
    <2>2. /\ state' \in [Machines -> Running \cup {"disabled", "resetting"}]
          /\ callback' \in [Machines -> Entities \cup {None}] /\ OnuType'
      BY <2>1, AdvanceTypes
    <2>3. MachineType'
      BY <1>0, <1>6, <2>2 DEF PostEvent, MachineType
    <2>4. StateInv'
      BY <1>0, <1>6, <2>1, AdvanceStates DEF PostEvent, handlerVars
    <2>5. RoutineType' /\ TodoInv'
      <3>1. work' = work \/ work' = Moved(m, "begin")
        BY <1>6 DEF PostEvent
      <3>2. work' \in [Machines -> WorkType] /\ TodoInv'
        BY <1>0, <3>1, MovedTypes, Same DEF RoutineType, WorkType, Steps
      <3>3. loop' \in [Machines -> {"off", "read", "hand", "callback", "gone"} \cup Simple]
        BY <1>0, <1>6 DEF PostEvent, RoutineType
      <3>4. QED
        BY <1>0, <1>6, <3>2, <3>3 DEF PostEvent, RoutineType, WorkType, Steps
    <2>6. QED
      BY <1>0, <1>6, <2>2, <2>3, <2>4, <2>5, Same DEF PostEvent, TypeInv, TypeOK
  <1>7. QED
    BY <1>2, <1>3, <1>4, <1>5, <1>6 DEF MessageLoop

\* What a goroutine has to ask for.
LEMMA ToDoType ==
    ASSUME TypeInv, NEW m \in Machines, NEW order \in Orders(DOMAIN ports)
    PROVE  ToDo(m, order) \in Seq(Entities)
  <1> DEFINE N == Cardinality(DOMAIN ports)
  <1>1. N \in Nat
    BY FS_CardinalityType DEF TypeInv, PortsInv
  <1>2. order \in [1 .. N -> DOMAIN ports] /\ order \in Seq(DOMAIN ports) /\ Len(order) = N
    BY <1>1 DEF Orders
  <1>3. \A i \in 1 .. N : ports[order[i]] \in PortType
    BY <1>2 DEF TypeInv, TypeOK, HandlerType, PortType
  <1> HIDE DEF N
  <1>4. CASE m = "download"
    <2>1. ASSUME NEW i \in 1 .. 3 * N
          PROVE  /\ ((i - 1) \div 3) + 1 \in 1 .. N
                 /\ BridgeClasses[((i - 1) % 3) + 1] \in {"mbsp", "mbpcd", "evtocd"}
      <3>1. ((i - 1) \div 3) + 1 \in 1 .. N /\ ((i - 1) % 3) + 1 \in 1 .. 3
        BY <1>1
      <3>2. QED
        BY <3>1 DEF BridgeClasses
    <2>2. ASSUME NEW q \in PortType, NEW c \in {"mbsp", "mbpcd", "evtocd"}
          PROVE  BridgeEntity(q, c) \in Entities
      BY DEF BridgeEntity, Entity, Entities, Classes, PortType
    <2>3. ASSUME NEW i \in 1 .. 3 * N
          PROVE  BridgeEntity(ports[order[((i - 1) \div 3) + 1]],
                              BridgeClasses[((i - 1) % 3) + 1]) \in Entities
      BY <1>3, <2>1, <2>2
    <2>4. BridgeSetup(order) \in [1 .. 3 * N -> Entities] /\ 3 * N \in Nat
      BY <1>1, <1>2, <2>3 DEF BridgeSetup
    <2>5. QED
      BY <1>4, <2>4 DEF ToDo
  <1>5. CASE m = "unlock"
    <2>1. ASSUME NEW i \in 1 .. N
          PROVE  Entity(IF ports[order[i]].type = "pptp" THEN "uniG" ELSE "veip",
                        ports[order[i]].inst) \in Entities
      BY <1>3 DEF Entity, Entities, Classes, PortType
    <2>2. AdminSet(order) \in [1 .. N -> Entities]
      BY <1>2, <2>1 DEF AdminSet
    <2>3. QED
      BY <1>1, <1>5, <2>2 DEF ToDo
  <1>6. QED
    BY <1>4, <1>5 DEF Machines

LEMMA WorkerTypes ==
    ASSUME TypeInv, NEW m \in Machines, Worker(m) \/ TimeOut(m)
    PROVE  TypeInv'
  <1>0. /\ HandlerType /\ PortsInv /\ MachineType /\ RoutineType /\ OnuType /\ BoundType
        /\ StateInv /\ TodoInv
    BY DEF TypeInv, TypeOK
  <1>1. CASE Begin(m)
    <2>1. PICK order \in Orders(DOMAIN ports) :
             work' = [work EXCEPT ![m] =
                         Goroutine(IF ToDo(m, order) = << >> THEN "next" ELSE "send",
                                   ToDo(m, order))]
      BY <1>1 DEF Begin
    <2> DEFINE todo == ToDo(m, order)
               to == IF todo = << >> THEN "next" ELSE "send"
               w == Goroutine(to, todo)
    <2>2. todo \in Seq(Entities)
      BY ToDoType
    <2>3. /\ w \in WorkType /\ w.at = to /\ w.todo = todo
          /\ to = "send" => todo # << >>
          /\ to = "next" => todo = << >>
          /\ to \in {"send", "next"}
      BY <2>2 DEF Goroutine, WorkType, Steps
    <2>4. work \in [Machines -> WorkType] /\ work' = [work EXCEPT ![m] = w]
      BY <1>0, <2>1 DEF RoutineType, WorkType, Steps
    <2> HIDE DEF w, to, todo
    <2>5. /\ work' \in [Machines -> WorkType] /\ work'[m] = w
          /\ \A k \in Machines \ {m} : work'[k] = work[k]
      BY <2>3, <2>4
    <2>6. TodoInv'
      BY <1>0, <2>3, <2>5 DEF TodoInv
    <2>7. RoutineType'
      BY <1>0, <1>1, <2>5 DEF Begin, RoutineType, WorkType, Steps
    <2>8. StateInv'
      BY <1>0, <1>1, Same DEF Begin, machineVars, handlerVars
    <2>9. QED
      BY <1>0, <1>1, <2>6, <2>7, <2>8, Same DEF Begin, TypeInv, TypeOK
  <1>2. CASE Send(m)
    <2>1. work' \in [Machines -> WorkType] /\ TodoInv'
      BY <1>0, <1>2, MovedTypes DEF Send, Steps, TodoInv
    <2>2. RoutineType'
      BY <1>0, <1>2, <2>1 DEF Send, RoutineType, WorkType, Steps
    <2>3. work[m].todo \in Seq(Entities) /\ work[m].todo # << >>
      BY <1>0, <1>2 DEF Send, RoutineType, TodoInv
    <2>4. Request(m, Head(work[m].todo)) \in Requests
      BY <2>3, SimpleEntities
    <2>5. OnuType'
      BY <1>0, <1>2, <2>4 DEF Send, OnuType
    <2>6. StateInv'
      BY <1>0, <1>2, Same DEF Send, machineVars, handlerVars
    <2>7. QED
      BY <1>0, <1>2, <2>1, <2>2, <2>5, <2>6, Same DEF Send, TypeInv, TypeOK
  <1>3. CASE RecordAndWait(m)
    <2>1. work[m].todo \in Seq(Entities) /\ work[m].todo # << >>
      BY <1>0, <1>3 DEF RecordAndWait, RoutineType, TodoInv
    <2>2. Head(work[m].todo) \in Entities
      BY <2>1
    <2>3. work' \in [Machines -> WorkType] /\ TodoInv'
      <3>1. CASE loop[m] = "hand"
        BY <1>3, <3>1, ReleasedTypes DEF RecordAndWait
      <3>2. CASE loop[m] # "hand"
        BY <1>3, <2>1, <3>2, MovedTypes DEF RecordAndWait, Steps
      <3>3. QED
        BY <3>1, <3>2
    <2>4. loop' \in [Machines -> {"off", "read", "hand", "callback", "gone"} \cup Simple]
      BY <1>0, <1>3 DEF RecordAndWait, RoutineType
    <2>5. RoutineType'
      BY <1>0, <1>3, <2>2, <2>3, <2>4 DEF RecordAndWait, RoutineType, WorkType, Steps
    <2>6. StateInv'
      BY <1>0, <1>3, Same DEF RecordAndWait, machineVars, handlerVars
    <2>7. QED
      BY <1>0, <1>3, <2>3, <2>5, <2>6, Same DEF RecordAndWait, TypeInv, TypeOK
  <1>4. CASE TimeOut(m)
    <2>1. work' \in [Machines -> WorkType] /\ TodoInv'
      BY <1>0, <1>4, MovedTypes DEF TimeOut, Steps
    <2>2. RoutineType'
      BY <1>0, <1>4, <2>1 DEF TimeOut, RoutineType, WorkType, Steps
    <2>3. late' \in BOOLEAN /\ UNCHANGED <<downs, others, faults, missed>>
      BY <1>0, <1>4 DEF TimeOut, BoundType
    <2>4. BoundType'
      BY <1>0, <2>3 DEF BoundType
    <2>5. StateInv'
      BY <1>0, <1>4, Same DEF TimeOut, machineVars, handlerVars
    <2>6. QED
      BY <1>0, <1>4, <2>1, <2>2, <2>4, <2>5, Same DEF TimeOut, TypeInv, TypeOK
  <1>5. CASE AbortRun(m)
    <2>1. work' \in [Machines -> WorkType] /\ TodoInv'
      BY <1>0, <1>5, MovedTypes DEF AbortRun, Steps
    <2>2. posts[m] \in [start : Nat, reset : Nat, restart : Nat] /\ UNCHANGED <<task, active>>
      BY <1>0, <1>5 DEF AbortRun, MachineType, handlerVars
    <2>3. /\ MachineType' /\ StateInv'
          /\ commChan' \in [Machines -> Seq(Requests \cup {Abort})]
      BY <1>5, <2>2, ResetTypes DEF AbortRun
    <2>4. RoutineType'
      BY <1>0, <1>5, <2>1, <2>3 DEF AbortRun, RoutineType, WorkType, Steps
    <2>5. QED
      BY <1>0, <1>5, <2>1, <2>3, <2>4, Same DEF AbortRun, TypeInv, TypeOK
  <1>6. CASE EndWork(m)
    <2>1. work' \in [Machines -> WorkType] /\ TodoInv'
      BY <1>0, <1>6, MovedTypes DEF EndWork, Steps
    <2>2. RoutineType'
      BY <1>0, <1>6, <2>1 DEF EndWork, RoutineType, WorkType, Steps
    <2> DEFINE s == IF m = "download" THEN "bridge" ELSE "unis"
    <2>3. Advance(m, s) /\ s \in {"starting"} \cup Simple \cup Multi /\ acked' = acked
      BY <1>6 DEF EndWork, Multi
    <2>4. /\ state' \in [Machines -> Running \cup {"disabled", "resetting"}]
          /\ callback' \in [Machines -> Entities \cup {None}] /\ OnuType'
      BY <2>3, AdvanceTypes
    <2>5. posts' \in [Machines -> [start : Nat, reset : Nat, restart : Nat]]
      <3>1. posts[m].reset + 1 \in Nat
        BY <1>0 DEF MachineType
      <3>2. [posts[m] EXCEPT !.reset = @ + 1] \in [start : Nat, reset : Nat, restart : Nat]
        BY <1>0, <3>1 DEF MachineType
      <3>3. posts' = posts \/ posts' = [posts EXCEPT ![m] = [posts[m] EXCEPT !.reset = @ + 1]]
        BY <1>0, <1>6 DEF EndWork, MachineType
      <3>4. QED
        BY <1>0, <3>2, <3>3 DEF MachineType
    <2>6. MachineType'
      BY <2>4, <2>5 DEF MachineType
    <2>7. HandlerType' /\ PortsInv'
      BY <1>0, <1>6 DEF EndWork, HandlerType, PortsInv
    <2>8. StateInv'
      <3>1. CASE Stays
        <4>1. UNCHANGED <<state, task, active>>
          BY <1>6, <3>1 DEF EndWork, Stays
        <4>2. QED
          BY <1>0, <4>1, Same
      <3>2. CASE \E to \in Running : Moves(m, s, to)
        <4>1. state[m] = s /\ state' = [state EXCEPT ![m] = "done"]
          BY <3>2 DEF Moves, Edges
        <4>2. /\ task' = IF m = "download" THEN [task EXCEPT !.downloaded = "spawned"]
                                           ELSE [task EXCEPT !.enable = "spawned"]
              /\ UNCHANGED active
          BY <1>0, <1>6, <4>1 DEF EndWork, MachineType
        <4>3. QED
          BY <1>0, <4>1, <4>2 DEF StateInv, HandlerType, MachineType, Machines
      <3>3. QED
        BY <1>0, <2>3, <3>1, <3>2, Advances
    <2>9. QED
      BY <1>0, <1>6, <2>1, <2>2, <2>4, <2>6, <2>7, <2>8, Same DEF EndWork, TypeInv, TypeOK
  <1>7. QED
    BY <1>1, <1>2, <1>3, <1>4, <1>5, <1>6 DEF Worker

LEMMA MachineStepTypes ==
    ASSUME TypeInv, NEW m \in Machines, MachineSteps(m)
    PROVE  TypeInv'
  <1>0. /\ HandlerType /\ PortsInv /\ MachineType /\ RoutineType /\ OnuType /\ BoundType
        /\ StateInv /\ TodoInv
    BY DEF TypeInv, TypeOK
  <1>1. CASE Recorded(m)
    <2>1. MachineType'
      BY <1>0, <1>1 DEF Recorded, MachineType
    <2>2. callback[m] \in Entities
      BY <1>0, <1>1 DEF Recorded, MachineType
    <2>3. RoutineType'
      BY <1>0, <1>1, <2>2 DEF Recorded, RoutineType
    <2>4. StateInv' /\ TodoInv'
      BY <1>0, <1>1, Same DEF Recorded, handlerVars
    <2>5. QED
      BY <1>0, <1>1, <2>1, <2>3, <2>4, Same DEF Recorded, TypeInv, TypeOK
  <1>2. CASE PostedReset(m)
    <2> DEFINE p == [posts[m] EXCEPT !.reset = @ - 1]
    <2>1. p \in [start : Nat, reset : Nat, restart : Nat]
      <3>1. posts[m].reset - 1 \in Nat
        BY <1>0, <1>2 DEF PostedReset, MachineType
      <3>2. QED
        BY <1>0, <3>1 DEF MachineType
    <2>2. Reset(m, p) /\ UNCHANGED <<task, active>>
      BY <1>2 DEF PostedReset, handlerVars
    <2> HIDE DEF p
    <2>3. /\ MachineType' /\ StateInv'
          /\ commChan' \in [Machines -> Seq(Requests \cup {Abort})]
      BY <2>1, <2>2, ResetTypes
    <2>4. RoutineType' /\ TodoInv'
      BY <1>0, <1>2, <2>3, Same DEF PostedReset, RoutineType
    <2>5. QED
      BY <1>0, <1>2, <2>3, <2>4, Same DEF PostedReset, TypeInv, TypeOK
  <1>3. CASE PostedRestart(m)
    <2>1. posts' \in [Machines -> [start : Nat, reset : Nat, restart : Nat]]
      <3>1. posts[m].restart - 1 \in Nat
        BY <1>0, <1>3 DEF PostedRestart, MachineType
      <3>2. [posts[m] EXCEPT !.restart = @ - 1] \in [start : Nat, reset : Nat, restart : Nat]
        BY <1>0, <3>1 DEF MachineType
      <3>3. posts' = [posts EXCEPT ![m] = [posts[m] EXCEPT !.restart = @ - 1]]
        BY <1>0, <1>3 DEF PostedRestart, MachineType
      <3>4. QED
        BY <1>0, <3>2, <3>3 DEF MachineType
    <2>2. MachineType'
      BY <1>0, <1>3, <2>1 DEF PostedRestart, MachineType
    <2>3. StateInv'
      BY <1>0, <1>3 DEF PostedRestart, handlerVars, StateInv, MachineType, Machines
    <2>4. TodoInv' /\ RoutineType'
      BY <1>0, <1>3, Same DEF PostedRestart, routineVars
    <2>5. QED
      BY <1>0, <1>3, <2>2, <2>3, <2>4, Same DEF PostedRestart, TypeInv, TypeOK
  <1>4. QED
    BY <1>1, <1>2, <1>3 DEF MachineSteps

LEMMA NextTypes == TypeInv /\ [Next]_vars => TypeInv'
  <1> SUFFICES ASSUME TypeInv, [Next]_vars
               PROVE  TypeInv'
    OBVIOUS
  <1>1. CASE HandlerSteps
    BY <1>1, HandlerStepTypes
  <1>2. ASSUME NEW m \in Machines,
               MessageLoop(m) \/ Worker(m) \/ TimeOut(m) \/ MachineSteps(m)
        PROVE  TypeInv'
    BY <1>2, LoopTypes, WorkerTypes, MachineStepTypes
  <1>3. CASE Down \/ NameStopped \/ Answer \/ Fail \/ OtherRecords
    BY <1>3, OutsideTypes
  <1>4. CASE UNCHANGED vars
    BY <1>4, Same DEF vars, TypeInv, TypeOK, handlerVars, machineVars, routineVars
  <1>5. QED
    BY <1>1, <1>2, <1>3, <1>4 DEF Next, Goroutines

(* The channels, the goroutines and the variables of the handler keep      *)
(* their types, and the machines are where the handler's progress allows.  *)
THEOREM TypeCorrect == Spec => []TypeOK
  <1>1. TypeInv => TypeOK
    BY DEF TypeInv
  <1>2. QED
    BY <1>1, InitTypes, NextTypes, PTL DEF Spec

-----------------------------------------------------------------------------
(***************************************************************************)
(* The ports of the device.                                                *)
(***************************************************************************)
PortsOfMib == mib \in Mibs /\ (ports = << >> \/ ports = AddUniPorts(PortsOf(mib)))

LEMMA PortsSteps ==
    ASSUME [Next]_vars
    PROVE  UNCHANGED <<mib, ports>> \/ StartDownload
  <1>1. CASE HandlerSteps
    BY <1>1 DEF HandlerSteps, NameMibSync, CreateGal, NameDownloaded, StartUnlock, PostedStart,
                EnablePorts, handlerVars
  <1>2. ASSUME NEW m \in Machines, MessageLoop(m)
        PROVE  UNCHANGED <<mib, ports>>
    BY <1>2 DEF MessageLoop, ReadAbort, ReadUnexpected, ReadSimple, ReadMulti, PostEvent, Reads,
                handlerVars
  <1>3. ASSUME NEW m \in Machines, Worker(m) \/ TimeOut(m)
        PROVE  UNCHANGED <<mib, ports>>
    BY <1>3 DEF Worker, Begin, Send, RecordAndWait, AbortRun, EndWork, TimeOut, handlerVars
  <1>4. ASSUME NEW m \in Machines, MachineSteps(m)
        PROVE  UNCHANGED <<mib, ports>>
    BY <1>4 DEF MachineSteps, Recorded, PostedReset, PostedRestart, handlerVars
  <1>5. CASE Down \/ NameStopped \/ Answer \/ Fail \/ OtherRecords
    BY <1>5 DEF Down, NameStopped, Answer, Fail, OtherRecords, handlerVars
  <1>6. CASE UNCHANGED vars
    BY <1>6 DEF vars, handlerVars
  <1>7. QED
    BY <1>1, <1>2, <1>3, <1>4, <1>5, <1>6 DEF Next, Goroutines

(* getSortedInstKeys, mkUniPortNum and addUniPort: an ONU with as many     *)
(* UNIs as the port number has room for gets one port for each, whose      *)
(* numbers order PPTPs before VEIPs and each by their instances; for       *)
(* every number of bits, ONU id and MIB.                                   *)
THEOREM PortsFollow == Spec => []PortsFollowMib
  <1>1. Init => PortsOfMib
    BY DEF Init, PortsOfMib
  <1>2. PortsOfMib /\ [Next]_vars => PortsOfMib'
    <2>1. SUFFICES ASSUME PortsOfMib, [Next]_vars
                   PROVE  PortsOfMib'
      OBVIOUS
    <2>2. CASE UNCHANGED <<mib, ports>>
      BY <2>1, <2>2 DEF PortsOfMib
    <2>3. CASE StartDownload
      BY <2>1, <2>3 DEF PortsOfMib, StartDownload
    <2>4. QED
      BY <2>1, <2>2, <2>3, PortsSteps
  <1>3. PortsOfMib => PortsFollowMib
    <2>1. SUFFICES ASSUME mib \in Mibs, ports = AddUniPorts(PortsOf(mib)),
                          Cardinality(Instances) <= MaxUnisPerOnu
                   PROVE  /\ Instances = {Uni(n) : n \in DOMAIN ports}
                          /\ \A n, k \in DOMAIN ports : n < k <=> Before(Uni(n), Uni(k))
      BY DEF PortsOfMib, PortsFollowMib
    <2>2. Instances = InstancesOf(mib) /\ \A n \in DOMAIN ports : Uni(n) = UniOf(ports[n])
      BY DEF Instances, InstancesOf, Uni, UniOf
    <2>3. /\ InstancesOf(mib) = {UniOf(ports[n]) : n \in DOMAIN ports}
          /\ \A n, k \in DOMAIN ports : n < k <=> Before(UniOf(ports[n]), UniOf(ports[k]))
      BY <2>1, <2>2, PortsComplete
    <2>4. {Uni(n) : n \in DOMAIN ports} = {UniOf(ports[n]) : n \in DOMAIN ports}
      BY <2>2
    <2>5. QED
      BY <2>2, <2>3, <2>4
  <1>4. QED
    BY <1>1, <1>2, <1>3, PTL DEF Spec

-----------------------------------------------------------------------------
(***************************************************************************)
(* The refinement.                                                         *)
(***************************************************************************)
Told(m) == IF m = "download" THEN task.downloaded # "none" ELSE task.enable # "none"

Quietly(m) ==
    \/ state'[m] = state[m]
    \/ state[m] = "disabled" /\ state'[m] = "starting"
    \/ state[m] \in Running \ {"done"} /\ state'[m] \in Running \ {"done"}
    \/ state[m] \in Running /\ state'[m] = "resetting"
    \/ state[m] = "resetting" /\ state'[m] = "disabled"

StepsOf(m) ==
    \/ Quietly(m) /\ (Told(m)' <=> Told(m))
    \/ state[m] \in Multi /\ state'[m] = "done" /\ ~Told(m) /\ Told(m)'

LEMMA UnchangedSteps ==
    ASSUME NEW m \in Machines, UNCHANGED <<state, task>>
    PROVE  StepsOf(m)
  BY DEF StepsOf, Quietly, Told

\* An event moves its machine on, and no other.
LEMMA AdvanceSteps ==
    ASSUME TypeInv, NEW k \in Machines, NEW m \in Machines,
           NEW s \in {"starting"} \cup Simple, Advance(k, s)
    PROVE  Quietly(m)
  <1>0. StateInv /\ MachineType
    BY DEF TypeInv, TypeOK
  <1>1. CASE Stays
    BY <1>1 DEF Stays, Quietly
  <1>2. CASE \E to \in Running : Moves(k, s, to)
    <2>1. PICK to \in Running : Moves(k, s, to)
      BY <1>2
    <2>2. state' = [state EXCEPT ![k] = to] /\ state[k] = s
      BY <2>1 DEF Moves
    <2>3. to # "done" /\ s \in Running \ {"done"}
      BY <2>1 DEF Moves, Edges, Simple, Running
    <2>4. QED
      BY <1>0, <2>2, <2>3 DEF Quietly, MachineType
  <1>3. QED
    BY <1>0, <1>1, <1>2, Advances

LEMMA ResetSteps ==
    ASSUME TypeInv, NEW k \in Machines, NEW m \in Machines, NEW p, Reset(k, p)
    PROVE  Quietly(m)
  BY DEF Reset, Quietly, TypeInv, TypeOK, MachineType

LEMMA StageSteps ==
    ASSUME TypeInv, [Next]_vars, NEW m \in Machines
    PROVE  StepsOf(m)
  <1>0. StateInv /\ MachineType /\ HandlerType
    BY DEF TypeInv, TypeOK
  <1>1. CASE HandlerSteps
    <2>1. CASE NameMibSync \/ NameDownloaded \/ EnablePorts
      <3>1. UNCHANGED state /\ (Told(m)' <=> Told(m))
        BY <1>0, <2>1 DEF NameMibSync, NameDownloaded, EnablePorts, Goes, machineVars, Told,
                          HandlerType
      <3>2. QED
        BY <3>1 DEF StepsOf, Quietly
    <2>2. CASE StartDownload
      BY <1>0, <2>2 DEF StartDownload, Goes, StepsOf, Quietly, Told, StateInv, HandlerType,
                        MachineType, Machines
    <2>3. CASE CreateGal
      <3>1. Quietly(m)
        BY <2>3, AdvanceSteps DEF CreateGal, Machines
      <3>2. Told(m)' <=> Told(m)
        BY <1>0, <2>3 DEF CreateGal, Goes, Told, HandlerType
      <3>3. QED
        BY <3>1, <3>2 DEF StepsOf
    <2>4. CASE StartUnlock
      <3>1. Quietly(m)
        BY <1>0, <2>4 DEF StartUnlock, Goes, Quietly, StateInv, MachineType, Machines
      <3>2. Told(m)' <=> Told(m)
        BY <1>0, <2>4 DEF StartUnlock, Goes, Told, HandlerType
      <3>3. QED
        BY <3>1, <3>2 DEF StepsOf
    <2>5. CASE PostedStart
      <3>1. Quietly(m)
        BY <2>5, AdvanceSteps DEF PostedStart, Machines
      <3>2. Told(m)' <=> Told(m)
        BY <2>5 DEF PostedStart, Told, handlerVars
      <3>3. QED
        BY <3>1, <3>2 DEF StepsOf
    <2>6. QED
      BY <1>1, <2>1, <2>2, <2>3, <2>4, <2>5 DEF HandlerSteps
  <1>2. ASSUME NEW k \in Machines, MessageLoop(k)
        PROVE  StepsOf(m)
    <2>1. CASE PostEvent(k)
      <3>1. Quietly(m)
        BY <2>1, AdvanceSteps DEF PostEvent
      <3>2. Told(m)' <=> Told(m)
        BY <2>1 DEF PostEvent, Told, handlerVars
      <3>3. QED
        BY <3>1, <3>2 DEF StepsOf
    <2>2. CASE ReadAbort(k) \/ ReadUnexpected(k) \/ ReadSimple(k) \/ ReadMulti(k)
      <3>1. UNCHANGED <<state, task>>
        BY <2>2 DEF ReadAbort, ReadUnexpected, ReadSimple, ReadMulti, Reads, handlerVars,
                    machineVars
      <3>2. QED
        BY <3>1, UnchangedSteps
    <2>3. QED
      BY <1>2, <2>1, <2>2 DEF MessageLoop
  <1>3. ASSUME NEW k \in Machines, Worker(k) \/ TimeOut(k)
        PROVE  StepsOf(m)
    <2>1. CASE Begin(k) \/ Send(k) \/ RecordAndWait(k) \/ TimeOut(k)
      <3>1. UNCHANGED <<state, task>>
        BY <2>1 DEF Begin, Send, RecordAndWait, TimeOut, handlerVars, machineVars
      <3>2. QED
        BY <3>1, UnchangedSteps
    <2>2. CASE AbortRun(k)
      <3>1. Quietly(m)
        BY <2>2, ResetSteps DEF AbortRun
      <3>2. Told(m)' <=> Told(m)
        BY <2>2 DEF AbortRun, Told, handlerVars
      <3>3. QED
        BY <3>1, <3>2 DEF StepsOf
    <2>3. CASE EndWork(k)
      <3> DEFINE s == IF k = "download" THEN "bridge" ELSE "unis"
      <3>1. Advance(k, s) /\ s \in {"starting"} \cup Simple \cup Multi
        BY <2>3 DEF EndWork, Multi
      <3>2. CASE Stays
        <4>1. UNCHANGED <<state, task>>
          BY <2>3, <3>2 DEF EndWork, Stays
        <4>2. QED
          BY <4>1, UnchangedSteps
      <3>3. CASE \E to \in Running : Moves(k, s, to)
        <4>1. state[k] = s /\ state' = [state EXCEPT ![k] = "done"]
          BY <3>3 DEF Moves, Edges
        <4>2. task' = IF k = "download" THEN [task EXCEPT !.downloaded = "spawned"]
                                        ELSE [task EXCEPT !.enable = "spawned"]
          BY <1>0, <2>3, <4>1 DEF EndWork, MachineType
        <4>3. CASE m = k
          <5>1. ~Told(m)
            BY <1>0, <4>1, <4>3 DEF Told, StateInv, Machines
          <5>2. Told(m)'
            BY <1>0, <4>2, <4>3 DEF Told, HandlerType
          <5>3. state[m] \in Multi /\ state'[m] = "done"
            BY <1>0, <4>1, <4>3 DEF MachineType, Multi
          <5>4. QED
            BY <5>1, <5>2, <5>3 DEF StepsOf
        <4>4. CASE m # k
          <5>1. state'[m] = state[m]
            BY <1>0, <4>1, <4>4 DEF MachineType
          <5>2. Told(m)' <=> Told(m)
            BY <1>0, <4>2, <4>4 DEF Told, HandlerType, Machines
          <5>3. QED
            BY <5>1, <5>2 DEF StepsOf, Quietly
        <4>5. QED
          BY <4>3, <4>4
      <3>4. QED
        BY <1>0, <3>1, <3>2, <3>3, Advances
    <2>4. QED
      BY <1>3, <2>1, <2>2, <2>3 DEF Worker
  <1>4. ASSUME NEW k \in Machines, MachineSteps(k)
        PROVE  StepsOf(m)
    <2>1. Told(m)' <=> Told(m)
      BY <1>4 DEF MachineSteps, Recorded, PostedReset, PostedRestart, Told, handlerVars
    <2>2. Quietly(m)
      <3>1. CASE Recorded(k)
        BY <3>1 DEF Recorded, Quietly
      <3>2. CASE PostedReset(k)
        BY <3>2, ResetSteps DEF PostedReset
      <3>3. CASE PostedRestart(k)
        BY <1>0, <3>3 DEF PostedRestart, Quietly, MachineType
      <3>4. QED
        BY <1>4, <3>1, <3>2, <3>3 DEF MachineSteps
    <2>3. QED
      BY <2>1, <2>2 DEF StepsOf
  <1>5. CASE Down
    <2>1. Told(m)' <=> Told(m)
      BY <1>5 DEF Down, Told
    <2>2. Quietly(m)
      <3>1. CASE UNCHANGED <<machineVars, commChan>>
        BY <3>1 DEF machineVars, Quietly
      <3>2. QED
        BY <1>5, <3>1, ResetSteps DEF Down, Machines
    <2>3. QED
      BY <2>1, <2>2 DEF StepsOf
  <1>6. CASE NameStopped \/ Answer \/ Fail \/ OtherRecords \/ UNCHANGED vars
    <2>1. UNCHANGED <<state, task>>
      BY <1>6 DEF NameStopped, Answer, Fail, OtherRecords, vars, handlerVars, machineVars
    <2>2. QED
      BY <2>1, UnchangedSteps
  <1>7. QED
    BY <1>1, <1>2, <1>3, <1>4, <1>5, <1>6 DEF Next, Goroutines

LEMMA PhaseSteps ==
    ASSUME TypeInv, NEW m \in Machines, StepsOf(m)
    PROVE  \/ Phase(m)' = Phase(m) /\ (Told(m)' <=> Told(m))
           \/ Phase(m) = "disabled" /\ Phase(m)' = "running" /\ (Told(m)' <=> Told(m))
           \/ Phase(m) = "running" /\ Phase(m)' = "done" /\ ~Told(m) /\ Told(m)'
           \/ /\ Phase(m) \in {"running", "done"} /\ Phase(m)' = "resetting"
              /\ (Told(m)' <=> Told(m))
           \/ Phase(m) = "resetting" /\ Phase(m)' = "disabled" /\ (Told(m)' <=> Told(m))
  <1>1. /\ Phase(m) = IF state[m] \in Running \ {"done"} THEN "running" ELSE state[m]
        /\ Phase(m)' = IF state'[m] \in Running \ {"done"} THEN "running" ELSE state'[m]
    BY DEF Phase
  <1>2. /\ {"starting"} \cup Multi \subseteq Running \ {"done"}
        /\ "disabled" \notin Running /\ "resetting" \notin Running
    BY DEF Running, Multi, Simple
  <1>3. state[m] \in Running \cup {"disabled", "resetting"}
    BY DEF TypeInv, TypeOK, MachineType
  <1>4. CASE Quietly(m) /\ (Told(m)' <=> Told(m))
    <2>1. CASE state'[m] = state[m]
      BY <1>1, <1>4, <2>1
    <2>2. CASE state[m] = "disabled" /\ state'[m] = "starting"
      BY <1>1, <1>2, <1>4, <2>2
    <2>3. CASE state[m] \in Running \ {"done"} /\ state'[m] \in Running \ {"done"}
      BY <1>1, <1>4, <2>3
    <2>4. CASE state[m] \in Running /\ state'[m] = "resetting"
      BY <1>1, <1>2, <1>4, <2>4
    <2>5. CASE state[m] = "resetting" /\ state'[m] = "disabled"
      BY <1>1, <1>2, <1>4, <2>5
    <2>6. QED
      BY <1>4, <2>1, <2>2, <2>3, <2>4, <2>5 DEF Quietly
  <1>5. CASE state[m] \in Multi /\ state'[m] = "done" /\ ~Told(m) /\ Told(m)'
    BY <1>1, <1>2, <1>5
  <1>6. QED
    BY <1>4, <1>5 DEF StepsOf

(* enterBridgeInitState, enterAdminDoneState and their resets: the download *)
(* and the unlock are machines as StageMachine describes them, which tell  *)
(* the handler once, and only of a completed run.                          *)
THEOREM StagesImplemented == Spec => ImplementsStages
  <1>1. Init => Download!Init /\ Unlock!Init
    BY DEF Init, Download!Init, Unlock!Init, Phase, Machines, Running, Simple, Multi
  <1>2. TypeInv /\ [Next]_vars
            => [Download!Next]_<<Phase("download"), task.downloaded # "none">>
    <2>1. SUFFICES ASSUME TypeInv, [Next]_vars
                   PROVE  [Download!Next]_<<Phase("download"), task.downloaded # "none">>
      OBVIOUS
    <2>2. StepsOf("download") /\ "download" \in Machines
      BY <2>1, StageSteps DEF Machines
    <2>3. Told("download") <=> task.downloaded # "none"
      BY DEF Told
    <2>4. Told("download")' <=> task'.downloaded # "none"
      BY DEF Told
    <2>5. QED
      BY <2>1, <2>2, <2>3, <2>4, PhaseSteps
         DEF Download!Next, Download!Start, Download!Complete, Download!Reset,
             Download!Restart, Download!Go
  <1>3. TypeInv /\ [Next]_vars
            => [Unlock!Next]_<<Phase("unlock"), task.enable # "none">>
    <2>1. SUFFICES ASSUME TypeInv, [Next]_vars
                   PROVE  [Unlock!Next]_<<Phase("unlock"), task.enable # "none">>
      OBVIOUS
    <2>2. StepsOf("unlock") /\ "unlock" \in Machines
      BY <2>1, StageSteps DEF Machines
    <2>3. Told("unlock") <=> task.enable # "none"
      BY DEF Told
    <2>4. Told("unlock")' <=> task'.enable # "none"
      BY DEF Told
    <2>5. QED
      BY <2>1, <2>2, <2>3, <2>4, PhaseSteps
         DEF Unlock!Next, Unlock!Start, Unlock!Complete, Unlock!Reset, Unlock!Restart,
             Unlock!Go
  <1>4. QED
    BY <1>1, <1>2, <1>3, InitTypes, NextTypes, PTL
       DEF Spec, ImplementsStages, Download!Spec, Unlock!Spec, Download!vars, Unlock!vars

-----------------------------------------------------------------------------
(***************************************************************************)
(* Stage by stage.  At most one request of a goroutine is on its way, and  *)
(* its response can only be that of the entity the goroutine waits for, so *)
(* what it no longer has to ask for has been acknowledged.                 *)
(***************************************************************************)
\* A request or response of the goroutine of machine m.
Mine(m, q) == q.from = m /\ q.entity.class \notin Simple
Clear(m, s) == \A i \in DOMAIN s : ~Mine(m, s[i])
Holds(m, s, q) == \E i \in DOMAIN s : s[i] = q /\ \A j \in DOMAIN s \ {i} : ~Mine(m, s[j])

LEMMA Appended ==
    ASSUME NEW X, NEW s \in Seq(X), NEW x \in X, NEW m
    PROVE  /\ ~Mine(m, x) /\ Clear(m, s) => Clear(m, Append(s, x))
           /\ ~Mine(m, x) => \A q : Holds(m, s, q) => Holds(m, Append(s, x), q)
           /\ Clear(m, s) => Holds(m, Append(s, x), x)
  <1> DEFINE t == Append(s, x)
             n == Len(s)
  <1>1. /\ n \in Nat /\ DOMAIN s = 1 .. n /\ DOMAIN t = 1 .. n + 1
        /\ t[n + 1] = x /\ \A i \in 1 .. n : t[i] = s[i]
    OBVIOUS
  <1> HIDE DEF t, n
  <1>2. \A i \in DOMAIN t : i \in DOMAIN s \/ i = n + 1
    BY <1>1
  <1>3. DOMAIN s \subseteq DOMAIN t /\ n + 1 \in DOMAIN t
    BY <1>1
  <1>4. \A i \in DOMAIN s : t[i] = s[i]
    BY <1>1
  <1>5. ~Mine(m, x) /\ Clear(m, s) => Clear(m, t)
    BY <1>1, <1>2, <1>4 DEF Clear
  <1>6. ~Mine(m, x) => \A q : Holds(m, s, q) => Holds(m, t, q)
    BY <1>1, <1>2, <1>3, <1>4 DEF Holds
  <1>7. Clear(m, s) => Holds(m, t, x)
    BY <1>1, <1>2, <1>3, <1>4 DEF Holds, Clear
  <1>8. QED
    BY <1>5, <1>6, <1>7 DEF t

LEMMA Taken ==
    ASSUME NEW X, NEW s \in Seq(X), s # << >>, NEW m
    PROVE  /\ Clear(m, s) => Clear(m, Tail(s))
           /\ \A q : Holds(m, s, q) => Holds(m, Tail(s), q) \/ Clear(m, Tail(s))
           /\ Mine(m, Head(s)) => ~Clear(m, s)
           /\ Mine(m, Head(s)) => \A q : Holds(m, s, q) => Head(s) = q /\ Clear(m, Tail(s))
  <1> DEFINE t == Tail(s)
             n == Len(s)
  <1>1. /\ n \in Nat \ {0} /\ DOMAIN s = 1 .. n /\ DOMAIN t = 1 .. n - 1
        /\ Head(s) = s[1] /\ \A i \in 1 .. n - 1 : t[i] = s[i + 1]
    OBVIOUS
  <1> HIDE DEF t, n
  <1>2. 1 \in DOMAIN s /\ \A i \in DOMAIN t : i + 1 \in DOMAIN s /\ i + 1 # 1 /\ t[i] = s[i + 1]
    BY <1>1
  <1>3. \A i \in DOMAIN s \ {1} : i - 1 \in DOMAIN t /\ t[i - 1] = s[i]
    BY <1>1
  <1>4. Clear(m, s) => Clear(m, t)
    BY <1>2 DEF Clear
  <1>5. Mine(m, Head(s)) => ~Clear(m, s)
    BY <1>1, <1>2 DEF Clear
  <1>6. ASSUME NEW q, Holds(m, s, q)
        PROVE  /\ Holds(m, t, q) \/ Clear(m, t)
               /\ Mine(m, Head(s)) => Head(s) = q /\ Clear(m, t)
    <2>1. PICK i \in DOMAIN s : s[i] = q /\ \A j \in DOMAIN s \ {i} : ~Mine(m, s[j])
      BY <1>6 DEF Holds
    <2>2. CASE i = 1
      BY <1>1, <1>2, <2>1, <2>2 DEF Clear
    <2>3. CASE i # 1
      <3>1. i - 1 \in DOMAIN t /\ t[i - 1] = q
        BY <1>3, <2>1, <2>3
      <3>2. \A j \in DOMAIN t \ {i - 1} : j + 1 \in DOMAIN s \ {i}
        BY <1>1, <1>2
      <3>3. \A j \in DOMAIN t \ {i - 1} : ~Mine(m, t[j])
        BY <1>2, <2>1, <3>2
      <3>4. ~Mine(m, Head(s))
        BY <1>1, <1>2, <2>1, <2>3
      <3>5. QED
        BY <3>1, <3>3, <3>4 DEF Holds
    <2>4. QED
      BY <2>2, <2>3
  <1>7. QED
    BY <1>4, <1>5, <1>6 DEF t

Asked(m) ==
    IF m = "download" THEN UNION {BridgeOf(n) : n \in DOMAIN ports}
                      ELSE {UnlockOf(n) : n \in DOMAIN ports}
Asks(m, todo) == {Request(m, todo[i]) : i \in DOMAIN todo}
Early == {"starting"} \cup Simple
Quiet(m) == Clear(m, line) /\ Clear(m, commChan[m])
Current(m) == Request(m, Head(work[m].todo))

\* What the goroutine of m has sent for and not received.
OutInv(m) ==
    /\ work[m].at \in {"off", "begin", "send", "next"} => Quiet(m) /\ loop[m] # "hand"
    /\ work[m].at \in {"record", "wait"}
           => \/ Quiet(m) /\ loop[m] # "hand"
              \/ Quiet(m) /\ work[m].at = "record" /\ Current(m) \in acked
              \/ /\ loop[m] # "hand"
                 /\ Holds(m, line, Current(m)) /\ Clear(m, commChan[m])
              \/ /\ loop[m] # "hand"
                 /\ Clear(m, line) /\ Holds(m, commChan[m], Current(m))

ChanInv(m) ==
    \A i \in DOMAIN commChan[m] : commChan[m][i] = Abort \/ commChan[m][i].from = m

AskInv(m) ==
    /\ work[m].at \in {"send", "record", "wait", "next"}
           => Asked(m) \subseteq acked \cup Asks(m, work[m].todo)
    /\ Told(m) => Asked(m) \subseteq acked
    /\ state[m] \in Early => work[m].at = "off"
    /\ OutInv(m) /\ ChanInv(m)

\* The unlock comes after the download.
OrderInv ==
    /\ task.sync \in {"ready", "named"} => work["download"].at = "off"
    /\ task.downloaded # "done" => work["unlock"].at = "off"
    /\ \A q \in sent : q.from = "unlock" => task.downloaded = "done"

StageInv == OrderInv /\ \A m \in Machines : AskInv(m)

LEMMA StageInvSuffices == TypeInv /\ StageInv => StageByStage
  <1> SUFFICES ASSUME TypeInv, StageInv
               PROVE  StageByStage
    OBVIOUS
  <1>1. ASSUME NEW n \in DOMAIN ports, NEW k \in DOMAIN ports, UnlockOf(n) \in sent
        PROVE  BridgeOf(k) \subseteq acked
    <2>1. UnlockOf(n).from = "unlock"
      BY DEF UnlockOf, Request
    <2>2. Told("download")
      BY <1>1, <2>1 DEF StageInv, OrderInv, Told
    <2>3. Asked("download") \subseteq acked
      BY <2>2 DEF StageInv, AskInv, Machines
    <2>4. BridgeOf(k) \subseteq Asked("download")
      BY DEF Asked
    <2>5. QED
      BY <2>3, <2>4
  <1>2. ASSUME active # {}, NEW n \in DOMAIN ports
        PROVE  UnlockOf(n) \in acked
    <2>1. Told("unlock")
      BY <1>2 DEF TypeInv, StateInv, Told
    <2>2. Asked("unlock") \subseteq acked
      BY <2>1 DEF StageInv, AskInv, Machines
    <2>3. UnlockOf(n) \in Asked("unlock")
      BY DEF Asked
    <2>4. QED
      BY <2>2, <2>3
  <1>3. QED
    BY <1>1, <1>2 DEF StageByStage

\* A step of somebody else, from the view of machine m.
LineKept(m) ==
    /\ Clear(m, line) => Clear(m, line')
    /\ \A q : Holds(m, line, q) => Holds(m, line', q) \/ Clear(m, line')
ChanKept(m) ==
    /\ Clear(m, commChan[m]) => Clear(m, commChan'[m])
    /\ \A q : Holds(m, commChan[m], q) => Holds(m, commChan'[m], q) \/ Clear(m, commChan'[m])
    /\ ChanInv(m)'
Kept(m) ==
    /\ work'[m] = work[m]
    /\ loop'[m] = "hand" => loop[m] = "hand"
    /\ LineKept(m) /\ ChanKept(m)
    /\ acked \subseteq acked'
    /\ Told(m)' => Told(m)
    /\ ports' = ports
    /\ state'[m] \in Early => state[m] \in Early

LEMMA SamePlace ==
    ASSUME NEW m \in Machines, ChanInv(m)
    PROVE  /\ line' = line => LineKept(m)
           /\ commChan'[m] = commChan[m] => ChanKept(m)
  BY DEF LineKept, ChanKept, ChanInv

LEMMA AckedGrows ==
    ASSUME NEW m \in Machines, ports' = ports
    PROVE  Asked(m)' = Asked(m)
  BY DEF Asked, BridgeOf, UnlockOf, BridgeEntity

LEMMA KeptAsks ==
    ASSUME NEW m \in Machines, AskInv(m), Kept(m)
    PROVE  AskInv(m)'
  <1>1. Asked(m)' = Asked(m)
    BY AckedGrows DEF Kept
  <1>2. /\ work[m].at \in {"send", "record", "wait", "next"}
               => Asked(m)' \subseteq acked' \cup Asks(m, work'[m].todo)
        /\ Told(m)' => Asked(m)' \subseteq acked'
    BY <1>1 DEF AskInv, Kept
  <1>3. state'[m] \in Early => work'[m].at = "off"
    BY DEF AskInv, Kept
  <1>4. Current(m)' = Current(m)
    BY DEF Current, Kept
  <1>5. OutInv(m)'
    <2>1. CASE work[m].at \in {"off", "begin", "send", "next"}
      BY <2>1 DEF AskInv, OutInv, Quiet, Kept, LineKept, ChanKept
    <2>2. CASE work[m].at \in {"record", "wait"}
      <3>1. CASE Quiet(m) /\ loop[m] # "hand"
        BY <2>2, <3>1 DEF OutInv, Quiet, Kept, LineKept, ChanKept
      <3>2. CASE Quiet(m) /\ work[m].at = "record" /\ Current(m) \in acked
        BY <1>4, <3>2 DEF OutInv, Quiet, Kept, LineKept, ChanKept
      <3>3. CASE /\ loop[m] # "hand"
                 /\ Holds(m, line, Current(m)) /\ Clear(m, commChan[m])
        BY <1>4, <2>2, <3>3 DEF OutInv, Quiet, Kept, LineKept, ChanKept
      <3>4. CASE /\ loop[m] # "hand"
                 /\ Clear(m, line) /\ Holds(m, commChan[m], Current(m))
        BY <1>4, <2>2, <3>4 DEF OutInv, Quiet, Kept, LineKept, ChanKept
      <3>5. QED
        BY <2>2, <3>1, <3>2, <3>3, <3>4 DEF AskInv, OutInv
    <2>3. CASE work[m].at \notin {"off", "begin", "send", "next", "record", "wait"}
      BY <2>3 DEF OutInv, Kept
    <2>4. QED
      BY <2>1, <2>2, <2>3
  <1>6. ChanInv(m)'
    BY DEF Kept, ChanKept
  <1>7. QED
    BY <1>2, <1>3, <1>5, <1>6 DEF AskInv, Kept

\* A goroutine that is gone, or about to reset its machine, holds nothing.
LEMMA LeftAsks ==
    ASSUME NEW m \in Machines, AskInv(m), work'[m].at \in {"reset", "gone"},
           acked \subseteq acked', ports' = ports, Told(m)' => Asked(m) \subseteq acked,
           state'[m] \notin Early, ChanInv(m)'
    PROVE  AskInv(m)'
  BY AckedGrows DEF AskInv, OutInv

\* The requests of the machines themselves are not those of goroutines.
LEMMA AdvanceLines ==
    ASSUME TypeInv, NEW k \in Machines, NEW s \in {"starting"} \cup Simple \cup Multi,
           Advance(k, s), NEW m \in Machines, ChanInv(m)
    PROVE  LineKept(m)
  <1>1. CASE Stays
    BY <1>1, SamePlace DEF Stays
  <1>2. CASE \E to \in Running : Moves(k, s, to)
    <2>1. PICK to \in Running : Moves(k, s, to)
      BY <1>2
    <2> DEFINE q == Request(k, Entity(to, 0))
    <2>2. CASE to \in Simple
      <3>1. q \in Requests /\ line \in Seq(Requests) /\ line' = Append(line, q)
        BY <2>1, <2>2, SimpleEntities DEF Moves, TypeInv, TypeOK, OnuType
      <3>2. ~Mine(m, q)
        BY <2>2 DEF Mine, Request, Entity
      <3> HIDE DEF q
      <3>3. QED
        BY <3>1, <3>2, Appended DEF LineKept
    <2>3. CASE to \notin Simple
      BY <2>1, <2>3, SamePlace DEF Moves
    <2>4. QED
      BY <2>2, <2>3
  <1>3. QED
    BY <1>1, <1>2, Advances DEF TypeInv

\* A reset puts an abort into the channel.
LEMMA ResetChannels ==
    ASSUME TypeInv, NEW k \in Machines, NEW p, Reset(k, p), NEW m \in Machines, ChanInv(m)
    PROVE  ChanKept(m)
  <1>1. commChan \in [Machines -> Seq(Requests \cup {Abort})]
    BY DEF TypeInv, TypeOK, RoutineType
  <1>2. CASE commChan'[m] = commChan[m]
    BY <1>2, SamePlace
  <1>3. CASE commChan'[m] = Append(commChan[m], Abort)
    <2>1. ~Mine(m, Abort)
      BY DEF Mine, Abort, Request, Machines
    <2>2. /\ commChan[m] \in Seq(Requests \cup {Abort})
          /\ Abort \in Requests \cup {Abort}
      BY <1>1
    <2>3. ChanInv(m)'
      BY <1>3, <2>2 DEF ChanInv
    <2>4. QED
      BY <1>3, <2>1, <2>2, <2>3, Appended DEF ChanKept
  <1>4. QED
    BY <1>1, <1>2, <1>3 DEF Reset

LEMMA AdvanceEarly ==
    ASSUME TypeInv, NEW k \in Machines, NEW s \in {"starting"} \cup Simple, Advance(k, s),
           NEW m \in Machines, state'[m] \in Early
    PROVE  state[m] \in Early
  <1>1. CASE Stays
    BY <1>1 DEF Stays
  <1>2. CASE \E to \in Running : Moves(k, s, to)
    BY <1>2 DEF Moves, Early, TypeInv, TypeOK, MachineType
  <1>3. QED
    BY <1>1, <1>2, Advances DEF TypeInv

LEMMA AdvanceSent ==
    ASSUME TypeInv, OrderInv, NEW k \in Machines,
           NEW s \in {"starting"} \cup Simple \cup Multi, Advance(k, s)
    PROVE  \A q \in sent' : q.from = "unlock" => task.downloaded = "done"
  <1>1. CASE Stays
    BY <1>1 DEF Stays, OrderInv
  <1>2. CASE \E to \in Running : Moves(k, s, to)
    <2>1. PICK to \in Running : Moves(k, s, to)
      BY <1>2
    <2>2. sent' \subseteq sent \cup {Request(k, Entity(to, 0))} /\ state[k] = s
      BY <2>1 DEF Moves
    <2>3. Request(k, Entity(to, 0)).from = k
      BY DEF Request
    <2>4. k = "unlock" => task.downloaded = "done"
      BY <2>2 DEF TypeInv, StateInv, Simple, Multi
    <2>5. QED
      BY <2>2, <2>3, <2>4 DEF OrderInv
  <1>3. QED
    BY <1>1, <1>2, Advances DEF TypeInv

LEMMA HandlerStepStages ==
    ASSUME TypeInv, StageInv, HandlerSteps
    PROVE  StageInv'
  <1>0. /\ OrderInv /\ \A m \in Machines : AskInv(m) /\ ChanInv(m)
        /\ StateInv /\ HandlerType /\ MachineType /\ RoutineType
    BY DEF StageInv, AskInv, TypeInv, TypeOK
  <1>1. CASE NameMibSync \/ NameDownloaded \/ EnablePorts
    <2>1. UNCHANGED <<ports, machineVars, routineVars, onuVars>>
      BY <1>1 DEF NameMibSync, NameDownloaded, EnablePorts
    <2>2. OrderInv'
      BY <1>0, <1>1, <2>1 DEF NameMibSync, NameDownloaded, EnablePorts, Goes, OrderInv,
                              HandlerType, routineVars, onuVars
    <2>3. ASSUME NEW m \in Machines
          PROVE  AskInv(m)'
      <3>1. Told(m)' => Told(m)
        BY <1>0, <1>1 DEF NameMibSync, NameDownloaded, EnablePorts, Goes, Told, HandlerType
      <3>2. Kept(m)
        BY <1>0, <2>1, <3>1, SamePlace DEF Kept, machineVars, routineVars, onuVars
      <3>3. QED
        BY <1>0, <3>2, KeptAsks
    <2>4. QED
      BY <2>2, <2>3 DEF StageInv
  <1>2. CASE StartDownload
    <2>1. /\ task.sync = "named" /\ task' = [task EXCEPT !.sync = "gal"]
          /\ UNCHANGED <<work, commChan, line, sent, acked>>
          /\ loop' = [loop EXCEPT !["download"] = "read"]
      BY <1>2 DEF StartDownload, Goes, onuVars
    <2>2. /\ work["download"].at = "off" /\ work["unlock"].at = "off"
          /\ task.downloaded = "none" /\ task.enable = "none"
      BY <1>0, <2>1 DEF OrderInv, StateInv
    <2>3. task'.sync = "gal" /\ task'.downloaded = "none" /\ task'.enable = "none"
      BY <1>0, <2>1, <2>2 DEF HandlerType
    <2>4. OrderInv'
      BY <1>0, <2>1, <2>2, <2>3 DEF OrderInv
    <2>5. ASSUME NEW m \in Machines
          PROVE  AskInv(m)'
      <3>1. work'[m].at = "off" /\ work[m].at = "off"
        BY <2>1, <2>2 DEF Machines
      <3>2. ~Told(m)'
        BY <2>3 DEF Told
      <3>3. loop'[m] # "hand"
        BY <1>0, <2>1, <3>1 DEF AskInv, OutInv, RoutineType
      <3>4. OutInv(m)' /\ ChanInv(m)'
        BY <1>0, <2>1, <3>1, <3>3 DEF AskInv, OutInv, Quiet, Clear, ChanInv
      <3>5. QED
        BY <3>1, <3>2, <3>4 DEF AskInv
    <2>6. QED
      BY <2>4, <2>5 DEF StageInv
  <1>3. CASE StartUnlock
    <2>1. /\ task.downloaded = "named" /\ task' = [task EXCEPT !.downloaded = "done"]
          /\ UNCHANGED <<ports, work, commChan, line, sent, acked>>
          /\ loop' = [loop EXCEPT !["unlock"] = "read"]
          /\ state' = [state EXCEPT !["unlock"] = "starting"]
      BY <1>3 DEF StartUnlock, Goes, onuVars
    <2>2. work["unlock"].at = "off"
      BY <1>0, <2>1 DEF OrderInv
    <2>3. task'.downloaded = "done" /\ task'.sync = task.sync /\ task'.enable = task.enable
      BY <1>0, <2>1 DEF HandlerType
    <2>4. OrderInv'
      BY <1>0, <2>1, <2>2, <2>3 DEF OrderInv
    <2>5. AskInv("download")'
      <3>1. "download" \in Machines
        BY DEF Machines
      <3>2. Told("download")' => Told("download")
        BY <2>1, <2>3 DEF Told
      <3>3. loop'["download"] = loop["download"] /\ state'["download"] = state["download"]
        BY <1>0, <2>1, <3>1 DEF RoutineType, MachineType
      <3>4. Kept("download")
        BY <1>0, <2>1, <3>1, <3>2, <3>3, SamePlace DEF Kept
      <3>5. QED
        BY <1>0, <3>1, <3>4, KeptAsks
    <2>6. AskInv("unlock")'
      <3>1. "unlock" \in Machines
        BY DEF Machines
      <3>2. ~Told("unlock")'
        BY <1>0, <2>1, <2>3 DEF Told, StateInv
      <3>3. work'["unlock"].at = "off" /\ loop'["unlock"] # "hand"
        BY <1>0, <2>1, <2>2, <3>1 DEF RoutineType
      <3>4. OutInv("unlock")' /\ ChanInv("unlock")'
        BY <1>0, <2>1, <2>2, <3>1, <3>3 DEF AskInv, OutInv, Quiet, Clear, ChanInv
      <3>5. QED
        BY <3>2, <3>3, <3>4 DEF AskInv
    <2>7. QED
      BY <2>4, <2>5, <2>6 DEF StageInv, Machines
  <1>4. ASSUME NEW k \in Machines, Advance(k, "starting"), CreateGal \/ PostedStart
        PROVE  StageInv'
    <2>1. UNCHANGED <<ports, work, loop, commChan, acked>>
      BY <1>4 DEF CreateGal, PostedStart, handlerVars, routineVars
    <2>2. /\ task'.downloaded = task.downloaded /\ task'.enable = task.enable
          /\ task'.sync = task.sync \/ task'.sync = "done"
      BY <1>0, <1>4 DEF CreateGal, PostedStart, Goes, handlerVars, HandlerType
    <2>3. OrderInv'
      BY <1>0, <1>4, <2>1, <2>2, AdvanceSent DEF OrderInv
    <2>4. ASSUME NEW m \in Machines
          PROVE  AskInv(m)'
      <3>1. LineKept(m) /\ ChanKept(m) /\ (state'[m] \in Early => state[m] \in Early)
        BY <1>0, <1>4, <2>1, AdvanceLines, AdvanceEarly, SamePlace
      <3>2. Told(m)' => Told(m)
        BY <2>2 DEF Told
      <3>3. Kept(m)
        BY <2>1, <3>1, <3>2 DEF Kept
      <3>4. QED
        BY <1>0, <3>3, KeptAsks
    <2>5. QED
      BY <2>3, <2>4 DEF StageInv
  <1>5. QED
    BY <1>1, <1>2, <1>3, <1>4 DEF HandlerSteps, CreateGal, PostedStart, Machines

\* Indications, the ONU and other machines.
LEMMA OutsideStages ==
    ASSUME TypeInv, StageInv, Down \/ NameStopped \/ Answer \/ Fail \/ OtherRecords
    PROVE  StageInv'
  <1>0. /\ OrderInv /\ \A m \in Machines : AskInv(m) /\ ChanInv(m)
        /\ StateInv /\ MachineType /\ RoutineType /\ OnuType
    BY DEF StageInv, AskInv, TypeInv, TypeOK
  <1>1. UNCHANGED <<ports, task, work, loop, sent>> /\ acked \subseteq acked'
    BY DEF Down, NameStopped, Answer, Fail, OtherRecords, handlerVars, routineVars, onuVars
  <1>2. OrderInv'
    BY <1>0, <1>1 DEF OrderInv
  <1>3. ASSUME NEW m \in Machines
        PROVE  state'[m] \in Early => state[m] \in Early
    <2>1. CASE UNCHANGED state
      BY <2>1
    <2>2. ASSUME NEW k \in Machines, NEW p, Reset(k, p)
          PROVE  state'[m] \in Early => state[m] \in Early
      BY <1>0, <2>2 DEF Reset, MachineType, Early, Simple
    <2>3. QED
      BY <2>1, <2>2 DEF Down, NameStopped, Answer, Fail, OtherRecords, machineVars, Machines
  <1>4. ASSUME NEW m \in Machines, LineKept(m), ChanKept(m)
        PROVE  AskInv(m)'
    <2>1. Told(m)' => Told(m)
      BY <1>1 DEF Told
    <2>2. Kept(m)
      BY <1>1, <1>3, <1>4, <2>1 DEF Kept
    <2>3. QED
      BY <1>0, <2>2, KeptAsks
  <1>5. CASE Down
    <2>1. ASSUME NEW m \in Machines
          PROVE  LineKept(m) /\ ChanKept(m)
      <3>1. LineKept(m)
        BY <1>0, <1>5, SamePlace DEF Down, onuVars
      <3>2. CASE UNCHANGED <<machineVars, commChan>>
        BY <1>0, <3>1, <3>2, SamePlace
      <3>3. QED
        BY <1>0, <1>5, <3>1, <3>2, ResetChannels DEF Down, Machines
    <2>2. QED
      BY <1>2, <1>4, <2>1 DEF StageInv
  <1>6. CASE NameStopped \/ OtherRecords
    <2>1. UNCHANGED <<line, commChan>>
      BY <1>6 DEF NameStopped, OtherRecords, routineVars, onuVars
    <2>2. QED
      BY <1>0, <1>2, <1>4, <2>1, SamePlace DEF StageInv
  <1>7. CASE Fail
    <2>1. line \in Seq(Requests) /\ line # << >> /\ line' = Tail(line) /\ UNCHANGED commChan
      BY <1>0, <1>7 DEF Fail, OnuType, routineVars
    <2>2. ASSUME NEW m \in Machines
          PROVE  LineKept(m) /\ ChanKept(m)
      BY <1>0, <2>1, SamePlace, Taken DEF LineKept
    <2>3. QED
      BY <1>2, <1>4, <2>2 DEF StageInv
  <1>8. CASE Answer
    <2> DEFINE r == Head(line)
    <2>1. /\ line \in Seq(Requests) /\ line # << >> /\ line' = Tail(line)
          /\ r \in Requests /\ r.from \in Machines /\ acked' = acked \cup {r}
          /\ \/ commChan' = commChan /\ r \in acked
             \/ commChan' = [commChan EXCEPT ![r.from] = Append(@, r)]
      <3>1. line \in Seq(Requests) /\ line # << >>
        BY <1>0, <1>8 DEF Answer, OnuType
      <3>2. r \in Requests
        BY <3>1
      <3>3. r.from \in Machines
        BY <3>2 DEF Requests
      <3>4. /\ line' = Tail(line) /\ acked' = acked \cup {r}
            /\ commChan' = IF r \in acked THEN commChan
                           ELSE [commChan EXCEPT ![r.from] = Append(@, r)]
        BY <1>8 DEF Answer
      <3>5. QED
        BY <3>1, <3>2, <3>3, <3>4
    <2>2. commChan \in [Machines -> Seq(Requests \cup {Abort})]
      BY <1>0 DEF RoutineType
    <2> HIDE DEF r
    <2>3. ASSUME NEW m \in Machines
          PROVE  AskInv(m)'
      <3>1. LineKept(m)
        BY <2>1, Taken DEF LineKept
      <3>2. ChanInv(m)'
        <4>1. CASE commChan'[m] = commChan[m]
          BY <1>0, <4>1 DEF ChanInv
        <4>2. CASE r.from = m /\ commChan'[m] = Append(commChan[m], r)
          BY <1>0, <2>1, <2>2, <4>2 DEF ChanInv
        <4>3. QED
          BY <2>1, <2>2, <4>1, <4>2
      <3>3. CASE ~Mine(m, r)
        <4>1. CASE commChan'[m] = commChan[m]
          BY <1>0, <1>4, <3>1, <4>1, SamePlace
        <4>2. CASE commChan'[m] = Append(commChan[m], r)
          <5>1. commChan[m] \in Seq(Requests \cup {Abort}) /\ r \in Requests \cup {Abort}
            BY <2>1, <2>2
          <5>2. ChanKept(m)
            BY <3>2, <3>3, <4>2, <5>1, Appended DEF ChanKept
          <5>3. QED
            BY <1>4, <3>1, <5>2
        <4>3. QED
          BY <2>1, <2>2, <4>1, <4>2
      <3>4. CASE Mine(m, r)
        <4>1. r.from = m
          BY <3>4 DEF Mine
        <4>2. ~Clear(m, line) /\ \A q : Holds(m, line, q) => r = q /\ Clear(m, line')
          BY <2>1, <3>4, Taken DEF r
        <4>3. Current(m)' = Current(m) /\ Asked(m)' = Asked(m) /\ (Told(m)' <=> Told(m))
          BY <1>1, AckedGrows DEF Current, Told
        <4>4. OutInv(m)'
          <5>1. CASE work[m].at \in {"record", "wait"}
            <6>1. /\ loop[m] # "hand" /\ Holds(m, line, Current(m))
                  /\ Clear(m, commChan[m])
              BY <1>0, <4>2, <5>1 DEF AskInv, OutInv, Quiet
            <6>2. r = Current(m) /\ Clear(m, line')
              BY <4>2, <6>1
            <6>3. Clear(m, commChan'[m]) \/ Holds(m, commChan'[m], r)
              <7>1. commChan[m] \in Seq(Requests \cup {Abort}) /\ r \in Requests \cup {Abort}
                BY <2>1, <2>2
              <7>2. commChan'[m] = commChan[m] \/ commChan'[m] = Append(commChan[m], r)
                BY <2>1, <2>2, <4>1
              <7>3. QED
                BY <6>1, <7>1, <7>2, Appended
            <6>4. QED
              BY <1>1, <4>3, <5>1, <6>1, <6>2, <6>3 DEF OutInv, Quiet
          <5>2. CASE work[m].at \notin {"record", "wait"}
            BY <1>0, <1>1, <4>2, <5>2 DEF AskInv, OutInv, Quiet
          <5>3. QED
            BY <5>1, <5>2
        <4>5. QED
          BY <1>0, <1>1, <1>3, <3>2, <4>3, <4>4 DEF AskInv
      <3>5. QED
        BY <3>3, <3>4
    <2>4. QED
      BY <1>2, <2>3 DEF StageInv
  <1>9. QED
    BY <1>5, <1>6, <1>7, <1>8

\* The goroutine of m has the response it waits for.
LEMMA ReleasedAsks ==
    ASSUME TypeInv, NEW m \in Machines, AskInv(m), work[m].at \in {"record", "wait"},
           work'[m] = Released(work[m]), Current(m) \in acked, acked' = acked,
           ports' = ports, UNCHANGED <<task, state>>, Quiet(m)', loop'[m] # "hand",
           ChanInv(m)'
    PROVE  AskInv(m)'
  <1> DEFINE q == work[m].todo
             to == IF Len(q) = 1 THEN "next" ELSE "send"
  <1>1. q \in Seq(Entities) /\ q # << >>
    BY DEF TypeInv, TypeOK, RoutineType, TodoInv
  <1>2. Asks(m, q) \subseteq {Request(m, Head(q))} \cup Asks(m, Tail(q))
    <2> HIDE DEF q
    <2>1. ASSUME NEW i \in DOMAIN q, i # 1
          PROVE  i - 1 \in DOMAIN Tail(q) /\ Tail(q)[i - 1] = q[i]
      BY <1>1, <2>1
    <2>2. q[1] = Head(q)
      BY <1>1
    <2>3. QED
      BY <2>1, <2>2 DEF Asks
  <1>3. work'[m].at = to /\ work'[m].todo = Tail(q) /\ to \in {"next", "send"}
    BY DEF Released, Goroutine
  <1>4. Asked(m)' = Asked(m) /\ Asked(m) \subseteq acked \cup Asks(m, q)
    BY AckedGrows DEF AskInv
  <1>5. Request(m, Head(q)) \in acked
    BY DEF Current
  <1> HIDE DEF q, to
  <1>6. Asked(m)' \subseteq acked' \cup Asks(m, work'[m].todo)
    BY <1>2, <1>3, <1>4, <1>5
  <1>7. Told(m)' => Asked(m)' \subseteq acked'
    BY <1>4 DEF AskInv, Told
  <1>8. state'[m] \notin Early
    BY DEF AskInv
  <1>9. OutInv(m)'
    BY <1>3 DEF OutInv
  <1>10. QED
    BY <1>6, <1>7, <1>8, <1>9 DEF AskInv

\* What is read is the head of the channel.
LEMMA ReadsHead ==
    ASSUME TypeInv, NEW k \in Machines, NEW q, Reads(k, q), ChanInv(k)
    PROVE  /\ commChan[k] \in Seq(Requests \cup {Abort}) /\ commChan[k] # << >>
           /\ q = Head(commChan[k]) /\ commChan'[k] = Tail(commChan[k])
           /\ q = Abort \/ q.from = k
           /\ ChanInv(k)'
           /\ \A m \in Machines \ {k} : commChan'[m] = commChan[m]
           /\ loop[k] = "read"
  <1>1. commChan \in [Machines -> Seq(Requests \cup {Abort})]
    BY DEF TypeInv, TypeOK, RoutineType
  <1>2. /\ commChan[k] # << >> /\ q = Head(commChan[k]) /\ loop[k] = "read"
        /\ commChan' = [commChan EXCEPT ![k] = Tail(commChan[k])]
    BY DEF Reads
  <1>3. commChan'[k] = Tail(commChan[k]) /\ \A m \in Machines \ {k} : commChan'[m] = commChan[m]
    BY <1>1, <1>2
  <1>4. /\ 1 \in DOMAIN commChan[k] /\ commChan[k][1] = Head(commChan[k])
        /\ \A i \in DOMAIN Tail(commChan[k]) :
             i + 1 \in DOMAIN commChan[k] /\ Tail(commChan[k])[i] = commChan[k][i + 1]
    <2> DEFINE s == commChan[k]
    <2>1. s \in Seq(Requests \cup {Abort}) /\ s # << >>
      BY <1>1, <1>2
    <2> HIDE DEF s
    <2>2. /\ 1 \in DOMAIN s /\ s[1] = Head(s)
          /\ \A i \in DOMAIN Tail(s) : i + 1 \in DOMAIN s /\ Tail(s)[i] = s[i + 1]
      BY <2>1
    <2>3. QED
      BY <2>2 DEF s
  <1>5. ChanInv(k)'
    BY <1>3, <1>4 DEF ChanInv
  <1>6. q = Abort \/ q.from = k
    BY <1>2, <1>4 DEF ChanInv
  <1>7. QED
    BY <1>1, <1>2, <1>3, <1>5, <1>6

LEMMA LoopStages ==
    ASSUME TypeInv, StageInv, NEW k \in Machines, MessageLoop(k)
    PROVE  StageInv'
  <1>0. /\ OrderInv /\ \A m \in Machines : AskInv(m) /\ ChanInv(m)
        /\ StateInv /\ MachineType /\ RoutineType /\ OnuType /\ TodoInv
    BY DEF StageInv, AskInv, TypeInv, TypeOK
  <1>1. ASSUME NEW q, Reads(k, q)
        PROVE  /\ \A m \in Machines : LineKept(m) /\ ChanKept(m)
               /\ UNCHANGED <<ports, task, state, sent, acked, line>>
    <2>1. UNCHANGED <<ports, task, state, sent, acked, line>>
      BY <1>1 DEF Reads, handlerVars, machineVars, onuVars
    <2>2. ASSUME NEW m \in Machines
          PROVE  LineKept(m) /\ ChanKept(m)
      <3>1. LineKept(m)
        BY <1>0, <2>1, SamePlace
      <3>2. CASE m = k
        BY <1>0, <1>1, <3>1, <3>2, ReadsHead, Taken DEF ChanKept
      <3>3. CASE m # k
        BY <1>0, <1>1, <3>1, <3>3, ReadsHead, SamePlace
      <3>4. QED
        BY <3>2, <3>3
    <2>3. QED
      BY <2>1, <2>2
  <1>2. CASE ReadAbort(k) \/ ReadUnexpected(k) \/ ReadSimple(k)
    <2>1. PICK q : Reads(k, q)
      BY <1>2 DEF ReadAbort, ReadUnexpected, ReadSimple
    <2>2. /\ UNCHANGED work
          /\ \A m \in Machines : loop'[m] = "hand" => loop[m] = "hand"
      BY <1>0, <1>2 DEF ReadAbort, ReadUnexpected, ReadSimple, RoutineType, Simple
    <2>3. /\ \A m \in Machines : LineKept(m) /\ ChanKept(m)
          /\ UNCHANGED <<ports, task, state, sent, acked, line>>
      BY <1>1, <2>1
    <2>4. \A m \in Machines : Kept(m)
      BY <2>2, <2>3 DEF Kept, Told
    <2>5. OrderInv'
      BY <1>0, <2>2, <2>3 DEF OrderInv
    <2>6. QED
      BY <1>0, <2>4, <2>5, KeptAsks DEF StageInv
  <1>3. CASE ReadMulti(k)
    <2>1. PICK q \in acked : Reads(k, q) /\ q.entity.class \notin Simple
      BY <1>3 DEF ReadMulti
    <2>2. /\ \A m \in Machines : LineKept(m) /\ ChanKept(m)
          /\ UNCHANGED <<ports, task, state, sent, acked, line>>
      BY <1>1, <2>1
    <2>3. IF work[k].at = "wait"
             THEN work' = [work EXCEPT ![k] = Released(@)] /\ UNCHANGED loop
             ELSE loop' = [loop EXCEPT ![k] = "hand"] /\ UNCHANGED work
      BY <1>3 DEF ReadMulti
    <2>4. Mine(k, q)
      <3>1. q \in Requests
        BY <1>0 DEF OnuType
      <3>2. q # Abort
        BY <3>1 DEF Requests, Abort, Request, Machines
      <3>3. QED
        BY <1>0, <2>1, <3>2, ReadsHead DEF Mine
    <2>5. /\ ~Clear(k, commChan[k])
          /\ \A r : Holds(k, commChan[k], r) => q = r /\ Clear(k, commChan'[k])
      BY <1>0, <2>1, <2>4, ReadsHead, Taken
    <2>6. loop[k] = "read" /\ ChanInv(k)'
      BY <1>0, <2>1, ReadsHead
    <2>7. /\ work[k].at \notin {"off", "begin", "send", "next"}
          /\ work[k].at \in {"record", "wait"} => /\ Current(k) \in acked /\ Quiet(k)'
      BY <1>0, <2>1, <2>2, <2>5, <2>6 DEF AskInv, OutInv, Quiet
    <2>8. AskInv(k)'
      <3>1. CASE work[k].at = "wait"
        <4>1. work'[k] = Released(work[k]) /\ loop'[k] # "hand"
          BY <1>0, <2>3, <2>6, <3>1 DEF RoutineType
        <4>2. QED
          BY <1>0, <2>2, <2>6, <2>7, <3>1, <4>1, ReleasedAsks
      <3>2. CASE work[k].at # "wait"
        <4>1. UNCHANGED work /\ Asked(k)' = Asked(k) /\ Current(k)' = Current(k)
              /\ (Told(k)' <=> Told(k))
          BY <2>2, <2>3, <3>2, AckedGrows DEF Current, Told
        <4>2. OutInv(k)'
          BY <2>2, <2>7, <3>2, <4>1 DEF OutInv
        <4>3. QED
          BY <1>0, <2>2, <2>6, <4>1, <4>2 DEF AskInv
      <3>3. QED
        BY <3>1, <3>2
    <2>9. ASSUME NEW m \in Machines \ {k}
          PROVE  AskInv(m)'
      <3>1. work'[m] = work[m] /\ loop'[m] = loop[m]
        BY <1>0, <2>3 DEF RoutineType
      <3>2. Kept(m)
        BY <2>2, <3>1 DEF Kept, Told
      <3>3. QED
        BY <1>0, <3>2, KeptAsks
    <2>10. OrderInv'
      <3>1. \A m \in Machines : work[m].at = "off" => work'[m].at = "off"
        BY <1>0, <2>3 DEF RoutineType
      <3>2. QED
        BY <1>0, <2>2, <3>1 DEF OrderInv, Machines
    <2>11. QED
      BY <2>8, <2>9, <2>10 DEF StageInv
  <1>4. CASE PostEvent(k)
    <2>1. /\ Advance(k, loop[k]) /\ loop[k] \in Simple
          /\ UNCHANGED <<ports, task, active, commChan, acked>>
      BY <1>4 DEF PostEvent, handlerVars
    <2>2. /\ \A m \in Machines : LineKept(m)
          /\ \A m \in Machines : state'[m] \in Early => state[m] \in Early
      BY <1>0, <2>1, AdvanceLines, AdvanceEarly
    <2>3. \A m \in Machines : loop'[m] # "hand" \/ loop'[m] = loop[m]
      BY <1>0, <1>4 DEF PostEvent, RoutineType
    <2>4. \A m \in Machines : (Told(m)' <=> Told(m)) /\ ChanKept(m)
      BY <1>0, <2>1, SamePlace DEF Told
    <2>5. ASSUME NEW m \in Machines, work'[m] = work[m]
          PROVE  AskInv(m)'
      <3>1. Kept(m)
        BY <2>1, <2>2, <2>3, <2>4, <2>5 DEF Kept
      <3>2. QED
        BY <1>0, <3>1, KeptAsks
    <2>6. CASE UNCHANGED work
      <3>1. OrderInv'
        BY <1>0, <2>1, <2>6, AdvanceSent DEF OrderInv
      <3>2. QED
        BY <2>5, <2>6, <3>1 DEF StageInv
    <2>7. CASE work' = Moved(k, "begin") /\ state'[k] \in Multi /\ state[k] \notin Multi
      <3>1. state[k] \in Simple
        <4>1. CASE Stays
          BY <2>7, <4>1 DEF Stays
        <4>2. CASE \E to \in Running : Moves(k, loop[k], to)
          BY <2>1, <4>2 DEF Moves
        <4>3. QED
          BY <1>0, <2>1, <4>1, <4>2, Advances
      <3>2. work[k].at = "off" /\ Quiet(k) /\ loop[k] # "hand"
        BY <1>0, <3>1 DEF AskInv, Early, OutInv
      <3>3. /\ work'[k].at = "begin" /\ \A m \in Machines \ {k} : work'[m] = work[m]
        BY <1>0, <2>7 DEF Moved, Goroutine, RoutineType
      <3>4. AskInv(k)'
        <4>1. Quiet(k)' /\ loop'[k] # "hand" /\ ChanInv(k)'
          BY <2>2, <2>3, <2>4, <3>2 DEF Quiet, LineKept, ChanKept
        <4>2. OutInv(k)'
          BY <3>3, <4>1 DEF OutInv
        <4>3. state'[k] \notin Early
          BY <2>7 DEF Multi, Early, Simple
        <4>4. Told(k)' => Asked(k)' \subseteq acked'
          BY <1>0, <2>1, <2>4, AckedGrows DEF AskInv
        <4>5. QED
          BY <3>3, <4>1, <4>2, <4>3, <4>4 DEF AskInv
      <3>5. OrderInv'
        <4>1. /\ k = "download" => task.sync \notin {"ready", "named"}
              /\ k = "unlock" => task.downloaded = "done"
          BY <1>0, <3>1 DEF StateInv, Simple
        <4>2. QED
          BY <1>0, <2>1, <3>3, <4>1, AdvanceSent DEF OrderInv, Machines
      <3>6. QED
        BY <2>5, <3>3, <3>4, <3>5 DEF StageInv
    <2>8. QED
      BY <1>4, <2>6, <2>7 DEF PostEvent
  <1>5. QED
    BY <1>2, <1>3, <1>4 DEF MessageLoop

\* A goroutine begins with all that its machine has to ask for.
LEMMA AllIsAsked ==
    ASSUME TypeInv, NEW m \in Machines, NEW order \in Orders(DOMAIN ports)
    PROVE  Asked(m) \subseteq Asks(m, ToDo(m, order))
  <1> DEFINE N == Cardinality(DOMAIN ports)
  <1>1. N \in Nat
    BY FS_CardinalityType DEF TypeInv, PortsInv
  <1>2. /\ order \in [1 .. N -> DOMAIN ports] /\ Len(order) = N /\ DOMAIN order = 1 .. N
        /\ \A n \in DOMAIN ports : \E i \in 1 .. N : order[i] = n
    <2>1. /\ order \in [1 .. N -> DOMAIN ports]
          /\ \A n \in DOMAIN ports : \E i \in DOMAIN order : order[i] = n
      BY DEF Orders
    <2>2. DOMAIN order = 1 .. N /\ Len(order) = N
      BY <1>1, <2>1
    <2>3. QED
      BY <2>1, <2>2
  <1> HIDE DEF N
  <1>3. CASE m = "download"
    <2>1. ASSUME NEW n \in DOMAIN ports, NEW c \in 1 .. 3
          PROVE  Request(m, BridgeEntity(ports[n], BridgeClasses[c])) \in Asks(m, BridgeSetup(order))
      <3>1. PICK i \in 1 .. N : order[i] = n
        BY <1>2
      <3> DEFINE j == 3 * (i - 1) + c
      <3>2. j \in 1 .. 3 * N /\ ((j - 1) \div 3) + 1 = i /\ ((j - 1) % 3) + 1 = c
        BY <1>1
      <3> HIDE DEF j
      <3>3. DOMAIN BridgeSetup(order) = 1 .. 3 * N
        BY <1>2 DEF BridgeSetup
      <3>4. BridgeSetup(order)[j] = BridgeEntity(ports[n], BridgeClasses[c])
        BY <1>2, <3>1, <3>2 DEF BridgeSetup
      <3>5. QED
        BY <3>2, <3>3, <3>4 DEF Asks
    <2>2. \A n \in DOMAIN ports : BridgeOf(n) \subseteq Asks(m, BridgeSetup(order))
      BY <1>3, <2>1 DEF BridgeOf
    <2>3. QED
      BY <1>3, <2>2 DEF Asked, ToDo
  <1>4. CASE m = "unlock"
    <2>1. ASSUME NEW n \in DOMAIN ports
          PROVE  UnlockOf(n) \in Asks(m, AdminSet(order))
      <3>1. PICK i \in 1 .. N : order[i] = n
        BY <1>2
      <3>2. /\ i \in DOMAIN AdminSet(order)
            /\ AdminSet(order)[i] =
                   Entity(IF ports[n].type = "pptp" THEN "uniG" ELSE "veip", ports[n].inst)
        BY <1>2, <3>1 DEF AdminSet
      <3>3. QED
        BY <1>4, <3>2 DEF Asks, UnlockOf
    <2>2. QED
      BY <1>4, <2>1 DEF Asked, ToDo
  <1>5. QED
    BY <1>3, <1>4 DEF Machines

\* The other machine sees nothing of what a goroutine does.
LEMMA WorkerStages ==
    ASSUME TypeInv, StageInv, NEW k \in Machines,
           Begin(k) \/ Send(k) \/ RecordAndWait(k) \/ TimeOut(k)
    PROVE  StageInv'
  <1>0. /\ OrderInv /\ \A m \in Machines : AskInv(m) /\ ChanInv(m)
        /\ StateInv /\ MachineType /\ RoutineType /\ OnuType /\ TodoInv
    BY DEF StageInv, AskInv, TypeInv, TypeOK
  <1>1. UNCHANGED <<ports, task, state, acked, commChan>>
    BY DEF Begin, Send, RecordAndWait, TimeOut, handlerVars, machineVars, onuVars
  <1>2. \A m \in Machines : Asked(m)' = Asked(m) /\ (Told(m)' <=> Told(m)) /\ ChanKept(m)
    BY <1>0, <1>1, AckedGrows, SamePlace DEF Told
  <1>3. ASSUME NEW m \in Machines \ {k}, LineKept(m)
        PROVE  AskInv(m)'
    <2>1. work'[m] = work[m] /\ loop'[m] = loop[m]
      BY <1>0 DEF Begin, Send, RecordAndWait, TimeOut, Moved, RoutineType
    <2>2. Kept(m)
      BY <1>1, <1>2, <1>3, <2>1 DEF Kept
    <2>3. QED
      BY <1>0, <2>2, KeptAsks
  <1>4. work[k].at # "off" /\ \A m \in Machines \ {k} : work'[m] = work[m]
    BY <1>0 DEF Begin, Send, RecordAndWait, TimeOut, Moved, RoutineType
  <1>5. /\ \A q \in sent' : q.from = "unlock" => task.downloaded = "done"
        /\ \A m \in Machines : work[m].at = "off" => work'[m].at = "off"
    <2>1. CASE Send(k)
      <3>1. sent' = sent \cup {Request(k, Head(work[k].todo))}
        BY <2>1 DEF Send
      <3>2. Request(k, Head(work[k].todo)).from = k
        BY DEF Request
      <3>3. QED
        BY <1>0, <1>4, <3>1, <3>2 DEF OrderInv
    <2>2. CASE Begin(k) \/ RecordAndWait(k) \/ TimeOut(k)
      BY <1>0, <1>4, <2>2 DEF Begin, RecordAndWait, TimeOut, onuVars, OrderInv
    <2>3. QED
      BY <2>1, <2>2
  <1>6. OrderInv'
    BY <1>0, <1>1, <1>5 DEF OrderInv, Machines
  <1>7. state'[k] \notin Early
    BY <1>0, <1>1, <1>4 DEF AskInv
  <1>8. CASE Begin(k)
    <2>1. PICK order \in Orders(DOMAIN ports) :
             work' = [work EXCEPT ![k] =
                         Goroutine(IF ToDo(k, order) = << >> THEN "next" ELSE "send",
                                   ToDo(k, order))]
      BY <1>8 DEF Begin
    <2>2. work'[k].at \in {"next", "send"} /\ work'[k].todo = ToDo(k, order)
      BY <1>0, <2>1 DEF RoutineType, Goroutine
    <2>3. UNCHANGED <<line, loop>> /\ work[k].at = "begin"
      BY <1>8 DEF Begin, onuVars
    <2>4. Asked(k)' \subseteq acked' \cup Asks(k, work'[k].todo)
      BY <1>2, <2>2, AllIsAsked
    <2>5. OutInv(k)'
      BY <1>0, <1>1, <2>2, <2>3 DEF AskInv, OutInv, Quiet
    <2>6. AskInv(k)'
      BY <1>0, <1>1, <1>2, <1>7, <2>4, <2>5 DEF AskInv, ChanKept
    <2>7. QED
      BY <1>0, <1>3, <1>6, <2>3, <2>6, SamePlace DEF StageInv
  <1>9. CASE Send(k)
    <2> DEFINE r == Request(k, Head(work[k].todo))
    <2>1. /\ work[k].at = "send" /\ UNCHANGED loop
          /\ line' = Append(line, r) /\ line \in Seq(Requests)
      BY <1>0, <1>9 DEF Send, OnuType
    <2>2. work'[k].at = "record" /\ work'[k].todo = work[k].todo
      BY <1>0, <1>9 DEF Send, Moved, Goroutine, RoutineType
    <2>3. r \in Requests
      <3>1. work[k].todo \in Seq(Entities) /\ work[k].todo # << >>
        BY <1>0, <2>1 DEF RoutineType, TodoInv
      <3>2. QED
        BY <3>1, SimpleEntities
    <2>4. Current(k)' = r /\ r.from = k
      BY <2>2 DEF Current, Request
    <2> HIDE DEF r
    <2>5. Clear(k, line) /\ Clear(k, commChan[k]) /\ loop[k] # "hand"
      BY <1>0, <2>1 DEF AskInv, OutInv, Quiet
    <2>6. Holds(k, line', r)
      BY <2>1, <2>3, <2>5, Appended
    <2>7. OutInv(k)'
      BY <1>1, <2>1, <2>2, <2>4, <2>5, <2>6 DEF OutInv
    <2>8. AskInv(k)'
      BY <1>0, <1>1, <1>2, <1>7, <2>1, <2>2, <2>7 DEF AskInv, ChanKept
    <2>9. ASSUME NEW m \in Machines \ {k}
          PROVE  AskInv(m)'
      <3>1. ~Mine(m, r)
        BY <2>4 DEF Mine
      <3>2. LineKept(m)
        BY <2>1, <2>3, <3>1, Appended DEF LineKept
      <3>3. QED
        BY <1>3, <3>2
    <2>10. QED
      BY <1>6, <2>8, <2>9 DEF StageInv
  <1>10. CASE RecordAndWait(k)
    <2>1. UNCHANGED line /\ work[k].at = "record"
      BY <1>10 DEF RecordAndWait, onuVars
    <2>2. AskInv(k)'
      <3>1. CASE loop[k] = "hand"
        <4>1. Quiet(k) /\ Current(k) \in acked
          BY <1>0, <2>1, <3>1 DEF AskInv, OutInv
        <4>2. work'[k] = Released(work[k]) /\ loop'[k] # "hand"
          BY <1>0, <1>10, <3>1 DEF RecordAndWait, RoutineType
        <4>3. Quiet(k)'
          BY <1>1, <2>1, <4>1 DEF Quiet
        <4>4. QED
          BY <1>0, <1>1, <1>2, <2>1, <4>1, <4>2, <4>3, ReleasedAsks DEF ChanKept
      <3>2. CASE loop[k] # "hand"
        <4>1. work'[k].at = "wait" /\ work'[k].todo = work[k].todo /\ UNCHANGED loop
          BY <1>0, <1>10, <3>2 DEF RecordAndWait, Moved, Goroutine, RoutineType
        <4>2. Current(k)' = Current(k)
          BY <4>1 DEF Current
        <4>3. OutInv(k)'
          BY <1>0, <1>1, <2>1, <3>2, <4>1, <4>2 DEF AskInv, OutInv, Quiet
        <4>4. QED
          BY <1>0, <1>1, <1>2, <1>7, <2>1, <4>1, <4>3 DEF AskInv, ChanKept
      <3>3. QED
        BY <3>1, <3>2
    <2>3. QED
      BY <1>0, <1>3, <1>6, <2>1, <2>2, SamePlace DEF StageInv
  <1>11. CASE TimeOut(k)
    <2>1. UNCHANGED line /\ work'[k].at = "reset"
      BY <1>0, <1>11 DEF TimeOut, Moved, Goroutine, RoutineType, onuVars
    <2>2. AskInv(k)'
      BY <1>0, <1>1, <1>2, <1>7, <2>1, LeftAsks DEF AskInv, ChanKept
    <2>3. QED
      BY <1>0, <1>3, <1>6, <2>1, <2>2, SamePlace DEF StageInv
  <1>12. QED
    BY <1>8, <1>9, <1>10, <1>11

LEMMA AbortStages ==
    ASSUME TypeInv, StageInv, NEW k \in Machines, AbortRun(k)
    PROVE  StageInv'
  <1>0. /\ OrderInv /\ \A m \in Machines : AskInv(m) /\ ChanInv(m)
        /\ StateInv /\ MachineType /\ RoutineType
    BY DEF StageInv, AskInv, TypeInv, TypeOK
  <1>1. /\ UNCHANGED <<ports, task, acked, sent, line, loop>>
        /\ Reset(k, posts[k]) /\ work[k].at = "reset"
    BY DEF AbortRun, handlerVars, onuVars
  <1>2. work'[k].at = "gone" /\ \A m \in Machines \ {k} : work'[m] = work[m]
    BY <1>0 DEF AbortRun, Moved, Goroutine, RoutineType
  <1>3. \A m \in Machines : (Told(m)' <=> Told(m)) /\ LineKept(m) /\ ChanKept(m)
    BY <1>0, <1>1, SamePlace, ResetChannels DEF Told
  <1>4. \A m \in Machines : state'[m] \in Early => state[m] \in Early
    BY <1>0, <1>1 DEF Reset, MachineType, Early, Simple
  <1>5. AskInv(k)'
    BY <1>0, <1>1, <1>2, <1>3, <1>4, LeftAsks DEF AskInv, ChanKept
  <1>6. ASSUME NEW m \in Machines \ {k}
        PROVE  AskInv(m)'
    <2>1. Kept(m)
      BY <1>1, <1>2, <1>3, <1>4 DEF Kept
    <2>2. QED
      BY <1>0, <2>1, KeptAsks
  <1>7. OrderInv'
    BY <1>0, <1>1, <1>2 DEF OrderInv, Machines
  <1>8. QED
    BY <1>5, <1>6, <1>7 DEF StageInv

\* A goroutine that has come to its end has asked for everything.
LEMMA EndStages ==
    ASSUME TypeInv, StageInv, NEW k \in Machines, EndWork(k)
    PROVE  StageInv'
  <1>0. /\ OrderInv /\ \A m \in Machines : AskInv(m) /\ ChanInv(m)
        /\ StateInv /\ MachineType /\ RoutineType /\ HandlerType /\ TodoInv
    BY DEF StageInv, AskInv, TypeInv, TypeOK
  <1> DEFINE s == IF k = "download" THEN "bridge" ELSE "unis"
  <1>1. /\ UNCHANGED <<ports, acked, commChan, loop>>
        /\ work[k].at = "next" /\ Advance(k, s) /\ s \in Multi
    BY DEF EndWork, Multi
  <1>2. work'[k].at = "gone" /\ \A m \in Machines \ {k} : work'[m] = work[m]
    BY <1>0 DEF EndWork, Moved, Goroutine, RoutineType
  <1>3. \A m \in Machines : LineKept(m) /\ ChanKept(m)
    BY <1>0, <1>1, AdvanceLines, SamePlace
  <1>4. Asked(k) \subseteq acked
    <2>1. Asks(k, work[k].todo) = {}
      BY <1>0, <1>1 DEF TodoInv, Asks
    <2>2. QED
      BY <1>0, <1>1, <2>1 DEF AskInv
  <1>5. /\ \A m \in Machines : state'[m] \in Early => state[m] \in Early
        /\ \A m \in Machines \ {k} : Told(m)' => Told(m)
        /\ task'.sync = task.sync /\ (task.downloaded = "done" => task'.downloaded = "done")
        /\ task'.downloaded = "done" => task.downloaded = "done"
    <2>1. CASE Stays
      <3>1. UNCHANGED <<state, task>>
        BY <2>1 DEF EndWork, Stays
      <3>2. QED
        BY <3>1 DEF Told
    <2>2. CASE \E to \in Running : Moves(k, s, to)
      <3>1. state[k] = s /\ state' = [state EXCEPT ![k] = "done"]
        BY <2>2 DEF Moves, Edges
      <3>2. task' = IF k = "download" THEN [task EXCEPT !.downloaded = "spawned"]
                                      ELSE [task EXCEPT !.enable = "spawned"]
        BY <1>0, <3>1 DEF EndWork, MachineType
      <3>3. \A m \in Machines : state'[m] \in Early => state[m] \in Early
        BY <1>0, <3>1 DEF MachineType, Early, Simple
      <3>4. k = "download" => task.downloaded = "none"
        BY <1>0, <3>1 DEF StateInv
      <3>5. /\ task'.sync = task.sync
            /\ k = "download" => task'.downloaded = "spawned" /\ task'.enable = task.enable
            /\ k = "unlock" => task'.downloaded = task.downloaded
        BY <1>0, <3>2 DEF HandlerType
      <3>6. QED
        BY <3>3, <3>4, <3>5 DEF Told, Machines
    <2>3. QED
      BY <1>0, <1>1, <2>1, <2>2, Advances
  <1>6. AskInv(k)'
    BY <1>0, <1>1, <1>2, <1>3, <1>4, <1>5, LeftAsks DEF AskInv, ChanKept
  <1>7. ASSUME NEW m \in Machines \ {k}
        PROVE  AskInv(m)'
    <2>1. Kept(m)
      BY <1>1, <1>2, <1>3, <1>5 DEF Kept
    <2>2. QED
      BY <1>0, <2>1, KeptAsks
  <1>8. OrderInv'
    BY <1>0, <1>1, <1>2, <1>5, AdvanceSent DEF OrderInv, Machines
  <1>9. QED
    BY <1>6, <1>7, <1>8 DEF StageInv

LEMMA MachineStepStages ==
    ASSUME TypeInv, StageInv, NEW k \in Machines, MachineSteps(k)
    PROVE  StageInv'
  <1>0. /\ OrderInv /\ \A m \in Machines : AskInv(m) /\ ChanInv(m)
        /\ StateInv /\ MachineType /\ RoutineType
    BY DEF StageInv, AskInv, TypeInv, TypeOK
  <1>1. UNCHANGED <<ports, task, acked, sent, line, work>>
    BY DEF MachineSteps, Recorded, PostedReset, PostedRestart, handlerVars, routineVars, onuVars
  <1>2. \A m \in Machines : loop'[m] = "hand" => loop[m] = "hand"
    BY <1>0 DEF MachineSteps, Recorded, PostedReset, PostedRestart, routineVars, RoutineType
  <1>3. \A m \in Machines : LineKept(m) /\ ChanKept(m)
    <2>1. CASE PostedReset(k)
      BY <1>0, <1>1, <2>1, SamePlace, ResetChannels DEF PostedReset
    <2>2. CASE Recorded(k) \/ PostedRestart(k)
      BY <1>0, <1>1, <2>2, SamePlace DEF Recorded, PostedRestart, routineVars
    <2>3. QED
      BY <2>1, <2>2 DEF MachineSteps
  <1>4. \A m \in Machines : state'[m] \in Early => state[m] \in Early
    BY <1>0 DEF MachineSteps, Recorded, PostedReset, PostedRestart, Reset, MachineType, Early,
                Simple
  <1>5. \A m \in Machines : Kept(m)
    BY <1>1, <1>2, <1>3, <1>4 DEF Kept, Told
  <1>6. OrderInv'
    BY <1>0, <1>1 DEF OrderInv
  <1>7. QED
    BY <1>0, <1>5, <1>6, KeptAsks DEF StageInv

LEMMA InitStages == Init => StageInv
  <1> SUFFICES ASSUME Init
               PROVE  StageInv
    OBVIOUS
  <1>1. \A m \in Machines : /\ work[m].at = "off" /\ loop[m] = "off"
                            /\ commChan[m] = << >> /\ state[m] = "disabled"
    BY DEF Init, Off, Goroutine
  <1>2. line = << >> /\ sent = {} /\ task.downloaded = "none" /\ task.enable = "none"
    BY DEF Init
  <1>3. \A m \in Machines : AskInv(m)
    BY <1>1, <1>2 DEF AskInv, Told, OutInv, Quiet, Clear, ChanInv, Early, Simple
  <1>4. OrderInv
    BY <1>1, <1>2 DEF OrderInv, Machines
  <1>5. QED
    BY <1>3, <1>4 DEF StageInv

LEMMA NextStages == TypeInv /\ StageInv /\ [Next]_vars => StageInv'
  <1> SUFFICES ASSUME TypeInv, StageInv, [Next]_vars
               PROVE  StageInv'
    OBVIOUS
  <1>1. CASE HandlerSteps
    BY <1>1, HandlerStepStages
  <1>2. ASSUME NEW m \in Machines,
               MessageLoop(m) \/ Worker(m) \/ TimeOut(m) \/ MachineSteps(m)
        PROVE  StageInv'
    BY <1>2, LoopStages, WorkerStages, AbortStages, EndStages, MachineStepStages DEF Worker
  <1>3. CASE Down \/ NameStopped \/ Answer \/ Fail \/ OtherRecords
    BY <1>3, OutsideStages
  <1>4. CASE UNCHANGED vars
    <2>1. UNCHANGED <<ports, task, work, loop, commChan, line, sent, acked, state>>
      BY <1>4 DEF vars, handlerVars, machineVars, routineVars, onuVars
    <2>2. ASSUME NEW m \in Machines
          PROVE  AskInv(m)'
      <3>1. AskInv(m) /\ ChanInv(m)
        BY DEF StageInv, AskInv
      <3>2. Kept(m)
        BY <2>1, <3>1, SamePlace DEF Kept, Told
      <3>3. QED
        BY <3>1, <3>2, KeptAsks
    <2>3. QED
      BY <2>1, <2>2 DEF StageInv, OrderInv
  <1>5. QED
    BY <1>1, <1>2, <1>3, <1>4 DEF Next, Goroutines

(* processMibDownloadDoneEvent, enableUniPortStateUpdate: no UNI is asked  *)
(* to unlock before the bridges of all UNIs are confirmed, and no port is  *)
(* enabled before all UNIs are unlocked, for any MIB and whatever is lost, *)
(* late or taken for something else.                                       *)
THEOREM StagesConfirmed == Spec => []StageByStage
  <1>1. Init => TypeInv /\ StageInv
    BY InitTypes, InitStages
  <1>2. TypeInv /\ StageInv /\ [Next]_vars => (TypeInv /\ StageInv)'
    BY NextTypes, NextStages
  <1>3. TypeInv /\ StageInv => StageByStage
    BY StageInvSuffices
  <1>4. QED
    BY <1>1, <1>2, <1>3, PTL DEF Spec

-----------------------------------------------------------------------------
(***************************************************************************)
(* VEIPs.                                                                  *)
(***************************************************************************)
HasVeipPort == \E n \in DOMAIN ports : ports[n].type = "veip"
AsksVeip(todo) == \E i \in DOMAIN todo : todo[i].class = "veip"

\* The goroutine of the unlock never gets past a VEIP.
VeipInv ==
    HasVeipPort =>
        /\ work["unlock"].at \in {"send", "record", "wait"} => AsksVeip(work["unlock"].todo)
        /\ work["unlock"].at # "next"
        /\ work["unlock"].at = "record" /\ loop["unlock"] = "hand"
               => Head(work["unlock"].todo).class # "veip"
        /\ task.enable = "none"

LEMMA VeipKept ==
    ASSUME VeipInv, ports' = ports, work'["unlock"] = work["unlock"],
           loop'["unlock"] = "hand" => loop["unlock"] = "hand", task'.enable = task.enable
    PROVE  VeipInv'
  BY DEF VeipInv, HasVeipPort, AsksVeip

LEMMA ReleasedVeip ==
    ASSUME NEW w, w.todo \in Seq(Entities), w.todo # << >>, AsksVeip(w.todo),
           Head(w.todo).class # "veip"
    PROVE  /\ Released(w).at = "send"
           /\ AsksVeip(Released(w).todo)
  <1> DEFINE q == w.todo
  <1>1. q \in Seq(Entities) /\ q # << >> /\ Head(q).class # "veip"
        /\ \E i \in DOMAIN q : q[i].class = "veip"
    BY DEF AsksVeip
  <1>2. Released(w) = [at |-> IF Len(q) = 1 THEN "next" ELSE "send", todo |-> Tail(q)]
    BY DEF Released, Goroutine
  <1> HIDE DEF q
  <1>3. PICK i \in DOMAIN q : q[i].class = "veip"
    BY <1>1
  <1>4. Head(q) = q[1]
    BY <1>1
  <1>5. i # 1
    BY <1>1, <1>3, <1>4
  <1>6. Len(q) # 1 /\ i - 1 \in DOMAIN Tail(q) /\ Tail(q)[i - 1] = q[i]
    BY <1>1, <1>3, <1>5
  <1>7. AsksVeip(Tail(q))
    BY <1>3, <1>6 DEF AsksVeip
  <1>8. QED
    BY <1>2, <1>6, <1>7

LEMMA BegunVeip ==
    ASSUME TypeInv, HasVeipPort, NEW order \in Orders(DOMAIN ports)
    PROVE  AsksVeip(ToDo("unlock", order)) /\ ToDo("unlock", order) # << >>
  <1> DEFINE todo == ToDo("unlock", order)
  <1>1. PICK n \in DOMAIN ports : ports[n].type = "veip"
    BY DEF HasVeipPort
  <1>2. UnlockOf(n) \in Asked("unlock")
    BY DEF Asked
  <1>3. UnlockOf(n) \in Asks("unlock", todo)
    BY <1>2, AllIsAsked DEF Machines
  <1>4. PICK i \in DOMAIN todo : UnlockOf(n) = Request("unlock", todo[i])
    BY <1>3 DEF Asks
  <1>5. todo[i] = Entity("veip", ports[n].inst)
    BY <1>1, <1>4 DEF UnlockOf, Request
  <1>6. todo[i].class = "veip"
    BY <1>5 DEF Entity
  <1> HIDE DEF todo
  <1>7. AsksVeip(todo)
    BY <1>4, <1>6 DEF AsksVeip
  <1>8. todo # << >>
    BY <1>4
  <1>9. QED
    BY <1>7, <1>8 DEF todo

LEMMA LoopVeips ==
    ASSUME TypeInv, StageInv, VeipInv, NEW k \in Machines, MessageLoop(k)
    PROVE  VeipInv'
  <1>0. /\ \A m \in Machines : AskInv(m) /\ ChanInv(m)
        /\ StateInv /\ MachineType /\ RoutineType /\ OnuType /\ TodoInv
    BY DEF StageInv, AskInv, TypeInv, TypeOK
  <1>1. ports' = ports /\ task' = task
    BY DEF MessageLoop, ReadAbort, ReadUnexpected, ReadSimple, ReadMulti, PostEvent, Reads,
           handlerVars
  <1>2. CASE k = "download"
    <2>1. work'["unlock"] = work["unlock"] /\ loop'["unlock"] = loop["unlock"]
      BY <1>0, <1>2 DEF MessageLoop, ReadAbort, ReadUnexpected, ReadSimple, ReadMulti, PostEvent,
                  RoutineType, Machines, Moved
    <2>2. QED
      BY <1>1, <2>1, VeipKept
  <1>3. CASE k = "unlock" /\ (ReadAbort(k) \/ ReadUnexpected(k) \/ ReadSimple(k))
    <2>1. UNCHANGED work /\ (loop'[k] = "hand" => loop[k] = "hand")
      BY <1>0, <1>3 DEF ReadAbort, ReadUnexpected, ReadSimple, RoutineType, Simple
    <2>2. QED
      BY <1>1, <1>3, <2>1, VeipKept
  <1>4. CASE k = "unlock" /\ ReadMulti(k)
    <2>1. PICK q \in acked : Reads(k, q) /\ q.entity.class \notin Simple /\ Known(q)
      BY <1>4 DEF ReadMulti
    <2>2. IF work[k].at = "wait"
             THEN work' = [work EXCEPT ![k] = Released(@)] /\ UNCHANGED loop
             ELSE loop' = [loop EXCEPT ![k] = "hand"] /\ UNCHANGED work
      BY <1>4 DEF ReadMulti
    <2>3. Mine(k, q)
      <3>1. q \in Requests
        BY <1>0 DEF OnuType
      <3>2. q # Abort
        BY <3>1 DEF Requests, Abort, Request, Machines
      <3>3. QED
        BY <1>0, <2>1, <3>2, ReadsHead DEF Mine
    <2>4. /\ ~Clear(k, commChan[k])
          /\ \A r : Holds(k, commChan[k], r) => q = r
      BY <1>0, <2>1, <2>3, ReadsHead, Taken
    <2>5. loop[k] = "read"
      BY <1>0, <2>1, ReadsHead
    <2>6. work[k].at \in {"record", "wait"} => q = Current(k)
      BY <1>0, <2>4, <2>5 DEF AskInv, OutInv, Quiet
    <2>7. work[k].at \in {"record", "wait"} => Head(work[k].todo).class # "veip"
      BY <2>1, <2>6 DEF Known, Current, Request
    <2>8. CASE work[k].at = "wait"
      <3>1. work'[k] = Released(work[k]) /\ loop' = loop
        BY <1>0, <2>2, <2>8 DEF RoutineType
      <3>2. SUFFICES ASSUME HasVeipPort
                     PROVE  VeipInv'
        BY <1>1 DEF VeipInv, HasVeipPort
      <3>3. AsksVeip(work[k].todo) /\ work[k].todo \in Seq(Entities) /\ work[k].todo # << >>
        BY <1>0, <1>4, <2>8, <3>2 DEF VeipInv, RoutineType, TodoInv
      <3>4. work'[k].at = "send" /\ AsksVeip(work'[k].todo)
        BY <2>7, <2>8, <3>1, <3>3, ReleasedVeip
      <3>5. QED
        BY <1>1, <1>4, <3>2, <3>4 DEF VeipInv, AsksVeip
    <2>9. CASE work[k].at # "wait"
      <3>1. UNCHANGED work
        BY <2>2, <2>9
      <3>2. QED
        BY <1>1, <1>4, <2>7, <3>1 DEF VeipInv, HasVeipPort, AsksVeip
    <2>10. QED
      BY <2>8, <2>9
  <1>5. CASE k = "unlock" /\ PostEvent(k)
    <2>1. loop'[k] # "hand" /\ (work' = work \/ work' = Moved(k, "begin"))
      BY <1>0, <1>5 DEF PostEvent, RoutineType, Machines
    <2>2. work' = work \/ work'[k].at = "begin"
      BY <1>0, <2>1 DEF Moved, Goroutine, RoutineType
    <2>3. QED
      BY <1>1, <1>5, <2>1, <2>2 DEF VeipInv, HasVeipPort, AsksVeip
  <1>6. QED
    BY <1>2, <1>3, <1>4, <1>5 DEF MessageLoop, Machines

LEMMA WorkerVeips ==
    ASSUME TypeInv, StageInv, VeipInv, NEW k \in Machines, Worker(k) \/ TimeOut(k)
    PROVE  VeipInv'
  <1>0. /\ \A m \in Machines : AskInv(m)
        /\ StateInv /\ MachineType /\ RoutineType /\ HandlerType /\ TodoInv
    BY DEF StageInv, AskInv, TypeInv, TypeOK
  <1>1. ports' = ports
    BY DEF Worker, Begin, Send, RecordAndWait, AbortRun, EndWork, TimeOut, handlerVars
  <1>2. CASE k = "download"
    <2>1. work'["unlock"] = work["unlock"] /\ loop'["unlock"] = loop["unlock"]
      BY <1>0, <1>2 DEF Worker, Begin, Send, RecordAndWait, AbortRun, EndWork, TimeOut,
                  RoutineType, Machines, Moved
    <2>2. task'.enable = task.enable
      BY <1>0, <1>2 DEF Worker, Begin, Send, RecordAndWait, AbortRun, EndWork, TimeOut,
                  handlerVars, HandlerType
    <2>3. QED
      BY <1>1, <2>1, <2>2, VeipKept
  <1>3. CASE k = "unlock"
    <2>1. SUFFICES ASSUME HasVeipPort
                   PROVE  VeipInv'
      BY <1>1 DEF VeipInv, HasVeipPort
    <2>2. work[k].at # "next" /\ task.enable = "none"
      BY <1>3, <2>1 DEF VeipInv
    <2>3. task' = task
      BY <2>2 DEF Worker, Begin, Send, RecordAndWait, AbortRun, EndWork, TimeOut, handlerVars
    <2>4. CASE Begin(k)
      <3>1. PICK order \in Orders(DOMAIN ports) :
                work' = [work EXCEPT ![k] =
                    Goroutine(IF ToDo(k, order) = << >> THEN "next" ELSE "send", ToDo(k, order))]
        BY <2>4 DEF Begin
      <3>2. AsksVeip(ToDo(k, order)) /\ ToDo(k, order) # << >>
        BY <1>3, <2>1, BegunVeip
      <3>3. work'[k].at = "send" /\ work'[k].todo = ToDo(k, order)
        BY <1>0, <3>1, <3>2 DEF Goroutine, RoutineType
      <3>4. QED
        BY <1>3, <2>2, <2>3, <3>2, <3>3 DEF VeipInv
    <2>5. CASE Send(k)
      <3>1. work'[k].at = "record" /\ work'[k].todo = work[k].todo /\ loop' = loop
            /\ work[k].at = "send"
        BY <1>0, <2>5 DEF Send, Moved, Goroutine, RoutineType
      <3>2. loop[k] # "hand"
        BY <1>0, <3>1 DEF AskInv, OutInv
      <3>3. AsksVeip(work[k].todo)
        BY <1>3, <2>1, <3>1 DEF VeipInv
      <3>4. QED
        BY <1>3, <2>2, <2>3, <3>1, <3>2, <3>3 DEF VeipInv
    <2>6. CASE RecordAndWait(k)
      <3>1. work[k].at = "record" /\ AsksVeip(work[k].todo) /\ work[k].todo \in Seq(Entities)
            /\ work[k].todo # << >>
        BY <1>0, <1>3, <2>1, <2>6 DEF RecordAndWait, VeipInv, RoutineType, TodoInv
      <3>2. CASE loop[k] = "hand"
        <4>1. work'[k] = Released(work[k])
          BY <1>0, <2>6, <3>2 DEF RecordAndWait, RoutineType
        <4>2. Head(work[k].todo).class # "veip"
          BY <1>3, <2>1, <3>1, <3>2 DEF VeipInv
        <4>3. work'[k].at = "send" /\ AsksVeip(work'[k].todo)
          BY <3>1, <4>1, <4>2, ReleasedVeip
        <4>4. QED
          BY <1>3, <2>2, <2>3, <4>3 DEF VeipInv, AsksVeip
      <3>3. CASE loop[k] # "hand"
        <4>1. work'[k].at = "wait" /\ work'[k].todo = work[k].todo
          BY <1>0, <2>6, <3>3 DEF RecordAndWait, Moved, Goroutine, RoutineType
        <4>2. QED
          BY <1>3, <2>2, <2>3, <3>1, <4>1 DEF VeipInv
      <3>4. QED
        BY <3>2, <3>3
    <2>7. CASE AbortRun(k) \/ TimeOut(k)
      <3>1. work'[k].at \in {"reset", "gone"}
        BY <1>0, <2>7 DEF AbortRun, TimeOut, Moved, Goroutine, RoutineType
      <3>2. QED
        BY <1>3, <2>2, <2>3, <3>1 DEF VeipInv
    <2>8. ~EndWork(k)
      BY <2>2 DEF EndWork
    <2>9. QED
      BY <2>4, <2>5, <2>6, <2>7, <2>8 DEF Worker
  <1>4. QED
    BY <1>2, <1>3 DEF Machines

LEMMA NextVeips == TypeInv /\ StageInv /\ VeipInv /\ [Next]_vars => VeipInv'
  <1> SUFFICES ASSUME TypeInv, StageInv, VeipInv, [Next]_vars
               PROVE  VeipInv'
    OBVIOUS
  <1>0. StateInv /\ OrderInv /\ RoutineType /\ HandlerType
    BY DEF StageInv, TypeInv, TypeOK
  <1>1. CASE StartDownload
    <2>1. work["unlock"].at = "off" /\ task.enable = "none" /\ task.sync = "named"
      BY <1>0, <1>1 DEF StartDownload, Goes, StateInv, OrderInv
    <2>2. work' = work /\ task'.enable = task.enable
      BY <1>0, <1>1 DEF StartDownload, Goes, HandlerType
    <2>3. QED
      BY <2>1, <2>2 DEF VeipInv
  <1>2. CASE EnablePorts
    <2>1. ~HasVeipPort
      BY <1>2 DEF EnablePorts, Goes, VeipInv
    <2>2. ports' = ports
      BY <1>2 DEF EnablePorts
    <2>3. QED
      BY <2>1, <2>2 DEF VeipInv, HasVeipPort
  <1>3. CASE NameMibSync \/ CreateGal \/ NameDownloaded \/ StartUnlock \/ PostedStart
    <2>1. UNCHANGED <<ports, work>> /\ (loop'["unlock"] = "hand" => loop["unlock"] = "hand")
      BY <1>0, <1>3 DEF NameMibSync, CreateGal, NameDownloaded, StartUnlock, PostedStart,
                        handlerVars, routineVars, RoutineType, Machines
    <2>2. task'.enable = task.enable
      BY <1>0, <1>3 DEF NameMibSync, CreateGal, NameDownloaded, StartUnlock, PostedStart,
                        handlerVars, Goes, HandlerType
    <2>3. QED
      BY <2>1, <2>2, VeipKept
  <1>4. ASSUME NEW m \in Machines,
               MessageLoop(m) \/ Worker(m) \/ TimeOut(m)
        PROVE  VeipInv'
    BY <1>4, LoopVeips, WorkerVeips
  <1>5. ASSUME NEW m \in Machines, MachineSteps(m)
        PROVE  VeipInv'
    <2>1. /\ UNCHANGED <<ports, task, work>>
          /\ loop'["unlock"] = "hand" => loop["unlock"] = "hand"
      BY <1>0, <1>5 DEF MachineSteps, Recorded, PostedReset, PostedRestart, handlerVars,
                        routineVars, RoutineType, Machines
    <2>2. QED
      BY <2>1, VeipKept
  <1>6. CASE Down \/ NameStopped \/ Answer \/ Fail \/ OtherRecords
    <2>1. UNCHANGED <<ports, task, work, loop>>
      BY <1>6 DEF Down, NameStopped, Answer, Fail, OtherRecords, handlerVars, routineVars
    <2>2. QED
      BY <2>1, VeipKept
  <1>7. CASE UNCHANGED vars
    <2>1. UNCHANGED <<ports, task, work, loop>>
      BY <1>7 DEF vars, handlerVars, routineVars
    <2>2. QED
      BY <2>1, VeipKept
  <1>8. QED
    BY <1>1, <1>2, <1>3, <1>4, <1>5, <1>6, <1>7 DEF Next, Goroutines, HandlerSteps

(* handleOmciLockStateMessage looks for an entity called "VEIP", a name    *)
(* the OMCI library does not use: the unlock of an ONU with a VEIP among   *)
(* its ports never tells the handler, and none of its ports ever becomes   *)
(* ACTIVE, for any MIB and whatever the ONU answers.                       *)
THEOREM VeipsStayInactive == Spec => []VeipNeverActive
  <1>1. Init => TypeInv /\ StageInv /\ VeipInv
    <2>1. Init => VeipInv
      BY DEF Init, VeipInv, HasVeipPort
    <2>2. QED
      BY <2>1, InitTypes, InitStages
  <1>2. TypeInv /\ StageInv /\ VeipInv /\ [Next]_vars => (TypeInv /\ StageInv /\ VeipInv)'
    BY NextTypes, NextStages, NextVeips
  <1>3. TypeInv /\ StageInv /\ VeipInv => VeipNeverActive
    BY DEF TypeInv, StateInv, VeipInv, HasVeipPort, VeipNeverActive
  <1>4. QED
    BY <1>1, <1>2, <1>3, PTL DEF Spec

=============================================================================
