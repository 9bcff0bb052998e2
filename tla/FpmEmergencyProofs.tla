------------------------- MODULE FpmEmergencyProofs -------------------------
(***************************************************************************)
(* The ring of fpm_children_bury decides what a count over the whole       *)
(* history of faults would decide, for every threshold and every interval: *)
(* it reloads when it must, and only then. The argument is the invariant   *)
(* RingHoldsLast, that going backwards from `fault` the ring holds the     *)
(* last faults in order, with the zeroes of the fresh ring before them.    *)
(***************************************************************************)
EXTENDS FpmEmergency, FiniteSetTheorems, TLAPS

\* The entry of the ring that was written j faults ago, 1 <= j <= threshold.
Slot(j) == IF j <= fault THEN fault - j ELSE fault - j + emergency_restart_threshold

\* Every variable stays in its declared range.
EmergencyTypes ==
    /\ now \in Nat
    /\ last_faults \in [Ring -> Nat]
    /\ fault \in Ring
    /\ reloading \in BOOLEAN
    /\ history \in Seq(Nat)

\* The clock does not go back: later faults have later times, none in the future.
HistoryIsSorted ==
    /\ \A i \in 1..Len(history) : history[i] <= now
    /\ \A i, j \in 1..Len(history) : i <= j => history[i] <= history[j]

\* The ring holds the last faults, and zeroes for those that have not happened.
RingHoldsLast ==
    \A j \in 1..emergency_restart_threshold :
        last_faults[Slot(j)] = IF j <= Len(history) THEN history[Len(history) + 1 - j] ELSE 0

\* The inductive invariant of the ring.
RingInvariant == EmergencyTypes /\ HistoryIsSorted /\ RingHoldsLast

----------------------------------------------------------------------------
\* Every entry of the ring is the entry of some age, and the ages are different: the
\* entry that is overwritten is the oldest, and the others grow older by one.
LEMMA SlotFacts ==
    ASSUME fault \in Ring
    PROVE  /\ \A j \in 1..emergency_restart_threshold : Slot(j) \in Ring
           /\ \A i \in Ring : \E j \in 1..emergency_restart_threshold : Slot(j) = i
           /\ Slot(emergency_restart_threshold) = fault
           /\ \A j \in 1..emergency_restart_threshold :
                 j # emergency_restart_threshold => Slot(j) # fault
<1> DEFINE T == emergency_restart_threshold
<1>1. T \in Nat /\ T > 0 /\ fault \in Int /\ 0 <= fault /\ fault < T
  BY EmergencyAssumption DEF Ring
<1>2. \A j \in 1..T : Slot(j) \in Ring
  BY <1>1 DEF Slot, Ring
<1>3. \A i \in Ring : \E j \in 1..T : Slot(j) = i
  <2>1. SUFFICES ASSUME NEW i \in Ring PROVE \E j \in 1..T : Slot(j) = i
    OBVIOUS
  <2>2. i \in Int /\ 0 <= i /\ i < T
    BY <1>1 DEF Ring
  <2>3. CASE i < fault
    <3>1. fault - i \in 1..T /\ Slot(fault - i) = i
      BY <1>1, <2>2, <2>3 DEF Slot
    <3>2. QED
      BY <3>1
  <2>4. CASE i >= fault
    <3>1. fault - i + T \in 1..T /\ Slot(fault - i + T) = i
      BY <1>1, <2>2, <2>4 DEF Slot
    <3>2. QED
      BY <3>1
  <2>5. QED
    BY <1>1, <2>2, <2>3, <2>4
<1>4. Slot(T) = fault
  BY <1>1 DEF Slot
<1>5. \A j \in 1..T : j # T => Slot(j) # fault
  BY <1>1 DEF Slot
<1>6. QED
  BY <1>2, <1>3, <1>4, <1>5

\* One more fault makes every entry one older, and the new one the youngest.
LEMMA SlotsShift ==
    ASSUME fault \in Ring, fault' = NextFault(fault)
    PROVE  /\ fault' \in Ring
           /\ Slot(1)' = fault
           /\ \A j \in 2..emergency_restart_threshold : Slot(j)' = Slot(j - 1)
<1> DEFINE T == emergency_restart_threshold
<1>1. T \in Nat /\ T > 0 /\ fault \in Int /\ 0 <= fault /\ fault < T
  BY EmergencyAssumption DEF Ring
<1>2. fault' = IF fault + 1 = T THEN 0 ELSE fault + 1
  BY DEF NextFault
<1>3. QED
  BY <1>1, <1>2 DEF Slot, Ring

\* The history, one fault longer, as BuryFaulted leaves it.
LEMMA HistoryGrows ==
    ASSUME EmergencyTypes, HistoryIsSorted, BuryFaulted
    PROVE  /\ Len(history') = Len(history) + 1
           /\ history'[Len(history) + 1] = now
           /\ \A i \in 1..Len(history) : history'[i] = history[i]
           /\ history' \in Seq(Nat)
           /\ Len(history) \in Nat
           /\ HistoryIsSorted'
<1> DEFINE n == Len(history)
<1>1. history \in Seq(Nat) /\ now \in Nat /\ now' = now /\ history' = Append(history, now)
  BY DEF EmergencyTypes, BuryFaulted
<1>2. n \in Nat /\ \A i \in 1..n : history[i] \in Nat
  BY <1>1
<1>3. /\ Len(history') = n + 1 /\ history'[n + 1] = now
      /\ \A i \in 1..n : history'[i] = history[i]
      /\ history' \in Seq(Nat)
  BY <1>1
<1>4. HistoryIsSorted'
  <2>1. \A i \in 1..Len(history') : history'[i] <= now
    BY <1>1, <1>2, <1>3 DEF HistoryIsSorted
  <2>2. SUFFICES ASSUME NEW i \in 1..(n + 1), NEW j \in 1..(n + 1), i <= j
                 PROVE  history'[i] <= history'[j]
    BY <1>1, <1>3, <2>1 DEF HistoryIsSorted
  <2>3. CASE j = n + 1
    BY <1>2, <1>3, <2>1, <2>3
  <2>4. CASE j # n + 1
    <3>1. i \in 1..n /\ j \in 1..n
      BY <1>2, <2>2, <2>4
    <3>2. QED
      BY <1>3, <2>2, <3>1 DEF HistoryIsSorted
  <2>5. QED
    BY <2>3, <2>4
<1>5. QED
  BY <1>2, <1>3, <1>4

\* Burying a child that died of a fault keeps the ring in step with the history.
LEMMA BuryKeepsRing ==
    ASSUME RingInvariant, BuryFaulted
    PROVE  RingInvariant'
<1> DEFINE T == emergency_restart_threshold
<1> DEFINE n == Len(history)
<1>1. EmergencyTypes /\ HistoryIsSorted /\ RingHoldsLast
  BY DEF RingInvariant
<1>2. /\ Len(history') = n + 1 /\ history'[n + 1] = now
      /\ \A i \in 1..n : history'[i] = history[i]
      /\ history' \in Seq(Nat) /\ n \in Nat /\ HistoryIsSorted'
  BY <1>1, HistoryGrows
<1>3. T \in Nat /\ T > 0
  BY EmergencyAssumption
<1>4. /\ fault \in Ring /\ last_faults \in [Ring -> Nat] /\ now \in Nat /\ now' = now
      /\ last_faults' = [last_faults EXCEPT ![fault] = now]
      /\ fault' = NextFault(fault)
  BY <1>1 DEF EmergencyTypes, BuryFaulted
<1>5. fault' \in Ring /\ Slot(1)' = fault /\ \A j \in 2..T : Slot(j)' = Slot(j - 1)
  BY <1>4, SlotsShift
<1>6. EmergencyTypes'
  <2>1. reloading' \in BOOLEAN
    BY DEF BuryFaulted
  <2>2. QED
    BY <1>2, <1>4, <1>5, <2>1 DEF EmergencyTypes
<1>7. RingHoldsLast'
  <2>1. SUFFICES ASSUME NEW j \in 1..T
                 PROVE  last_faults'[Slot(j)'] =
                           IF j <= n + 1 THEN history'[n + 2 - j] ELSE 0
    BY <1>2 DEF RingHoldsLast
  <2>2. CASE j = 1
    BY <1>2, <1>4, <1>5, <2>2
  <2>3. CASE j # 1
    <3>1. j \in 2..T /\ j - 1 \in 1..T /\ j - 1 # T
      BY <1>3, <2>3
    <3>2. Slot(j)' = Slot(j - 1) /\ Slot(j - 1) \in Ring /\ Slot(j - 1) # fault
      BY <1>4, <1>5, <3>1, SlotFacts
    <3>3. last_faults'[Slot(j)'] = last_faults[Slot(j - 1)]
      BY <1>4, <3>2
    <3>4. last_faults[Slot(j - 1)] = IF j - 1 <= n THEN history[n + 1 - (j - 1)] ELSE 0
      BY <1>1, <3>1 DEF RingHoldsLast
    <3>5. n + 1 - (j - 1) = n + 2 - j /\ (j - 1 <= n <=> j <= n + 1)
      BY <1>2, <3>1
    <3>6. ASSUME j <= n + 1
          PROVE  history'[n + 2 - j] = history[n + 2 - j]
      <4>1. n + 2 - j \in 1..n
        BY <1>2, <3>1, <3>6
      <4>2. QED
        BY <1>2, <4>1
    <3>7. QED
      BY <3>3, <3>4, <3>5, <3>6
  <2>4. QED
    BY <2>2, <2>3
<1>8. QED
  BY <1>2, <1>6, <1>7 DEF RingInvariant

\* A fresh ring, of a master that has seen no fault.
LEMMA FreshRingHoldsNothing ==
    FreshRing /\ now \in Nat => RingInvariant
<1> SUFFICES ASSUME FreshRing, now \in Nat
             PROVE  RingInvariant
  OBVIOUS
<1> USE DEF FreshRing
<1>1. emergency_restart_threshold \in Nat /\ emergency_restart_threshold > 0
  BY EmergencyAssumption
<1>2. fault \in Ring
  BY <1>1 DEF Ring
<1>3. EmergencyTypes
  BY <1>2 DEF EmergencyTypes
<1>4. HistoryIsSorted
  BY DEF HistoryIsSorted
<1>5. RingHoldsLast
  <2>1. Len(history) = 0
    OBVIOUS
  <2>2. QED
    BY <1>2, <2>1, SlotFacts DEF RingHoldsLast
<1>6. QED
  BY <1>3, <1>4, <1>5 DEF RingInvariant

\* The ring is, at every moment, the end of the history of faults.
THEOREM RingInvariantHolds == Spec => []RingInvariant
<1>1. Init => RingInvariant
  BY EmergencyAssumption, FreshRingHoldsNothing DEF Init, FreshRing
<1>2. RingInvariant /\ [Next]_vars => RingInvariant'
  <2> SUFFICES ASSUME RingInvariant, [Next]_vars
               PROVE  RingInvariant'
    OBVIOUS
  <2>1. CASE BuryFaulted
    BY <2>1, BuryKeepsRing
  <2>2. CASE fpm_pctl_exec
    <3>1. FreshRing' /\ (now \in Nat)'
      BY <2>2 DEF fpm_pctl_exec, FreshRing, RingInvariant, EmergencyTypes
    <3>2. QED
      BY <3>1, FreshRingHoldsNothing, PTL
  <2>3. CASE Tick
    <3>1. /\ now' = now + 1 /\ now \in Nat
          /\ UNCHANGED <<last_faults, fault, reloading, history>>
      BY <2>3 DEF Tick, RingInvariant, EmergencyTypes
    <3>2. EmergencyTypes'
      BY <3>1 DEF RingInvariant, EmergencyTypes
    <3>3. HistoryIsSorted'
      <4>1. \A i \in 1..Len(history) : history[i] \in Nat
        BY DEF RingInvariant, EmergencyTypes
      <4>2. QED
        BY <3>1, <4>1 DEF RingInvariant, HistoryIsSorted
    <3>4. RingHoldsLast'
      BY <3>1 DEF RingInvariant, RingHoldsLast, Slot
    <3>5. QED
      BY <3>2, <3>3, <3>4 DEF RingInvariant
  <2>4. CASE UNCHANGED vars
    BY <2>4 DEF vars, RingInvariant, EmergencyTypes, HistoryIsSorted, RingHoldsLast, Slot
  <2>5. QED
    BY <2>1, <2>2, <2>3, <2>4 DEF Next
<1>3. QED
  BY <1>1, <1>2, PTL DEF Spec

----------------------------------------------------------------------------
\* The restart condition holds of a ring in step with the history when the last
\* faults are recent, as many of them as the ring has entries.
LEMMA ConditionMeansLastRecent ==
    ASSUME EmergencyTypes, RingHoldsLast, Len(history) >= emergency_restart_threshold
    PROVE  restart_condition(last_faults) <=>
             \A i \in (Len(history) + 1 - emergency_restart_threshold)..Len(history) :
                 now - history[i] <= emergency_restart_interval
<1> DEFINE T == emergency_restart_threshold
<1> DEFINE n == Len(history)
<1>1. T \in Nat /\ T > 0 /\ n \in Nat /\ fault \in Ring
  BY EmergencyAssumption DEF EmergencyTypes
<1>2. \A j \in 1..T : last_faults[Slot(j)] = history[n + 1 - j]
  BY <1>1 DEF RingHoldsLast
<1>3. ASSUME restart_condition(last_faults), NEW i \in (n + 1 - T)..n
      PROVE  now - history[i] <= emergency_restart_interval
  <2>1. n + 1 - i \in 1..T /\ n + 1 - (n + 1 - i) = i
    BY <1>1
  <2>2. Slot(n + 1 - i) \in Ring /\ last_faults[Slot(n + 1 - i)] = history[i]
    BY <1>1, <1>2, <2>1, SlotFacts
  <2>3. QED
    BY <1>3, <2>2 DEF restart_condition
<1>4. ASSUME \A i \in (n + 1 - T)..n : now - history[i] <= emergency_restart_interval,
             NEW k \in Ring
      PROVE  now - last_faults[k] <= emergency_restart_interval
  <2>1. PICK j \in 1..T : Slot(j) = k
    BY <1>1, SlotFacts
  <2>2. n + 1 - j \in (n + 1 - T)..n /\ last_faults[k] = history[n + 1 - j]
    BY <1>1, <1>2, <2>1
  <2>3. QED
    BY <1>4, <2>2
<1>5. QED
  BY <1>3, <1>4 DEF restart_condition

\* The faults that are recent: an upper part of a sorted history, so there are as many
\* as the ring has entries exactly when the last ones are all recent.
LEMMA RecentCountsLast ==
    ASSUME EmergencyTypes, HistoryIsSorted
    PROVE  Recent >= emergency_restart_threshold <=>
             /\ Len(history) >= emergency_restart_threshold
             /\ \A i \in (Len(history) + 1 - emergency_restart_threshold)..Len(history) :
                   now - history[i] <= emergency_restart_interval
<1> DEFINE T == emergency_restart_threshold
<1> DEFINE I == emergency_restart_interval
<1> DEFINE n == Len(history)
<1> DEFINE R == {i \in DOMAIN history : now - history[i] <= I}
<1>1. /\ T \in Nat /\ T > 0 /\ I \in Nat /\ n \in Nat /\ now \in Nat
      /\ DOMAIN history = 1..n /\ \A i \in 1..n : history[i] \in Nat
  BY EmergencyAssumption DEF EmergencyTypes
<1>2. Recent = Cardinality(R)
  BY DEF Recent
<1>3. R \subseteq 1..n /\ \A i \in 1..n : i \in R <=> now - history[i] <= I
  BY <1>1
<1>4. \A i, j \in 1..n : i <= j /\ i \in R => j \in R
  <2>1. SUFFICES ASSUME NEW i \in 1..n, NEW j \in 1..n, i <= j, i \in R
                 PROVE  now - history[j] <= I
    BY <1>3
  <2>2. history[i] <= history[j] /\ now - history[i] <= I
    BY <1>3, <2>1 DEF HistoryIsSorted
  <2>3. QED
    BY <1>1, <2>2
<1> HIDE DEF R, I, T, n
<1>5. /\ IsFiniteSet(1..n) /\ Cardinality(1..n) = n
      /\ IsFiniteSet(R) /\ Cardinality(R) \in Nat
  <2>1. IsFiniteSet(1..n) /\ Cardinality(1..n) = IF 1 > n THEN 0 ELSE n - 1 + 1
    BY <1>1, FS_Interval
  <2>2. IsFiniteSet(R)
    BY <1>3, <2>1, FS_Subset
  <2>3. QED
    BY <1>1, <2>1, <2>2, FS_CardinalityType
<1>6. ASSUME Cardinality(R) >= T
      PROVE  n >= T /\ \A i \in (n + 1 - T)..n : i \in R
  <2>1. Cardinality(R) <= n
    BY <1>3, <1>5, FS_Subset
  <2>2. n >= T
    BY <1>1, <1>5, <1>6, <2>1
  <2>3. n + 1 - T \in R
    <3>1. SUFFICES ASSUME n + 1 - T \notin R PROVE FALSE
      OBVIOUS
    <3>2. n + 1 - T \in 1..n
      BY <1>1, <2>2
    <3>3. R \subseteq (n + 2 - T)..n
      BY <1>1, <1>3, <1>4, <3>1, <3>2
    <3>4. n + 2 - T \in Int /\ n \in Int
      BY <1>1
    <3>5. /\ IsFiniteSet((n + 2 - T)..n)
          /\ Cardinality((n + 2 - T)..n) =
                IF n + 2 - T > n THEN 0 ELSE n - (n + 2 - T) + 1
      BY <3>4, FS_Interval
    <3>6. Cardinality((n + 2 - T)..n) < T
      BY <1>1, <3>5
    <3>7. Cardinality(R) <= Cardinality((n + 2 - T)..n)
      BY <3>3, <3>5, FS_Subset
    <3>8. Cardinality((n + 2 - T)..n) \in Nat
      BY <3>5, FS_CardinalityType
    <3>9. QED
      BY <1>1, <1>5, <1>6, <3>6, <3>7, <3>8
  <2>4. QED
    BY <1>1, <1>4, <2>2, <2>3
<1>7. ASSUME n >= T, \A i \in (n + 1 - T)..n : i \in R
      PROVE  Cardinality(R) >= T
  <2>1. n + 1 - T \in Int /\ n \in Int
    BY <1>1
  <2>2. Cardinality((n + 1 - T)..n) = IF n + 1 - T > n THEN 0 ELSE n - (n + 1 - T) + 1
    BY <2>1, FS_Interval
  <2>3. Cardinality((n + 1 - T)..n) = T
    BY <1>1, <2>2
  <2>4. (n + 1 - T)..n \subseteq R
    BY <1>7
  <2>5. Cardinality((n + 1 - T)..n) <= Cardinality(R)
    BY <1>5, <2>4, FS_Subset
  <2>6. QED
    BY <2>3, <2>5, <1>1, <1>5
<1>8. n >= T => ((\A i \in (n + 1 - T)..n : i \in R)
                   <=> \A i \in (n + 1 - T)..n : now - history[i] <= I)
  BY <1>1, <1>3
<1>9. QED
  BY <1>2, <1>6, <1>7, <1>8 DEF T, I, n

\* The ring decides what a count over the whole history decides, up to the zeroes of a
\* ring that is not full yet.
LEMMA RingDecides ==
    RingInvariant =>
      /\ Recent >= emergency_restart_threshold => restart_condition(last_faults)
      /\ restart_condition(last_faults) => \/ Recent >= emergency_restart_threshold
                                           \/ now <= emergency_restart_interval
<1> SUFFICES ASSUME RingInvariant
             PROVE  /\ Recent >= emergency_restart_threshold => restart_condition(last_faults)
                    /\ restart_condition(last_faults) =>
                          \/ Recent >= emergency_restart_threshold
                          \/ now <= emergency_restart_interval
  OBVIOUS
<1> DEFINE T == emergency_restart_threshold
<1>1. EmergencyTypes /\ HistoryIsSorted /\ RingHoldsLast
  BY DEF RingInvariant
<1>2. T \in Nat /\ T > 0 /\ fault \in Ring /\ now \in Nat /\ Len(history) \in Nat
  BY <1>1, EmergencyAssumption DEF EmergencyTypes
<1>3. CASE Len(history) >= T
  BY <1>1, <1>3, ConditionMeansLastRecent, RecentCountsLast
<1>4. CASE Len(history) < T
  <2>1. ~(Recent >= T)
    BY <1>1, <1>2, <1>4, RecentCountsLast
  <2>2. ASSUME restart_condition(last_faults)
        PROVE  now <= emergency_restart_interval
    <3>1. T \in 1..T /\ ~(T <= Len(history))
      BY <1>2, <1>4
    <3>2. last_faults[Slot(T)] = 0 /\ Slot(T) = fault
      BY <1>1, <1>2, <3>1, SlotFacts DEF RingHoldsLast
    <3>3. now - 0 <= emergency_restart_interval
      BY <1>2, <2>2, <3>2 DEF restart_condition
    <3>4. QED
      BY <1>2, <3>3
  <2>3. QED
    BY <2>1, <2>2
<1>5. QED
  BY <1>2, <1>3, <1>4

\* A fault that makes emergency_restart_threshold of them within the interval starts
\* the reload, whatever the ring has overwritten.
THEOREM ReloadIsNotMissed == Spec => ReloadNotMissed
<1>1. RingInvariant /\ RingInvariant' /\ [Next]_vars =>
        [Len(history') > Len(history) /\ Recent' >= emergency_restart_threshold
           => reloading']_vars
  <2> SUFFICES ASSUME RingInvariant, RingInvariant', Next, Len(history') > Len(history),
                      Recent' >= emergency_restart_threshold
               PROVE  reloading'
    OBVIOUS
  <2>1. history \in Seq(Nat) /\ Len(history) \in Nat
    BY DEF RingInvariant, EmergencyTypes
  <2>2. BuryFaulted
    BY <2>1 DEF Next, fpm_pctl_exec, Tick
  <2>3. restart_condition(last_faults)'
    <3>1. (Recent >= emergency_restart_threshold)'
      OBVIOUS
    <3>2. QED
      BY <3>1, RingDecides, PTL
  <2>4. now' = now
    BY <2>2 DEF BuryFaulted
  <2>5. restart_condition(last_faults')
    BY <2>3, <2>4 DEF restart_condition
  <2>6. QED
    BY <2>2, <2>5 DEF BuryFaulted
<1>2. QED
  BY <1>1, RingInvariantHolds, PTL DEF Spec, ReloadNotMissed

\* FPM reloads only after that many faults within the interval, except on a machine
\* that has not been up for longer than the interval.
THEOREM ReloadIsJustified == Spec => ReloadJustified
<1>1. RingInvariant /\ RingInvariant' /\ [Next]_vars =>
        [~reloading /\ reloading' => \/ Recent' >= emergency_restart_threshold
                                     \/ now <= emergency_restart_interval]_vars
  <2> SUFFICES ASSUME RingInvariant, RingInvariant', Next, ~reloading, reloading'
               PROVE  \/ Recent' >= emergency_restart_threshold
                      \/ now <= emergency_restart_interval
    OBVIOUS
  <2>1. BuryFaulted
    BY DEF Next, fpm_pctl_exec, Tick
  <2>2. now' = now /\ restart_condition(last_faults')
    BY <2>1 DEF BuryFaulted
  <2>3. restart_condition(last_faults)'
    BY <2>2 DEF restart_condition
  <2>4. (Recent >= emergency_restart_threshold \/ now <= emergency_restart_interval)'
    BY <2>3, RingDecides, PTL
  <2>5. QED
    BY <2>2, <2>4
<1>2. QED
  BY <1>1, RingInvariantHolds, PTL DEF Spec, ReloadJustified
=============================================================================
