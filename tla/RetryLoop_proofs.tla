--------------------------- MODULE RetryLoop_proofs ---------------------------
(***************************************************************************)
(* Proofs about RetryLoop: type correctness and the retry budget, for any  *)
(* set of devices and messages, any finite number of exchanges, any        *)
(* MAX_RETRIES and any number of restarts.                                 *)
(*                                                                         *)
(* The budget is not inductive.  The strengthening charges every retry of  *)
(* a key to an exchange of the device that has ended (it was answered or   *)
(* given up) or to a restart, at MAX_RETRIES each; what is not charged yet *)
(* is at most the key's entry in pendingRetries, and only as long as some  *)
(* exchange of the device is still under way to be charged with it later.  *)
(***************************************************************************)
EXTENDS RetryLoop, FiniteSetTheorems, TLAPS

EndedOf(d) == {x \in Exchange : key[x][1] = d /\ stage[x] \in Ended}
Underway(d) == \E x \in Exchange : key[x][1] = d /\ stage[x] \notin Ended \cup {"idle"}
Charged(k) == MaxRetries * (Cardinality(EndedOf(k[1])) + crashes)

RetriesCharged ==
  \A k \in Key :
    /\ Underway(k[1]) => retries[k] <= Charged(k) + pendingRetries[k]
    /\ ~Underway(k[1]) => retries[k] <= Charged(k)

IInv == TypeOK /\ RetriesCharged

-----------------------------------------------------------------------------
\* A saturating counter grows by at most one.
LEMMA CountToBound ==
  ASSUME NEW c \in Int, NEW n \in Nat
  PROVE  CountTo(c, n) \in Nat /\ CountTo(c, n) <= n + 1
BY DEF CountTo

\* The sets the counts are taken of are finite.
LEMMA Counts ==
  ASSUME NEW d
  PROVE  /\ IsFiniteSet(EndedOf(d)) /\ Cardinality(EndedOf(d)) \in Nat
         /\ IsFiniteSet(Started(d)) /\ Cardinality(Started(d)) \in Nat
<1>1. EndedOf(d) \subseteq Exchange /\ Started(d) \subseteq Exchange
  BY DEF EndedOf, Started
<1>2. IsFiniteSet(EndedOf(d)) /\ IsFiniteSet(Started(d))
  BY <1>1, RetryAssumption, FS_Subset
<1> QED
  BY <1>2, FS_CardinalityType

\* The bound of the histories is an integer.
LEMMA CapInt == Cap \in Int
<1>1. Cardinality(Exchange) \in Nat
  BY RetryAssumption, FS_CardinalityType
<1> QED
  BY <1>1, RetryAssumption DEF Cap

-----------------------------------------------------------------------------
\* Type correctness of RetryLoop is preserved by every step.
LEMMA TypeStep == TypeOK /\ [Next]_vars => TypeOK'
<1> SUFFICES ASSUME TypeOK, [Next]_vars
             PROVE  TypeOK'
  OBVIOUS
<1> USE RetryAssumption DEF TypeOK, Stage, OnWire, Ended
<1>1. CASE UNCHANGED vars
  BY <1>1 DEF vars
<1>2. ASSUME NEW x \in Exchange, Poll(x)
      PROVE  TypeOK'
  BY <1>2 DEF Poll
<1>3. ASSUME NEW x \in Exchange, Emit(x)
      PROVE  TypeOK'
  BY <1>3 DEF Emit
<1>4. ASSUME NEW x \in Exchange, CorruptHeader(x)
      PROVE  TypeOK'
  BY <1>4 DEF CorruptHeader, Key
<1>5. ASSUME NEW x \in Exchange, NEW y \in Exchange, Duplicate(x, y)
      PROVE  TypeOK'
  BY <1>5 DEF Duplicate
<1>6. ASSUME NEW x \in Exchange, Lose(x)
      PROVE  TypeOK'
  BY <1>6 DEF Lose
<1>7. ASSUME NEW x \in Exchange, HandleValid(x)
      PROVE  TypeOK'
  BY <1>7 DEF HandleValid, ClearRetryCounter
<1>8. ASSUME NEW x \in Exchange, IgnoreInvalid(x)
      PROVE  TypeOK'
  BY <1>8 DEF IgnoreInvalid
<1>9. ASSUME NEW x \in Exchange, HandleTruncated(x)
      PROVE  TypeOK'
  BY <1>9 DEF HandleTruncated
<1>10. ASSUME NEW x \in Exchange, ScheduleRetry(x)
       PROVE  TypeOK'
  <2>1. pendingRetries[key[x]] + 1 \in 0 .. MaxRetries
    BY <1>10 DEF ScheduleRetry
  <2>2. pendingRetries' \in [Key -> 0 .. MaxRetries]
    BY <1>10, <2>1 DEF ScheduleRetry
  <2>3. retries[key[x]] \in Nat /\ attempts[x] \in Nat /\ MaxRetries + 1 \in Int
    OBVIOUS
  <2>4. CountTo(Cap, retries[key[x]]) \in Nat
    BY <2>3, CountToBound, CapInt
  <2>5. CountTo(MaxRetries + 1, attempts[x]) \in Nat
    BY <2>3, CountToBound
  <2> QED
    BY <1>10, <2>2, <2>4, <2>5 DEF ScheduleRetry
<1>11. ASSUME NEW x \in Exchange, GiveUp(x)
       PROVE  TypeOK'
  BY <1>11 DEF GiveUp
<1>12. ASSUME NEW x \in Exchange, RetryDelayElapsed(x)
       PROVE  TypeOK'
  BY <1>12 DEF RetryDelayElapsed
<1>13. CASE Crash
  BY <1>13 DEF Crash
<1> QED
  BY <1>1, <1>2, <1>3, <1>4, <1>5, <1>6, <1>7, <1>8, <1>9, <1>10, <1>11, <1>12, <1>13
  DEF Next, Deliver

\* The empty map and histories have their types.
LEMMA TypeInit == Init => TypeOK
BY RetryAssumption DEF Init, TypeOK, Stage

\* Type correctness: whatever the instance, no counter of pendingRetries ever
\* passes MAX_RETRIES and every exchange is in a stage of the handler.
THEOREM TypeCorrect == Spec => []TypeOK
<1> QED
  BY TypeInit, TypeStep, PTL DEF Spec

-----------------------------------------------------------------------------
\* A step that moves frames and requests about, and neither ends an exchange
\* nor touches a counter, keeps the charges.
LEMMA CarryStep ==
  ASSUME TypeOK, TypeOK', RetriesCharged,
         UNCHANGED <<pendingRetries, retries, crashes>>,
         \A y \in Exchange :
           /\ stage'[y] \in Ended <=> stage[y] \in Ended
           /\ stage[y] # "idle" => stage'[y] # "idle" /\ key'[y][1] = key[y][1]
  PROVE  RetriesCharged'
<1> SUFFICES ASSUME NEW k \in Key
             PROVE  /\ Underway(k[1])' => retries'[k] <= Charged(k)' + pendingRetries'[k]
                    /\ ~Underway(k[1])' => retries'[k] <= Charged(k)'
  BY DEF RetriesCharged
<1>1. EndedOf(k[1])' = EndedOf(k[1])
  BY DEF EndedOf, Ended
<1>2. Charged(k)' = Charged(k)
  BY <1>1 DEF Charged
<1>3. Underway(k[1]) => Underway(k[1])'
  BY DEF Underway, Ended
<1>4. Charged(k) \in Int /\ pendingRetries[k] \in Nat /\ retries[k] \in Nat
  BY Counts, RetryAssumption DEF Charged, TypeOK
<1> QED
  BY <1>2, <1>3, <1>4 DEF RetriesCharged

\* A step that ends one exchange, and lowers no counter but its device's own,
\* pays for what it forgets with the exchange it ends.
LEMMA EndStep ==
  ASSUME TypeOK, TypeOK', RetriesCharged,
         NEW x \in Exchange, NEW s \in Ended,
         stage[x] \notin Ended \cup {"idle"},
         stage' = [stage EXCEPT ![x] = s],
         UNCHANGED <<key, retries, crashes>>,
         \A k \in Key : k[1] # key[x][1] => pendingRetries'[k] = pendingRetries[k]
  PROVE  RetriesCharged'
<1> SUFFICES ASSUME NEW k \in Key
             PROVE  /\ Underway(k[1])' => retries'[k] <= Charged(k)' + pendingRetries'[k]
                    /\ ~Underway(k[1])' => retries'[k] <= Charged(k)'
  BY DEF RetriesCharged
<1>t. /\ pendingRetries[k] \in 0 .. MaxRetries /\ pendingRetries'[k] \in 0 .. MaxRetries
      /\ retries[k] \in Nat /\ crashes \in Nat /\ MaxRetries \in Nat
  BY RetryAssumption DEF TypeOK
<1>1. CASE k[1] = key[x][1]
  <2>1. Underway(k[1])
    BY <1>1 DEF Underway
  <2>2. EndedOf(k[1])' = EndedOf(k[1]) \cup {x} /\ x \notin EndedOf(k[1])
    BY <1>1 DEF EndedOf, TypeOK, Ended
  <2>3. Cardinality(EndedOf(k[1]))' = Cardinality(EndedOf(k[1])) + 1
    BY <2>2, Counts, FS_AddElement
  <2>4. Charged(k)' = Charged(k) + MaxRetries /\ Charged(k) \in Int
    <3> DEFINE e == Cardinality(EndedOf(k[1]))
    <3>1. e \in Nat
      BY Counts
    <3>2. MaxRetries * ((e + 1) + crashes) = MaxRetries * (e + crashes) + MaxRetries
      BY <3>1, <1>t
    <3>3. MaxRetries * (e + crashes) \in Int
      BY <3>1, <1>t
    <3> QED
      BY <2>3, <3>2, <3>3 DEF Charged
  <2>5. retries[k] <= Charged(k) + pendingRetries[k]
    BY <2>1 DEF RetriesCharged
  <2> QED
    BY <2>4, <2>5, <1>t
<1>2. CASE k[1] # key[x][1]
  <2>1. EndedOf(k[1])' = EndedOf(k[1])
    BY <1>2 DEF EndedOf, TypeOK
  <2>2. Underway(k[1])' <=> Underway(k[1])
    BY <1>2 DEF Underway, TypeOK
  <2>3. Charged(k)' = Charged(k)
    BY <2>1 DEF Charged
  <2> QED
    BY <1>2, <2>2, <2>3 DEF RetriesCharged
<1> QED
  BY <1>1, <1>2

\* Every step keeps the charges.
LEMMA ChargeStep == TypeOK /\ RetriesCharged /\ [Next]_vars => RetriesCharged'
<1> SUFFICES ASSUME TypeOK, RetriesCharged, [Next]_vars
             PROVE  RetriesCharged'
  OBVIOUS
<1>t. TypeOK'
  BY TypeStep
<1>1. CASE UNCHANGED vars
  BY <1>1 DEF vars, RetriesCharged, Underway, Charged, EndedOf
<1>2. ASSUME NEW x \in Exchange, Poll(x) \/ Emit(x) \/ CorruptHeader(x) \/ Lose(x)
      PROVE  RetriesCharged'
  BY <1>2, <1>t, CarryStep DEF Poll, Emit, CorruptHeader, Lose, OnWire, Ended, TypeOK
<1>3. ASSUME NEW x \in Exchange, NEW y \in Exchange, Duplicate(x, y)
      PROVE  RetriesCharged'
  BY <1>3, <1>t, CarryStep DEF Duplicate, OnWire, Ended, TypeOK
<1>4. ASSUME NEW x \in Exchange, HandleTruncated(x) \/ RetryDelayElapsed(x)
      PROVE  RetriesCharged'
  BY <1>4, <1>t, CarryStep DEF HandleTruncated, RetryDelayElapsed, Ended, TypeOK
<1>5. ASSUME NEW x \in Exchange, HandleValid(x)
      PROVE  RetriesCharged'
  BY <1>5, <1>t, EndStep DEF HandleValid, ClearRetryCounter, Ended
<1>6. ASSUME NEW x \in Exchange, IgnoreInvalid(x)
      PROVE  RetriesCharged'
  BY <1>6, <1>t, EndStep DEF IgnoreInvalid, Ended
<1>7. ASSUME NEW x \in Exchange, GiveUp(x)
      PROVE  RetriesCharged'
  <2>1. \A k \in Key : k[1] # key[x][1] => pendingRetries'[k] = pendingRetries[k]
    BY <1>7 DEF GiveUp, TypeOK
  <2> QED
    BY <1>7, <1>t, <2>1, EndStep DEF GiveUp, Ended
<1>8. ASSUME NEW x \in Exchange, ScheduleRetry(x)
      PROVE  RetriesCharged'
  <2> SUFFICES ASSUME NEW k \in Key
               PROVE  /\ Underway(k[1])' => retries'[k] <= Charged(k)' + pendingRetries'[k]
                      /\ ~Underway(k[1])' => retries'[k] <= Charged(k)'
    BY DEF RetriesCharged
  <2>1. EndedOf(k[1])' = EndedOf(k[1])
    BY <1>8 DEF ScheduleRetry, EndedOf, TypeOK, Ended
  <2>2. Charged(k)' = Charged(k)
    BY <1>8, <2>1 DEF ScheduleRetry, Charged
  <2>3. Underway(k[1])' <=> Underway(k[1])
    BY <1>8 DEF ScheduleRetry, Underway, TypeOK, Ended
  <2>4. Charged(k) \in Int /\ pendingRetries[k] \in Nat /\ retries[k] \in Nat
    BY Counts, RetryAssumption DEF Charged, TypeOK
  <2>5. CASE k = key[x]
    <3>1. Underway(k[1])
      BY <1>8, <2>5 DEF ScheduleRetry, Underway, Ended
    <3>2. pendingRetries'[k] = pendingRetries[k] + 1
      BY <1>8, <2>5 DEF ScheduleRetry, TypeOK
    <3>3. retries'[k] = CountTo(Cap, retries[k])
      BY <1>8, <2>5 DEF ScheduleRetry, TypeOK
    <3>4. retries'[k] <= retries[k] + 1
      BY <3>3, <2>4, CountToBound, CapInt
    <3>5. retries'[k] \in Nat
      BY <1>t DEF TypeOK
    <3> QED
      BY <2>2, <2>3, <2>4, <3>1, <3>2, <3>4, <3>5 DEF RetriesCharged
  <2>6. CASE k # key[x]
    <3>1. pendingRetries'[k] = pendingRetries[k] /\ retries'[k] = retries[k]
      BY <1>8, <2>6 DEF ScheduleRetry, TypeOK
    <3> QED
      BY <2>2, <2>3, <3>1 DEF RetriesCharged
  <2> QED
    BY <2>5, <2>6
<1>9. CASE Crash
  <2> SUFFICES ASSUME NEW k \in Key
               PROVE  /\ Underway(k[1])' => retries'[k] <= Charged(k)' + pendingRetries'[k]
                      /\ ~Underway(k[1])' => retries'[k] <= Charged(k)'
    BY DEF RetriesCharged
  <2>1. EndedOf(k[1])' = EndedOf(k[1])
    BY <1>9 DEF Crash, EndedOf, TypeOK, Ended
  <2> DEFINE e == Cardinality(EndedOf(k[1]))
  <2>2. e \in Nat /\ crashes \in Nat /\ MaxRetries \in Nat /\ retries[k] \in Nat
    BY Counts, RetryAssumption DEF TypeOK
  <2>3. MaxRetries * (e + (crashes + 1)) = MaxRetries * (e + crashes) + MaxRetries
    BY <2>2
  <2>4. MaxRetries * (e + crashes) \in Int
    BY <2>2
  <2>5. retries[k] <= MaxRetries * (e + crashes) + MaxRetries
    BY <2>2, <2>4 DEF RetriesCharged, Charged, TypeOK
  <2>6. retries'[k] <= Charged(k)' /\ Charged(k)' \in Int
    BY <1>9, <2>1, <2>3, <2>4, <2>2, <2>5 DEF Crash, Charged
  <2>7. pendingRetries'[k] = 0
    BY <1>9 DEF Crash
  <2> QED
    BY <2>6, <2>7
<1> QED
  BY <1>1, <1>2, <1>3, <1>4, <1>5, <1>6, <1>7, <1>8, <1>9 DEF Next, Deliver

\* The charges imply the budget: the exchange still under way is one more that
\* was started.
LEMMA ChargesWithinBudget == IInv => RetryBudget
<1> SUFFICES ASSUME IInv, NEW k \in Key
             PROVE  retries[k] <= MaxRetries * (Cardinality(Started(k[1])) + crashes)
  BY DEF RetryBudget
<1> DEFINE e == Cardinality(EndedOf(k[1]))
           s == Cardinality(Started(k[1]))
<1>1. /\ e \in Nat /\ s \in Nat /\ crashes \in Nat /\ MaxRetries \in Nat
      /\ retries[k] \in Nat /\ pendingRetries[k] \in 0 .. MaxRetries
  BY Counts, RetryAssumption DEF IInv, TypeOK
<1>2. CASE Underway(k[1])
  <2>1. PICK x \in Exchange : key[x][1] = k[1] /\ stage[x] \notin Ended \cup {"idle"}
    BY <1>2 DEF Underway
  <2>2. /\ EndedOf(k[1]) \cup {x} \subseteq Started(k[1])
        /\ x \notin EndedOf(k[1])
    BY <2>1 DEF EndedOf, Started, Ended
  <2>3. Cardinality(EndedOf(k[1]) \cup {x}) = e + 1
    BY <2>2, Counts, FS_AddElement
  <2>4. e + 1 <= s
    BY <2>2, <2>3, Counts, FS_Subset
  <2>5. retries[k] <= MaxRetries * (e + crashes) + MaxRetries
    BY <1>1, <1>2 DEF IInv, RetriesCharged, Charged
  <2>6. MaxRetries * (e + crashes) + MaxRetries = MaxRetries * ((e + 1) + crashes)
    BY <1>1
  <2>7. MaxRetries * ((e + 1) + crashes) <= MaxRetries * (s + crashes)
    BY <1>1, <2>4
  <2> QED
    BY <1>1, <2>5, <2>6, <2>7
<1>3. CASE ~Underway(k[1])
  <2>1. EndedOf(k[1]) \subseteq Started(k[1])
    BY DEF EndedOf, Started, Ended
  <2>2. e <= s
    BY <2>1, Counts, FS_Subset
  <2>3. MaxRetries * (e + crashes) <= MaxRetries * (s + crashes)
    BY <1>1, <2>2
  <2>4. retries[k] <= MaxRetries * (e + crashes)
    BY <1>3 DEF IInv, RetriesCharged, Charged
  <2> QED
    BY <1>1, <2>3, <2>4
<1> QED
  BY <1>2, <1>3

\* No retry is charged at the start.
LEMMA ChargeInit == Init => RetriesCharged
<1> SUFFICES ASSUME Init, NEW k \in Key
             PROVE  retries[k] <= Charged(k) /\ ~Underway(k[1])
  BY DEF RetriesCharged
<1>1. Charged(k) \in Nat
  BY Counts, RetryAssumption DEF Init, Charged
<1> QED
  BY <1>1 DEF Init, Underway, Ended

\* The retry budget of handleInvalidFrame, for every number of devices,
\* messages, concurrent handlers and restarts: the retries scheduled for one
\* key are at most MAX_RETRIES for each exchange of its device and each restart.
THEOREM RetriesWithinBudget == Spec => []RetryBudget
<1>1. Init => IInv
  BY TypeInit, ChargeInit DEF IInv
<1>2. IInv /\ [Next]_vars => IInv'
  BY TypeStep, ChargeStep DEF IInv
<1> QED
  BY <1>1, <1>2, ChargesWithinBudget, PTL DEF Spec

-----------------------------------------------------------------------------
\* Why a counter may go down in a step.
ReasonToDrop(k) ==
  \/ crashes' # crashes
  \/ \E x \in Exchange : /\ key[x][1] = k[1]
                         /\ stage[x] = "good"
                         /\ stage'[x] = "answered"
  \/ \E x \in Exchange : /\ key[x] = k
                         /\ pendingRetries[k] = MaxRetries
                         /\ stage'[x] = "abandoned"

\* A counter that goes down in a step of a handler has a reason to.
LEMMA DeliverHasReason ==
  ASSUME TypeOK, NEW x \in Exchange, Deliver(x),
         NEW k \in Key, pendingRetries'[k] < pendingRetries[k]
  PROVE  ReasonToDrop(k)
<1> USE DEF TypeOK
<1>0. pendingRetries[k] \in 0 .. MaxRetries /\ MaxRetries \in Nat
  BY RetryAssumption
<1>1. CASE HandleValid(x)
  <2>1. pendingRetries'[k] # pendingRetries[k]
    BY <1>0
  <2>2. k[1] = key[x][1]
    BY <1>1, <2>1 DEF HandleValid, ClearRetryCounter
  <2> QED
    BY <1>1, <2>2 DEF HandleValid, ReasonToDrop
<1>2. CASE ScheduleRetry(x)
  BY <1>0, <1>2 DEF ScheduleRetry
<1>3. CASE GiveUp(x)
  <2>1. key[x] = k
    BY <1>0, <1>3 DEF GiveUp
  <2>2. pendingRetries[k] = MaxRetries /\ stage'[x] = "abandoned"
    BY <1>0, <1>3, <2>1 DEF GiveUp
  <2> QED
    BY <2>1, <2>2 DEF ReasonToDrop
<1>4. CASE IgnoreInvalid(x) \/ HandleTruncated(x)
  BY <1>0, <1>4 DEF IgnoreInvalid, HandleTruncated
<1> QED
  BY <1>1, <1>2, <1>3, <1>4 DEF Deliver

\* So has one that goes down in any step.
LEMMA DropHasReason ==
  ASSUME TypeOK, Next, NEW k \in Key, pendingRetries'[k] < pendingRetries[k]
  PROVE  ReasonToDrop(k)
<1>1. pendingRetries[k] \in Int /\ ~(pendingRetries[k] < pendingRetries[k])
  BY RetryAssumption DEF TypeOK
<1>2. CASE Crash
  BY <1>2 DEF Crash, ReasonToDrop, TypeOK
<1>3. ASSUME NEW x \in Exchange, Deliver(x)
      PROVE  ReasonToDrop(k)
  BY <1>3, DeliverHasReason
<1>4. ASSUME NEW x \in Exchange,
             \/ Poll(x) \/ Emit(x) \/ CorruptHeader(x) \/ Lose(x) \/ RetryDelayElapsed(x)
             \/ \E y \in Exchange : Duplicate(x, y)
      PROVE  ReasonToDrop(k)
  BY <1>1, <1>4 DEF Poll, Emit, CorruptHeader, Lose, RetryDelayElapsed, Duplicate
<1> QED
  BY <1>2, <1>3, <1>4 DEF Next

\* The counters of one device and message go down only for a reason of their own,
\* for any devices, any MAX_RETRIES and any interleaving of handlers.
THEOREM CountersAreIsolated == Spec => CountersIsolated
<1>1. TypeOK /\ [Next]_vars =>
        [\A k \in Key : pendingRetries'[k] < pendingRetries[k] =>
           \/ crashes' # crashes
           \/ \E x \in Exchange : /\ key[x][1] = k[1]
                                  /\ stage[x] = "good"
                                  /\ stage'[x] = "answered"
           \/ \E x \in Exchange : /\ key[x] = k
                                  /\ pendingRetries[k] = MaxRetries
                                  /\ stage'[x] = "abandoned"]_vars
  BY DropHasReason DEF ReasonToDrop
<1> QED
  BY <1>1, TypeCorrect, PTL DEF Spec, CountersIsolated
=============================================================================
