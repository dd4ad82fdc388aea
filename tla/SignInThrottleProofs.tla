------------------------ MODULE SignInThrottleProofs ------------------------
(***************************************************************************)
(* Proofs about the throttle, for every number of attempts, every rate and *)
(* every length of a window, and about the identity whose attempts it      *)
(* counts, for every number of proxies and every chain a visitor begins.   *)
(***************************************************************************)
EXTENDS SignInThrottle, ClientIdentity, FiniteSetTheorems, TLAPS

-----------------------------------------------------------------------------
(* The inductive invariant.                                                *)

(* An attempt is counted in the window it arrived in.                      *)
Placed ==
  \A a \in Attempts : attempt[a].step # "new" =>
    /\ attempt[a].window = attempt[a].since \div Window
    /\ attempt[a].window * Window <= clock

(* An attempt is counted once, by the command that ends it.                *)
CountedOnce ==
  /\ \A a \in counted : attempt[a].step \in {"admitted", "refused"}
  /\ \A a \in Attempts :
       attempt[a].step \notin {"admitted", "refused"} => attempt[a].value = 0

CountedIn(w) == {b \in counted : attempt[b].window = w}

(* A counter never exceeds the attempts of its window.                     *)
CounterCounts == \A w \in Windows : counter[w] <= Cardinality(CountedIn(w))

Spent ==
  \A a \in Attempts :
    attempt[a].step = "refused" =>
      Cardinality(CountedIn(attempt[a].window) \ {a}) >= Permitted

(* What holds of a window no attempt was late in and Redis kept: its key   *)
(* outlives it, and the values it answered are different.                  *)
Sound(w) == w \in Windows /\ w \notin late \cup lost

KeyOutlives ==
  \A w \in Windows :
    Sound(w) /\ counter[w] # 0 => expiry[w] # Never /\ (w + 2) * Window <= expiry[w]

FoundIsThere ==
  \A a \in Attempts :
    Sound(attempt[a].window) /\ attempt[a].step \in {"found", "checked"} =>
      counter[attempt[a].window] # 0

ValuesBelow ==
  \A a \in Attempts :
    Sound(attempt[a].window) /\ attempt[a].value # 0 =>
      attempt[a].value <= counter[attempt[a].window]

ValuesDiffer ==
  \A a, b \in Attempts :
    /\ Sound(attempt[a].window) /\ attempt[a].window = attempt[b].window
    /\ attempt[a].value # 0 /\ attempt[a].value = attempt[b].value
    => a = b

AdmittedWithin ==
  \A a \in Attempts :
    attempt[a].step = "admitted" => attempt[a].value <= Permitted

IInv ==
  /\ TypeOK
  /\ Placed
  /\ CountedOnce
  /\ CounterCounts
  /\ Spent
  /\ KeyOutlives
  /\ FoundIsThere
  /\ ValuesBelow
  /\ ValuesDiffer
  /\ AdmittedWithin

-----------------------------------------------------------------------------
(* Windows and counted attempts.                                           *)

(* A window starts no later than the instants in it.                       *)
LEMMA WindowStart ==
  ASSUME NEW now \in 0 .. MaxClock
  PROVE  CurrentWindow(now) \in Windows /\ CurrentWindow(now) * Window <= now
  <1>1. Window \in Nat \ {0} /\ MaxClock \in Nat
    BY ThrottleAssumption
  <1>2. CurrentWindow(now) \in Nat /\ now = Window * (now \div Window) + (now % Window)
        /\ now % Window \in 0 .. Window - 1
    BY <1>1 DEF CurrentWindow
  <1>3. CurrentWindow(now) * Window <= now
    BY <1>1, <1>2 DEF CurrentWindow
  <1>4. CurrentWindow(now) <= CurrentWindow(now) * Window
    <2>1. ASSUME NEW k \in Nat  PROVE k <= k * Window
      <3>1. k * (Window - 1) \in Nat
        BY <1>1
      <3>2. k * Window = k * (Window - 1) + k
        BY <1>1
      <3>3. QED  BY <1>1, <3>1, <3>2
    <2>2. QED  BY <1>2, <2>1
  <1>5. QED  BY <1>1, <1>2, <1>3, <1>4 DEF Windows

LEMMA CountedFinite ==
  ASSUME counted \subseteq Attempts, NEW w
  PROVE  IsFiniteSet(CountedIn(w)) /\ Cardinality(CountedIn(w)) \in Nat
  BY FS_Subset, FS_CardinalityType, ThrottleAssumption DEF CountedIn

(* A key that is gone while its window is sound was not needed in time.    *)
LEMMA GoneIsLate ==
  ASSUME IInv, NEW a \in Attempts, attempt[a].step # "new",
         ~Alive(attempt[a].window), counter[attempt[a].window] # 0,
         Sound(attempt[a].window)
  PROVE  TooLate(attempt[a].window)
  <1>1. attempt[a].window \in Windows
    BY DEF Sound
  <1>2. expiry[attempt[a].window] \in Nat /\ clock \in Nat
    BY <1>1, ThrottleAssumption DEF IInv, TypeOK, KeyOutlives
  <1>3. (attempt[a].window + 2) * Window <= expiry[attempt[a].window]
    BY <1>1 DEF IInv, KeyOutlives
  <1>4. expiry[attempt[a].window] <= clock
    BY <1>2, ThrottleAssumption DEF Alive
  <1>5. (attempt[a].window + 2) * Window \in Nat
    BY <1>1, ThrottleAssumption DEF Windows
  <1>6. QED  BY <1>2, <1>3, <1>4, <1>5 DEF TooLate

-----------------------------------------------------------------------------
(* Initial states.                                                         *)

LEMMA InitInvariant == Init => IInv
  <1> SUFFICES ASSUME Init PROVE IInv
    OBVIOUS
  <1> USE ThrottleAssumption
  <1>1. TypeOK
    BY DEF Init, TypeOK, Attempt, Windows
  <1>2. Placed /\ CountedOnce /\ Spent /\ KeyOutlives /\ FoundIsThere /\ ValuesBelow
        /\ ValuesDiffer /\ AdmittedWithin
    BY DEF Init, Placed, CountedOnce, Spent, KeyOutlives, FoundIsThere, ValuesBelow,
           ValuesDiffer, AdmittedWithin
  <1>3. CounterCounts
    <2>1. ASSUME NEW w \in Windows  PROVE counter[w] <= Cardinality(CountedIn(w))
      <3>1. Cardinality(CountedIn(w)) \in Nat
        BY CountedFinite DEF Init
      <3>2. counter[w] = 0
        BY DEF Init
      <3>3. QED  BY <3>1, <3>2
    <2>2. QED  BY <2>1 DEF CounterCounts
  <1>4. QED  BY <1>1, <1>2, <1>3 DEF IInv

-----------------------------------------------------------------------------
(* Steps that count nothing: an arrival, the look at a key that is there,  *)
(* an error, a lost key and the clock.                                     *)

(* Their effect on the attempts: a changes, and may become any of these.   *)
Keeps(a) ==
  /\ attempt' = [attempt EXCEPT ![a] = attempt'[a]]
  /\ attempt'[a] \in Attempt
  /\ attempt'[a].window = attempt[a].window
  /\ attempt'[a].since = attempt[a].since
  /\ attempt[a].step \in {"keyed", "found", "checked"}
  /\ attempt'[a].step \in {"found", "checked", "admitted"}
  /\ attempt'[a].value = 0

LEMMA CountedInKept ==
  ASSUME IInv, counted' = counted,
         \A b \in counted : attempt'[b].window = attempt[b].window
  PROVE  \A w : CountedIn(w)' = CountedIn(w)
  BY DEF CountedIn

LEMMA KeepsInvariant ==
  ASSUME IInv, NEW a \in Attempts, Keeps(a),
         attempt'[a].step \in {"found", "checked"} =>
           counter[attempt[a].window] # 0,
         UNCHANGED <<clock, counter, expiry, counted, lost>>,
         late' \in SUBSET Windows, late \subseteq late'
  PROVE  IInv'
  <1> USE ThrottleAssumption
  <1>0. TypeOK
    BY DEF IInv
  <1>1. TypeOK'
    BY <1>0 DEF TypeOK, Keeps
  <1>2. /\ a \notin counted
        /\ \A b \in Attempts : b # a => attempt'[b] = attempt[b]
        /\ counted \subseteq Attempts
        /\ attempt'[a].window \in Windows
    BY <1>0 DEF IInv, CountedOnce, TypeOK, Keeps, Attempt
  <1>3. \A w : CountedIn(w)' = CountedIn(w)
    BY <1>2, CountedInKept
  <1>4. \A w : Sound(w)' => Sound(w)
    BY DEF Sound, Windows
  <1>5. Placed'
    BY <1>2 DEF IInv, Placed, Keeps
  <1>6. CountedOnce'
    BY <1>2 DEF IInv, CountedOnce, Keeps
  <1>7. CounterCounts'
    BY <1>3 DEF IInv, CounterCounts, Windows
  <1>8. Spent'
    <2>1. ASSUME NEW b \in Attempts, attempt'[b].step = "refused"
          PROVE  Cardinality(CountedIn(attempt[b].window)' \ {b}) >= Permitted
                 /\ attempt'[b].window = attempt[b].window
      BY <1>2, <1>3, <2>1 DEF IInv, Spent, Keeps
    <2>2. QED  BY <1>3, <2>1 DEF Spent
  <1>9. KeyOutlives'
    BY <1>4 DEF IInv, KeyOutlives, Windows
  <1>10. FoundIsThere'
    BY <1>2, <1>4 DEF IInv, FoundIsThere, Keeps
  <1>11. ValuesBelow'
    BY <1>2, <1>4 DEF IInv, ValuesBelow, Keeps
  <1>12. ValuesDiffer'
    BY <1>2, <1>4 DEF IInv, ValuesDiffer, Keeps
  <1>13. AdmittedWithin'
    BY <1>2 DEF IInv, AdmittedWithin, Keeps
  <1>14. QED
    BY <1>1, <1>5, <1>6, <1>7, <1>8, <1>9, <1>10, <1>11, <1>12, <1>13 DEF IInv

LEMMA ArriveInvariant ==
  ASSUME IInv, NEW a \in Attempts, Arrive(a)
  PROVE  IInv'
  <1> USE ThrottleAssumption
  <1>0. TypeOK
    BY DEF IInv
  <1>1. CurrentWindow(clock) \in Windows /\ CurrentWindow(clock) * Window <= clock
    BY <1>0, WindowStart DEF TypeOK
  <1>2. /\ a \notin counted
        /\ attempt[a].value = 0
        /\ attempt'[a].value = 0 /\ attempt'[a].step = "keyed"
        /\ attempt'[a].window = CurrentWindow(clock) /\ attempt'[a].since = clock
        /\ attempt'[a] \in Attempt
        /\ \A b \in Attempts : b # a => attempt'[b] = attempt[b]
        /\ counted \subseteq Attempts
    BY <1>0, <1>1 DEF IInv, CountedOnce, TypeOK, Arrive, Attempt
  <1>3. UNCHANGED <<clock, counter, expiry, counted, lost, late>>
    BY DEF Arrive
  <1>4. \A w : CountedIn(w)' = CountedIn(w)
    BY <1>2, <1>3, CountedInKept
  <1>5. \A w : Sound(w)' <=> Sound(w)
    BY <1>3 DEF Sound, Windows
  <1>6. TypeOK'
    BY <1>0, <1>2, <1>3 DEF TypeOK, Arrive
  <1>7. Placed'
    BY <1>1, <1>2, <1>3 DEF IInv, Placed, CurrentWindow
  <1>8. CountedOnce'
    BY <1>2, <1>3 DEF IInv, CountedOnce
  <1>9. CounterCounts'
    BY <1>3, <1>4 DEF IInv, CounterCounts, Windows
  <1>10. Spent'
    <2>1. ASSUME NEW b \in Attempts, attempt'[b].step = "refused"
          PROVE  Cardinality(CountedIn(attempt[b].window)' \ {b}) >= Permitted
                 /\ attempt'[b].window = attempt[b].window
      BY <1>2, <1>4, <2>1 DEF IInv, Spent
    <2>2. QED  BY <1>4, <2>1 DEF Spent
  <1>11. KeyOutlives'
    BY <1>3, <1>5 DEF IInv, KeyOutlives, Windows
  <1>12. FoundIsThere' /\ ValuesBelow'
    BY <1>2, <1>3, <1>5 DEF IInv, FoundIsThere, ValuesBelow
  <1>13. ValuesDiffer'
    BY <1>2, <1>5 DEF IInv, ValuesDiffer
  <1>14. AdmittedWithin'
    BY <1>2 DEF IInv, AdmittedWithin
  <1>15. QED
    BY <1>6, <1>7, <1>8, <1>9, <1>10, <1>11, <1>12, <1>13, <1>14 DEF IInv

LEMMA LoseInvariant ==
  ASSUME IInv, NEW w \in Windows, Lose(w)
  PROVE  IInv'
  <1> USE ThrottleAssumption
  <1>1. UNCHANGED <<clock, expiry, attempt, counted, late>>
        /\ counter' = [counter EXCEPT ![w] = 0] /\ lost' = lost \cup {w}
    BY DEF Lose
  <1>2. TypeOK'
    BY <1>1 DEF IInv, TypeOK
  <1>3. \A v : CountedIn(v)' = CountedIn(v)
    BY <1>1 DEF CountedIn
  <1>4. \A v \in Windows : Sound(v)' => Sound(v) /\ counter'[v] = counter[v]
    BY <1>1 DEF Sound, Windows, IInv, TypeOK
  <1>5. Placed' /\ CountedOnce' /\ AdmittedWithin'
    BY <1>1 DEF IInv, Placed, CountedOnce, AdmittedWithin
  <1>6. CounterCounts'
    <2>1. ASSUME NEW v \in Windows  PROVE counter'[v] <= Cardinality(CountedIn(v))
      <3>1. Cardinality(CountedIn(v)) \in Nat
        BY CountedFinite DEF IInv, TypeOK
      <3>2. QED  BY <1>1, <3>1 DEF IInv, TypeOK, CounterCounts
    <2>2. QED  BY <1>3, <2>1 DEF CounterCounts, Windows
  <1>7. Spent'
    BY <1>1, <1>3 DEF IInv, Spent
  <1>8. KeyOutlives'
    BY <1>1, <1>4 DEF IInv, KeyOutlives, Windows
  <1>9. \A b \in Attempts : attempt[b].window \in Windows
    BY DEF IInv, TypeOK, Attempt
  <1>10. FoundIsThere' /\ ValuesBelow' /\ ValuesDiffer'
    BY <1>1, <1>4, <1>9 DEF IInv, FoundIsThere, ValuesBelow, ValuesDiffer
  <1>11. QED
    BY <1>2, <1>5, <1>6, <1>7, <1>8, <1>10 DEF IInv

LEMMA TickInvariant ==
  ASSUME IInv, Tick
  PROVE  IInv'
  <1> USE ThrottleAssumption
  <1>1. UNCHANGED <<counter, expiry, attempt, counted, lost, late>>
        /\ clock' = clock + 1 /\ clock < MaxClock
    BY DEF Tick
  <1>2. TypeOK'
    BY <1>1 DEF IInv, TypeOK
  <1>3. Placed'
    <2>1. \A a \in Attempts : attempt[a].window * Window \in Nat
      BY DEF IInv, TypeOK, Attempt, Windows
    <2>2. QED  BY <1>1, <2>1 DEF IInv, TypeOK, Placed
  <1>4. (\A w : CountedIn(w)' = CountedIn(w)) /\ (\A w : Sound(w)' <=> Sound(w))
    BY <1>1 DEF CountedIn, Sound, Windows
  <1>5. CountedOnce' /\ CounterCounts' /\ Spent' /\ KeyOutlives' /\ AdmittedWithin'
    BY <1>1, <1>4 DEF IInv, CountedOnce, CounterCounts, Spent, KeyOutlives,
                      AdmittedWithin, Windows
  <1>6. FoundIsThere' /\ ValuesBelow' /\ ValuesDiffer'
    BY <1>1, <1>4 DEF IInv, FoundIsThere, ValuesBelow, ValuesDiffer
  <1>7. QED  BY <1>2, <1>3, <1>5, <1>6 DEF IInv

-----------------------------------------------------------------------------
(* Steps that count an attempt: the commands add and incr.                 *)

(* a is counted in its window with this value, and ends.                   *)
Counts(a, value) ==
  LET w == attempt[a].window
  IN /\ attempt[a].step \in {"keyed", "found", "checked"}
     /\ value = 1 \/ value = counter[w] + 1
     /\ counter' = [counter EXCEPT ![w] = value]
     /\ expiry' = [expiry EXCEPT ![w] = expiry'[w]]
     /\ expiry'[w] \in Nat \cup {Never}
     /\ counted' = counted \cup {a}
     /\ attempt' = [attempt EXCEPT ![a] = attempt'[a]]
     /\ attempt'[a] \in Attempt
     /\ attempt'[a].window = w
     /\ attempt'[a].since = attempt[a].since
     /\ attempt'[a].value \in {0, value}
     /\ attempt'[a].step \in {"admitted", "refused"}
     /\ attempt'[a].step = "refused" => value > Permitted
     /\ attempt'[a].step = "admitted" => attempt'[a].value <= Permitted
     /\ UNCHANGED <<clock, lost>>
     /\ late' \in SUBSET Windows /\ late \subseteq late'

LEMMA CountsInvariant ==
  ASSUME IInv, NEW a \in Attempts, NEW value \in Nat, Counts(a, value),
         NEW w, w = attempt[a].window,
         Sound(w)' =>
           /\ value = counter[w] + 1
           /\ expiry'[w] # Never
           /\ (w + 2) * Window <= expiry'[w]
  PROVE  IInv'
  <1> USE ThrottleAssumption
  <1>0. TypeOK
    BY DEF IInv
  <1>1. /\ a \notin counted /\ attempt[a].value = 0 /\ attempt[a].step # "new"
        /\ \A b \in Attempts : b # a => attempt'[b] = attempt[b]
        /\ counted \subseteq Attempts /\ counted' \subseteq Attempts
        /\ \A b \in Attempts : attempt[b].window \in Windows /\ attempt[b].value \in Nat
        /\ \A b \in Attempts : attempt'[b].window = attempt[b].window
    BY <1>0 DEF IInv, CountedOnce, TypeOK, Counts, Attempt
  <1>2. TypeOK'
    BY <1>0, <1>1 DEF TypeOK, Counts
  <1>3. /\ counter'[w] = value
        /\ \A v \in Windows : v # w => counter'[v] = counter[v] /\ expiry'[v] = expiry[v]
    BY <1>0, <1>1 DEF TypeOK, Counts
  <1>4. \A v : Sound(v)' => Sound(v)
    BY DEF Sound, Windows, Counts
  <1>5. Sound(w)' => value = counter[w] + 1
    OBVIOUS
  <1>6. CountedIn(w)' = CountedIn(w) \cup {a} /\ a \notin CountedIn(w)
    BY <1>1 DEF CountedIn, Counts
  <1>7. \A v : v # w => CountedIn(v)' = CountedIn(v)
    BY <1>1 DEF CountedIn, Counts
  <1>8. \A v : IsFiniteSet(CountedIn(v)) /\ Cardinality(CountedIn(v)) \in Nat
    BY <1>1, CountedFinite
  <1>9. Cardinality(CountedIn(w)') = Cardinality(CountedIn(w)) + 1
    BY <1>6, <1>8, FS_AddElement
  <1>10. value <= Cardinality(CountedIn(w)) + 1
    <2>1. counter[w] <= Cardinality(CountedIn(w)) /\ counter[w] \in Nat
      BY <1>0, <1>1 DEF IInv, CounterCounts, TypeOK
    <2>2. value = 1 \/ value = counter[w] + 1
      BY DEF Counts
    <2>3. QED  BY <1>8, <2>1, <2>2
  <1>11. Placed'
    BY <1>1 DEF IInv, Placed, Counts
  <1>12. CountedOnce'
    BY <1>1 DEF IInv, CountedOnce, Counts
  <1>13. CounterCounts'
    <2>1. ASSUME NEW v \in Windows  PROVE counter'[v] <= Cardinality(CountedIn(v)')
      BY <1>3, <1>7, <1>9, <1>10 DEF IInv, CounterCounts
    <2>2. QED  BY <2>1 DEF CounterCounts, Windows
  <1>14. Spent'
    <2>1. ASSUME NEW b \in Attempts, NEW v, v = attempt[b].window,
                 attempt'[b].step = "refused"
          PROVE  Cardinality(CountedIn(v)' \ {b}) >= Permitted
      <3>1. CASE b = a
        <4>1. CountedIn(v)' \ {b} = CountedIn(w)
          BY <1>1, <2>1, <3>1 DEF CountedIn, Counts
        <4>2. value > Permitted
          BY <2>1, <3>1 DEF Counts
        <4>3. Cardinality(CountedIn(w)) >= Permitted
          BY <1>8, <1>10, <4>2
        <4>4. Cardinality(CountedIn(v)' \ {b}) = Cardinality(CountedIn(w))
          BY <4>1
        <4>5. QED  BY <4>3, <4>4
      <3>2. CASE b # a
        <4> DEFINE before == CountedIn(v) \ {b}
                   after == CountedIn(v)' \ {b}
        <4>1. before \subseteq after
          BY <1>6, <1>7
        <4>2. IsFiniteSet(after)
          <5>1. CountedIn(v)' \in SUBSET Attempts
            BY <1>1 DEF CountedIn
          <5>2. QED  BY <5>1, FS_Subset
        <4>3. Cardinality(before) <= Cardinality(after)
              /\ Cardinality(before) \in Nat /\ Cardinality(after) \in Nat
          BY <4>1, <4>2, FS_Subset, FS_CardinalityType
        <4>4. Cardinality(before) >= Permitted
          BY <1>1, <2>1, <3>2 DEF IInv, Spent
        <4>5. QED  BY <4>3, <4>4
      <3>3. QED  BY <3>1, <3>2
    <2>2. QED  BY <1>1, <2>1 DEF Spent
  <1>15. KeyOutlives'
    <2>1. ASSUME NEW v \in Windows, Sound(v)', counter'[v] # 0
          PROVE  expiry'[v] # Never /\ (v + 2) * Window <= expiry'[v]
      <3>1. CASE v = w
        BY <2>1, <3>1
      <3>2. CASE v # w
        BY <1>3, <1>4, <2>1, <3>2 DEF IInv, KeyOutlives
      <3>3. QED  BY <3>1, <3>2
    <2>2. QED  BY <2>1 DEF KeyOutlives, Windows
  <1>16. FoundIsThere'
    BY <1>0, <1>1, <1>3, <1>4, <1>5 DEF IInv, FoundIsThere, Counts, TypeOK
  <1>17. ValuesBelow'
    <2>1. ASSUME NEW b \in Attempts, NEW v, v = attempt[b].window, Sound(v)',
                 attempt'[b].value # 0
          PROVE  attempt'[b].value <= counter'[v]
      <3>1. CASE b = a
        BY <1>3, <2>1, <3>1 DEF Counts
      <3>2. CASE b # a /\ v # w
        BY <1>1, <1>3, <1>4, <2>1, <3>2 DEF IInv, ValuesBelow
      <3>3. CASE b # a /\ v = w
        <4>1. attempt[b].value <= counter[w] /\ counter[w] \in Nat
          BY <1>0, <1>1, <1>4, <2>1, <3>3 DEF IInv, ValuesBelow, TypeOK
        <4>2. QED  BY <1>1, <1>3, <1>5, <2>1, <3>3, <4>1
      <3>4. QED  BY <3>1, <3>2, <3>3
    <2>2. QED  BY <1>1, <2>1 DEF ValuesBelow, Sound
  <1>18. ValuesDiffer'
    <2>1. ASSUME NEW b \in Attempts, Sound(w)', attempt[b].window = w,
                 attempt'[b].value # 0, attempt'[b].value = attempt'[a].value, b # a
          PROVE  FALSE
      <3>1. attempt[b].value <= counter[w] /\ counter[w] \in Nat
        BY <1>0, <1>1, <1>4, <2>1 DEF IInv, ValuesBelow, TypeOK
      <3>2. attempt'[a].value = counter[w] + 1
        BY <1>5, <2>1 DEF Counts
      <3>3. QED  BY <1>1, <2>1, <3>1, <3>2
    <2>2. QED  BY <1>1, <1>4, <2>1 DEF IInv, ValuesDiffer
  <1>19. AdmittedWithin'
    BY <1>1 DEF IInv, AdmittedWithin, Counts
  <1>20. QED
    BY <1>2, <1>11, <1>12, <1>13, <1>14, <1>15, <1>16, <1>17, <1>18, <1>19 DEF IInv

-----------------------------------------------------------------------------
(* The commands.                                                           *)

(* What every command leaves alone, whatever the caller sees of it.        *)
LEMMA AnsweredKeeps ==
  ASSUME TypeOK, NEW a \in Attempts, NEW step, NEW value \in Nat,
         step \in {"found", "checked", "admitted", "refused"},
         Answered(a, step, value)
  PROVE  /\ attempt' = [attempt EXCEPT ![a] = attempt'[a]]
         /\ attempt'[a] \in Attempt
         /\ attempt'[a].window = attempt[a].window
         /\ attempt'[a].since = attempt[a].since
         /\ \/ attempt'[a].step = step /\ attempt'[a].value = value
            \/ attempt'[a].step = "admitted" /\ attempt'[a].value = attempt[a].value
  BY DEF TypeOK, Answered, Attempt

LEMMA ActsType ==
  ASSUME TypeOK, NEW a \in Attempts, Acts(a)
  PROVE  /\ late' \in SUBSET Windows /\ late \subseteq late'
         /\ TooLate(attempt[a].window) => attempt[a].window \in late'
  BY DEF TypeOK, Acts, Attempt

LEMMA AddInvariant ==
  ASSUME IInv, NEW a \in Attempts, Add(a)
  PROVE  IInv'
  <1> USE ThrottleAssumption
  <1>1. PICK w : w = attempt[a].window
    OBVIOUS
  <1>2. /\ TypeOK /\ w \in Windows /\ attempt[a].value = 0
        /\ attempt[a].step = "keyed" /\ UNCHANGED <<clock, lost>>
        /\ late' \in SUBSET Windows /\ late \subseteq late'
        /\ TooLate(w) => w \in late'
    BY <1>1, ActsType DEF IInv, TypeOK, CountedOnce, Add, Attempt
  <1>3. CASE Alive(w)
    <2>1. Answered(a, "found", 0) /\ UNCHANGED <<counter, expiry, counted>>
      BY <1>1, <1>3 DEF Add
    <2>2. Keeps(a)
      BY <1>2, <2>1, AnsweredKeeps DEF Keeps
    <2>3. counter[w] # 0
      BY <1>3 DEF Alive
    <2>4. QED  BY <1>1, <1>2, <2>1, <2>2, <2>3, KeepsInvariant
  <1>4. CASE ~Alive(w)
    <2>1. /\ Answered(a, "admitted", 1)
          /\ counter' = [counter EXCEPT ![w] = 1]
          /\ expiry' = [expiry EXCEPT ![w] = clock + Lifetime]
          /\ counted' = counted \cup {a}
      BY <1>1, <1>4 DEF Add
    <2>2. clock \in Nat /\ Lifetime \in Nat /\ expiry'[w] = clock + Lifetime
      BY <1>2, <2>1 DEF TypeOK, Lifetime
    <2>3. Counts(a, 1)
      <3>1. expiry' = [expiry EXCEPT ![w] = expiry'[w]]
        BY <2>1, <2>2
      <3>2. /\ attempt' = [attempt EXCEPT ![a] = attempt'[a]]
            /\ attempt'[a] \in Attempt
            /\ attempt'[a].window = w /\ attempt'[a].since = attempt[a].since
            /\ attempt'[a].step = "admitted" /\ attempt'[a].value \in {0, 1}
        BY <1>1, <1>2, <2>1, AnsweredKeeps
      <3>3. attempt'[a].value <= Permitted
        BY <3>2
      <3>4. QED  BY <1>1, <1>2, <2>1, <2>2, <3>1, <3>2, <3>3 DEF Counts
    <2>4. ASSUME Sound(w)'  PROVE 1 = counter[w] + 1
      <3>1. Sound(w)
        BY <1>2, <2>4 DEF Sound, Windows
      <3>2. counter[w] = 0
        BY <1>1, <1>2, <1>4, <2>4, <3>1, GoneIsLate DEF Sound
      <3>3. QED  BY <3>2
    <2>5. (w + 2) * Window <= expiry'[w] /\ expiry'[w] # Never
      <3>1. w * Window <= clock
        BY <1>1, <1>2 DEF IInv, Placed
      <3>2. (w + 2) * Window = w * Window + 2 * Window /\ w * Window \in Nat
        BY <1>2 DEF Windows
      <3>3. QED  BY <2>2, <3>1, <3>2 DEF Lifetime
    <2>6. QED  BY <1>1, <2>3, <2>4, <2>5, CountsInvariant
  <1>5. QED  BY <1>3, <1>4

LEMMA ExistsInvariant ==
  ASSUME IInv, NEW a \in Attempts, Exists(a)
  PROVE  IInv'
  <1>1. TypeOK /\ attempt[a].value = 0 /\ attempt[a].step = "found"
        /\ UNCHANGED <<clock, counter, expiry, counted, lost>>
    BY DEF IInv, CountedOnce, Exists
  <1>2. late' \in SUBSET Windows /\ late \subseteq late'
    BY <1>1, ActsType DEF Exists
  <1>3. CASE Alive(attempt[a].window)
    <2>1. Answered(a, "checked", 0)
      BY <1>3 DEF Exists
    <2>2. Keeps(a)
      BY <1>1, <2>1, AnsweredKeeps DEF Keeps
    <2>3. counter[attempt[a].window] # 0
      BY <1>3 DEF Alive
    <2>4. QED  BY <1>1, <1>2, <2>2, <2>3, KeepsInvariant
  <1>4. CASE ~Alive(attempt[a].window)
    <2>1. attempt' = [attempt EXCEPT ![a].step = "admitted"]
      BY <1>4 DEF Exists
    <2>2. Keeps(a) /\ attempt'[a].step = "admitted"
      BY <1>1, <2>1 DEF Keeps, TypeOK, Attempt
    <2>3. QED  BY <1>1, <1>2, <2>2, KeepsInvariant
  <1>5. QED  BY <1>3, <1>4

LEMMA CacheFailsInvariant ==
  ASSUME IInv, NEW a \in Attempts, CacheFails(a)
  PROVE  IInv'
  <1>1. TypeOK /\ attempt[a].value = 0 /\ late \in SUBSET Windows
        /\ UNCHANGED <<clock, counter, expiry, counted, lost, late>>
    BY DEF IInv, TypeOK, CountedOnce, CacheFails
  <1>2. Keeps(a) /\ attempt'[a].step = "admitted"
    BY <1>1 DEF Keeps, TypeOK, Attempt, CacheFails
  <1>3. QED  BY <1>1, <1>2, KeepsInvariant

LEMMA IncrementInvariant ==
  ASSUME IInv, NEW a \in Attempts, Increment(a)
  PROVE  IInv'
  <1> USE ThrottleAssumption
  <1>1. PICK w : w = attempt[a].window
    OBVIOUS
  <1>2. PICK value : value = IF Alive(w) THEN counter[w] + 1 ELSE 1
    OBVIOUS
  <1>3. /\ TypeOK /\ w \in Windows /\ attempt[a].value = 0
        /\ attempt[a].step = "checked" /\ UNCHANGED <<clock, lost>>
        /\ late' \in SUBSET Windows /\ late \subseteq late'
        /\ TooLate(w) => w \in late'
    BY <1>1, ActsType DEF IInv, TypeOK, CountedOnce, Increment, Attempt
  <1>4. value \in Nat /\ (value = 1 \/ value = counter[w] + 1)
    BY <1>2, <1>3 DEF TypeOK
  <1>5. /\ counter' = [counter EXCEPT ![w] = value]
        /\ expiry' = IF Alive(w) THEN expiry ELSE [expiry EXCEPT ![w] = Never]
        /\ counted' = counted \cup {a}
        /\ Answered(a, IF Within(value) THEN "admitted" ELSE "refused", value)
    BY <1>1, <1>2 DEF Increment
  <1>6. expiry' = [expiry EXCEPT ![w] = expiry'[w]] /\ expiry'[w] \in Nat \cup {Never}
    BY <1>3, <1>5 DEF TypeOK
  <1>7. Counts(a, value)
    BY <1>1, <1>3, <1>4, <1>5, <1>6, AnsweredKeeps DEF Counts, Within
  <1>8. ASSUME Sound(w)'  PROVE Alive(w)
    <2>1. Sound(w)
      BY <1>3, <1>8 DEF Sound, Windows
    <2>2. counter[w] # 0
      BY <1>1, <1>3, <2>1 DEF IInv, FoundIsThere
    <2>3. QED  BY <1>1, <1>3, <1>8, <2>1, <2>2, GoneIsLate DEF Sound
  <1>9. ASSUME Sound(w)'
        PROVE  expiry'[w] # Never /\ (w + 2) * Window <= expiry'[w]
    <2>1. Sound(w) /\ Alive(w)
      BY <1>3, <1>8, <1>9 DEF Sound, Windows
    <2>2. counter[w] # 0 /\ expiry'[w] = expiry[w]
      BY <1>5, <2>1 DEF Alive
    <2>3. QED  BY <1>3, <2>1, <2>2 DEF IInv, KeyOutlives
  <1>10. QED  BY <1>1, <1>2, <1>4, <1>7, <1>8, <1>9, CountsInvariant

LEMMA StepInvariant == IInv /\ [Next]_vars => IInv'
  <1> SUFFICES ASSUME IInv, [Next]_vars PROVE IInv'
    OBVIOUS
  <1>1. ASSUME NEW a \in Attempts, AllowRequest(a)  PROVE IInv'
    BY <1>1, ArriveInvariant, AddInvariant, ExistsInvariant, IncrementInvariant,
       CacheFailsInvariant DEF AllowRequest
  <1>2. ASSUME NEW w \in Windows, Lose(w)  PROVE IInv'
    BY <1>2, LoseInvariant
  <1>3. CASE Tick
    BY <1>3, TickInvariant
  <1>4. CASE UNCHANGED vars
    BY <1>4 DEF vars, IInv, TypeOK, Placed, CountedOnce, CounterCounts, Spent, CountedIn,
                Sound, KeyOutlives, FoundIsThere, ValuesBelow, ValuesDiffer, AdmittedWithin,
                Windows, Attempt
  <1>5. QED  BY <1>1, <1>2, <1>3, <1>4 DEF Next

(* Nothing the throttle does leads out of the inductive invariant.         *)
THEOREM ThrottleInvariant == Spec => []IInv
  <1>1. QED  BY InitInvariant, StepInvariant, PTL DEF Spec

-----------------------------------------------------------------------------
(* What follows from it.                                                   *)

(* The state keeps its type: a counter is a number, a key has an expiry.   *)
THEOREM ThrottleType == Spec => []TypeOK
  <1>1. IInv => TypeOK
    BY DEF IInv
  <1>2. QED  BY <1>1, ThrottleInvariant, PTL

(* A client is refused only when as many other attempts as the rate        *)
(* permits were counted in the window its attempt arrived in.              *)
THEOREM ThrottleSpent == Spec => []RefusedOnlyWhenSpent
  <1>1. ASSUME IInv  PROVE RefusedOnlyWhenSpent
    <2>1. ASSUME NEW a \in Attempts, attempt[a].step = "refused"
          PROVE  Cardinality(CountedWith(a) \ {a}) >= Permitted
      <3>1. CountedWith(a) = CountedIn(attempt[a].window)
        <4>1. \A b \in counted : attempt[b].step # "new" /\ b \in Attempts
          BY <1>1 DEF IInv, CountedOnce, TypeOK
        <4>2. QED  BY <1>1, <2>1, <4>1 DEF IInv, Placed, CountedWith, CountedIn
      <3>2. QED  BY <1>1, <2>1, <3>1 DEF IInv, Spent
    <2>2. QED  BY <2>1 DEF RefusedOnlyWhenSpent
  <1>2. QED  BY <1>1, ThrottleInvariant, PTL

(* A window nobody was late in, and whose key Redis kept, admits no more   *)
(* attempts by its counter than the rate: their values are different.      *)
THEOREM ThrottleRate == Spec => []AdmitsTheRate
  <1>1. ASSUME IInv  PROVE AdmitsTheRate
    <2>1. ASSUME NEW w \in Windows \ (late \cup lost)
          PROVE  Cardinality(AdmittedByCount(w)) <= Permitted
      <3> DEFINE value == [a \in AdmittedByCount(w) |-> attempt[a].value]
      <3>1. Permitted \in Nat
        BY ThrottleAssumption
      <3>2. IsFiniteSet(1 .. Permitted) /\ Cardinality(1 .. Permitted) = Permitted
        BY <3>1, FS_Interval, ThrottleAssumption
      <3>3. IsFiniteSet(AdmittedByCount(w))
        BY FS_Subset, ThrottleAssumption DEF AdmittedByCount
      <3>4. value \in [AdmittedByCount(w) -> 1 .. Permitted]
        BY <1>1, <3>1 DEF AdmittedByCount, IInv, AdmittedWithin, TypeOK, Attempt
      <3>5. \A a, b \in AdmittedByCount(w) : value[a] = value[b] => a = b
        BY <1>1, <2>1 DEF AdmittedByCount, IInv, ValuesDiffer, Sound
      <3> HIDE DEF value
      <3>6. ~(Permitted < Cardinality(AdmittedByCount(w)))
        <4>1. SUFFICES ASSUME Cardinality(1 .. Permitted) < Cardinality(AdmittedByCount(w))
                       PROVE  FALSE
          BY <3>2
        <4>2. \E a, b \in AdmittedByCount(w) : a # b /\ value[a] = value[b]
          BY <3>2, <3>3, <3>4, <4>1, FS_PigeonHole
        <4>3. QED  BY <3>5, <4>2
      <3>7. QED  BY <3>1, <3>3, <3>6, FS_CardinalityType
    <2>2. QED  BY <2>1 DEF AdmitsTheRate
  <1>2. QED  BY <1>1, ThrottleInvariant, PTL

(* A key loses its lifetime only in a window an attempt was late in, or    *)
(* whose key Redis lost.                                                   *)
THEOREM ThrottleNever == Spec => []NeverOnlyAfterAStall
  <1>1. ASSUME IInv  PROVE NeverOnlyAfterAStall
    BY <1>1 DEF IInv, KeyOutlives, Sound, NeverOnlyAfterAStall
  <1>2. QED  BY <1>1, ThrottleInvariant, PTL

-----------------------------------------------------------------------------
(* The client of an attempt, for any number of proxies, any networks and   *)
(* any chain a visitor begins.                                             *)

(* Every notation of an address is read as that address.                   *)
LEMMA ParsesSpellings ==
  ASSUME NEW a \in Address, NEW text \in Spellings(a)
  PROVE  _parse_address(text) = a /\ text.kind # "blank"
  <1>1. text \in Text /\ text.kind = "address" /\ text.of = a
    BY DEF Spellings
  <1>2. text = [kind |-> text.kind, of |-> text.of, mapped |-> text.mapped,
                bracketed |-> text.bracketed, port |-> text.port]
        /\ text.bracketed \in BOOLEAN /\ text.port \in BOOLEAN
    BY <1>1 DEF Text
  <1>3. CASE text.bracketed
    BY <1>1, <1>2, <1>3 DEF _parse_address, _without_port
  <1>4. CASE ~text.bracketed /\ text.port
    <2>1. ~Colons(text)
      BY <1>4 DEF Spellings
    <2>2. QED  BY <1>1, <1>2, <1>4, <2>1 DEF _parse_address, _without_port
  <1>5. CASE ~text.bracketed /\ ~text.port
    BY <1>1, <1>2, <1>5 DEF _parse_address, _without_port
  <1>6. QED  BY <1>1, <1>2, <1>3, <1>4, <1>5

LEMMA Addresses ==
  /\ Server \in Address /\ Visitors \subseteq Address
  /\ \A a \in Visitors : a # None /\ ~_is_trusted(a)
  /\ Server # None /\ _is_trusted(Server)
  /\ Plain("address", Server) \in Spellings(Server)
  BY DEF Server, Visitors, Address, None, _is_trusted, Plain, Spellings, Text, Colons

(* The entries from place p on, when none of them is blank.                *)
LEMMA CountsFromTheRight ==
  ASSUME NEW s \in Seq(Text), NEW p \in 1 .. Len(s), Len(s) - p = Hops,
         \A k \in p .. Len(s) : s[k].kind # "blank"
  PROVE  _forwarded_client(s) = _parse_address(s[p])
  <1> DEFINE From(i) == {j \in Entries(s) : j >= i}
             placed == {i \in Entries(s) : Cardinality(From(i)) = Hops + 1}
  <1>1. Hops \in Nat /\ Len(s) \in Nat /\ DOMAIN s = 1 .. Len(s)
    BY IdentityAssumption
  <1>2. Entries(s) \subseteq 1 .. Len(s) /\ \A k \in p .. Len(s) : k \in Entries(s)
    BY <1>1 DEF Entries
  <1>3. From(p) = p .. Len(s)
    BY <1>1, <1>2
  <1>4. IsFiniteSet(From(p)) /\ Cardinality(From(p)) = Hops + 1
    <2>1. p \in Int /\ Len(s) \in Int /\ p <= Len(s)
      BY <1>1
    <2>2. IsFiniteSet(p .. Len(s)) /\ Cardinality(p .. Len(s)) = Len(s) - p + 1
      BY <2>1, FS_Interval
    <2>3. QED  BY <1>3, <2>2
  <1>5. p \in placed
    BY <1>1, <1>2, <1>4
  <1>6. ASSUME NEW i \in placed  PROVE i = p
    <2>1. i \in 1 .. Len(s) /\ i \in Entries(s)
      BY <1>2
    <2>2. IsFiniteSet(From(i))
      <3>1. IsFiniteSet(1 .. Len(s))
        BY <1>1, FS_Interval
      <3>2. From(i) \in SUBSET (1 .. Len(s))
        BY <1>2
      <3>3. QED  BY <3>1, <3>2, FS_Subset
    <2>3. CASE i < p
      <3>1. From(p) \in SUBSET From(i)
        BY <1>1, <1>2, <2>1, <2>3
      <3>2. From(p) = From(i)
        BY <1>4, <2>2, <3>1, FS_Subset
      <3>3. i \in From(i) /\ i \notin From(p)
        BY <2>1, <2>3
      <3>4. QED  BY <3>2, <3>3
    <2>4. CASE p < i
      <3>1. From(i) \in SUBSET From(p)
        BY <1>1, <1>2, <2>1, <2>4
      <3>2. From(p) = From(i)
        BY <1>4, <3>1, FS_Subset
      <3>3. p \in From(p) /\ p \notin From(i)
        BY <1>1, <1>2, <2>1, <2>4
      <3>4. QED  BY <3>2, <3>3
    <2>5. QED  BY <2>1, <2>3, <2>4
  <1>7. (CHOOSE i \in placed : TRUE) = p
    BY <1>5, <1>6
  <1>8. _forwarded_client(s) = IF placed = {} THEN None ELSE _parse_address(s[CHOOSE i \in placed : TRUE])
    BY DEF _forwarded_client
  <1>9. QED  BY <1>5, <1>7, <1>8

(* Behind the edge the chain ends in what the infrastructure appended.     *)
Appended ==
  /\ client \in Visitors /\ chain \in Seq(Text)
  /\ hop \in {"visitor", "edge", "api"}
  /\ hop = "edge" =>
       /\ appended \in 1 .. Hops + 1 /\ appended <= Len(chain)
       /\ chain[Len(chain) - appended + 1] \in Spellings(client)
       /\ \A k \in Len(chain) - appended + 2 .. Len(chain) : chain[k] = Plain("address", Server)

IdentityInv == Appended /\ OneBucketPerClient

LEMMA ResolvesTheClient == ASSUME IdentityInv, Resolve PROVE OneBucketPerClient'
  <1>1. client \in Address /\ client # None /\ ~_is_trusted(client) /\ client' = client
    BY Addresses DEF IdentityInv, Appended, Resolve
  <1>2. CASE hop = "edge"
    <2>1. hop = "edge" /\ appended = Hops + 1
      BY <1>2 DEF Resolve
    <2>2. PICK peer \in Sockets(Server) : identity' = resolve_client_identity(peer, chain)
      BY <1>2 DEF Resolve
    <2>3. _parse_address(peer) = Server
      BY ParsesSpellings, Addresses DEF Sockets
    <2>4. /\ chain \in Seq(Text) /\ Len(chain) - Hops \in 1 .. Len(chain)
          /\ chain[Len(chain) - Hops] \in Spellings(client)
          /\ \A k \in Len(chain) - Hops + 1 .. Len(chain) : chain[k] = Plain("address", Server)
      BY <2>1, IdentityAssumption DEF IdentityInv, Appended
    <2>5. \A k \in Len(chain) - Hops .. Len(chain) : chain[k].kind # "blank"
      BY <1>1, <2>4, ParsesSpellings, Addresses, IdentityAssumption
    <2>6. _forwarded_client(chain) = _parse_address(chain[Len(chain) - Hops])
      <3> DEFINE p == Len(chain) - Hops
      <3>1. p \in 1 .. Len(chain) /\ Len(chain) - p = Hops
        BY <2>4, IdentityAssumption
      <3>2. QED  BY <2>4, <2>5, <3>1, CountsFromTheRight
    <2>7. _forwarded_client(chain) = client
      BY <1>1, <2>4, <2>6, ParsesSpellings
    <2>8. identity' = _identity_of(client)
      BY <1>1, <2>2, <2>3, <2>7, Addresses DEF resolve_client_identity
    <2>9. QED  BY <1>1, <2>8 DEF OneBucketPerClient, _identity_of
  <1>3. CASE hop = "visitor"
    <2>1. PICK peer \in Sockets(client) : identity' = resolve_client_identity(peer, chain)
      BY <1>3 DEF Resolve
    <2>2. _parse_address(peer) = client
      BY <1>1, ParsesSpellings DEF Sockets
    <2>3. identity' = _identity_of(client)
      BY <1>1, <2>1, <2>2 DEF resolve_client_identity
    <2>4. QED  BY <1>1, <2>3 DEF OneBucketPerClient, _identity_of
  <1>4. QED  BY <1>2, <1>3 DEF Resolve

LEMMA ForwardStep == IdentityInv /\ [ForwardNext]_forwardVars => IdentityInv'
  <1> SUFFICES ASSUME IdentityInv, [ForwardNext]_forwardVars  PROVE IdentityInv'
    OBVIOUS
  <1>1. CASE Forge
    <2>1. PICK x \in Visitors \cup {Server} : \E text \in Spellings(x) \cup {Junk, Blank} :
            chain' = Append(chain, text)
      BY <1>1 DEF Forge
    <2>2. Spellings(x) \cup {Junk, Blank} \subseteq Text
      <3>1. Spellings(x) \subseteq Text
        BY DEF Spellings
      <3>2. Junk \in Text /\ Blank \in Text
        BY DEF Junk, Blank, Plain, Text
      <3>3. QED  BY <3>1, <3>2
    <2>3. QED  BY <1>1, <2>1, <2>2 DEF Forge, IdentityInv, Appended, OneBucketPerClient
  <1>2. CASE AppendPeer
    <2>1. PICK text \in Spellings(client) : chain' = Append(chain, text)
      BY <1>2 DEF AppendPeer
    <2>2. text \in Text
      BY DEF Spellings
    <2>3. /\ chain' \in Seq(Text) /\ Len(chain') = Len(chain) + 1 /\ Len(chain) \in Nat
          /\ chain'[Len(chain) + 1] = text
      BY <2>1, <2>2 DEF IdentityInv, Appended
    <2>4. QED
      BY <1>2, <2>3, IdentityAssumption
      DEF AppendPeer, IdentityInv, Appended, OneBucketPerClient
  <1>3. CASE AppendHop
    <2> DEFINE text == Plain("address", Server)
    <2>1. text \in Text
      BY Addresses DEF Spellings
    <2>2. /\ hop = "edge" /\ appended <= Hops /\ appended' = appended + 1
          /\ chain' = Append(chain, text) /\ UNCHANGED <<client, hop, identity>>
      BY <1>3 DEF AppendHop
    <2>3. /\ appended \in 1 .. Hops + 1 /\ appended <= Len(chain) /\ chain \in Seq(Text)
          /\ chain[Len(chain) - appended + 1] \in Spellings(client)
          /\ \A k \in Len(chain) - appended + 2 .. Len(chain) : chain[k] = text
      BY <2>2 DEF IdentityInv, Appended
    <2> HIDE DEF text
    <2>4. /\ chain' \in Seq(Text) /\ Len(chain') = Len(chain) + 1 /\ Len(chain) \in Nat
          /\ chain'[Len(chain) + 1] = text
          /\ \A k \in 1 .. Len(chain) : chain'[k] = chain[k]
      BY <2>1, <2>2, <2>3
    <2>5. Len(chain') - appended' = Len(chain) - appended
      BY <2>2, <2>3, <2>4
    <2>6. chain'[Len(chain') - appended' + 1] \in Spellings(client)
      <3>1. Len(chain) - appended + 1 \in 1 .. Len(chain)
        BY <2>3, <2>4
      <3>2. chain'[Len(chain) - appended + 1] = chain[Len(chain) - appended + 1]
        BY <2>4, <3>1
      <3>3. QED  BY <2>3, <2>5, <3>2
    <2>7. \A k \in Len(chain') - appended' + 2 .. Len(chain') : chain'[k] = text
      BY <2>3, <2>4, <2>5, IdentityAssumption
    <2>8. QED
      BY <2>2, <2>3, <2>4, <2>6, <2>7, IdentityAssumption
      DEF text, IdentityInv, Appended, OneBucketPerClient
  <1>4. CASE Resolve
    BY <1>4, ResolvesTheClient DEF Resolve, IdentityInv, Appended
  <1>5. CASE UNCHANGED forwardVars
    BY <1>5 DEF forwardVars, IdentityInv, Appended, OneBucketPerClient
  <1>6. QED  BY <1>1, <1>2, <1>3, <1>4, <1>5 DEF ForwardNext

(* An attempt is counted for the address it was sent from, or its network  *)
(* of IPv6: neither a forged beginning of the chain, nor the notation of   *)
(* an entry, nor the way around the proxies changes the bucket.            *)
THEOREM OneBucket == ForwardSpec => []OneBucketPerClient
  <1>1. ForwardInit => IdentityInv
    BY DEF ForwardInit, IdentityInv, Appended, OneBucketPerClient
  <1>2. IdentityInv => OneBucketPerClient
    BY DEF IdentityInv
  <1>3. QED  BY <1>1, <1>2, ForwardStep, PTL DEF ForwardSpec

=============================================================================
