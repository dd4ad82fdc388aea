--------------------------- MODULE SignInThrottle ---------------------------
(***************************************************************************)
(* The attempts of one client against the counters SignInRateThrottle      *)
(* keeps in Redis.  Clients have different keys, so one is enough.         *)
(*                                                                         *)
(* A command of Redis is atomic; between two commands of an attempt time   *)
(* passes and other attempts act.  Redis and the application agree on the  *)
(* time.                                                                   *)
(***************************************************************************)
EXTENDS Naturals, FiniteSets

CONSTANTS
  Attempts,      \* sign-in requests
  Window,        \* window_seconds
  Permitted,     \* permitted_attempts
  MaxClock,      \* bound on the clock
  Never          \* the expiry of a key without a lifetime

ASSUME ThrottleAssumption ==
  /\ Window \in Nat \ {0} /\ Permitted \in Nat \ {0} /\ MaxClock \in Nat
  /\ IsFiniteSet(Attempts)
  /\ Never \notin Nat

VARIABLES
  clock,         \* int(time())
  counter,       \* the value of the key of each window, 0 when there is none
  expiry,        \* when it expires
  attempt,       \* the requests in allow_request
  counted,       \* history: attempts that added to a counter
  lost,          \* history: windows whose key Redis lost
  late           \* history: windows an attempt acted for too late

vars == <<clock, counter, expiry, attempt, counted, lost, late>>

Windows == 0 .. MaxClock

(* keyed: the key is known.  found: add found it taken.  checked: incr saw *)
(* that it exists.  value is what the counter answered, 0 for nothing.     *)
Attempt ==
  [step: {"new", "keyed", "found", "checked", "admitted", "refused"},
   window: Windows, since: 0 .. MaxClock, value: Nat]

TypeOK ==
  /\ clock \in 0 .. MaxClock
  /\ counter \in [Windows -> Nat]
  /\ expiry \in [Windows -> Nat \cup {Never}]
  /\ attempt \in [Attempts -> Attempt]
  /\ counted \subseteq Attempts
  /\ lost \subseteq Windows
  /\ late \subseteq Windows

Init ==
  /\ clock = 0
  /\ counter = [w \in Windows |-> 0]
  /\ expiry = [w \in Windows |-> 0]
  /\ attempt = [a \in Attempts |-> [step |-> "new", window |-> 0, since |-> 0, value |-> 0]]
  /\ counted = {} /\ lost = {} /\ late = {}

-----------------------------------------------------------------------------

Alive(w) == counter[w] # 0 /\ IF expiry[w] = Never THEN TRUE ELSE clock < expiry[w]

(* Mutant: the key lives as long as a window.                              *)
OneWindow == Window

(* KEY_LIFETIME_WINDOWS of them.                                           *)
Lifetime == 2 * Window

(* Mutant: one key for every window.                                       *)
NoOrdinal(now) == 0

(* Mutant: the window is named by the second it ends at.                   *)
EndOfWindow(now) == (now - (now % Window)) + Window

CurrentWindow(now) == now \div Window

(* Mutant: one attempt more than the rate.                                 *)
WithinOneMore(value) == value <= Permitted + 1

Within(value) == value <= Permitted

(* Nobody should be handling an attempt a whole window after its own.      *)
TooLate(w) == clock >= (w + 2) * Window

Acts(a) ==
  late' = IF TooLate(attempt[a].window) THEN late \cup {attempt[a].window} ELSE late

Arrive(a) ==
  /\ attempt[a].step = "new"
  /\ attempt' = [attempt EXCEPT ![a].step = "keyed", ![a].since = clock,
                                ![a].window = CurrentWindow(clock)]
  /\ UNCHANGED <<clock, counter, expiry, counted, lost, late>>

(* What the caller sees of a command: the answer, or an error after the    *)
(* command was executed.  An error admits the attempt.                     *)
Answered(a, step, value) ==
  attempt' \in {[attempt EXCEPT ![a].step = step, ![a].value = value],
                [attempt EXCEPT ![a].step = "admitted"]}

(* cache.add: SET NX EX.                                                   *)
Add(a) ==
  LET w == attempt[a].window
  IN /\ attempt[a].step = "keyed"
     /\ IF Alive(w)
        THEN /\ Answered(a, "found", 0)
             /\ UNCHANGED <<counter, expiry, counted>>
        ELSE /\ counter' = [counter EXCEPT ![w] = 1]
             /\ expiry' = [expiry EXCEPT ![w] = clock + Lifetime]
             /\ counted' = counted \cup {a}
             /\ Answered(a, "admitted", 1)
     /\ Acts(a)
     /\ UNCHANGED <<clock, lost>>

(* cache.incr: EXISTS, where absence is a ValueError, ...                  *)
Exists(a) ==
  /\ attempt[a].step = "found"
  /\ IF Alive(attempt[a].window)
     THEN Answered(a, "checked", 0)
     ELSE attempt' = [attempt EXCEPT ![a].step = "admitted"]
  /\ Acts(a)
  /\ UNCHANGED <<clock, counter, expiry, counted, lost>>

(* ... then INCRBY, which creates a key without a lifetime.                *)
Increment(a) ==
  LET w == attempt[a].window
      value == IF Alive(w) THEN counter[w] + 1 ELSE 1
  IN /\ attempt[a].step = "checked"
     /\ counter' = [counter EXCEPT ![w] = value]
     /\ expiry' = IF Alive(w) THEN expiry ELSE [expiry EXCEPT ![w] = Never]
     /\ counted' = counted \cup {a}
     /\ Answered(a, IF Within(value) THEN "admitted" ELSE "refused", value)
     /\ Acts(a)
     /\ UNCHANGED <<clock, lost>>

(* A cache that cannot be reached, before any of the three commands.       *)
CacheFails(a) ==
  /\ attempt[a].step \in {"keyed", "found", "checked"}
  /\ attempt' = [attempt EXCEPT ![a].step = "admitted"]
  /\ UNCHANGED <<clock, counter, expiry, counted, lost, late>>

(* Redis restarts without the key.                                         *)
Lose(w) ==
  /\ Alive(w)
  /\ counter' = [counter EXCEPT ![w] = 0]
  /\ lost' = lost \cup {w}
  /\ UNCHANGED <<clock, expiry, attempt, counted, late>>

Tick ==
  /\ clock < MaxClock
  /\ clock' = clock + 1
  /\ UNCHANGED <<counter, expiry, attempt, counted, lost, late>>

AllowRequest(a) == Arrive(a) \/ Add(a) \/ Exists(a) \/ Increment(a) \/ CacheFails(a)

Next ==
  \/ \E a \in Attempts : AllowRequest(a)
  \/ \E w \in Windows : Lose(w)
  \/ Tick

Spec == Init /\ [][Next]_vars

-----------------------------------------------------------------------------
(* Properties.                                                             *)

(* The attempts that arrived in the same window as a and were counted.     *)
CountedWith(a) ==
  {b \in counted : attempt[b].since \div Window = attempt[a].since \div Window}

(* A client is refused only when it spent its budget in the window it      *)
(* arrived in: whatever an earlier window, a key without a lifetime or a   *)
(* failure of the cache left behind refuses nobody.                        *)
RefusedOnlyWhenSpent ==
  \A a \in Attempts :
    attempt[a].step = "refused" => Cardinality(CountedWith(a) \ {a}) >= Permitted

(* The attempts of a window that the counter admitted.                     *)
AdmittedByCount(w) ==
  {a \in Attempts : /\ attempt[a].step = "admitted" /\ attempt[a].value # 0
                    /\ attempt[a].window = w}

(* However attempts interleave, a window admits no more of them than the   *)
(* rate, unless Redis lost its key or one of them was handled for longer   *)
(* than a whole window after it.                                           *)
AdmitsTheRate ==
  \A w \in Windows \ (late \cup lost) : Cardinality(AdmittedByCount(w)) <= Permitted

(* "a key that cannot expire while its own window is current makes that    *)
(* race unreachable": a key without a lifetime takes the same excuses.     *)
NeverOnlyAfterAStall ==
  \A w \in Windows : counter[w] # 0 /\ expiry[w] = Never => w \in late \cup lost

=============================================================================
