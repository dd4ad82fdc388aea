----------------------- MODULE SportmonksClientProofs -----------------------
(***************************************************************************)
(* Proofs about one call of the client, for every value of its limits.     *)
(***************************************************************************)
EXTENDS SportmonksClient, FiniteSetTheorems, TLAPS

-----------------------------------------------------------------------------
(* Delays.                                                                 *)

(* A power of two counts the subsets of an interval.                       *)
LEMMA PowerOfTwo ==
  ASSUME NEW n \in Nat
  PROVE  2^n \in Nat
  <1>1. IsFiniteSet(1 .. n) /\ Cardinality(1 .. n) = n
    BY FS_Interval
  <1>2. IsFiniteSet(SUBSET (1 .. n)) /\ Cardinality(SUBSET (1 .. n)) = 2^n
    BY <1>1, FS_SUBSET
  <1>3. QED  BY <1>2, FS_CardinalityType

LEMMA BackoffType ==
  ASSUME NEW attempt \in 1 .. MaxAttempts
  PROVE  Backoff(attempt) \in 0 .. MaxDelay
  <1>1. attempt - 1 \in Nat
    BY ClientAssumption
  <1>2. PICK p \in Nat : p = 2^(attempt - 1)
    BY <1>1, PowerOfTwo
  <1>3. Base \in Nat /\ MaxDelay \in Nat
    BY ClientAssumption
  <1>4. Backoff(attempt) = Least(Base * p, MaxDelay)
    BY <1>2 DEF Backoff
  <1>5. Base * p \in Nat
    BY <1>3
  <1>6. QED  BY <1>3, <1>4, <1>5 DEF Least

(* The carriers state nothing, not a number, too large an integer, or a    *)
(* number of seconds.                                                      *)
LEMMA ResetType ==
  ASSUME NEW carriers \in Carriers
  PROVE  ReportedReset(carriers) \in Nat \cup {NaN, Huge, Unstated}
  <1> DEFINE stating == {i \in 1 .. 3 : carriers[i] # Unstated}
             first == CHOOSE i \in stating : \A j \in stating : i <= j
  <1>1. ASSUME stating # {} PROVE \E i \in stating : \A j \in stating : i <= j
    <2>1. CASE 1 \in stating
      BY <2>1
    <2>2. CASE 1 \notin stating /\ 2 \in stating
      BY <2>2
    <2>3. CASE 1 \notin stating /\ 2 \notin stating
      BY <1>1, <2>3
    <2>4. QED  BY <2>1, <2>2, <2>3
  <1>2. ASSUME stating # {} PROVE carriers[first] \in Int \cup {NaN, Huge}
    <2>1. first \in stating
      BY <1>1, <1>2
    <2>2. carriers \in [1 .. 3 -> Resets \cup {NaN, Huge, Unstated}]
      BY DEF Carriers
    <2>3. QED  BY <2>1, <2>2, ClientAssumption
  <1>3. \A x \in Int \cup {NaN, Huge} : Seconds(x) \in Nat \cup {NaN, Huge}
    BY ClientAssumption DEF Seconds
  <1>4. CASE stating = {}
    BY <1>4 DEF ReportedReset
  <1>5. CASE stating # {}
    <2>1. ReportedReset(carriers) = Seconds(carriers[first])
      BY <1>5 DEF ReportedReset
    <2>2. QED  BY <1>2, <1>3, <1>5, <2>1
  <1>6. QED  BY <1>4, <1>5

(* What is waited for after a 429 that is waited for at all.               *)
LEMMA DelayType ==
  ASSUME TypeOK, NEW carriers \in Carriers,
         ThrottledDelay(ReportedReset(carriers)) # Nothing,
         ThrottledDelay(ReportedReset(carriers)) # NaN,
         ReportedReset(carriers) # Huge
  PROVE  /\ ThrottledDelay(ReportedReset(carriers)) \in 0 .. MaxDelay
         /\ ~TooLong(ReportedReset(carriers))
  <1> DEFINE reset == ReportedReset(carriers)
  <1>1. reset \in Nat \cup {NaN, Huge, Unstated}
    BY ResetType
  <1>2. Backoff(call.attempt) \in 0 .. MaxDelay
    BY BackoffType DEF TypeOK, Call
  <1> HIDE DEF reset
  <1>3. ThrottledDelay(reset) \in 0 .. MaxDelay /\ ~TooLong(reset)
    BY <1>1, <1>2, ClientAssumption DEF ThrottledDelay, TooLong, reset
  <1>4. QED  BY <1>3 DEF reset

-----------------------------------------------------------------------------
(* The invariant: the cursor to ask for is the one the last page told, and *)
(* a call that was given a hopeless answer has ended.                      *)

Chain ==
  /\ asked # <<>> => asked[1] = First
  /\ \A i \in 1 .. Len(asked) - 1 : told[i] = asked[i + 1]
  /\ call.step \in {"idle", "asking", "receiving", "waiting"} =>
       call.cursor = IF asked = <<>> THEN First ELSE told[Len(told)]
  /\ call.step \in {"yielded", "complete"} => asked # <<>>
  /\ call.step = "complete" => ~Announces(told[Len(told)])

Inv ==
  /\ TypeOK
  /\ Chain
  /\ WaitsAreShort
  /\ call.step = "waiting" => call.attempt < MaxAttempts
  /\ hopeless => call.step \in Ended

LEMMA InitInv == Init => Inv
  <1> SUFFICES ASSUME Init PROVE Inv
    OBVIOUS
  <1>1. call \in Call
    <2>1. 1 \in 1 .. MaxPages /\ 1 \in 1 .. MaxAttempts /\ 0 \in Nat /\ 0 \in 0 .. Timeout
      BY ClientAssumption
    <2>2. "idle" \in {"idle"} \cup Running \cup Ended /\ First \in Cursors \cup {First}
      OBVIOUS
    <2>3. call = [step |-> "idle", deadline |-> 0, cursor |-> First, page |-> 1,
                  attempt |-> 1, wake |-> 0, silent |-> 0]
      BY DEF Init
    <2>4. QED  BY <2>1, <2>2, <2>3 DEF Call
  <1>2. TypeOK
    <2>1. asked = <<>> /\ told = <<>>
      BY DEF Init
    <2>2. /\ asked \in Seq(Cursors \cup {First}) /\ told \in Seq(Further)
          /\ Len(asked) = Len(told)
      BY <2>1
    <2>3. QED  BY <1>1, <2>2 DEF Init, TypeOK
  <1>3. Chain
    BY DEF Init, Chain
  <1>4. QED  BY <1>2, <1>3 DEF Init, Inv, WaitsAreShort

(* Steps that leave the pages alone.                                       *)
LEMMA InnerInv ==
  ASSUME Inv, UNCHANGED <<asked, told>>, clock' \in Nat, call' \in Call,
         hopeless' \in BOOLEAN, call'.cursor = call.cursor,
         call'.step \in {"idle", "asking", "receiving", "waiting"} =>
           call.step \in {"idle", "asking", "receiving", "waiting"},
         call'.step \notin {"yielded", "complete"},
         call'.step = "waiting" => /\ call'.wake <= clock' + MaxDelay
                                   /\ call'.attempt < MaxAttempts,
         hopeless' => call'.step \in Ended
  PROVE  Inv'
  <1>1. TypeOK'
    BY DEF Inv, TypeOK
  <1>2. Chain'
    BY DEF Inv, Chain
  <1>3. QED  BY <1>1, <1>2 DEF Inv, WaitsAreShort

(* A request is repeated after a wait within the ceiling.                  *)
LEMMA SleepInv ==
  ASSUME Inv, NEW delay \in 0 .. MaxDelay, call.step = "receiving", ~IsLastAttempt,
         call' = Sleep(delay), hopeless' = FALSE, UNCHANGED <<clock, asked, told>>
  PROVE  Inv'
  <1>1. call \in Call /\ clock \in Nat /\ MaxDelay \in Nat /\ MaxAttempts \in Nat
    BY ClientAssumption DEF Inv, TypeOK
  <1>2. /\ call' \in Call /\ call'.step = "waiting" /\ call'.wake = clock + delay
        /\ call'.attempt = call.attempt /\ call'.cursor = call.cursor
    <2>1. clock + delay \in Nat /\ "waiting" \in {"idle"} \cup Running \cup Ended
      BY <1>1 DEF Running
    <2>2. call' = [call EXCEPT !.step = "waiting", !.wake = clock + delay]
      BY DEF Sleep
    <2>3. QED  BY <1>1, <2>1, <2>2 DEF Call
  <1>3. call'.attempt < MaxAttempts
    BY <1>1, <1>2 DEF IsLastAttempt, Call
  <1>4. call'.wake <= clock' + MaxDelay
    BY <1>1, <1>2
  <1>5. QED  BY <1>1, <1>2, <1>3, <1>4, InnerInv

(* The call ends with an exception.                                        *)
LEMMA RaiseInv ==
  ASSUME Inv, NEW step \in {"abandoned", "broken"}, call' = [call EXCEPT !.step = step],
         hopeless' \in BOOLEAN, UNCHANGED <<clock, asked, told>>
  PROVE  Inv'
  <1>1. call \in Call /\ clock \in Nat
    BY DEF Inv, TypeOK
  <1>2. call' \in Call /\ call'.step = step /\ call'.cursor = call.cursor
    BY <1>1 DEF Call, Ended
  <1>3. QED  BY <1>1, <1>2, InnerInv DEF Ended

LEMMA OpenSendInv ==
  ASSUME Inv, Open \/ Send \/ RefusePastDeadline
  PROVE  Inv'
  <1>1. call \in Call /\ clock \in Nat /\ Budget \in Nat /\ Timeout \in Nat /\ hopeless \in BOOLEAN
    BY ClientAssumption DEF Inv, TypeOK
  <1>2. CASE Open
    <2>1. ~hopeless
      BY <1>2 DEF Open, Inv, Ended
    <2>2. clock + Budget \in Nat /\ "asking" \in {"idle"} \cup Running \cup Ended
      BY <1>1 DEF Running
    <2>3. call' \in Call /\ call'.step = "asking" /\ call'.cursor = call.cursor
      BY <1>1, <1>2, <2>2 DEF Open, Call
    <2>4. QED  BY <1>1, <1>2, <2>1, <2>3, InnerInv DEF Open
  <1>3. CASE Send
    <2>1. ~hopeless
      BY <1>3 DEF Send, Inv, Ended
    <2>2. 0 \in 0 .. Timeout /\ "receiving" \in {"idle"} \cup Running \cup Ended
      BY <1>1 DEF Running
    <2>3. call' \in Call /\ call'.step = "receiving" /\ call'.cursor = call.cursor
      BY <1>1, <1>3, <2>2 DEF Send, Call
    <2>4. QED  BY <1>1, <1>3, <2>1, <2>3, InnerInv DEF Send
  <1>4. CASE RefusePastDeadline
    BY <1>1, <1>4, RaiseInv DEF RefusePastDeadline
  <1>5. QED  BY <1>2, <1>3, <1>4

LEMMA ReceiveInv ==
  ASSUME Inv, Receive
  PROVE  Inv'
  <1>0. call \in Call /\ clock \in Nat /\ hopeless \in BOOLEAN
    BY DEF Inv, TypeOK
  <1>1. CASE RepeatableFailure
    <2>1. ~hopeless
      BY <1>1 DEF RepeatableFailure, Inv, Ended
    <2>2. CASE IsLastAttempt
      BY <1>0, <1>1, <2>2, RaiseInv DEF RepeatableFailure
    <2>3. CASE ~IsLastAttempt
      <3>1. Backoff(call.attempt) \in 0 .. MaxDelay
        BY <1>0, BackoffType DEF Call
      <3>2. hopeless' = FALSE
        BY <1>0, <1>1, <2>1 DEF RepeatableFailure
      <3>3. QED  BY <1>1, <2>3, <3>1, <3>2, SleepInv DEF RepeatableFailure
    <2>4. QED  BY <2>2, <2>3
  <1>2. CASE Refused
    BY <1>2, RaiseInv DEF Refused
  <1>3. ASSUME NEW carriers \in Carriers, Throttled(carriers)
        PROVE  Inv'
    <2> DEFINE reset == ReportedReset(carriers)
               delay == ThrottledDelay(reset)
    <2>0. hopeless' = TooLong(reset) /\ TooLong(reset) \in BOOLEAN
      BY <1>3 DEF Throttled, TooLong
    <2>1. CASE reset = Huge
      <3>1. call' = [call EXCEPT !.step = "broken"] /\ UNCHANGED <<clock, asked, told>>
        BY <1>3, <2>1 DEF Throttled
      <3>2. QED  BY <2>0, <3>1, RaiseInv
    <2>2. CASE reset # Huge /\ (delay = Nothing \/ IsLastAttempt)
      <3>1. call' = [call EXCEPT !.step = "abandoned"] /\ UNCHANGED <<clock, asked, told>>
        BY <1>3, <2>2 DEF Throttled
      <3>2. QED  BY <2>0, <3>1, RaiseInv
    <2>3. CASE reset # Huge /\ delay = NaN /\ ~(delay = Nothing \/ IsLastAttempt)
      <3>1. call' = [call EXCEPT !.step = "broken"] /\ UNCHANGED <<clock, asked, told>>
        BY <1>3, <2>3 DEF Throttled
      <3>2. QED  BY <2>0, <3>1, RaiseInv
    <2>4. CASE reset # Huge /\ delay # Nothing /\ delay # NaN /\ ~IsLastAttempt
      <3>1. call' = Sleep(delay) /\ call.step = "receiving" /\ UNCHANGED <<clock, asked, told>>
        BY <1>3, <2>4 DEF Throttled
      <3>2. delay \in 0 .. MaxDelay /\ ~TooLong(reset)
        BY <2>4, DelayType DEF Inv
      <3>3. hopeless' = FALSE
        BY <2>0, <3>2
      <3> HIDE DEF delay
      <3>4. QED  BY <2>4, <3>1, <3>2, <3>3, SleepInv
    <2>5. QED  BY <2>1, <2>2, <2>3, <2>4
  <1>4. CASE Undecodable
    BY <1>0, <1>4, RaiseInv DEF Undecodable
  <1>5. ASSUME NEW further \in Further, Yield(further) PROVE Inv'
    <2>1. /\ call' = [call EXCEPT !.step = "yielded"] /\ call.step = "receiving"
          /\ asked' = Append(asked, call.cursor) /\ told' = Append(told, further)
          /\ UNCHANGED <<clock, hopeless>>
      BY <1>5 DEF Yield
    <2>2. call' \in Call /\ call'.step = "yielded"
      BY <1>0, <2>1 DEF Call, Running
    <2>3. /\ asked \in Seq(Cursors \cup {First}) /\ told \in Seq(Further)
          /\ Len(asked) = Len(told) /\ call.cursor \in Cursors \cup {First}
      BY <1>0 DEF Inv, TypeOK, Call
    <2>4. /\ asked' \in Seq(Cursors \cup {First}) /\ told' \in Seq(Further)
          /\ Len(asked') = Len(asked) + 1 /\ Len(told') = Len(told) + 1 /\ Len(asked) \in Nat
      BY <2>1, <2>3
    <2>5. TypeOK'
      BY <1>0, <2>1, <2>2, <2>3, <2>4 DEF Inv, TypeOK
    <2>6. asked'[1] = First /\ asked' # <<>>
      <3>1. CASE asked = <<>>
        BY <2>1, <2>3, <3>1 DEF Inv, Chain
      <3>2. CASE asked # <<>>
        BY <2>1, <2>3, <3>2 DEF Inv, Chain
      <3>3. QED  BY <3>1, <3>2
    <2>7. ASSUME NEW i \in 1 .. Len(asked') - 1 PROVE told'[i] = asked'[i + 1]
      <3>1. CASE i = Len(asked)
        <4>1. asked # <<>> /\ told'[i] = told[Len(told)]
          BY <2>1, <2>3, <3>1
        <4>2. asked'[i + 1] = call.cursor
          BY <2>1, <2>3, <3>1
        <4>3. QED  BY <2>1, <4>1, <4>2 DEF Inv, Chain
      <3>2. CASE i # Len(asked)
        <4>1. i \in 1 .. Len(asked) - 1
          BY <2>4, <3>2
        <4>2. told'[i] = told[i] /\ asked'[i + 1] = asked[i + 1]
          BY <2>1, <2>3, <4>1
        <4>3. QED  BY <4>1, <4>2 DEF Inv, Chain
      <3>3. QED  BY <3>1, <3>2
    <2>8. Chain'
      BY <2>2, <2>6, <2>7 DEF Chain
    <2>9. ~hopeless'
      BY <2>1 DEF Inv, Ended
    <2>10. QED  BY <2>2, <2>5, <2>8, <2>9 DEF Inv, WaitsAreShort
  <1>6. QED  BY <1>1, <1>2, <1>3, <1>4, <1>5 DEF Receive

LEMMA WakeInv ==
  ASSUME Inv, Wake
  PROVE  Inv'
  <1>1. call \in Call /\ clock \in Nat /\ hopeless \in BOOLEAN /\ MaxAttempts \in Nat
    BY ClientAssumption DEF Inv, TypeOK
  <1>2. call.attempt + 1 \in 1 .. MaxAttempts /\ ~hopeless
    BY <1>1 DEF Wake, Inv, Call, Ended
  <1>3. /\ call' \in Call /\ call'.step = "asking" /\ call'.cursor = call.cursor
    BY <1>1, <1>2 DEF Wake, Call, Running
  <1>4. QED  BY <1>1, <1>2, <1>3, InnerInv DEF Wake

LEMMA ResumeInv ==
  ASSUME Inv, Resume
  PROVE  Inv'
  <1> DEFINE further == told[Len(told)]
  <1>1. /\ call \in Call /\ clock \in Nat /\ hopeless \in BOOLEAN
        /\ MaxPages \in Nat \ {0} /\ MaxAttempts \in Nat \ {0}
    BY ClientAssumption DEF Inv, TypeOK
  <1>2. call.step = "yielded" /\ asked # <<>> /\ ~hopeless
        /\ UNCHANGED <<clock, asked, told, hopeless>>
    BY DEF Resume, Inv, Chain, Ended
  <1>3. further \in Further
    BY <1>2 DEF Inv, TypeOK
  <1>4. CASE ~Announces(further)
    <2>1. call' = [call EXCEPT !.step = "complete"]
      BY <1>4 DEF Resume
    <2>2. call' \in Call /\ call'.step = "complete"
      BY <1>1, <2>1 DEF Call, Ended
    <2>3. TypeOK'
      BY <1>2, <2>2 DEF Inv, TypeOK
    <2>4. Chain'
      BY <1>2, <1>4, <2>2 DEF Inv, Chain
    <2>5. QED  BY <1>2, <2>2, <2>3, <2>4 DEF Inv, WaitsAreShort
  <1>5. CASE Announces(further) /\ (further = Nameless \/ call.page = MaxPages)
    <2>1. call' = [call EXCEPT !.step = "abandoned"]
      BY <1>5 DEF Resume
    <2>2. QED  BY <1>1, <1>2, <2>1, RaiseInv
  <1>6. CASE Announces(further) /\ further # Nameless /\ call.page # MaxPages
    <2>1. call' = [call EXCEPT !.step = "asking", !.cursor = further, !.page = @ + 1,
                               !.attempt = 1]
      BY <1>6 DEF Resume
    <2>2. further \in Cursors
      BY <1>3, <1>6 DEF Further, Announces
    <2>3. call.page + 1 \in 1 .. MaxPages
      BY <1>1, <1>6 DEF Call
    <2>4. call' \in Call /\ call'.step = "asking" /\ call'.cursor = further
      <3>1. 1 \in 1 .. MaxAttempts /\ "asking" \in {"idle"} \cup Running \cup Ended
        BY <1>1 DEF Running
      <3> HIDE DEF further
      <3>2. QED  BY <1>1, <2>1, <2>2, <2>3, <3>1 DEF Call
    <2>5. TypeOK'
      BY <1>2, <2>4 DEF Inv, TypeOK
    <2>6. Chain'
      BY <1>2, <2>4 DEF Inv, Chain
    <2>7. QED  BY <1>2, <2>4, <2>5, <2>6 DEF Inv, WaitsAreShort
  <1>7. QED  BY <1>4, <1>5, <1>6

LEMMA TimeInv ==
  ASSUME Inv, Tick \/ Progress
  PROVE  Inv'
  <1>1. /\ call \in Call /\ clock \in Nat /\ hopeless \in BOOLEAN
        /\ Timeout \in Nat /\ MaxDelay \in Nat
    BY ClientAssumption DEF Inv, TypeOK
  <1>2. CASE Progress
    <2>1. call' \in Call /\ call'.step = "receiving" /\ call'.cursor = call.cursor /\ ~hopeless
      BY <1>1, <1>2 DEF Progress, Call, Inv, Ended
    <2>2. QED  BY <1>1, <1>2, <2>1, InnerInv DEF Progress
  <1>3. CASE Tick
    <2>1. /\ call' \in Call /\ call'.step = call.step /\ call'.cursor = call.cursor
          /\ call.step \in {"receiving", "waiting"} /\ ~hopeless
          /\ call'.wake = call.wake /\ call'.attempt = call.attempt
      BY <1>1, <1>3 DEF Tick, Call, Inv, Ended
    <2>2. clock' = clock + 1 /\ UNCHANGED <<asked, told, hopeless>>
      BY <1>3 DEF Tick
    <2>3. call'.step = "waiting" => /\ call'.wake <= clock' + MaxDelay
                                    /\ call'.attempt < MaxAttempts
      BY <1>1, <2>1, <2>2 DEF Inv, WaitsAreShort, Call
    <2>4. QED  BY <1>1, <2>1, <2>2, <2>3, InnerInv
  <1>4. QED  BY <1>2, <1>3

LEMMA NextInv == Inv /\ [Next]_vars => Inv'
  <1> SUFFICES ASSUME Inv, [Next]_vars PROVE Inv'
    OBVIOUS
  <1>1. CASE UNCHANGED vars
    BY <1>1 DEF vars, Inv, TypeOK, Chain, WaitsAreShort
  <1>2. CASE Next
    BY <1>2, OpenSendInv, ReceiveInv, WakeInv, ResumeInv, TimeInv DEF Next, Proceed
  <1>3. QED  BY <1>1, <1>2

-----------------------------------------------------------------------------
(* The theorems.                                                           *)

(* The inductive invariant of a call.                                      *)
THEOREM ClientInvariant == Spec => []Inv
  BY InitInv, NextInv, PTL DEF Spec

(* Attempts and pages stay within their limits, and a wait has an instant. *)
THEOREM ClientType == Spec => []TypeOK
  <1>1. Inv => TypeOK
    BY DEF Inv
  <1>2. QED  BY <1>1, ClientInvariant, PTL

(* A read that ends without an error asked for every page the provider     *)
(* announced, each with the cursor of the one before it: whether the last  *)
(* was the provider's last or carried no readable pagination it cannot     *)
(* say.                                                                    *)
THEOREM ClientReadsAnnounced == Spec => []AnnouncedPagesAreRead
  <1>1. Inv => AnnouncedPagesAreRead
    BY DEF Inv, Chain, AnnouncedPagesAreRead
  <1>2. QED  BY <1>1, ClientInvariant, PTL

(* No wait is longer than the ceiling, whoever stated it.                  *)
THEOREM ClientWaits == Spec => []WaitsAreShort
  <1>1. Inv => WaitsAreShort
    BY DEF Inv
  <1>2. QED  BY <1>1, ClientInvariant, PTL

(* Only one kind of step sends a request.                                  *)
LEMMA OnlySendSends ==
  ASSUME Inv, [Next]_vars, Sends
  PROVE  Send
  <1>1. call \in Call
    BY DEF Inv, TypeOK
  <1>2. call.step # "receiving" /\ call'.step = "receiving"
    BY DEF Sends
  <1>3. call'.step # call.step /\ ~UNCHANGED vars
    BY <1>2 DEF vars
  <1>4. ~Receive /\ ~Progress /\ ~Tick
    BY <1>2 DEF Receive, RepeatableFailure, Refused, Throttled, Undecodable, Yield, Progress, Tick
  <1>5. ~Open /\ ~RefusePastDeadline /\ ~Wake
    BY <1>1, <1>2 DEF Open, RefusePastDeadline, Wake, Call
  <1>6. ~Resume
    BY <1>1, <1>2 DEF Resume, Call
  <1>7. QED  BY <1>3, <1>4, <1>5, <1>6 DEF Next, Proceed

(* A call that is past its deadline sends no request.                      *)
THEOREM ClientDeadline == Spec => LateCallsSendNothing
  <1>1. Inv /\ [Next]_vars => [call.step \in Running /\ PastDeadline => ~Sends]_vars
    BY OnlySendSends DEF Send
  <1>2. QED
    BY <1>1, ClientInvariant, PTL DEF Spec, LateCallsSendNothing

(* A call that was given a hopeless answer sends no other request.         *)
THEOREM ClientHopeless == Spec => HopelessIsNotRepeated
  <1>1. Inv /\ [Next]_vars => [hopeless => ~Sends]_vars
    BY OnlySendSends DEF Send, Inv, Ended
  <1>2. QED
    BY <1>1, ClientInvariant, PTL DEF Spec, HopelessIsNotRepeated

(* How far an attempt is.                                                  *)
Stage(step) ==
  CASE step = "idle" -> 0
    [] step = "asking" -> 1
    [] step = "receiving" -> 2
    [] step \in {"waiting", "yielded"} -> 3
    [] OTHER -> 4

SameAttempt == call'.page = call.page /\ call'.attempt = call.attempt

(* Pages, attempts and the stages of an attempt only go forward, and each  *)
(* step of the client goes forward in the first of them that it changes.   *)
EveryStepAdvances ==
  [][/\ Proceed => \/ call'.page = call.page + 1
                   \/ call'.page = call.page /\ call'.attempt = call.attempt + 1
                   \/ SameAttempt /\ Stage(call'.step) > Stage(call.step)
     /\ ~Proceed => SameAttempt /\ call'.step = call.step]_vars

LEMMA ProceedAdvances ==
  ASSUME Inv, Proceed
  PROVE  \/ call'.page = call.page + 1
         \/ call'.page = call.page /\ call'.attempt = call.attempt + 1
         \/ SameAttempt /\ Stage(call'.step) > Stage(call.step)
  <1>1. call \in Call
    BY DEF Inv, TypeOK
  <1>2. CASE Open
    <2>1. SameAttempt /\ call.step = "idle" /\ call'.step = "asking"
      BY <1>1, <1>2 DEF Open, SameAttempt, Call
    <2>2. QED  BY <2>1 DEF Stage
  <1>3. CASE RefusePastDeadline
    <2>1. SameAttempt /\ call.step = "asking" /\ call'.step = "abandoned"
      BY <1>1, <1>3 DEF RefusePastDeadline, SameAttempt, Call
    <2>2. QED  BY <2>1 DEF Stage
  <1>4. CASE Send
    <2>1. SameAttempt /\ call.step = "asking" /\ call'.step = "receiving"
      BY <1>1, <1>4 DEF Send, SameAttempt, Call
    <2>2. QED  BY <2>1 DEF Stage
  <1>5. CASE Receive
    <2>1. call.step = "receiving"
      BY <1>5 DEF Receive, RepeatableFailure, Refused, Throttled, Undecodable, Yield
    <2>2. SameAttempt /\ call'.step \in {"waiting", "yielded", "abandoned", "broken"}
      <3>1. CASE RepeatableFailure
        BY <1>1, <3>1 DEF RepeatableFailure, Sleep, SameAttempt, Call
      <3>2. CASE Refused \/ Undecodable
        BY <1>1, <3>2 DEF Refused, Undecodable, SameAttempt, Call
      <3>3. CASE \E carriers \in Carriers : Throttled(carriers)
        BY <1>1, <3>3 DEF Throttled, Sleep, SameAttempt, Call
      <3>4. CASE \E further \in Further : Yield(further)
        BY <1>1, <3>4 DEF Yield, SameAttempt, Call
      <3>5. QED  BY <1>5, <3>1, <3>2, <3>3, <3>4 DEF Receive
    <2>3. QED  BY <2>1, <2>2 DEF Stage
  <1>6. CASE Wake
    BY <1>1, <1>6 DEF Wake, Call
  <1>7. CASE Resume
    <2>1. call.step = "yielded"
      BY <1>7 DEF Resume
    <2>2. \/ call'.page = call.page + 1
          \/ SameAttempt /\ call'.step \in {"complete", "abandoned"}
      BY <1>1, <1>7 DEF Resume, SameAttempt, Call
    <2>3. QED  BY <2>1, <2>2 DEF Stage
  <1>8. QED  BY <1>2, <1>3, <1>4, <1>5, <1>6, <1>7 DEF Proceed

(* What CallEnds rests on: whatever the provider answers, cursors that     *)
(* lead in a circle included, the client never repeats a step of the same  *)
(* attempt, and has neither more pages nor more attempts of a page than    *)
(* the limits: as waits are short, only a response that trickles keeps it. *)
THEOREM ClientAdvances ==
  Spec => /\ [](call.page \in 1 .. MaxPages /\ call.attempt \in 1 .. MaxAttempts)
          /\ EveryStepAdvances
  <1>1. Inv => call.page \in 1 .. MaxPages /\ call.attempt \in 1 .. MaxAttempts
    BY DEF Inv, TypeOK, Call
  <1>2. Inv /\ [Next]_vars =>
          [/\ Proceed => \/ call'.page = call.page + 1
                         \/ call'.page = call.page /\ call'.attempt = call.attempt + 1
                         \/ SameAttempt /\ Stage(call'.step) > Stage(call.step)
           /\ ~Proceed => SameAttempt /\ call'.step = call.step]_vars
    <2>1. ASSUME Inv, Progress \/ Tick PROVE SameAttempt /\ call'.step = call.step
      <3>1. call \in Call
        BY <2>1 DEF Inv, TypeOK
      <3>2. QED  BY <2>1, <3>1 DEF Progress, Tick, SameAttempt, Call
    <2>2. QED  BY <2>1, ProceedAdvances DEF Next
  <1>3. QED
    BY <1>1, <1>2, ClientInvariant, PTL DEF Spec, EveryStepAdvances

=============================================================================
