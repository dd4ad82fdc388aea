-------------------------- MODULE SportmonksClient --------------------------
(***************************************************************************)
(* One call of SportmonksClient.get_pages: pages, cursors, attempts, waits *)
(* and the deadline, against a provider that may answer anything.          *)
(*                                                                         *)
(* Time passes in requests and waits; what is local takes none.  httpx     *)
(* bounds how long the socket stays silent, not how long a response takes. *)
(***************************************************************************)
EXTENDS Integers, Sequences

CONSTANTS
  Cursors,       \* cursor tokens
  First,         \* the request without a cursor
  Nothing,       \* has_more is false: no further page
  Unpaged,       \* no readable has_more: pagination absent, no object or without it
  Nameless,      \* a further page without a readable cursor
  Unstated,      \* a carrier of the reset that states no number
  NaN,           \* the float that is not a number
  Huge,          \* an integer no float holds
  Resets,        \* the other numbers of seconds a reset is stated as
  MaxPages,      \* MAX_PAGE_COUNT
  MaxAttempts,   \* MAX_ATTEMPTS
  Budget,        \* CALL_BUDGET_SECONDS
  Timeout,       \* REQUEST_TIMEOUT_SECONDS
  Base,          \* BACKOFF_BASE_SECONDS
  MaxDelay,      \* MAX_RETRY_DELAY_SECONDS
  LastAnswer     \* bound: no answer takes longer than to this instant

ASSUME ClientAssumption ==
  /\ MaxPages \in Nat \ {0} /\ MaxAttempts \in Nat \ {0}
  /\ {Budget, Timeout, Base, MaxDelay, LastAnswer} \subseteq Nat
  /\ Resets \subseteq Int /\ NaN \notin Int /\ Unstated \notin Int \cup {NaN}
  /\ Huge \notin Int \cup {NaN, Unstated}
  /\ First \notin Cursors
  /\ Nothing \notin Cursors /\ Unpaged \notin Cursors \cup {Nothing}
  /\ Nameless \notin Cursors \cup {Nothing, Unpaged}

VARIABLES
  clock,         \* the monotonic clock
  call,          \* the generator
  asked,         \* history: the cursor of each page yielded
  told,          \* history: what each of them said of the next page
  hopeless       \* history: an answer that no retry in this call changes

vars == <<clock, call, asked, told, hopeless>>

Running == {"asking", "receiving", "waiting", "yielded"}
Ended == {"complete", "abandoned", "broken"}

(* What an envelope says of the page after it.                             *)
Further == Cursors \cup {Nothing, Unpaged, Nameless}
Announces(further) == further \notin {Nothing, Unpaged}

(* The accounting of a body, its retry_after and the header, which is text:*)
(* a numeral too long for a float is infinite there, a long reset.         *)
Carriers ==
  {carriers \in [1 .. 3 -> Resets \cup {NaN, Huge, Unstated}] : carriers[3] # Huge}

(* asking: before the check of the deadline.  receiving: in connection.get.*)
(* waiting: asleep until wake.  yielded: the caller has the page.          *)
(* abandoned: SportmonksError.  broken: any other exception.               *)
Call ==
  [step: {"idle"} \cup Running \cup Ended, deadline: Nat,
   cursor: Cursors \cup {First}, page: 1 .. MaxPages, attempt: 1 .. MaxAttempts,
   wake: Nat, silent: 0 .. Timeout]

TypeOK ==
  /\ clock \in Nat
  /\ call \in Call
  /\ asked \in Seq(Cursors \cup {First})
  /\ told \in Seq(Further)
  /\ Len(asked) = Len(told)
  /\ hopeless \in BOOLEAN

Init ==
  /\ clock = 0
  /\ call = [step |-> "idle", deadline |-> 0, cursor |-> First, page |-> 1,
             attempt |-> 1, wake |-> 0, silent |-> 0]
  /\ asked = <<>> /\ told = <<>>
  /\ hopeless = FALSE

-----------------------------------------------------------------------------
(* How long to wait.                                                       *)

Least(a, b) == IF a < b THEN a ELSE b

Backoff(attempt) == Least(Base * 2^(attempt - 1), MaxDelay)

(* A stated delay is not negative.  Python's max(nan, 0.0) is nan, and     *)
(* float() of a huge integer raises OverflowError, which Huge stands for.  *)
Seconds(stated) == IF stated \in Int /\ stated < 0 THEN 0 ELSE stated

(* The first carrier that states a number.                                 *)
ReportedReset(carriers) ==
  LET stating == {i \in 1 .. 3 : carriers[i] # Unstated}
  IN IF stating = {} THEN Unstated
     ELSE Seconds(carriers[CHOOSE i \in stating : \A j \in stating : i <= j])

(* Every comparison with nan is false, so it is not longer than MaxDelay.  *)
TooLong(reset) == reset \in Int /\ reset > MaxDelay

-----------------------------------------------------------------------------
(* The call.                                                               *)

(* Mutant: one attempt too many.                                           *)
IsPastLastAttempt == call.attempt > MaxAttempts

IsLastAttempt == call.attempt = MaxAttempts

PastDeadline == clock >= call.deadline

Open ==
  /\ call.step = "idle"
  /\ call' = [call EXCEPT !.step = "asking", !.deadline = clock + Budget]
  /\ UNCHANGED <<clock, asked, told, hopeless>>

RefusePastDeadline ==
  /\ call.step = "asking"
  /\ PastDeadline
  /\ call' = [call EXCEPT !.step = "abandoned"]
  /\ UNCHANGED <<clock, asked, told, hopeless>>

(* Mutant: the deadline is checked once a page.                            *)
SendUnlessRetrying ==
  /\ call.step = "asking"
  /\ ~PastDeadline \/ call.attempt > 1
  /\ call' = [call EXCEPT !.step = "receiving", !.silent = 0]
  /\ UNCHANGED <<clock, asked, told, hopeless>>

Send ==
  /\ call.step = "asking"
  /\ ~PastDeadline
  /\ call' = [call EXCEPT !.step = "receiving", !.silent = 0]
  /\ UNCHANGED <<clock, asked, told, hopeless>>

Sleep(delay) == [call EXCEPT !.step = "waiting", !.wake = clock + delay]

(* httpx.HTTPError, a silence of Timeout among them, and HTTP 5xx.         *)
RepeatableFailure ==
  /\ call.step = "receiving"
  /\ call' = IF IsLastAttempt THEN [call EXCEPT !.step = "abandoned"]
             ELSE Sleep(Backoff(call.attempt))
  /\ UNCHANGED <<clock, asked, told, hopeless>>

(* Any other status that is not a success.                                 *)
Refused ==
  /\ call.step = "receiving"
  /\ call' = [call EXCEPT !.step = "abandoned"]
  /\ hopeless' = TRUE
  /\ UNCHANGED <<clock, asked, told>>

(* Mutant: a reported reset is waited out whatever it is.                  *)
DelayAsReported(reset) == IF reset = Unstated THEN Backoff(call.attempt) ELSE reset

(* _throttled_delay, NaN included.                                         *)
ThrottledDelay(reset) ==
  IF reset = Unstated THEN Backoff(call.attempt)
  ELSE IF TooLong(reset) THEN Nothing
  ELSE reset

(* HTTP 429.  OverflowError leaves before the attempts are looked at, the  *)
(* ValueError of time.sleep(nan) after.                                    *)
Throttled(carriers) ==
  LET reset == ReportedReset(carriers)
      delay == ThrottledDelay(reset)
  IN /\ call.step = "receiving"
     /\ call' = IF reset = Huge THEN [call EXCEPT !.step = "broken"]
                ELSE IF delay = Nothing \/ IsLastAttempt
                THEN [call EXCEPT !.step = "abandoned"]
                ELSE IF delay = NaN THEN [call EXCEPT !.step = "broken"]
                ELSE Sleep(delay)
     /\ hopeless' = TooLong(reset)
     /\ UNCHANGED <<clock, asked, told>>

(* Mutant: the attempts are not counted.                                   *)
WakeUncounted ==
  /\ call.step = "waiting"
  /\ clock >= call.wake
  /\ call' = [call EXCEPT !.step = "asking"]
  /\ UNCHANGED <<clock, asked, told, hopeless>>

Wake ==
  /\ call.step = "waiting"
  /\ clock >= call.wake
  /\ call' = [call EXCEPT !.step = "asking", !.attempt = @ + 1]
  /\ UNCHANGED <<clock, asked, told, hopeless>>

(* A body that is not JSON, not an object or has no list of data.          *)
Undecodable ==
  /\ call.step = "receiving"
  /\ call' = [call EXCEPT !.step = "abandoned"]
  /\ UNCHANGED <<clock, asked, told, hopeless>>

(* The entries go to the caller before the pagination is looked at.        *)
Yield(further) ==
  /\ call.step = "receiving"
  /\ call' = [call EXCEPT !.step = "yielded"]
  /\ asked' = Append(asked, call.cursor)
  /\ told' = Append(told, further)
  /\ UNCHANGED <<clock, hopeless>>

(* Mutant: what cannot be asked for ends the read.                         *)
ResumeOrStop ==
  LET further == told[Len(told)]
  IN /\ call.step = "yielded"
     /\ call' =
          IF ~Announces(further) \/ further = Nameless \/ call.page = MaxPages
          THEN [call EXCEPT !.step = "complete"]
          ELSE [call EXCEPT !.step = "asking", !.cursor = further, !.page = @ + 1,
                            !.attempt = 1]
     /\ UNCHANGED <<clock, asked, told, hopeless>>

(* The caller asks for more: _next_cursor, and the page cap.  An envelope  *)
(* that says nothing readable of a further page ends the read as the last  *)
(* page does.                                                              *)
Resume ==
  LET further == told[Len(told)]
  IN /\ call.step = "yielded"
     /\ call' =
          IF ~Announces(further) THEN [call EXCEPT !.step = "complete"]
          ELSE IF further = Nameless \/ call.page = MaxPages
          THEN [call EXCEPT !.step = "abandoned"]
          ELSE [call EXCEPT !.step = "asking", !.cursor = further, !.page = @ + 1,
                            !.attempt = 1]
     /\ UNCHANGED <<clock, asked, told, hopeless>>

(* Bytes arrive, or the connection gets on.                                *)
Progress ==
  /\ call.step = "receiving"
  /\ call.silent > 0
  /\ call' = [call EXCEPT !.silent = 0]
  /\ UNCHANGED <<clock, asked, told, hopeless>>

Tick ==
  /\ \/ /\ call.step = "receiving"
        /\ call.silent < Timeout
        /\ clock < LastAnswer
        /\ call' = [call EXCEPT !.silent = @ + 1]
     \/ call.step = "waiting" /\ clock < call.wake /\ UNCHANGED call
  /\ clock' = clock + 1
  /\ UNCHANGED <<asked, told, hopeless>>

(* connection.get returns or raises.                                       *)
Receive ==
  \/ RepeatableFailure
  \/ Refused
  \/ \E carriers \in Carriers : Throttled(carriers)
  \/ Undecodable
  \/ \E further \in Further : Yield(further)

Proceed == Open \/ RefusePastDeadline \/ Send \/ Receive \/ Wake \/ Resume

Next == Proceed \/ Progress \/ Tick

(* Sleeps end, and so does whatever the provider started to send.          *)
Fairness == WF_vars(Proceed) /\ WF_vars(Tick)

Spec == Init /\ [][Next]_vars /\ Fairness

-----------------------------------------------------------------------------
(* Properties.                                                             *)

(* A read that ends without an error has every page the provider           *)
(* announced: each was asked for with the cursor of the one before, and    *)
(* the last announced none.  That the provider said it was the last is     *)
(* more than the code knows: an envelope without readable pagination ends  *)
(* the read too.                                                           *)
AnnouncedPagesAreRead ==
  call.step = "complete" =>
    /\ asked # <<>> /\ asked[1] = First
    /\ \A i \in 1 .. Len(asked) - 1 : told[i] = asked[i + 1]
    /\ ~Announces(told[Len(told)])

(* A request goes out.                                                     *)
Sends == call.step # "receiving" /\ call'.step = "receiving"

(* Past its deadline a call sends nothing, however many pages and attempts *)
(* it has left: it ends with the attempt it is in.                         *)
LateCallsSendNothing ==
  [][call.step \in Running /\ PastDeadline => ~Sends]_vars

(* A wait, whether computed or reported by the provider, is short enough   *)
(* for the attempts of one page to fit in any budget.                      *)
WaitsAreShort == call.step = "waiting" => call.wake <= clock + MaxDelay

(* An answer that repeating will not change is not asked for again.        *)
HopelessIsNotRepeated == [][hopeless => ~Sends]_vars

(* A call ends: cursors that lead in a circle, failures at every attempt   *)
(* and waits do not keep it.                                               *)
CallEnds == call.step \in Running ~> call.step \in Ended

=============================================================================
