------------------------ MODULE AdmissionRateLimiter ------------------------
(***************************************************************************)
(* The sliding-window limiter that serve_one() consults for every accepted *)
(* connection.  Instants are counted in ticks of the steady clock, which   *)
(* is finer than the milliseconds of the window and of retry_after.        *)
(***************************************************************************)
EXTENDS Integers, Sequences, FiniteSets

CONSTANTS
  MaximumAdmissions,  \* config_.maximum_admissions
  Window,             \* config_.window, in milliseconds
  WindowRange,        \* the windows valid() accepts (100 .. 3600000 in the code)
  TicksPerMs,         \* clock ticks per millisecond
  MaxInstant          \* bound: the last instant an attempt is made at

maximum_admission_limit == 1024

valid ==
  MaximumAdmissions \in 1 .. maximum_admission_limit /\ Window \in WindowRange

\* LocalControllerListener::start refuses a limiter that is not valid.
ASSUME LimiterAssumption ==
  /\ MaximumAdmissions \in Nat /\ valid
  /\ Window \in Nat \ {0} /\ TicksPerMs \in Nat \ {0} /\ MaxInstant \in Nat

VARIABLES
  admissions,        \* admissions_: instants still inside the window
  last_observation,  \* last_observation_, -1 while has_observation_ is false
  granted            \* history: every instant admitted since reset()

vars == <<admissions, last_observation, granted>>

WindowTicks == Window * TicksPerMs
Instants == 0 .. MaxInstant

-----------------------------------------------------------------------------
\* admissions_ at this instant: find_if the first active one, erase those before it.
Active(now) ==
  LET first == CHOOSE i \in 1 .. Len(admissions) + 1 :
                 /\ i <= Len(admissions) => now - admissions[i] < WindowTicks
                 /\ \A j \in 1 .. i - 1 : now - admissions[j] >= WindowTicks
  IN  SubSeq(admissions, first, Len(admissions))

\* Plausible bug: the remainder that duration_cast cuts off is lost.
TruncateToMs(ticks) == ticks \div TicksPerMs

\* duration_cast truncates to milliseconds; a remainder is rounded up.
RoundUpToMs(ticks) ==
  LET ms == ticks \div TicksPerMs
  IN  IF ms * TicksPerMs < ticks THEN ms + 1 ELSE ms

\* Plausible bug: the limit is compared with > instead of >=.
DecisionOffByOne(now) ==
  [admitted |-> now >= last_observation /\ Len(Active(now)) <= MaximumAdmissions,
   retry_after |-> Window]

\* The decision of try_admit(now), in milliseconds; it changes nothing here.
Decision(now) ==
  IF now < last_observation THEN [admitted |-> FALSE, retry_after |-> Window]
  ELSE IF Len(Active(now)) >= MaximumAdmissions
       THEN [admitted |-> FALSE,
             retry_after |-> RoundUpToMs(WindowTicks - (now - Head(Active(now))))]
       ELSE [admitted |-> TRUE, retry_after |-> 0]

try_admit(now) ==
  \/ now < last_observation /\ UNCHANGED vars
  \/ /\ now >= last_observation
     /\ last_observation' = now
     /\ IF Decision(now).admitted
        THEN admissions' = Append(Active(now), now) /\ granted' = Append(granted, now)
        ELSE admissions' = Active(now) /\ UNCHANGED granted

reset == admissions' = <<>> /\ last_observation' = -1 /\ granted' = <<>>

-----------------------------------------------------------------------------
Init == admissions = <<>> /\ last_observation = -1 /\ granted = <<>>
Next == reset \/ \E now \in Instants : try_admit(now)
Spec == Init /\ [][Next]_vars

-----------------------------------------------------------------------------
\* The limiter's storage stays within the capacity its constructor reserves.
TypeOK ==
  /\ admissions \in Seq(Instants) /\ Len(admissions) <= MaximumAdmissions
  /\ last_observation \in Instants \cup {-1}
  /\ granted \in Seq(Instants)

(***************************************************************************)
(* No window of the configured length, wherever it starts, ever contains   *)
(* more than maximum_admissions admissions, although try_admit forgets the *)
(* admissions it erases and the clock may be read out of order.            *)
(***************************************************************************)
SlidingWindow ==
  \A i \in 1 .. Len(granted) - MaximumAdmissions :
    granted[i + MaximumAdmissions] - granted[i] >= WindowTicks

(***************************************************************************)
(* try_admit decides as the reference definition does: at an instant not   *)
(* before the last observed one it admits exactly when fewer than          *)
(* maximum_admissions of ALL past admissions are less than a window old;   *)
(* denied connections use up nothing.                                      *)
(***************************************************************************)
AdmitsExactlyWhenRoom ==
  \A now \in Instants : now >= last_observation =>
    (Decision(now).admitted <=>
       Cardinality({i \in DOMAIN granted : now - granted[i] < WindowTicks})
         < MaximumAdmissions)

(***************************************************************************)
(* A full window's retry_after is the right number of milliseconds: a      *)
(* client that waits that long is admitted if nobody else was, and one     *)
(* that waits a millisecond less is not, whatever the sub-millisecond part *)
(* that duration_cast cuts off.                                            *)
(***************************************************************************)
RetryAfterIsExact ==
  \A now \in Instants :
    LET d == Decision(now)
    IN  now >= last_observation /\ ~ d.admitted =>
          /\ Decision(now + d.retry_after * TicksPerMs).admitted
          /\ ~ Decision(now + (d.retry_after - 1) * TicksPerMs).admitted

(***************************************************************************)
(* The decision is exact in both its parts, whatever instants came before. *)
(***************************************************************************)
DecisionIsExact == AdmitsExactlyWhenRoom /\ RetryAfterIsExact
=============================================================================
