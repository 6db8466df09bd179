------------------------------ MODULE Timespec ------------------------------
(***************************************************************************)
(* The timespec arithmetic of src/include/nl_time.h, over exact integers,  *)
(* and a caller that keeps one timespec and applies the functions to it,   *)
(* one after the other, with operands of any form.                         *)
(*                                                                         *)
(* Callers use the "away-from-zero" form: below zero seconds, tv_nsec      *)
(* counts downwards, and a time between -1 s and 0 has a negative tv_nsec. *)
(* Inside, the functions use the "positive nanosecond" form.  Integer      *)
(* overflow is out of scope there and here.                                *)
(***************************************************************************)
EXTENDS Integers

CONSTANTS
  MicrosPerSecond, NsPerMicro,  \* 1000000 and 1000 in the code
  Operands,                     \* timespecs that callers pass
  Delays,                       \* arguments of nl_usleep()
  MaxValue                      \* bound on the time the caller's timespec stands for

ASSUME UnitAssumption == MicrosPerSecond \in Nat \ {0} /\ NsPerMicro \in Nat \ {0}
ASSUME OperandAssumption == Operands \subseteq [tv_sec : Int, tv_nsec : Int]
ASSUME DelayAssumption == Delays \subseteq Nat
ASSUME MaxValueAssumption == MaxValue \in Nat

NsPerSecond == MicrosPerSecond * NsPerMicro
Timespecs == [tv_sec : Int, tv_nsec : Int]
timespec(sec, nsec) == [tv_sec |-> sec, tv_nsec |-> nsec]

VARIABLES ts,     \* the caller's timespec
          exact,  \* history: the time it stands for, in nanoseconds
          sleep   \* nl_usleep(): time left, and history of the call

vars == <<ts, exact, sleep>>

-----------------------------------------------------------------------------
(* What a timespec stands for, in each form.                                 *)
Value(t) == IF t.tv_sec < 0 THEN t.tv_sec * NsPerSecond - t.tv_nsec
                            ELSE t.tv_sec * NsPerSecond + t.tv_nsec
PosValue(t) == t.tv_sec * NsPerSecond + t.tv_nsec

(* The one away-from-zero timespec of each value.                            *)
Normal(t) == /\ t.tv_nsec \in -(NsPerSecond - 1)..(NsPerSecond - 1)
             /\ t.tv_sec # 0 => t.tv_nsec >= 0

-----------------------------------------------------------------------------
nl_timespec_to_pos(t) ==
  IF t.tv_sec < 0 THEN timespec(t.tv_sec - 1, NsPerSecond - t.tv_nsec)
  ELSE IF t.tv_nsec < 0 THEN timespec(t.tv_sec - 1, NsPerSecond + t.tv_nsec)
  ELSE t

FromPosUnsigned(t) ==
  IF t.tv_nsec # 0 /\ t.tv_sec < 0 THEN timespec(t.tv_sec + 1, NsPerSecond - t.tv_nsec)
  ELSE t

nl_timespec_from_pos(t) ==
  IF t.tv_nsec # 0 /\ t.tv_sec = -1 THEN timespec(0, t.tv_nsec - NsPerSecond)
  ELSE IF t.tv_nsec # 0 /\ t.tv_sec < -1 THEN timespec(t.tv_sec + 1, NsPerSecond - t.tv_nsec)
  ELSE t

(* The loops that move whole seconds from tv_nsec to tv_sec.                 *)
CarriedOnce(t) ==
  IF t.tv_nsec >= NsPerSecond THEN timespec(t.tv_sec + 1, t.tv_nsec - NsPerSecond)
  ELSE IF t.tv_nsec < 0 THEN timespec(t.tv_sec - 1, t.tv_nsec + NsPerSecond)
  ELSE t

Carried(t) == timespec(t.tv_sec + (t.tv_nsec \div NsPerSecond), t.tv_nsec % NsPerSecond)

nl_normalize_timespec(t) == nl_timespec_from_pos(Carried(nl_timespec_to_pos(t)))

nl_negate_timespec(t) == IF t.tv_sec = 0 THEN timespec(0, -t.tv_nsec)
                                         ELSE timespec(-t.tv_sec, t.tv_nsec)

nl_add_timespec(a, b) ==
  LET a_pos == nl_timespec_to_pos(a)
      b_pos == nl_timespec_to_pos(b)
  IN nl_timespec_from_pos(
       Carried(timespec(a_pos.tv_sec + b_pos.tv_sec, a_pos.tv_nsec + b_pos.tv_nsec)))

nl_sub_timespec(a, b) == nl_add_timespec(a, nl_negate_timespec(b))

nl_compare_unsigned(a, b) ==
  IF a.tv_sec < b.tv_sec THEN -1
  ELSE IF a.tv_sec > b.tv_sec THEN 1
  ELSE IF a.tv_nsec = b.tv_nsec THEN 0
  ELSE IF a.tv_nsec < b.tv_nsec THEN -1 ELSE 1

nl_compare_timespec(a, b) ==
  LET below == IF a.tv_sec < 0 THEN a.tv_nsec > b.tv_nsec ELSE a.tv_nsec < b.tv_nsec
  IN IF a.tv_sec < b.tv_sec THEN -1
     ELSE IF a = b THEN 0
     ELSE IF a.tv_sec = b.tv_sec /\ below THEN -1
     ELSE 1

NL_TIMESPEC_GTE(a, b) ==
  a.tv_sec > b.tv_sec \/ (a.tv_sec = b.tv_sec /\ a.tv_nsec >= b.tv_nsec)

-----------------------------------------------------------------------------
(* The caller's timespec.                                                    *)
Becomes(t, value) ==
  /\ ~sleep.on
  /\ value \in -MaxValue..MaxValue
  /\ ts' = t /\ exact' = value
  /\ UNCHANGED sleep

Normalize(t) == Becomes(nl_normalize_timespec(t), Value(t))
Add(t) == Becomes(nl_add_timespec(ts, t), exact + Value(t))
Sub(t) == Becomes(nl_sub_timespec(ts, t), exact - Value(t))
SubFrom(t) == Becomes(nl_sub_timespec(t, ts), Value(t) - exact)
Negate == Becomes(nl_negate_timespec(ts), -exact)

(* nl_clock_fromnow(); a clock returns a normal time after its epoch.        *)
ClockFromNow(now, t) ==
  /\ Normal(now) /\ now.tv_sec >= 0 /\ now.tv_nsec >= 0
  /\ Becomes(nl_add_timespec(now, t), Value(now) + Value(t))

-----------------------------------------------------------------------------
(* nl_usleep().  nanosleep() refuses a request of a whole second or more of  *)
(* nanoseconds; interrupted, it says what is left.                           *)
SleepSecondless(usecs) == timespec(0, usecs * NsPerMicro)

SleepRequest(usecs) ==
  IF usecs >= MicrosPerSecond
  THEN timespec(usecs \div MicrosPerSecond, (usecs % MicrosPerSecond) * NsPerMicro)
  ELSE timespec(0, usecs * NsPerMicro)

SleepCall(usecs) ==
  /\ ~sleep.on
  /\ sleep' = [on |-> TRUE, left |-> SleepRequest(usecs), asked |-> usecs, slept |-> 0]
  /\ UNCHANGED <<ts, exact>>

Accepted == sleep.on /\ sleep.left.tv_nsec \in 0..(NsPerSecond - 1)

SleepInterrupted(left) ==
  /\ Accepted /\ PosValue(left) <= PosValue(sleep.left)
  /\ sleep' = [sleep EXCEPT !.left = left, !.slept = @ + PosValue(sleep.left) - PosValue(left)]
  /\ UNCHANGED <<ts, exact>>

SleepReturns ==
  /\ sleep.on
  /\ sleep' = [sleep EXCEPT !.on = FALSE,
                            !.slept = IF Accepted THEN @ + PosValue(sleep.left) ELSE @]
  /\ UNCHANGED <<ts, exact>>

-----------------------------------------------------------------------------
Init ==
  /\ ts = timespec(0, 0) /\ exact = 0
  /\ sleep = [on |-> FALSE, left |-> timespec(0, 0), asked |-> 0, slept |-> 0]

(* Times that nanosleep() may say are left.                                  *)
Remainders == {t \in Operands : t.tv_sec >= 0 /\ t.tv_nsec \in 0..(NsPerSecond - 1)}

Next ==
  \/ \E t \in Operands : Normalize(t) \/ Add(t) \/ Sub(t) \/ SubFrom(t)
  \/ \E now, t \in Operands : ClockFromNow(now, t)
  \/ Negate
  \/ \E usecs \in Delays : SleepCall(usecs)
  \/ \E left \in Remainders : SleepInterrupted(left)
  \/ SleepReturns

Spec == Init /\ [][Next]_vars

-----------------------------------------------------------------------------
(* Properties.                                                               *)

Sign(n) == IF n < 0 THEN -1 ELSE IF n > 0 THEN 1 ELSE 0

(* After any number of calls the caller's timespec stands for the exact sum,  *)
(* across zero, through carries and borrows of one second or more, and with   *)
(* operands of any form (nl_time.h:123).                                      *)
ExactSum == Value(ts) = exact

(* Results are in the one away-from-zero form of their value, which the       *)
(* comparison relies on (nl_time.h:141).                                      *)
NormalForm == ts \in Timespecs /\ Normal(ts)

(* Comparing agrees with the times compared, on both sides of zero            *)
(* (nl_time.h:160), and so does NL_TIMESPEC_GTE from zero on.                 *)
ComparesRight ==
  \A t \in Operands : Normal(t) =>
    /\ nl_compare_timespec(ts, t) = Sign(exact - Value(t))
    /\ nl_compare_timespec(t, ts) = Sign(Value(t) - exact)
    /\ exact >= 0 /\ Value(t) >= 0 => (NL_TIMESPEC_GTE(ts, t) <=> exact >= Value(t))

(* nl_usleep() sleeps for at least what was asked for, however often it is    *)
(* interrupted (nl_time.c:12).                                                *)
SleepsEnough == ~sleep.on => sleep.slept >= sleep.asked * NsPerMicro
=============================================================================
