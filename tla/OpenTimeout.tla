----------------------------- MODULE OpenTimeout -----------------------------
(***************************************************************************)
(* nl_open_timeout() of src/stream.c: open() is tried, with O_NONBLOCK,    *)
(* until it succeeds or the clock has reached the deadline.  Times are     *)
(* ticks of the monotonic clock, which moves on while the program runs.    *)
(***************************************************************************)
EXTENDS Integers

CONSTANTS Timeouts,   \* the timeouts asked for
          LastTick    \* bound on the clock, later than every deadline

ASSUME OpenAssumption ==
  Timeouts \subseteq Nat /\ LastTick \in Nat /\ \A t \in Timeouts : t < LastTick

VARIABLES clock, opening
openVars == <<clock, opening>>

OpenErrors == {"EAGAIN", "ENOENT"}

(* The locals, what was returned, whether the file is open and with which    *)
(* flag, and the number of tries that began at the deadline or later.        *)
Locals(at, nonblock) ==
  [at |-> at, nonblock |-> nonblock, done |-> 0, old_err |-> "none", ret |-> "none",
   file |-> "closed", late |-> 0]

OpenInit == clock = 0 /\ opening = Locals("returned", FALSE)

Returns(o, ret) == [o EXCEPT !.at = "returned", !.ret = ret]

(* Time passes between any two steps.                                        *)
Tick == clock < LastTick /\ opening.at \notin {"start", "returned"} /\ clock' = clock + 1 /\ UNCHANGED opening

SetDeadline(timeout) ==   \* nl_clock_fromnow()
  /\ opening.at = "start"
  /\ opening' = [opening EXCEPT !.at = "try", !.done = clock + timeout]
  /\ UNCHANGED clock

ClockFails ==   \* nl_clock_fromnow() or clock_gettime()
  /\ opening.at \in {"start", "judge"}
  /\ opening' = Returns(opening, "clock_error")
  /\ UNCHANGED clock

Begun(o) == IF clock >= o.done THEN [o EXCEPT !.late = @ + 1] ELSE o

OpenSucceeds ==
  /\ opening.at = "try"
  /\ opening' = [Begun(opening) EXCEPT !.at = "set_flag", !.file = "nonblocking"]
  /\ UNCHANGED clock

OpenFails(error) ==
  /\ opening.at = "try"
  /\ opening' = [Begun(opening) EXCEPT !.at = "judge", !.old_err = error]
  /\ UNCHANGED clock

ExpiredAfter(now, done) == now > done
Expired(now, done) == now >= done   \* NL_TIMESPEC_GTE

Judge ==   \* the clock is read after open() failed
  /\ opening.at = "judge"
  /\ opening' = IF Expired(clock, opening.done)
                THEN Returns(opening, IF opening.old_err = "EAGAIN" THEN "ETIMEDOUT"
                                                                    ELSE opening.old_err)
                ELSE [opening EXCEPT !.at = "sleep"]
  /\ UNCHANGED clock

Sleeps ==   \* nl_usleep(10000): at least one tick
  /\ opening.at = "sleep"
  /\ clock' = IF clock < LastTick THEN clock + 1 ELSE clock
  /\ opening' = [opening EXCEPT !.at = "try"]

SetsFlag ==
  /\ opening.at = "set_flag"
  /\ opening' = [Returns(opening, "fd") EXCEPT
       !.file = IF opening.nonblock THEN "nonblocking" ELSE "blocking"]
  /\ UNCHANGED clock

SetFlagFails ==   \* nl_set_nonblock() failed: the file is closed
  /\ opening.at = "set_flag"
  /\ opening' = [Returns(opening, "EIO") EXCEPT !.file = "closed"]
  /\ UNCHANGED clock

Called ==
  /\ opening.at = "returned"
  /\ \E nonblock \in BOOLEAN : opening' = Locals("start", nonblock)
  /\ clock' = 0

OpenNext ==
  \/ Tick \/ ClockFails \/ OpenSucceeds \/ Judge \/ Sleeps \/ SetsFlag \/ SetFlagFails
  \/ Called
  \/ \E timeout \in Timeouts : SetDeadline(timeout)
  \/ \E error \in OpenErrors : OpenFails(error)

OpenSpec == OpenInit /\ [][OpenNext]_openVars

-----------------------------------------------------------------------------
(* Properties.                                                               *)

(* The call gives up neither early nor late: an error of open() is returned   *)
(* only when the deadline has passed, as ETIMEDOUT only if the file was busy  *)
(* at the end, and at most one try begins after the deadline.  A file is left *)
(* open exactly when its descriptor is returned, blocking unless the caller   *)
(* asked otherwise (stream.c:223).                                            *)
OpenHonest ==
  /\ opening.late <= 1
  /\ opening.at = "returned" =>
       /\ opening.ret \in {"ETIMEDOUT"} \cup OpenErrors => clock >= opening.done
       /\ opening.ret = "ETIMEDOUT" => opening.old_err = "EAGAIN"
       /\ opening.ret # "fd" => opening.file = "closed"
       /\ opening.ret = "fd" => opening.file = IF opening.nonblock THEN "nonblocking"
                                                                   ELSE "blocking"
=============================================================================
