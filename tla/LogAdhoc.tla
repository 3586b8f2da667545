------------------------------ MODULE LogAdhoc ------------------------------
(***************************************************************************)
(* The delays that the patched log_adhoc() of Postfix writes into the mail *)
(* log (src/log_adhoc.c).  A time stamp is a pair of seconds and           *)
(* microseconds; a stage that was not reached has zero seconds.  How the   *)
(* delays are rounded for printing, and the copy of the record that goes   *)
(* to mongodb, are left out.                                               *)
(***************************************************************************)
EXTENDS Integers

SECOND == 1000000
Stamp == [sec : Int, usec : Int]
Zero == [sec |-> 0, usec |-> 0]

\* Microseconds are to be below a second, which gettimeofday() of Solaris
\* does not guarantee.
Micros(t) == SECOND * t.sec + t.usec

(* Fault variant: the seconds are not corrected. *)
DeltaNoCarry(y, z) ==
    LET usec == y.usec - z.usec
        sec == y.sec - z.sec
    IN  IF sec < 0 THEN Zero ELSE [sec |-> sec, usec |-> usec % SECOND]

\* DELTA: the loops over dt_usec carry into dt_sec; a clock that jumped back
\* shows as zero.
Delta(y, z) ==
    LET usec == y.usec - z.usec
        sec == y.sec - z.sec + usec \div SECOND
    IN  IF sec < 0 THEN Zero ELSE [sec |-> sec, usec |-> usec % SECOND]

TimeStamped(t) == t.sec > 0

\* The stages of a delivery: a record of the time stamps in MSG_STATS.
Now(stats, clock) ==
    IF TimeStamped(stats.deliver_done) THEN stats.deliver_done ELSE clock

\* The end of the time before the queue manager, of the queue manager's, of
\* the connection's set-up: the next stage that was reached, or now.
pdelay(stats, clock) ==
    Delta(IF TimeStamped(stats.active_arrival) THEN stats.active_arrival ELSE Now(stats, clock),
          stats.incoming_arrival)

adelay(stats, clock) ==
    IF ~TimeStamped(stats.active_arrival) THEN Zero
    ELSE Delta(IF TimeStamped(stats.agent_handoff) THEN stats.agent_handoff ELSE Now(stats, clock),
               stats.active_arrival)

HandedOff(stats) == TimeStamped(stats.active_arrival) /\ TimeStamped(stats.agent_handoff)

sdelay(stats) ==
    IF HandedOff(stats) /\ TimeStamped(stats.conn_setup_done)
    THEN Delta(stats.conn_setup_done, stats.agent_handoff) ELSE Zero

xdelay(stats, clock) ==
    IF ~HandedOff(stats) THEN Zero
    ELSE Delta(Now(stats, clock),
               IF TimeStamped(stats.conn_setup_done)
               THEN stats.conn_setup_done ELSE stats.agent_handoff)

log_adhoc(stats, clock) ==
    [delay |-> Delta(Now(stats, clock), stats.incoming_arrival),
     pdelay |-> pdelay(stats, clock),
     adelay |-> adelay(stats, clock),
     sdelay |-> sdelay(stats),
     xdelay |-> xdelay(stats, clock)]

-----------------------------------------------------------------------------
(* What the record promises.                                               *)

\* No clock jumped back between two stages that were reached.
Ordered(stats, clock) ==
    LET now == Micros(Now(stats, clock))
        a == Micros(stats.active_arrival)
        h == Micros(stats.agent_handoff)
        s == Micros(stats.conn_setup_done)
    IN  IF ~TimeStamped(stats.active_arrival) THEN Micros(stats.incoming_arrival) <= now
        ELSE /\ Micros(stats.incoming_arrival) <= a
             /\ IF ~TimeStamped(stats.agent_handoff) THEN a <= now
                ELSE /\ a <= h
                     /\ IF ~TimeStamped(stats.conn_setup_done) THEN h <= now
                        ELSE h <= s /\ s <= now

\* The four delays of the record account for the whole delay: they add up to
\* it, and never to less, even when a clock jumped back in between.
AddUp(r, stats, clock) ==
    LET sum == Micros(r.pdelay) + Micros(r.adelay) + Micros(r.sdelay) + Micros(r.xdelay)
    IN  /\ sum >= Micros(r.delay)
        /\ Ordered(stats, clock) => sum = Micros(r.delay)
=============================================================================
