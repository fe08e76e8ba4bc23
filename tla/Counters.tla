------------------------------ MODULE Counters ------------------------------
(***************************************************************************)
(* The counter bank (ip/counter) with its host side (c++/counter.hh) and   *)
(* the program ppcounter: reset the bank, play a sequence, latch, report.  *)
(*                                                                         *)
(* A Sample is an edge of the streamer clock.  The host's control bits and *)
(* its trigger reach that clock through two flip-flops, the results come   *)
(* back through a cdc_bus_update (CdcBusUpdate) that is offered a value in *)
(* every cycle the latch bit is high.  The host does not wait for any of   *)
(* this: it sleeps for a number of streamer periods and goes on.  Channel  *)
(* 0 is counted; values are below 2^32, so the upper words are zero.       *)
(***************************************************************************)
EXTENDS Integers, Sequences, FiniteSets, FiniteSetsExt, Functions

CONSTANTS
  CounterSequences(_),  \* bits of channel 0 a program plays, by number; 1 is counter_seq1
  NCounterSequences,
  CROSSING,             \* samples in which an offered value has crossed to the host
  MaxSlack,             \* bound: samples a host step may come late
  MaxCounterProcesses   \* bound: programs started

VARIABLES
  chain,       \* the flip-flops behind ctrl and trigger: <<first, second>>
  to_play,     \* what the streamer has left to play
  inst,        \* the instruments' working registers
  flight,      \* the value that crosses, the one behind it, the age of the first
  shown,       \* the registers the host reads
  cpc, ctrl, trig, which, slept, got, counter_rc, counterProcesses   \* the program

counterVars == <<chain, to_play, inst, flight, shown, cpc, ctrl, trig, which, slept, got,
                 counter_rc, counterProcesses>>
bankVars == <<chain, inst, flight, shown>>

Empty == <<>>
Lags == 1..3            \* integrated_correlation_lag_depth
Windows == 0..15
-----------------------------------------------------------------------------
(***************************************************************************)
(* The instruments, one operator each: the registers after an edge with    *)
(* data bit d and valid v.  b(x) counts a condition.                       *)
(***************************************************************************)
b(x) == IF x THEN 1 ELSE 0

basic_counter(s, d, v) ==
  IF ~v THEN s
  ELSE [total |-> s.total + 1, l |-> s.l + b(d = 0), h |-> s.h + b(d = 1),
        lh |-> s.lh + b(~s.first /\ d = 1 /\ s.prev = 0),
        hl |-> s.hl + b(~s.first /\ d = 0 /\ s.prev = 1), first |-> FALSE, prev |-> d]

\* The registered sample s.d, s.v is worked on while d, v is registered.  A run
\* ends when the level changes or when the valid region ends.
runs_counter(s, d, v) ==
  LET starts == s.v /\ s.first
      grows == s.v /\ ~s.first /\ s.d = s.prev
      ends == (s.v /\ ~s.first /\ s.d # s.prev) \/ (~s.v /\ s.vprev)
      count(f, level, x) == f[level] + IF ends /\ s.prev = level THEN x ELSE 0
  IN  [nr |-> [k \in 0..1 |-> count(s.nr, k, 1)],
       sum |-> [k \in 0..1 |-> count(s.sum, k, s.len)],
       glitch |-> [k \in 0..1 |-> count(s.glitch, k, b(s.len <= 1))],
       max |-> [k \in 0..1 |-> IF ends /\ s.prev = k /\ s.len > s.max[k] THEN s.len ELSE s.max[k]],
       run |-> s.run + b(ends),
       len |-> IF starts \/ (ends /\ s.v) THEN 1 ELSE IF grows THEN s.len + 1 ELSE IF ends THEN 0 ELSE s.len,
       first |-> (s.first /\ ~starts) \/ (ends /\ ~s.v),
       prev |-> s.d, vprev |-> s.v, d |-> d, v |-> v]

packet_stats(s, v) ==
  LET begins == v /\ ~s.vprev
      ends == ~v /\ s.vprev
  IN  [total |-> s.total + 1, valid |-> s.valid + b(v), idle |-> s.idle + b(~v),
       pkt_begin |-> s.pkt_begin + b(begins), pkt_end |-> s.pkt_end + b(ends),
       len_sum |-> s.len_sum + IF ends THEN s.len ELSE 0,
       len_sum2 |-> s.len_sum2 + IF ends THEN s.len * s.len ELSE 0,
       len |-> IF v THEN (IF begins THEN 1 ELSE s.len + 1) ELSE IF ends THEN 0 ELSE s.len,
       vprev |-> v]

\* Blocks of four bits that do not overlap, filled from the most significant
\* bit; the histogram is written two cycles after the block is full.
seq_counter(s, d, v) ==
  [ctr |-> IF s.wr_q THEN [s.ctr EXCEPT ![s.w_q] = @ + 1] ELSE s.ctr,
   w_q |-> s.w, wr_q |-> s.wr,
   l |-> IF s.v THEN (s.l + 1) % 4 ELSE 0,
   w |-> IF s.v THEN (IF s.l = 0 THEN 0 ELSE s.w) + s.d * 2^(3 - s.l) ELSE 0,
   wr |-> s.v /\ s.l = 3, d |-> d, v |-> v]

autocorrelation(s, d, v) ==
  IF ~v THEN s
  ELSE [ctr |-> s.ctr + 1,
        acc |-> [i \in Lags |-> s.acc[i] + b(s.ctr >= i /\ d = s.array[i])],
        array |-> [i \in Lags |-> IF i = 1 THEN d ELSE s.array[i - 1]]]

Two == [k \in 0..1 |-> 0]
Cleared ==
  [d |-> 0, v |-> FALSE,
   bc |-> [total |-> 0, l |-> 0, h |-> 0, lh |-> 0, hl |-> 0, first |-> TRUE, prev |-> 0],
   rc |-> [nr |-> Two, sum |-> Two, glitch |-> Two, max |-> Two, run |-> 0, len |-> 0,
           first |-> TRUE, prev |-> 0, vprev |-> FALSE, d |-> 0, v |-> FALSE],
   ps |-> [total |-> 0, valid |-> 0, idle |-> 0, pkt_begin |-> 0, pkt_end |-> 0,
           len_sum |-> 0, len_sum2 |-> 0, len |-> 0, vprev |-> FALSE],
   sc |-> [ctr |-> [w \in Windows |-> 0], w_q |-> 0, wr_q |-> FALSE, l |-> 0, w |-> 0,
           wr |-> FALSE, d |-> 0, v |-> FALSE],
   ac |-> [ctr |-> 0, acc |-> [i \in Lags |-> 0], array |-> [i \in Lags |-> 0]]]

\* The words the host can address in each instrument.
BasicWords(s) == [total |-> s.total, l |-> s.l, h |-> s.h, lh |-> s.lh, hl |-> s.hl]
RunWords(s) == [run |-> s.run, nr |-> s.nr, sum |-> s.sum, max |-> s.max, glitch |-> s.glitch]
PacketWords(s) ==
  [total |-> s.total, valid |-> s.valid, idle |-> s.idle, pkt_begin |-> s.pkt_begin,
   pkt_end |-> s.pkt_end, len_sum |-> s.len_sum, len_sum2 |-> s.len_sum2]
SequenceWords(s) == s.ctr
CorrelationWords(s) == [i \in 0..3 |-> IF i = 0 THEN s.ctr ELSE s.acc[i]]
Words == [bc |-> BasicWords(inst.bc), rc |-> RunWords(inst.rc), ps |-> PacketWords(inst.ps),
          sc |-> SequenceWords(inst.sc), ac |-> CorrelationWords(inst.ac)]
-----------------------------------------------------------------------------
(***************************************************************************)
(* The hardware's steps.                                                   *)
(***************************************************************************)
NoFlight == [first |-> Empty, next |-> Empty, age |-> 0]
late == flight.first # Empty /\ flight.age >= CROSSING

\* Mutant: the latch bit is held as short as the reset bit.
MutAsReset == 2
\* How long reset_all and latch_all hold their bit, in streamer periods.
reset_periods == 2
latch_periods == 12
\* Bound: a host step comes at most MaxSlack samples after it may.
patience ==
  MaxSlack + CASE cpc = "resetting" -> reset_periods
               [] cpc = "latching" -> latch_periods
               [] cpc = "wait" -> Len(CounterSequences(which)) + 3
               [] OTHER -> 0

\* An edge of the streamer clock.  While nothing is valid the data bit does not
\* matter to any instrument.
Sample ==
  LET playing == chain[2].trig /\ to_play # <<>>
      d == IF playing THEN Head(to_play) ELSE 0
  IN  /\ ~late /\ slept < patience
      /\ chain' = <<[ctrl |-> ctrl, trig |-> trig], chain[1]>>
      /\ to_play' = IF playing THEN Tail(to_play) ELSE to_play
      /\ inst' = IF chain[2].ctrl = 1 THEN Cleared
                 ELSE [d |-> d, v |-> playing,
                       bc |-> basic_counter(inst.bc, inst.d, inst.v),
                       rc |-> runs_counter(inst.rc, inst.d, inst.v),
                       ps |-> packet_stats(inst.ps, inst.v),
                       sc |-> seq_counter(inst.sc, inst.d, inst.v),
                       ac |-> autocorrelation(inst.ac, inst.d, inst.v)]
      /\ flight' = CASE chain[2].ctrl # 2 -> [flight EXCEPT !.age = @ + b(flight.first # Empty)]
                     [] chain[2].ctrl = 2 /\ flight.first = Empty -> [flight EXCEPT !.first = Words]
                     [] OTHER -> [flight EXCEPT !.next = Words, !.age = @ + 1]
      /\ slept' = slept + 1
      /\ UNCHANGED <<shown, cpc, ctrl, trig, which, got, counter_rc, counterProcesses>>

\* The value arrives; the acknowledgement lets the one behind it start.
Land ==
  /\ flight.first # Empty
  /\ shown' = flight.first
  /\ flight' = [first |-> flight.next, next |-> Empty, age |-> 0]
  /\ UNCHANGED <<chain, to_play, inst, cpc, ctrl, trig, which, slept, got, counter_rc,
                 counterProcesses>>
-----------------------------------------------------------------------------
(***************************************************************************)
(* ppcounter.                                                              *)
(***************************************************************************)
Goes(pc) == cpc' = pc /\ slept' = 0
Slept(n) == slept >= n

\* The program starts, at whatever point the last one was killed; the streamer's
\* constructor stops and resets the streamer.
StartCounter(k) ==
  /\ counterProcesses < MaxCounterProcesses
  /\ Goes("reset_all")
  /\ which' = k /\ to_play' = <<>> /\ trig' = FALSE
  /\ chain' = [i \in 1..2 |-> [chain[i] EXCEPT !.trig = FALSE]]
  /\ got' = Empty /\ counter_rc' = "OK"
  /\ counterProcesses' = counterProcesses + 1
  /\ UNCHANGED <<inst, flight, shown, ctrl>>

ResetAll ==
  /\ cpc = "reset_all"
  /\ ctrl' = 1 /\ Goes("resetting")
  /\ UNCHANGED <<bankVars, to_play, trig, which, got, counter_rc, counterProcesses>>

\* The reset ends; the sequence is sent and the trigger forced.
TransmitAndTrigger ==
  /\ cpc = "resetting" /\ Slept(reset_periods)
  /\ ctrl' = 0 /\ trig' = TRUE /\ to_play' = CounterSequences(which)
  /\ Goes("wait")
  /\ UNCHANGED <<bankVars, which, got, counter_rc, counterProcesses>>

\* wait_to_complete, then latch_all.
LatchAll ==
  /\ cpc = "wait" /\ to_play = <<>>
  /\ ctrl' = 2 /\ Goes("latching")
  /\ UNCHANGED <<bankVars, to_play, trig, which, got, counter_rc, counterProcesses>>

\* The wait times out: abort_streamer_after_timeout, and no report.
CounterTimeout ==
  /\ cpc = "wait" /\ to_play # <<>>
  /\ to_play' = <<>> /\ trig' = FALSE /\ Goes("end") /\ counter_rc' = "TIMEOUT"
  /\ UNCHANGED <<bankVars, ctrl, which, got, counterProcesses>>

\* latch_all returns; report() reads one instrument after the other.
ReportCounters ==
  /\ \/ cpc = "latching" /\ Slept(latch_periods) /\ ctrl' = 0
        /\ got' = [bc |-> shown.bc] /\ Goes("rc")
     \/ cpc = "rc" /\ got' = [bc |-> got.bc, rc |-> shown.rc] /\ Goes("ps") /\ UNCHANGED ctrl
     \/ cpc = "ps" /\ got' = [bc |-> got.bc, rc |-> got.rc, ps |-> shown.ps] /\ Goes("sc") /\ UNCHANGED ctrl
     \/ /\ cpc = "sc" /\ Goes("check") /\ UNCHANGED ctrl
        /\ got' = [bc |-> got.bc, rc |-> got.rc, ps |-> got.ps, sc |-> shown.sc, ac |-> shown.ac]
  /\ UNCHANGED <<bankVars, to_play, trig, which, counter_rc, counterProcesses>>

\* The numbers counter_test1 expects of counter_seq1.
counter_test1(r) ==
  /\ r.bc = [total |-> 9, l |-> 5, h |-> 4, lh |-> 3, hl |-> 3]
  /\ r.rc.run = 7 /\ r.rc.nr[0] = 4 /\ r.rc.nr[1] = 3 /\ r.rc.sum[0] = 5 /\ r.rc.sum[1] = 4
  /\ r.rc.max[0] = 2 /\ r.rc.max[1] = 2 /\ r.rc.glitch[0] = 3 /\ r.rc.glitch[1] = 2
  /\ r.ps.valid = 9 /\ r.ps.pkt_begin = 1 /\ r.ps.pkt_end = 1
  /\ r.ps.len_sum = 9 /\ r.ps.len_sum2 = 81
  /\ r.sc[0] = 0 /\ r.sc[5] = 1 /\ r.sc[6] = 1
  /\ r.ac[0] = 9 /\ r.ac[1] = 2 /\ r.ac[2] = 4 /\ r.ac[3] = 2

Check ==
  /\ cpc = "check" /\ Goes("reported")
  /\ counter_rc' = IF which = 1 /\ ~counter_test1(got) THEN "ERROR_CHECK" ELSE counter_rc
  /\ UNCHANGED <<bankVars, to_play, ctrl, trig, which, got, counterProcesses>>

CounterInit ==
  /\ chain = [i \in 1..2 |-> [ctrl |-> 0, trig |-> FALSE]]
  /\ to_play = <<>> /\ inst = Cleared /\ flight = NoFlight
  /\ shown = Words
  /\ cpc = "end" /\ ctrl = 0 /\ trig = FALSE /\ which = 1 /\ slept = 0 /\ got = Empty
  /\ counter_rc = "OK" /\ counterProcesses = 0
CounterNext ==
  \/ \E k \in 1..NCounterSequences : StartCounter(k)
  \/ ResetAll \/ TransmitAndTrigger \/ LatchAll \/ CounterTimeout \/ ReportCounters \/ Check
  \/ Sample \/ Land
-----------------------------------------------------------------------------
(***************************************************************************)
(* Properties.                                                             *)
(***************************************************************************)
Count(S, P(_)) == Cardinality({i \in S : P(i)})
\* The maximal runs of a level in a sequence of bits, as <<first, last>>.
Runs(s, level) ==
  {r \in (1..Len(s)) \X (1..Len(s)) :
     /\ r[1] <= r[2] /\ \A i \in r[1]..r[2] : s[i] = level
     /\ r[1] = 1 \/ s[r[1] - 1] # level
     /\ r[2] = Len(s) \/ s[r[2] + 1] # level}
Length(r) == r[2] - r[1] + 1
Block(s, m) == s[4*m - 3] * 8 + s[4*m - 2] * 4 + s[4*m - 1] * 2 + s[4*m]
Truth(s) ==
  LET n == Len(s)
  IN  [bc |-> [total |-> n, l |-> Count(1..n, LAMBDA i : s[i] = 0), h |-> Count(1..n, LAMBDA i : s[i] = 1),
               lh |-> Count(2..n, LAMBDA i : s[i] > s[i-1]), hl |-> Count(2..n, LAMBDA i : s[i] < s[i-1])],
       rc |-> [run |-> Cardinality(Runs(s, 0)) + Cardinality(Runs(s, 1)),
               nr |-> [k \in 0..1 |-> Cardinality(Runs(s, k))],
               sum |-> [k \in 0..1 |-> MapThenSumSet(Length, Runs(s, k))],
               max |-> [k \in 0..1 |-> Max({0} \cup {Length(r) : r \in Runs(s, k)})],
               glitch |-> [k \in 0..1 |-> Count(Runs(s, k), LAMBDA r : Length(r) = 1)]],
       sc |-> [w \in Windows |-> Count(1..(n \div 4), LAMBDA m : Block(s, m) = w)],
       ac |-> [i \in 0..3 |-> IF i = 0 THEN n ELSE Count((i+1)..n, LAMBDA j : s[j] = s[j-i])]]

\* A report ppcounter prints counts exactly the sequence it played, whatever
\* programs were killed before it and whenever the host's pulses meet the
\* streamer clock; the built-in self-check passes.
ReportIsTrue ==
  cpc = "reported" =>
    /\ counter_rc = "OK"
    /\ got.bc = Truth(CounterSequences(which)).bc
    /\ got.rc = Truth(CounterSequences(which)).rc
    /\ got.sc = Truth(CounterSequences(which)).sc
    /\ got.ac = Truth(CounterSequences(which)).ac
    /\ got.ps.len_sum = Len(CounterSequences(which)) /\ got.ps.pkt_begin = got.ps.pkt_end
=============================================================================
