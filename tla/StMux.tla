------------------------------- MODULE StMux -------------------------------
(***************************************************************************)
(* The Avalon-ST multiplexer ip/st_mux/st_mux_if.sv between its two        *)
(* sources and the width adapter that assembles streamer elements, and a   *)
(* program that switches channels and reads the transfer counters with     *)
(* read_stable_u64 (tidbit/misc.hh) while they run.                        *)
(*                                                                         *)
(* A step is a posedge of clk.  A beat is its number in its source's       *)
(* stream; Beats of them make an element.                                  *)
(***************************************************************************)
EXTENDS Integers, Sequences, SequencesExt

CONSTANTS
  Beats,      \* 32-bit beats in an element: 3
  HALF,       \* width of each half of a counter: 32
  MaxBeats    \* bound: beats each source has

ASSUME MuxAssumption ==
  /\ Beats \in Nat \ {0} /\ HALF \in Nat \ {0} /\ MaxBeats \in Nat
  /\ 2^HALF \in Nat \ {0}

\* A counter of 64 bits does not wrap in the lifetime of the device.
ASSUME NoWrapAssumption ==
  2^(2 * HALF) \in Nat /\ MaxBeats < 2^(2 * HALF)

Channels == {0, 1}

VARIABLES
  channel, requested_channel,
  ctr,              \* ctr1 and ctr2
  offered,          \* asi_valid of each source
  beat,             \* beats each source has handed over
  partial,          \* the adapter's unfinished element of each channel
  elements,         \* finished elements of each channel (history)
  reader,           \* which read of read_stable_u64 comes next, or "idle"
  target,           \* the counter being read
  hi1, lo,          \* what the reader has read
  truth             \* the counter when its low word was read (history)

sourceVars == <<offered, beat>>
adapterVars == <<partial, elements>>
readerVars == <<reader, target, hi1, lo, truth>>
vars == <<channel, requested_channel, ctr, sourceVars, adapterVars,
          readerVars>>

Zero == [c \in Channels |-> 0]

Init ==
  /\ channel = 0 /\ requested_channel = 0
  /\ ctr = Zero
  /\ offered = [c \in Channels |-> FALSE] /\ beat = Zero
  /\ partial = [c \in Channels |-> <<>>]
  /\ elements = [c \in Channels |-> <<>>]
  /\ reader = "idle" /\ target = 0 /\ hi1 = 0 /\ lo = 0 /\ truth = 0
-----------------------------------------------------------------------------
aso_valid == offered[channel]
aso_data == beat[channel] + 1
\* Mutant: the source tag is not connected.
MutUntagged == 0
aso_channel == channel
asi_ready(c, aso_ready) == c = channel /\ aso_ready

transfers(c, aso_ready) == offered[c] /\ asi_ready(c, aso_ready)

selected_stalled(aso_ready) == aso_valid /\ ~aso_ready

\* The selection registers at an edge at which software asks for "next".
Select(next, aso_ready) ==
  /\ requested_channel' = next
  /\ channel' = IF selected_stalled(aso_ready) THEN channel ELSE next

Count(aso_ready) ==
  ctr' = [c \in Channels |-> IF transfers(c, aso_ready)
                               THEN (ctr[c] + 1) % 2^(2 * HALF) ELSE ctr[c]]

\* A source holds a beat it offers until it is taken, and offers the next
\* one, if it has one, when it likes.
Sources(aso_ready) ==
  /\ beat' = [c \in Channels |-> IF transfers(c, aso_ready) THEN beat[c] + 1
                                                            ELSE beat[c]]
  /\ offered' \in [Channels -> BOOLEAN]
  /\ \A c \in Channels :
       /\ offered[c] /\ ~transfers(c, aso_ready) => offered'[c]
       /\ offered'[c] => beat'[c] < MaxBeats

\* The generated 32-to-96 adapter: it keeps one unfinished element for each
\* value of the channel tag.
Adapt(aso_ready) ==
  LET c == aso_channel
      word == Append(partial[c], aso_data)
      full == Len(word) = Beats
  IN  IF aso_valid /\ aso_ready
        THEN /\ partial' = [partial EXCEPT ![c] = IF full THEN <<>> ELSE word]
             /\ elements' = IF full
                              THEN [elements EXCEPT ![c] = Append(@, word)]
                              ELSE elements
        ELSE UNCHANGED adapterVars

\* The data path and the counters at one edge.
Move(next, aso_ready) ==
  /\ Select(next, aso_ready)
  /\ Count(aso_ready)
  /\ Sources(aso_ready)
  /\ Adapt(aso_ready)

\* No access on the control port.
Tick(aso_ready) ==
  /\ Move(requested_channel, aso_ready)
  /\ UNCHANGED readerVars

\* st_mux::channel.
SwitchChannel(c, aso_ready) ==
  /\ reader = "idle"
  /\ Move(c, aso_ready)
  /\ UNCHANGED readerVars
-----------------------------------------------------------------------------
low(c) == ctr[c] % 2^HALF
high(c) == ctr[c] \div 2^HALF

ReadFirstHigh(c, aso_ready) ==
  /\ reader = "idle"
  /\ Move(requested_channel, aso_ready)
  /\ reader' = "low" /\ target' = c /\ hi1' = high(c)
  /\ UNCHANGED <<lo, truth>>

ReadLow(aso_ready) ==
  /\ reader = "low"
  /\ Move(requested_channel, aso_ready)
  /\ reader' = "high" /\ lo' = low(target) /\ truth' = ctr[target]
  /\ UNCHANGED <<target, hi1>>

\* Is the value accepted?  Mutant: without comparing the high words.
MutFirstTry(hi2) == TRUE
stable(hi2) == hi1 = hi2

\* The second high word; if it differs the loop starts again.
ReadSecondHigh(aso_ready) ==
  /\ reader = "high"
  /\ Move(requested_channel, aso_ready)
  /\ reader' = IF stable(high(target)) THEN "returned" ELSE "again"
  /\ UNCHANGED <<target, hi1, lo, truth>>

Retry(aso_ready) ==
  /\ reader = "again"
  /\ Move(requested_channel, aso_ready)
  /\ reader' = "low" /\ hi1' = high(target)
  /\ UNCHANGED <<target, lo, truth>>

Return(aso_ready) ==
  /\ reader = "returned"
  /\ Move(requested_channel, aso_ready)
  /\ reader' = "idle"
  /\ UNCHANGED <<target, hi1, lo, truth>>

Next ==
  \E aso_ready \in BOOLEAN :
    \/ Tick(aso_ready)
    \/ \E c \in Channels : SwitchChannel(c, aso_ready)
    \/ \E c \in Channels : ReadFirstHigh(c, aso_ready)
    \/ ReadLow(aso_ready)
    \/ ReadSecondHigh(aso_ready)
    \/ Retry(aso_ready)
    \/ Return(aso_ready)

Spec == Init /\ [][Next]_vars
-----------------------------------------------------------------------------
Readers == {"idle", "low", "high", "again", "returned"}

\* The Avalon-ST rule at the output: a beat that is offered and not taken
\* stays, with its data and its tag, also when software switches channels.
HeldBeat ==
  [][aso_valid /\ beat' = beat
       => aso_valid' /\ aso_data' = aso_data /\ aso_channel' = aso_channel]_vars

\* docs/docs/st_mux.md: switching between the sources "does not mix words
\* from the two sources into one 96-bit streamer element", and within a source no
\* beat is lost or doubled: its elements and the rest add up to what it sent.
ElementsIntact ==
  \A c \in Channels :
    FlattenSeq(elements[c]) \o partial[c] = [i \in 1 .. beat[c] |-> i]

\* A counter counts the beats its source has handed over.
CountersCount == \A c \in Channels : ctr[c] = beat[c] % 2^(2 * HALF)

\* read_stable_u64: the value it returns is one the running counter had.
ReadIsTrue == reader = "returned" => hi1 * 2^HALF + lo = truth
=============================================================================
