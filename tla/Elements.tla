------------------------------ MODULE Elements ------------------------------
(***************************************************************************)
(* The sequence element of the streamer (ip/streamer/config.vh and         *)
(* c++/elements.hh) and what a list of elements means.                     *)
(*                                                                         *)
(* An output word is the set of pins that are high.  The 32-bit control    *)
(* word is the set of its one-bit flags together with its two fields, the  *)
(* bit operation and the memory position.                                  *)
(***************************************************************************)
EXTENDS Integers, Sequences, SequencesExt, FiniteSetsExt

CONSTANTS
  WIDTH_DATA,        \* number of output pins
  WIDTH_TRIGGER,     \* number of trigger inputs
  MEMORY_POSITIONS,  \* slots of the replay memory
  PrngOrbit,         \* the words the pseudorandom generator runs through
  WIDTH_STAT         \* width of the statistics counters

ASSUME WidthAssumption ==
  WIDTH_DATA \in Nat /\ WIDTH_TRIGGER \in Nat /\ 2 * WIDTH_TRIGGER <= WIDTH_DATA
ASSUME MemoryAssumption == MEMORY_POSITIONS \in Nat \ {0}
\* The second conjunct follows from the first; the provers do not know it.
ASSUME StatAssumption == WIDTH_STAT \in Nat /\ 2^WIDTH_STAT \in Nat \ {0}

Pins == 0 .. (WIDTH_DATA - 1)
Word == SUBSET Pins
TriggerInputs == 0 .. (WIDTH_TRIGGER - 1)
Positions == 0 .. (MEMORY_POSITIONS - 1)

ASSUME PrngAssumption == PrngOrbit \in Seq(Word) /\ PrngOrbit # <<>>

ControlBits == {"TRIGGER", "TRIGGER_FINAL", "TERMINATE", "NO_STROBE",
                "NOPASS", "STORE", "REPLAY", "RETRIG", "PRNG"}
BitOps == {"LOAD", "SET", "CLEAR", "FLIP", "NOT", "AND", "OR", "XOR",
           "XNOR", "SLL", "SRL"}

Element == [control : SUBSET ControlBits, mode : BitOps, pos : Positions,
            cnt : Nat, val : Word]
OutWord == [data : Word, control : SUBSET ControlBits]

\* The number a word stands for, and the word that stands for a number.
NumberOf(w) == MapThenSumSet(LAMBDA b : 2^b, w)
WordOf(n) == {b \in Pins : (n \div 2^b) % 2 = 1}

Stat == 0 .. (2^WIDTH_STAT - 1)

\* A statistics counter counts the cycles in which cond holds, and wraps.
Bump(ctr, cond) == IF cond THEN (ctr + 1) % 2^WIDTH_STAT ELSE ctr
-----------------------------------------------------------------------------
(***************************************************************************)
(* The constructors of class el.                                           *)
(***************************************************************************)
Regular(cnt, mode, val) ==
  [mode |-> mode, control |-> {}, val |-> val, cnt |-> cnt, pos |-> 0]
WithBits(e, bits) == [e EXCEPT !.control = @ \cup bits]

NoStrobe(cnt, val) == WithBits(Regular(cnt, "LOAD", val), {"NO_STROBE"})
Final(mode, val) == WithBits(Regular(1, mode, val), {"TERMINATE"})
Trigger(pattern, mask, final) ==
  WithBits(Regular(0, "LOAD", pattern \cup {b + WIDTH_TRIGGER : b \in mask}),
           {"TRIGGER"} \cup IF final THEN {"TRIGGER_FINAL"} ELSE {})
Replay(repetitions, len) ==
  WithBits(Regular(repetitions, "LOAD", WordOf(len)), {"NOPASS", "REPLAY"})
Retrig(val) == WithBits(Regular(1, "LOAD", val), {"RETRIG"})
PseudoRandom(cnt) == WithBits(Regular(cnt, "LOAD", {}), {"PRNG"})
StoredIn(e, pos) == [WithBits(e, {"NOPASS", "STORE"}) EXCEPT !.pos = pos]

\* Unpacking a trigger element, as streamer.sv wires it to chain_trigger.
PatternOf(val) == val \cap TriggerInputs
MaskOf(val) == {b \in TriggerInputs : b + WIDTH_TRIGGER \in val}

\* apply_op of rl_decoder.sv.
apply_op(prev, dat, mode) ==
  CASE mode = "LOAD"  -> dat
    [] mode \in {"SET", "OR"} -> prev \cup dat
    [] mode = "CLEAR" -> prev \ dat
    [] mode \in {"FLIP", "XOR"} -> SymDiff(prev, dat)
    [] mode = "NOT"   -> Pins \ prev
    [] mode = "AND"   -> prev \cap dat
    [] mode = "XNOR"  -> Pins \ SymDiff(prev, dat)
    [] mode = "SLL"   -> {b \in Pins : b - NumberOf(dat) \in prev}
    [] mode = "SRL"   -> {b \in Pins : b + NumberOf(dat) \in prev}

\* The generator of prng.sv after k advances from its fixed seed.
Rnd(k) == PrngOrbit[1 + (k % Len(PrngOrbit))]
-----------------------------------------------------------------------------
(***************************************************************************)
(* The meaning of a program, a list of elements, written without queues,   *)
(* clocks or back-pressure.                                                *)
(***************************************************************************)
Is(e, bit) == bit \in e.control

Stores(e) == Is(e, "NOPASS") /\ Is(e, "STORE") /\ ~Is(e, "REPLAY")
Replays(e) == Is(e, "NOPASS") /\ ~Is(e, "STORE") /\ Is(e, "REPLAY")

ReqLen(e) == NumberOf(e.val) % (2 * MEMORY_POSITIONS)
ReqLenValid(e) == ReqLen(e) \in 1 .. MEMORY_POSITIONS

\* "times" copies of the list s, and the list a replay goes round.
Repeated(s, times) == FlattenSeq([k \in 1 .. times |-> s])
ReplayRound(m, e) == [k \in 1 .. ReqLen(e) |-> m[k - 1]]

\* The elements that leave the preprocessor for the elements es that enter
\* it, when its memory holds mem.  A replay without end is cut after horizon
\* rounds, and nothing follows it.
UnrollStart(mem) == [mem |-> mem, out |-> <<>>, endless |-> FALSE]
UnrollStep(st, e, horizon) ==
  IF st.endless THEN st
  ELSE CASE ~Is(e, "NOPASS") -> [st EXCEPT !.out = Append(@, e)]
         [] Stores(e) -> [st EXCEPT !.mem[e.pos] = e]
         [] Replays(e) /\ ReqLenValid(e) ->
              [st EXCEPT !.out = @ \o Repeated(ReplayRound(st.mem, e),
                                        IF e.cnt = 0 THEN horizon ELSE e.cnt),
                         !.endless = (e.cnt = 0)]
         [] OTHER -> st
Unrolling(es, mem, horizon) ==
  LET st[i \in 0 .. Len(es)] ==
        IF i = 0 THEN UnrollStart(mem) ELSE UnrollStep(st[i - 1], es[i], horizon)
  IN  st
Unrolled(es, mem, horizon) == Unrolling(es, mem, horizon)[Len(es)].out

\* The slots the first k elements of p store to.  A program stores to a slot
\* before it replays it: what else a replay reads is left over from before.
StoredBy(p, k) == {p[i].pos : i \in {n \in 1 .. k : Stores(p[n])}}
StoresBeforeReplays(p) ==
  \A k \in DOMAIN p :
    Replays(p[k]) /\ ReqLenValid(p[k]) =>
      0 .. (ReqLen(p[k]) - 1) \subseteq StoredBy(p, k - 1)

\* The samples the regular elements among es decode to, from the initial word
\* init: a run of cnt samples each, the value computed from the last sample.
SampleStart(init) == [prev |-> init, k |-> 0, out |-> <<>>]
SampleRun(st, e) ==
  [k \in 1 .. e.cnt |->
     [data |-> IF Is(e, "PRNG") THEN Rnd(st.k + k - 1)
                                ELSE apply_op(st.prev, e.val, e.mode),
      control |-> e.control]]
SampleStep(st, e) ==
  IF Is(e, "TRIGGER") \/ e.cnt = 0 THEN st
  ELSE [prev |-> SampleRun(st, e)[e.cnt].data,
        k    |-> IF Is(e, "PRNG") THEN st.k + e.cnt ELSE st.k,
        out  |-> st.out \o SampleRun(st, e)]
Sampling(es, init) ==
  LET st[i \in 0 .. Len(es)] ==
        IF i = 0 THEN SampleStart(init) ELSE SampleStep(st[i - 1], es[i])
  IN  st
Samples(es, init) == Sampling(es, init)[Len(es)].out

\* The samples up to and including the first terminator.
UpToTerminator(ws) ==
  LET ends == {n \in DOMAIN ws : Is(ws[n], "TERMINATE")}
  IN  IF ends = {} THEN ws ELSE SubSeq(ws, 1, Min(ends))

\* The trigger conditions among es.
Stages(es) == SelectSeq(es, LAMBDA e : Is(e, "TRIGGER"))
=============================================================================
