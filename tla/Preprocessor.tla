---------------------------- MODULE Preprocessor ----------------------------
(***************************************************************************)
(* The replay preprocessor of ip/streamer/preprocessor.sv, one posedge of  *)
(* clk at a time.  It passes an element on, stores it in a small memory,   *)
(* replays the memory, or discards it.  The composing module supplies the  *)
(* inputs: din and din_valid from FIFO 1, dout_ready from FIFO 2.          *)
(***************************************************************************)
EXTENDS Elements

VARIABLES
  memory,           \* memory[position]: keeps its contents through a reset
  memory_valid,     \* positions stored to since the reset
  active, infinite, \* a replay is under way; it never ends
  length, repetitions,
  replay_i,         \* i: index of the element being replayed
  replay_j,         \* j: index of the repetition
  dout_replay_reg   \* the element being replayed

preprocVars == <<memory, memory_valid, active, infinite, length, repetitions,
                 replay_i, replay_j, dout_replay_reg>>

\* An all-zero element, as the registers and the memory power up.
Blank == Regular(0, "LOAD", {})

PreprocInit ==
  /\ memory = [p \in Positions |-> Blank]
  /\ memory_valid = {}
  /\ active = FALSE
  /\ infinite = FALSE
  /\ length = 0
  /\ repetitions = 0
  /\ replay_i = 0
  /\ replay_j = 0
  /\ dout_replay_reg = Blank
-----------------------------------------------------------------------------
\* Mutant: an element that is not passed on is not taken either.
MutNopassWaits(din, dout_ready) == ~Is(din, "NOPASS") /\ dout_ready /\ ~active
din_ready(din, dout_ready) == (Is(din, "NOPASS") \/ dout_ready) /\ ~active
in_fire(din, din_valid, dout_ready) == din_valid /\ din_ready(din, dout_ready)

\* Mutant: the replay advances without waiting for FIFO 2.
MutReplayRuns(dout_ready) == active
replay_fire(dout_ready) == active /\ dout_ready

\* The element offered to FIFO 2, and whether it is transferred.
dout(din) == IF active THEN dout_replay_reg ELSE din
dout_valid(din, din_valid, dout_ready) ==
  \/ in_fire(din, din_valid, dout_ready) /\ ~Is(din, "NOPASS") /\ dout_ready
  \/ replay_fire(dout_ready)

last_elem == replay_i = length - 1
last_cycle == replay_j = repetitions - 1

PreprocReset ==
  /\ memory_valid' = {}
  /\ active' = FALSE
  /\ infinite' = FALSE
  /\ length' = 0
  /\ repetitions' = 0
  /\ replay_i' = 0
  /\ replay_j' = 0
  /\ dout_replay_reg' = Blank
  /\ UNCHANGED memory

Store(din) ==
  /\ memory' = [memory EXCEPT ![din.pos] = din]
  /\ memory_valid' = memory_valid \cup {din.pos}
  /\ UNCHANGED <<active, infinite, length, repetitions, replay_i, replay_j,
                 dout_replay_reg>>

\* A replay command; one with a zero or out-of-range length is a no-op.
StartReplay(din) ==
  /\ active' = ReqLenValid(din)
  /\ infinite' = (ReqLenValid(din) /\ din.cnt = 0)
  /\ length' = IF ReqLenValid(din) THEN ReqLen(din) ELSE 0
  /\ repetitions' = IF ReqLenValid(din) THEN din.cnt ELSE 0
  /\ replay_i' = 0
  /\ replay_j' = 0
  /\ dout_replay_reg' = IF ReqLenValid(din) THEN memory[0]
                                            ELSE dout_replay_reg
  /\ UNCHANGED <<memory, memory_valid>>

\* FIFO 2 takes the replayed element: move to the next one, to the next
\* repetition, or finish.
AdvanceReplay ==
  /\ IF last_elem
       THEN /\ active' = (infinite \/ ~last_cycle)
            /\ replay_i' = IF infinite \/ ~last_cycle THEN 0 ELSE replay_i
            /\ replay_j' = IF infinite \/ last_cycle THEN replay_j
                                                     ELSE replay_j + 1
            /\ dout_replay_reg' = IF infinite \/ ~last_cycle
                                    THEN memory[0] ELSE dout_replay_reg
       ELSE /\ replay_i' = replay_i + 1
            /\ dout_replay_reg' = memory[replay_i + 1]
            /\ UNCHANGED <<active, replay_j>>
  /\ UNCHANGED <<memory, memory_valid, infinite, length, repetitions>>

\* One posedge of clk.
PreprocTick(rst, din, din_valid, dout_ready) ==
  LET fire == in_fire(din, din_valid, dout_ready)
  IN  CASE rst -> PreprocReset
        [] ~rst /\ replay_fire(dout_ready) -> AdvanceReplay
        [] ~rst /\ fire /\ Stores(din) -> Store(din)
        [] ~rst /\ fire /\ Replays(din) -> StartReplay(din)
        [] OTHER -> UNCHANGED preprocVars
-----------------------------------------------------------------------------
PreprocTypeOK ==
  /\ memory \in [Positions -> Element]
  /\ memory_valid \in SUBSET Positions
  /\ active \in BOOLEAN /\ infinite \in BOOLEAN
  /\ length \in 0 .. MEMORY_POSITIONS
  /\ repetitions \in Nat
  /\ replay_i \in Positions /\ replay_j \in Nat
  /\ dout_replay_reg \in Element
=============================================================================
