---------------------------- MODULE MCInputPath ----------------------------
(***************************************************************************)
(* Programs that exercise every kind of element the preprocessor tells     *)
(* apart, with FIFOs small enough to be full most of the time.             *)
(***************************************************************************)
EXTENDS InputPath

A == Regular(1, "LOAD", {0})
B == Regular(2, "FLIP", {1})
C == Final("LOAD", {})
Discard == WithBits(Regular(1, "LOAD", {0, 1}), {"NOPASS"})

\* Store, replay twice, overwrite one slot, replay once, terminate.
StoreAndReplay ==
  <<A, StoredIn(A, 0), StoredIn(B, 1), Replay(2, 2),
    StoredIn(B, 0), Replay(1, 2), C>>

\* An endless replay: what is behind it fills FIFO 1 and is never reached.
EndlessReplay ==
  <<StoredIn(A, 0), StoredIn(B, 1), Replay(0, 2), A, B, A, B, C>>

\* A replay of a single slot, an empty replay, and a discarded element.
Odd == <<Replay(3, 0), StoredIn(B, 0), Discard, Replay(0, 1), A>>

MCPrograms == {StoreAndReplay, EndlessReplay, Odd}
MCOrbit == <<{0}, {0, 1}>>
=============================================================================
