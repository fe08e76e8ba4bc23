----------------------------- MODULE MCStreamer -----------------------------
(***************************************************************************)
(* Small programs for a whole streamer: two pins, one trigger input, and   *)
(* FIFOs of a few words.                                                   *)
(***************************************************************************)
EXTENDS Streamer

High == Trigger({0}, {0}, FALSE)
HighFinal == Trigger({0}, {0}, TRUE)
LowFinal == Trigger({}, {0}, TRUE)

\* Two segments, the second after a two-stage trigger.
TwoSegments ==
  <<HighFinal, High, LowFinal, Regular(2, "LOAD", {0}), Retrig({}),
    Regular(1, "LOAD", {1}), Final("LOAD", {})>>

\* A replayed run, a run of length zero, pseudorandom words, no strobe.
Replayed ==
  <<HighFinal, StoredIn(Regular(1, "FLIP", {0}), 0), Replay(2, 1),
    Regular(0, "LOAD", {1}), PseudoRandom(2), NoStrobe(1, {1}),
    Final("NOT", {})>>

\* The shortest programs that tell a word before a reset from one after it.
Brief == <<HighFinal, Regular(2, "FLIP", {0}), Final("FLIP", {1})>>

\* Two segments, as short as they get.
Paired == <<HighFinal, LowFinal, Regular(1, "LOAD", {0}), Retrig({}),
            Final("LOAD", {1})>>
ControlPrograms == {Brief, Paired}
MCPrograms == {Brief, TwoSegments, Replayed}
MCOrbit == <<{0}, {0, 1}>>
=============================================================================
