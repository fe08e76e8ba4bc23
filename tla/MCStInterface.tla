--------------------------- MODULE MCStInterface ---------------------------
(***************************************************************************)
(* Small programs and register values for a streamer behind its wrapper.   *)
(***************************************************************************)
EXTENDS StInterface

\* The first word depends on the initial value.
Relative == <<Regular(1, "FLIP", {0}), Final("FLIP", {1})>>
\* Two segments: the chain goes back to idle in the middle of the stream.
Paused == <<Trigger({0}, {0}, TRUE), Trigger({}, {0}, TRUE),
            Regular(1, "LOAD", {0}), Retrig({}), Final("LOAD", {})>>

Enabled == [CtrlCleared EXCEPT !.trigger_enable = TRUE]
\* The stop acts within three edges, the override waits for an idle streamer.
Overridden == [Enabled EXCEPT !.qout_select = TRUE, !.stop = TRUE]
Gated == [gate_mask |-> {0}, gate_in_en |-> FALSE, gating |-> TRUE]

ReloadPrograms == {Relative}
Forced == [CtrlCleared EXCEPT !.trigger_force = TRUE]
ReloadCtrl == {Forced}
PlaybackPrograms == {Paused}
PlaybackCtrl == {Enabled, Overridden}
PlaybackGating == {Gated}
MCOrbit == <<{0}>>
=============================================================================
