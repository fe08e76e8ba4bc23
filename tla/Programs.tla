------------------------------ MODULE Programs ------------------------------
(***************************************************************************)
(* The host's programs on one board.  A program is the sole user of the    *)
(* board while it runs; `user' says which kind of program it is, and the   *)
(* processes a module starts one after the other are of that kind:         *)
(*   streaming    send_and_trig and the programs around it    (Workflow)   *)
(*   dma          ppdmatest and the DMA streamer              (Dma)        *)
(*   timestamps   ppts and ppgpsdo                            (Timestamps) *)
(*   combiners    ppqout, pptrig, the Python bindings         (SignalPaths)*)
(*   startup      what every program does before its work     (Bringup)    *)
(*   counter      ppcounter                                   (Counters)   *)
(*   webgui       the web interface                           (WebGui)     *)
(*   scpi         the SCPI server                             (ScpiServer) *)
(*   server       pptool with its line server                 (LineServer) *)
(***************************************************************************)
EXTENDS Workflow, Dma, Timestamps, SignalPaths, Bringup, Counters, WebGui, ScpiServer, LineServer

VARIABLE user

Users == {"streaming", "dma", "timestamps", "combiners", "startup", "counter", "webgui", "scpi", "server"}

vars == <<user, flowVars, dmaVars, tsVars, pathVars, bootVars, counterVars, webVars, scpiVars, lineVars>>

\* The parts that are not used stay in one of their initial states.
Unused ==
  /\ user # "timestamps" => /\ tool = "ppts" /\ nr = 0 /\ active = {}
                            /\ ~has_timeout /\ ~ignore_overflow
  /\ user # "combiners" => streams = Streams(1)
  /\ user # "startup" => ~ext_clk
  /\ user # "webgui" => ~ext_runs /\ snapshot.tracked = WebConfigs(1).clock /\ hw.trig.lines = 0
  /\ user # "server" => main_opts = 1

Init ==
  /\ user \in Users
  /\ FlowInit /\ DmaInit /\ TsInit /\ PathInit /\ BootInit /\ CounterInit /\ WebInit /\ ScpiInit /\ LineInit
  /\ Unused

FlowRuns(A) ==
  /\ user = "streaming" /\ A
  /\ UNCHANGED <<user, dmaVars, tsVars, pathVars, bootVars, counterVars, webVars, scpiVars, lineVars>>
DmaRuns(A) ==
  /\ user = "dma" /\ A
  /\ UNCHANGED <<user, flowVars, tsVars, pathVars, bootVars, counterVars, webVars, scpiVars, lineVars>>
TsRuns(A) ==
  /\ user = "timestamps" /\ A
  /\ UNCHANGED <<user, flowVars, dmaVars, pathVars, bootVars, counterVars, webVars, scpiVars, lineVars>>
PathRuns(A) ==
  /\ user = "combiners" /\ A
  /\ UNCHANGED <<user, flowVars, dmaVars, tsVars, bootVars, counterVars, webVars, scpiVars, lineVars>>
BootRuns(A) ==
  /\ user = "startup" /\ A
  /\ UNCHANGED <<user, flowVars, dmaVars, tsVars, pathVars, counterVars, webVars, scpiVars, lineVars>>
CounterRuns(A) ==
  /\ user = "counter" /\ A
  /\ UNCHANGED <<user, flowVars, dmaVars, tsVars, pathVars, bootVars, webVars, scpiVars, lineVars>>
WebRuns(A) ==
  /\ user = "webgui" /\ A
  /\ UNCHANGED <<user, flowVars, dmaVars, tsVars, pathVars, bootVars, counterVars, scpiVars, lineVars>>
ScpiRuns(A) ==
  /\ user = "scpi" /\ A
  /\ UNCHANGED <<user, flowVars, dmaVars, tsVars, pathVars, bootVars, counterVars, webVars, lineVars>>
LineRuns(A) ==
  /\ user = "server" /\ A
  /\ UNCHANGED <<user, flowVars, dmaVars, tsVars, pathVars, bootVars, counterVars, webVars, scpiVars>>

Next ==
  \/ FlowRuns(FlowNext)
  \/ DmaRuns(DmaNext)
  \/ TsRuns(TsNext)
  \/ PathRuns(PathNext)
  \/ BootRuns(BootNext)
  \/ CounterRuns(CounterNext)
  \/ WebRuns(WebNext)
  \/ ScpiRuns(ScpiNext)
  \/ LineRuns(LineNext)
Spec == Init /\ [][Next]_vars

\* Threads are scheduled, and the streamer's clock runs: the process that streams
\* and the decoder; the readers, the aggregator's worker and the main
\* thread of ppts and ppgpsdo; the main thread and the server's thread of pptool,
\* whose command ends.  Nothing is asked of events, clients or the board.
FairSpec ==
  /\ Spec
  /\ WF_flowVars(user = "streaming" /\ HostStep)
  /\ WF_flowVars(user = "streaming" /\ (Decode /\ UNCHANGED hostVars))
  /\ \A ch \in Channels : WF_tsVars(user = "timestamps" /\ ReaderStep(ch))
  /\ WF_tsVars(user = "timestamps" /\ (WorkerStep \/ TaskThrows))
  /\ WF_tsVars(user = "timestamps" /\ MainStep)
  /\ WF_lineVars(user = "server" /\ MainThread)
  /\ WF_lineVars(user = "server" /\ ServerThread)
=============================================================================
