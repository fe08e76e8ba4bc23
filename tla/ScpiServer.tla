----------------------------- MODULE ScpiServer -----------------------------
(***************************************************************************)
(* The SCPI server: sessions and their command tree (c++/scpi_server.hh),  *)
(* and PulsePins' commands (c++/ppscpi.cc).                                *)
(*                                                                         *)
(* One thread runs every callback of every session, so a line is handled   *)
(* in one go; reads and writes complete in any order.  The playback itself *)
(* is Workflow's; here it has a return code.                               *)
(***************************************************************************)
EXTENDS Integers, Sequences, SequencesExt

CONSTANTS
  Sessions,      \* connections
  ScpiLines(_),  \* lines a client may send: commands between semicolons
  NScpiLines,
  MaxLines       \* bound: lines of all sessions

ASSUME ScpiAssumption ==
  /\ NScpiLines \in Nat
  /\ \A n \in 1..NScpiLines :
       /\ Len(ScpiLines(n)) \in Nat
       /\ \A i \in 1..Len(ScpiLines(n)) : ScpiLines(n)[i].arg \in Nat

VARIABLES
  session,   \* state of each session
  lastPlay,  \* history: the last playback
  stopped_io,\* io_context::stop was called
  scpiLines  \* lines so far

scpiVars == <<session, lastPlay, stopped_io, scpiLines>>

MAX_QUEUED == 10
NoSession ==
  [state |-> "none", elements |-> 0, check |-> FALSE, errors |-> <<>>, sesr |-> {},
   gen |-> 0, write_queue |-> <<>>, write_in_progress |-> FALSE, close_after_writes |-> FALSE,
   produced |-> <<>>, delivered |-> <<>>, cause |-> "none"]
NewSession == [NoSession EXCEPT !.state = "open", !.sesr = {"POWER_ON"}]
-----------------------------------------------------------------------------
(***************************************************************************)
(* Commands.  x is [ses, play, resp, act]: the session, the playbacks, the *)
(* response and what becomes of the connection.                            *)
(***************************************************************************)
push_error(x, err, bit) ==
  [x EXCEPT !.ses.errors = Append(IF Len(@) > MAX_QUEUED THEN Tail(@) ELSE @, err),
            !.ses.sesr = @ \cup {bit}, !.ses.gen = @ + 1]
clear_status(x) == [x EXCEPT !.ses.errors = <<>>, !.ses.sesr = {}]

reset_session_state(x) == [x EXCEPT !.ses.elements = 0, !.ses.check = FALSE]

\* The exception of a handler that found the hardware failing ends its command.
Faulty(x) == push_error(x, "exception", "EXECUTION_ERROR")

\* TEST1 and STREAM: prepare_stream_run_locked, send_and_trig, push_rc_failure.
\* rc is 0 for RC_OK, 1 for another code, 2 for an exception, which may come when
\* the playback has begun.
Play(x, elements, check, rc) ==
  LET played == [x EXCEPT !.play = Append(@, [elements |-> elements, check |-> check, dirty |-> x.dirty])]
  IN  CASE rc = 0 -> [played EXCEPT !.resp = "SUCCESS"]
        [] rc = 1 -> push_error([played EXCEPT !.resp = "FAILURE"], "rc", "EXECUTION_ERROR")
        [] OTHER  -> Faulty(played)

\* The handlers; *RST, CLOCK:STREAMER?, TEST1 and STREAM reach the hardware.
Handler(x, cmd, rc) ==
  CASE cmd.c = "*IDN?" -> [x EXCEPT !.resp = "IDN"]
    [] cmd.c = "*RST" -> IF rc = 2 THEN Faulty(reset_session_state(x)) ELSE reset_session_state(x)
    [] cmd.c = "*CLS" -> clear_status(x)
    [] cmd.c = "*OPC" -> [x EXCEPT !.ses.sesr = @ \cup {"OPERATION_COMPLETE"}]
    [] cmd.c = "*OPC?" -> [x EXCEPT !.resp = "1"]
    [] cmd.c = "*ESR?" -> [x EXCEPT !.resp = "SESR", !.ses.sesr = {}]
    [] cmd.c = "*STB?" -> [x EXCEPT !.resp = IF x.ses.errors = <<>> THEN "STB" ELSE "STB_MAV"]
    [] cmd.c = "SYST:ERR?" ->
         IF x.ses.errors = <<>> THEN [x EXCEPT !.resp = "No error"]
         ELSE [x EXCEPT !.resp = Head(x.ses.errors), !.ses.errors = Tail(@)]
    [] cmd.c = "CLOCK:STREAMER?" -> IF rc = 2 THEN Faulty(x) ELSE [x EXCEPT !.resp = "Hz"]
    [] cmd.c = "TEST1" -> Play(x, -1, TRUE, rc)
    [] cmd.c = "SEQ" -> IF cmd.arg = 0 THEN Faulty(x)
                        ELSE [x EXCEPT !.ses.elements = cmd.arg, !.resp = "LOADED"]
    [] cmd.c = "CHECK" -> IF cmd.arg = 2 THEN push_error(x, "bad boolean", "EXECUTION_ERROR")
                          ELSE [x EXCEPT !.ses.check = cmd.arg = 1]
    [] cmd.c = "CHECK?" -> [x EXCEPT !.resp = IF x.ses.check THEN "TRUE" ELSE "FALSE"]
    [] cmd.c = "STREAM" ->
         LET y == Play(x, x.ses.elements, x.ses.check, rc)
         IN  IF rc = 2 THEN y ELSE [y EXCEPT !.ses.sesr = @ \cup {"OPERATION_COMPLETE"}]
    [] cmd.c = "*WAI" -> x
    [] cmd.c = "DISCONNECT" -> [x EXCEPT !.act = "close_session"]
    [] cmd.c = "TERMINATE" -> [x EXCEPT !.act = "stop_server"]
    [] cmd.c = "*RST?" -> push_error(x, "not queryable", "QUERY_ERROR")
    [] cmd.c = "*IDN" -> push_error(x, "Query form required", "QUERY_ERROR")
    [] cmd.c = "SYST" -> push_error(x, "no action", "COMMAND_ERROR")
    [] OTHER -> push_error(x, "unknown token", "COMMAND_ERROR")

\* write, and start_next_write when nothing is being written.
write(ses, msg) ==
  [ses EXCEPT !.write_queue = Append(@, msg), !.write_in_progress = TRUE,
              !.produced = Append(@, msg)]

handle_single_command(x, cmd, rc) ==
  LET y == Handler([x EXCEPT !.resp = "", !.dirty = @ \/ (cmd.c = "SEQ" /\ cmd.arg = 0)], cmd, rc)
      resp == IF y.resp = "" /\ y.ses.gen # x.ses.gen THEN "ERROR" ELSE y.resp
  IN  IF y.act # "continue_reading" \/ resp = "" THEN y
      ELSE [y EXCEPT !.ses = write(y.ses, resp)]

\* handle_command: "an error ends the line".
EndsLine(x, y) == y.act # "continue_reading" \/ y.ses.gen # x.ses.gen
handle_command(x, line, rc) ==
  LET after[i \in 0..Len(line)] ==
        IF i = 0 THEN [x |-> x, over |-> FALSE]
        ELSE LET before == after[i - 1]
                 y == handle_single_command(before.x, line[i], rc)
             IN  IF before.over THEN before ELSE [x |-> y, over |-> EndsLine(before.x, y)]
  IN  after[Len(line)].x
-----------------------------------------------------------------------------
(***************************************************************************)
(* The connection.                                                         *)
(***************************************************************************)
close_session(ses, cause) == [ses EXCEPT !.state = "closed", !.cause = IF @ = "none" THEN cause ELSE @]
\* Mutant: the connection goes at once.
MutClosesAtOnce(ses) == close_session(ses, "eof")
close_after_writes(ses) ==
  IF ses.write_in_progress \/ ses.write_queue # <<>>
    THEN [ses EXCEPT !.state = "eof", !.close_after_writes = TRUE]
    ELSE close_session(ses, "eof")
start_next_write(ses) ==
  CASE ses.write_queue # <<>> -> [ses EXCEPT !.write_in_progress = TRUE]
    [] ses.write_queue = <<>> /\ ses.close_after_writes ->
         close_session([ses EXCEPT !.write_in_progress = FALSE, !.close_after_writes = FALSE], "eof")
    [] OTHER -> [ses EXCEPT !.write_in_progress = FALSE]

Running == ~stopped_io
AcceptSession(s) ==
  /\ Running /\ session[s].state = "none"
  /\ session' = [session EXCEPT ![s] = NewSession]
  /\ UNCHANGED <<lastPlay, stopped_io, scpiLines>>

\* read: a complete line.
ReadLine(s, n, rc) ==
  LET line == ScpiLines(n)
      x == handle_command([ses |-> session[s], play |-> <<>>, resp |-> "", act |-> "continue_reading",
                           dirty |-> FALSE], line, rc)
  IN  /\ Running /\ session[s].state = "open" /\ scpiLines < MaxLines
      /\ scpiLines' = scpiLines + 1
      /\ session' = [session EXCEPT ![s] =
           IF x.act = "continue_reading" THEN x.ses ELSE close_session(x.ses, "client")]
      /\ lastPlay' = IF x.play = <<>> THEN lastPlay ELSE Last(x.play)
      /\ stopped_io' = (x.act = "stop_server")
Eof(s) ==
  /\ Running /\ session[s].state = "open"
  /\ session' = [session EXCEPT ![s] = close_after_writes(@)]
  /\ UNCHANGED <<lastPlay, stopped_io, scpiLines>>
\* "line too long", or a connection that was reset.
ReadError(s) ==
  /\ Running /\ session[s].state = "open"
  /\ session' = [session EXCEPT ![s] = close_session(@, "error")]
  /\ UNCHANGED <<lastPlay, stopped_io, scpiLines>>
WriteDone(s) ==
  /\ Running /\ session[s].state \in {"open", "eof"} /\ session[s].write_in_progress
  /\ session' = [session EXCEPT ![s] =
       start_next_write([session[s] EXCEPT
         !.delivered = Append(@, Head(session[s].write_queue)), !.write_queue = Tail(@)])]
  /\ UNCHANGED <<lastPlay, stopped_io, scpiLines>>
\* The write fails, or was cut short by the closing of the socket.
WriteFails(s) ==
  /\ Running /\ session[s].write_in_progress
  /\ session' = [session EXCEPT ![s] =
       close_session([session[s] EXCEPT !.write_queue = Tail(@), !.write_in_progress = FALSE],
                     "error")]
  /\ UNCHANGED <<lastPlay, stopped_io, scpiLines>>

ScpiInit ==
  /\ session = [s \in Sessions |-> NoSession]
  /\ lastPlay = [elements |-> 0, check |-> FALSE, dirty |-> FALSE]
  /\ stopped_io = FALSE /\ scpiLines = 0
ScpiNext ==
  \/ \E s \in Sessions : AcceptSession(s) \/ Eof(s) \/ ReadError(s) \/ WriteDone(s) \/ WriteFails(s)
  \/ \E s \in Sessions, n \in 1..NScpiLines, rc \in 0..2 : ReadLine(s, n, rc)
-----------------------------------------------------------------------------
(***************************************************************************)
(* Properties.                                                             *)
(***************************************************************************)
\* A client gets its replies in the order of its commands and loses none as
\* long as it does not end the session itself: when it has sent its last line and
\* closed its side, everything produced is delivered before the socket goes.
RepliesArrive ==
  \A s \in Sessions :
    /\ IsPrefix(session[s].delivered, session[s].produced)
    /\ session[s].state = "closed" /\ session[s].cause = "eof"
         => session[s].delivered = session[s].produced
    /\ session[s].state \in {"open", "eof"} =>
         session[s].delivered \o session[s].write_queue = session[s].produced

\* SEQ and STREAM on one line: a sequence that did not parse ends the line, so the
\* one loaded before it is never played in its place.
StaleNeverPlays == ~lastPlay.dirty

\* Together: every command of a session has its own effect and its own reply.
SessionsKept == RepliesArrive /\ StaleNeverPlays
=============================================================================
