----------------------------- MODULE LineServer -----------------------------
(***************************************************************************)
(* pptool's main (c++/pptool.cc) and the line server it may run beside a   *)
(* command (c++/ppserver.hh), whose lines go to Lua (c++/lua.hh).          *)
(*                                                                         *)
(* The server is a thread that blocks in accept and recv.  The main thread *)
(* stops it by raising a flag and closing, under it, the descriptors it    *)
(* finds in two atomic variables; then it joins the thread.                *)
(***************************************************************************)
EXTENDS Integers

CONSTANTS
  MainOptions(_),   \* command lines: server, udp, wait, ignore_errors, command
  NMainOptions,
  MaxClients        \* bound: connections, and lines of a client

VARIABLES
  mpc, exit_code, main_opts,         \* the main thread, its return code, its command line
  tpc,                   \* the server's thread
  stop_flag, listen_fd, client_fd,   \* members of LineServer
  listening, connection, \* the sockets: none, open or shut
  lfd, cfd,              \* the thread's local descriptors are open ones
  peer,                  \* the client: none, waiting, connected, gone
  clients                \* connections and lines so far

lineVars == <<mpc, exit_code, main_opts, tpc, stop_flag, listen_fd, client_fd, listening, connection,
              lfd, cfd, peer, clients>>
lineMain == <<mpc, exit_code, main_opts>>
lineFds == <<stop_flag, listen_fd, client_fd, listening, connection, lfd, cfd>>
lineClient == <<peer, clients>>

MainOpts == MainOptions(main_opts)

LineInit ==
  /\ mpc = "start" /\ exit_code = "RC_OK" /\ main_opts \in 1..NMainOptions
  /\ tpc = "none" /\ stop_flag = FALSE /\ listen_fd = FALSE /\ client_fd = FALSE
  /\ listening = "none" /\ connection = "none" /\ lfd = FALSE /\ cfd = FALSE
  /\ peer = "none" /\ clients = 0
-----------------------------------------------------------------------------
(***************************************************************************)
(* main.                                                                   *)
(***************************************************************************)
MainReturns(code) == mpc' = "exited" /\ exit_code' = code
StartServer ==
  /\ mpc = "start"
  /\ \/ /\ ~MainOpts.server /\ mpc' = "command" /\ UNCHANGED <<tpc, exit_code>>
     \/ /\ MainOpts.server /\ MainOpts.port > 65535 /\ MainReturns("RC_EXCEPTION") /\ UNCHANGED tpc
     \/ /\ MainOpts.server /\ MainOpts.port <= 65535 /\ mpc' = "ready" /\ tpc' = "bind" /\ UNCHANGED exit_code
  /\ UNCHANGED <<main_opts, lineFds, lineClient>>
\* ready.get: the thread has bound its socket, or passed its exception on.
Ready ==
  /\ mpc = "ready"
  /\ \/ tpc \notin {"bind", "bind_failed"} /\ mpc' = "command" /\ UNCHANGED exit_code
     \/ tpc = "bind_failed" /\ MainReturns("RC_EXCEPTION")
  /\ UNCHANGED <<main_opts, tpc, lineFds, lineClient>>

\* The command named by the program, and its exceptions.
outcome(name) ==
  CASE name = "unknown" -> {"RC_INVALID_ARG"}
    [] name = "streaming" -> {"RC_OK", "RC_ERROR", "RC_TIMEOUT", "RC_EXCEPTION", "throws"}
    [] OTHER -> {"RC_OK"}
Command ==
  /\ mpc = "command"
  /\ \E result \in outcome(MainOpts.command) :
       /\ exit_code' = IF result = "throws" THEN "RC_EXCEPTION" ELSE result
       /\ mpc' = CASE result = "throws" -> "unwind"       \* ~LineServer
                   [] result # "throws" /\ MainOpts.wait -> "wait"
                   [] OTHER -> "stop"
  /\ UNCHANGED <<main_opts, tpc, lineFds, lineClient>>

\* LineServer::stop: the flag, then the two descriptors, then the thread.
\* Mutant: the descriptors are closed and the flag is left down.
MutNoFlag == UNCHANGED stop_flag
raise_stop_flag == stop_flag' = MainOpts.server
Stop ==
  /\ mpc \in {"stop", "unwind"}
  /\ mpc' = IF mpc = "stop" THEN IF MainOpts.server THEN "close_listen" ELSE "delay"
                            ELSE IF MainOpts.server THEN "close_listen_u" ELSE "exited"
  /\ raise_stop_flag
  /\ UNCHANGED <<exit_code, main_opts, tpc, listen_fd, client_fd, listening, connection, lfd, cfd, lineClient>>
CloseListen ==
  /\ mpc \in {"close_listen", "close_listen_u"}
  /\ mpc' = IF mpc = "close_listen" THEN "close_client" ELSE "close_client_u"
  /\ listening' = IF listen_fd THEN "shut" ELSE listening
  /\ lfd' = IF listen_fd THEN FALSE ELSE lfd
  /\ listen_fd' = FALSE
  /\ UNCHANGED <<exit_code, main_opts, tpc, stop_flag, client_fd, connection, cfd, lineClient>>
CloseClient ==
  /\ mpc \in {"close_client", "close_client_u"}
  /\ mpc' = IF mpc = "close_client" THEN "join" ELSE "join_u"
  /\ connection' = IF client_fd THEN "shut" ELSE connection
  /\ cfd' = IF client_fd THEN FALSE ELSE cfd
  /\ client_fd' = FALSE
  /\ UNCHANGED <<exit_code, main_opts, tpc, stop_flag, listen_fd, listening, lfd, lineClient>>
Join ==
  /\ mpc \in {"join", "join_u"} /\ tpc = "done"
  /\ mpc' = IF mpc = "join" THEN "delay" ELSE "exited"
  /\ UNCHANGED <<exit_code, main_opts, tpc, lineFds, lineClient>>
\* The exit delay and -ignore-errors.
Exit ==
  /\ mpc = "delay"
  /\ MainReturns(IF MainOpts.ignore_errors THEN "RC_OK" ELSE exit_code)
  /\ UNCHANGED <<main_opts, tpc, lineFds, lineClient>>
-----------------------------------------------------------------------------
(***************************************************************************)
(* LineServer::run.                                                        *)
(***************************************************************************)
Bind ==
  /\ tpc = "bind"
  /\ \/ /\ tpc' = "accept"
        /\ listening' = "open" /\ lfd' = TRUE /\ listen_fd' = TRUE
        /\ UNCHANGED <<stop_flag, client_fd, connection, cfd>>
     \/ tpc' = "bind_failed" /\ UNCHANGED lineFds
  /\ UNCHANGED <<lineMain, lineClient>>

\* accept gives a connection, or fails once the socket is gone.
AcceptClient ==
  /\ tpc = "accept" /\ ~MainOpts.udp /\ lfd /\ peer = "waiting"
  /\ peer' = "connected" /\ connection' = "open" /\ cfd' = TRUE
  /\ tpc' = "store"
  /\ UNCHANGED <<lineMain, stop_flag, listen_fd, client_fd, listening, lfd, clients>>
AcceptFails ==
  /\ tpc = "accept" /\ ~MainOpts.udp /\ ~lfd
  /\ tpc' = "done"
  /\ UNCHANGED <<lineMain, lineFds, lineClient>>
StoreClient ==
  /\ tpc = "store"
  /\ client_fd' = TRUE /\ tpc' = "check"
  /\ UNCHANGED <<lineMain, stop_flag, listen_fd, listening, connection, lfd, cfd, lineClient>>
\* read_lines_from_stream: the flag, then a blocking recv.
CheckFlag ==
  /\ tpc = "check"
  /\ tpc' = IF stop_flag THEN "leave" ELSE "recv"
  /\ UNCHANGED <<lineMain, lineFds, lineClient>>
\* A chunk of lines goes to Lua, whose errors are caught line by line; a line
\* that is too long ends the connection, as does the end of the stream.
Recv ==
  /\ tpc = "recv"
  /\ \/ /\ connection = "shut" \/ peer = "gone"
        /\ tpc' = "leave" /\ UNCHANGED <<peer, clients>>
     \/ /\ connection = "open" /\ peer = "connected" /\ clients < MaxClients
        /\ clients' = clients + 1
        /\ tpc' \in {"check", "leave"} /\ UNCHANGED peer
  /\ UNCHANGED <<lineMain, lineFds>>
Leave ==
  /\ tpc = "leave"
  /\ client_fd' = FALSE /\ cfd' = FALSE
  /\ connection' = "none" /\ peer' = "none"
  /\ tpc' = "accept"
  /\ UNCHANGED <<lineMain, stop_flag, listen_fd, listening, lfd, clients>>
\* UDP: the same socket, no connection; the thread closes it itself when it sees
\* the flag first.
RecvUdp ==
  /\ tpc = "accept" /\ MainOpts.udp
  /\ \/ /\ stop_flag \/ ~lfd       \* or recvfrom throws
        /\ tpc' = "done" /\ UNCHANGED clients
        /\ listen_fd' = FALSE /\ lfd' = FALSE /\ listening' = "shut"
     \/ /\ ~stop_flag /\ lfd /\ clients < MaxClients
        /\ clients' = clients + 1 /\ UNCHANGED <<tpc, listen_fd, lfd, listening>>
  /\ UNCHANGED <<lineMain, stop_flag, client_fd, connection, cfd, peer>>

\* Clients come and go.
Connect ==
  /\ peer = "none" /\ clients < MaxClients /\ listening = "open" /\ ~MainOpts.udp
  /\ peer' = "waiting" /\ clients' = clients + 1
  /\ UNCHANGED <<lineMain, tpc, lineFds>>
HangUp ==
  /\ peer = "connected" /\ peer' = "gone"
  /\ UNCHANGED <<lineMain, tpc, lineFds, clients>>

MainThread == StartServer \/ Ready \/ Command \/ Stop \/ CloseListen \/ CloseClient \/ Join \/ Exit
ServerThread ==
  Bind \/ AcceptClient \/ AcceptFails \/ StoreClient \/ CheckFlag \/ Recv \/ Leave \/ RecvUdp
LineNext == MainThread \/ ServerThread \/ Connect \/ HangUp
-----------------------------------------------------------------------------
(***************************************************************************)
(* Properties.                                                             *)
(***************************************************************************)
\* Whatever the server's thread is blocked in when the command has ended, between
\* accept and the store of the descriptor included, the process ends; only -wait
\* keeps it, for nothing in the program sets exit_flag.
ProgramEnds == (mpc # "start") ~> (mpc \in {"exited", "wait"})
=============================================================================
