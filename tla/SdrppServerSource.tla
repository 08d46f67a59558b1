------------------------- MODULE SdrppServerSource -------------------------
(* The client of an SDR++ server, src/src/sdr/sdrpp_server_source.cpp: the  *)
(* GUI thread starts, stops and asks for sample rates, the worker reads the *)
(* stream and takes the list of rates out of the user interface the server  *)
(* describes.  The server is external: it obeys a command when it is sent   *)
(* and its answers arrive later, in order.  A rate is its index in the list *)
(* of rates; labels, sample formats and the centre frequency are left out.  *)
EXTENDS Integers, Sequences

CONSTANTS
  NumRates,     (* rates of the server                                      *)
  MaxPackets,   (* bound: packets under way                                 *)
  MaxConnects,  (* bound: connections                                       *)
  MaxAsks       (* bound: rates the user asks for                           *)

VARIABLES
  running,      (* running_                                                 *)
  sock,         (* sock_ holds a socket                                     *)
  thread,       (* thread_: none, recv (in recv), action (between parseUi's *)
                (* unlock and sendComboAction), ended (to be joined)        *)
  action,       (* rate of that action                                      *)
  combo,        (* srCurrentIdx_, 0 before a UI was parsed                  *)
  req,          (* reqSampleRate_, 0 for none                               *)
  rate,         (* sampleRate_, 0 for the default                           *)
  gpc,          (* GUI thread: idle, or in stop(): close, join; or crashed  *)
  wakes,        (* CLOSESOCK ends a recv: closesocket does, ::close does not *)
  net,          (* packets from the server                                  *)
  up, playing, serverRate,         (* the server, as the connection sees it *)
  connects, asks,
  asked,        (* history: the rate last asked for, 0 if none              *)
  overtaken     (* history: it was asked for while an action was to be sent *)

clientVars == <<running, sock, thread, action, combo, req, rate, gpc>>
serverVars == <<net, up, playing, serverRate>>
history == <<connects, asks, asked, overtaken>>
sdrppVars == <<clientVars, wakes, serverVars, history>>

Rates == 1 .. NumRates
UI(r) == [kind |-> "ui", rate |-> r]
SetRate(r) == [kind |-> "rate", rate |-> r]
IQ == [kind |-> "iq", rate |-> 0]
Disconnect == [kind |-> "disconnect", rate |-> 0]

SdrppInit ==
  /\ running = FALSE /\ sock = FALSE /\ thread = "none" /\ action = 0
  /\ combo = 0 /\ req = 0 /\ rate = 0 /\ gpc = "idle"
  /\ wakes \in BOOLEAN
  /\ net = <<>> /\ up = FALSE /\ playing = FALSE /\ serverRate = 1
  /\ connects = 0 /\ asks = 0 /\ asked = 0 /\ overtaken = FALSE

(* ------------------------------- server -------------------------------- *)
(* A UI action of the rate combo: the server says its rate, then its UI.    *)
Obeyed(r) ==
  IF up /\ sock THEN serverRate' = r /\ net' = net \o <<SetRate(r), UI(r)>>
                ELSE UNCHANGED <<serverRate, net>>

sendBaseband ==
  /\ up /\ playing /\ Len(net) < MaxPackets
  /\ net' = Append(net, IQ)
  /\ UNCHANGED <<clientVars, wakes, up, playing, serverRate, history>>

dropClient ==
  /\ up /\ up' = FALSE /\ playing' = FALSE
  /\ \/ UNCHANGED net
     \/ net' = Append(net, Disconnect)
  /\ UNCHANGED <<clientVars, wakes, serverRate, history>>

(* ----------------------------- GUI thread ------------------------------ *)
(* Start, offered when the source does not run.  A worker that ended by     *)
(* itself was not joined: assigning to its std::thread ends the process.    *)
start ==
  /\ gpc = "idle" /\ ~running /\ connects < MaxConnects
  /\ connects' = connects + 1
  /\ running' = TRUE /\ sock' = TRUE /\ up' = TRUE /\ playing' = TRUE
  /\ serverRate' \in Rates
  /\ net' = <<UI(serverRate'), UI(serverRate'), SetRate(serverRate')>>
  /\ asked' = req /\ overtaken' = FALSE
  /\ IF thread = "ended" THEN gpc' = "crashed" /\ UNCHANGED thread
                         ELSE thread' = "recv" /\ UNCHANGED gpc
  /\ UNCHANGED <<action, combo, req, rate, wakes, asks>>

(* CMD_STOP, then running_ is cleared.                                      *)
stop ==
  /\ gpc = "idle" /\ (running \/ sock)
  /\ gpc' = "close" /\ running' = FALSE /\ playing' = FALSE
  /\ UNCHANGED <<sock, thread, action, combo, req, rate, wakes, net, up, serverRate, history>>

SocketKept == sock                                                       (* mutant *)
SocketClosed == FALSE

stopClose ==
  /\ gpc = "close"
  /\ gpc' = "join" /\ sock' = SocketClosed
  /\ UNCHANGED <<running, thread, action, combo, req, rate, wakes, serverVars, history>>

stopJoin ==
  /\ gpc = "join" /\ thread \in {"none", "ended"}
  /\ gpc' = "idle" /\ thread' = "none"
  /\ UNCHANGED <<running, sock, action, combo, req, rate, wakes, serverVars, history>>

(* The combo box of the panel, shown while running once a list of rates is  *)
(* known, be it of an earlier connection.                                   *)
setSampleRate(r) ==
  /\ gpc = "idle" /\ running /\ combo # 0 /\ asks < MaxAsks
  /\ req' = r /\ Obeyed(r)
  /\ asks' = asks + 1 /\ asked' = r /\ overtaken' = (thread = "action")
  /\ UNCHANGED <<running, sock, thread, action, combo, rate, gpc, wakes, up, playing, connects>>

(* ------------------------------- worker -------------------------------- *)
WorkerOnly == UNCHANGED <<sock, gpc, wakes, up, playing, history>>
Ended == thread' = "ended" /\ running' = FALSE

RequestDropped(cur) == FALSE                                             (* mutant *)
MustApply(cur) == req # 0 /\ req # cur

(* parseUi up to its unlock: a request that the server's rate does not meet *)
(* becomes an action; either way it is spent.                               *)
parseUi(cur) ==
  /\ combo' = cur /\ req' = 0
  /\ IF MustApply(cur) THEN thread' = "action" /\ action' = req
                       ELSE UNCHANGED <<thread, action>>
  /\ UNCHANGED <<running, rate>>

(* Samples are converted and called back.                                   *)
handleBaseband == UNCHANGED <<running, thread, action, combo, req, rate>>

(* A packet, its header and payload; recvAll fails once stop() has closed   *)
(* the socket.                                                              *)
worker ==
  /\ thread = "recv" /\ net # <<>> /\ net' = Tail(net)
  /\ LET p == Head(net) IN
     \/ sock /\ p.kind = "ui" /\ parseUi(p.rate)
     \/ /\ sock /\ p.kind = "rate" /\ rate' = p.rate
        /\ UNCHANGED <<running, thread, action, combo, req>>
     \/ sock /\ p.kind = "iq" /\ handleBaseband
     \/ /\ ~sock \/ p.kind = "disconnect"
        /\ Ended /\ UNCHANGED <<action, combo, req, rate>>
  /\ UNCHANGED serverRate /\ WorkerOnly

(* recv returns without data: the server closed, or stop() did and the      *)
(* platform tells.                                                          *)
recvFails ==
  /\ thread = "recv" /\ ((net = <<>> /\ ~up) \/ (~sock /\ wakes))
  /\ Ended /\ UNCHANGED <<action, combo, req, rate, net, serverRate>> /\ WorkerOnly

sendComboAction ==
  /\ thread = "action" /\ Obeyed(action) /\ action' = 0
  /\ IF running THEN thread' = "recv" /\ UNCHANGED running ELSE Ended
  /\ UNCHANGED <<combo, req, rate>> /\ WorkerOnly

Worker == worker \/ recvFails \/ sendComboAction
Stop == stopClose \/ stopJoin

SdrppNext ==
  \/ sendBaseband \/ dropClient
  \/ start \/ stop \/ Stop \/ \E r \in Rates : setSampleRate(r)
  \/ Worker

SdrppSpec == SdrppInit /\ [][SdrppNext]_sdrppVars /\ WF_sdrppVars(Worker) /\ WF_sdrppVars(Stop)

(* ------------------------------ properties ----------------------------- *)
(* When nothing is under way any more, the server runs at the rate last     *)
(* asked for and the source says so, whatever answers to earlier requests   *)
(* came in between, and also if the connection of the request broke.  Only  *)
(* an action that parseUi had yet to send when the user asked undoes it.    *)
RateAsAsked ==
  running /\ up /\ gpc = "idle" /\ thread = "recv" /\ net = <<>> /\ asked # 0 /\ ~overtaken
  => serverRate = asked /\ combo = asked /\ rate = asked

(* stop() returns, unless the platform does not end a recv with the close   *)
(* and the server has nothing more to say.                                  *)
Stranded == ~wakes /\ thread = "recv" /\ net = <<>> /\ up
StopReturns == gpc = "join" ~> (gpc = "idle" \/ Stranded)
====
