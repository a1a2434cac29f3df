-------------------------- MODULE ThroughputClient --------------------------
(* client.cpp of Lab/6 and the server it measures. The client is run again  *)
(* and again, as test.sh does, and each run is ended by a SIGTERM, which    *)
(* may come at any point of it: the handler, leave, sends and reads on the  *)
(* same control connection as the code that it interrupts.                  *)
EXTENDS Throughput

CONSTANTS Runs  \* the connections of each run: [control, sinks], in order

(* Every run makes connections of its own.                                  *)
ASSUME ThroughputClientAssumption ==
  /\ Runs \in Seq([control : Control, sinks : Seq(Sink)]) /\ Runs # <<>>
  /\ \A i \in 1 .. Len(Runs) : Runs[i].sinks # <<>>
  /\ \A i, j \in 1 .. Len(Runs) : i # j =>
       /\ Runs[i].control # Runs[j].control
       /\ ToSet(Runs[i].sinks) \cap ToSet(Runs[j].sinks) = {}
  /\ {"/reset", "/report"} \subseteq Command

VARIABLES run, c_pc,
          used,    \* answers on the control connection that have been read
          cut,     \* what SIGTERM has interrupted
          shown    \* what leave has read for its report, and printed

client == <<run, c_pc, used, cut, shown>>
cvars  == <<vars, client>>

control == Runs[run].control
sinks   == Runs[run].sinks
Mine    == ToSet(sinks)

Goto(l) == c_pc' = l

ConnectControl ==
  /\ c_pc = "start" /\ Connect(control)
  /\ Goto("connect")
  /\ UNCHANGED <<run, used, cut, shown>>

ConnectSink ==
  /\ c_pc = "connect"
  /\ \E i \in DOMAIN sinks :
       /\ \A j \in DOMAIN sinks : (j < i) <=> (peer[sinks[j]] # "none")
       /\ Connect(sinks[i])
       /\ Goto(IF i = Len(sinks) THEN "reset" ELSE "connect")
  /\ UNCHANGED <<run, used, cut, shown>>

MutantSendReset ==   \* does not wait for the answer
  /\ c_pc = "reset" /\ Ask(control, "/reset")
  /\ Goto("sending")
  /\ UNCHANGED <<run, used, cut, shown>>

SendReset ==
  /\ c_pc = "reset" /\ Ask(control, "/reset")
  /\ Goto("read_reset")
  /\ UNCHANGED <<run, used, cut, shown>>

(* The answers that have come and have not been read.                       *)
Unread(k) == SubSeq(replies[control], used + 1, k)

MutantReadReset ==   \* does not wait for the answer either
  /\ c_pc = "read_reset"
  /\ \E k \in used .. Len(replies[control]) : used' = k
  /\ Goto("sending")
  /\ UNCHANGED <<vars, run, cut, shown>>

ReadReset ==
  /\ c_pc = "read_reset"
  /\ \E k \in used + 1 .. Len(replies[control]) : used' = k
  /\ Goto("sending")
  /\ UNCHANGED <<vars, run, cut, shown>>

(* MSG_DONTWAIT: as much of the buffer as there is room for.                *)
SendData ==
  /\ c_pc = "sending"
  /\ \E s \in Mine, n \in 1 .. Mss[sinks[1]] - HeaderSize : Write(s, n)
  /\ UNCHANGED client

(* SIGTERM. Until the control connection's number is stored it is 0, and    *)
(* leave reads its report from the standard input. The handler is not       *)
(* itself interrupted.                                                      *)
Sigterm ==
  /\ c_pc \in {"start", "connect", "reset", "read_reset", "sending"}
  /\ \/ c_pc # "start" /\ Goto("leave")
     \/ peer[sinks[1]] = "none" /\ Goto("stdin")
  /\ cut' = c_pc
  /\ UNCHANGED <<vars, run, used, shown>>

ReadStdin ==
  /\ c_pc = "stdin"
  /\ Goto("close")
  /\ UNCHANGED <<vars, run, used, cut, shown>>

SendReport ==
  /\ c_pc = "leave" /\ Ask(control, "/report")
  /\ Goto("read_report")
  /\ UNCHANGED <<run, used, cut, shown>>

ReadReport ==
  /\ c_pc = "read_report"
  /\ \E k \in used + 1 .. Len(replies[control]) :
       /\ shown' = Unread(k)
       /\ used' = k
  /\ Goto("close")
  /\ UNCHANGED <<vars, run, cut>>

(* The control connection first and then the others, one after another; the *)
(* exit closes what is left, which is nothing.                              *)
CloseNext ==
  /\ c_pc = "close"
  /\ \E i \in 0 .. Len(sinks) :
       LET c(j) == IF j = 0 THEN control ELSE sinks[j]
       IN  /\ \A j \in 0 .. Len(sinks) : j < i => peer[c(j)] # "open"
           /\ Close(c(i))
  /\ UNCHANGED client

Exit ==
  /\ c_pc = "close" /\ \A c \in Mine \cup {control} : peer[c] # "open"
  /\ Goto("exited")
  /\ UNCHANGED <<vars, run, used, cut, shown>>

NextRun ==
  /\ c_pc = "exited" /\ run < Len(Runs)
  /\ run' = run + 1 /\ used' = 0 /\ cut' = "" /\ shown' = <<>>
  /\ Goto("start")
  /\ UNCHANGED vars

-----------------------------------------------------------------------------

ClientInit == Init /\ run = 1 /\ c_pc = "start" /\ used = 0 /\ cut = "" /\ shown = <<>>

Client ==
  \/ ConnectControl \/ ConnectSink \/ SendReset \/ ReadReset \/ SendData
  \/ Sigterm \/ ReadStdin \/ SendReport \/ ReadReport \/ CloseNext \/ Exit \/ NextRun

ClientNext == Client \/ (Server /\ UNCHANGED client)

ClientSpec == ClientInit /\ [][ClientNext]_cvars

-----------------------------------------------------------------------------
(* Properties.                                                              *)

(* Every variable has its type.                                             *)
ClientTypeOK ==
  /\ TypeOK
  /\ run \in 1 .. Len(Runs)
  /\ c_pc \in {"start", "connect", "reset", "read_reset", "sending", "leave",
              "read_report", "stdin", "close", "exited"}
  /\ used \in 0 .. Len(replies[control])

(* Nothing of what a run has sent is lost from the counter that its report  *)
(* will show: neither its own reset nor one of a run that has ended comes   *)
(* after its data, although a reset waits for no one but its own client.    *)
OwnBytesCounted ==
  SumFunction([s \in Mine |-> written[s] - inbuf[s]]) <= recv_size

(* What the handler prints (client.cpp:45) is the answer to its own /report, *)
(* alone, and no other client has reset or will reset the counter below what *)
(* it says before this one is gone: unless it has interrupted the wait for   *)
(* the answer to /reset, which it then takes for its own.                    *)
ReportIsAnswer ==
  c_pc = "close" /\ shown # <<>> /\ cut # "read_reset" =>
    Len(shown) = 1 /\ shown[1][1] = "REPORT" /\ shown[1][2] <= recv_size

(* Lab/6/README.md: the client "closes all data sink connections" and then  *)
(* sends the /report command.                                               *)
SinksClosedBeforeReport ==
  c_pc = "read_report" => \A s \in Mine : peer[s] # "open"

(* Lab/6/README.md: "Send /report commands to the server and show the       *)
(* measured throughput": what is shown is an answer to /report.             *)
ReportShown ==
  c_pc = "close" /\ shown # <<>> => \E i \in DOMAIN shown : shown[i][1] = "REPORT"
=============================================================================
