------------------------------- MODULE TcpCbr -------------------------------
(* The two senders of Lab/3 that keep a constant bitrate. tcpcbr.c compares  *)
(* the clock with the time at which the next packet is due and sleeps;       *)
(* tcpcbr-rate.c compares the rate so far with the one asked for and sleeps  *)
(* a little while it is too high. Instead of a clock and a count, the model  *)
(* has what both computations come to: the lead of the bytes counted over    *)
(* those due by now, as the time in microseconds until they would be due.    *)
(* A packet's time is taken to be a whole number of microseconds.            *)
EXTENDS Integers

CONSTANTS Time,      \* packet_size / MBps, microseconds between packets
          Scale,     \* 1000, nanoseconds in a microsecond
          MaxNsec,   \* 10^9, from which tv_nsec is invalid
          Pause,     \* 100, the usleep of tcpcbr-rate.c
          Quick,     \* what a step takes when nothing disturbs it
          MaxStall,  \* what the scheduler and the receiver may add in all (bound)
          MaxUnsent  \* packets that may be counted and never sent (bound)

ASSUME TcpCbrAssumption ==
  /\ Time \in Nat \ {0} /\ Scale \in Nat \ {0} /\ MaxNsec \in Nat \ {0}
  /\ Pause \in Nat \ {0} /\ Quick \in Nat /\ MaxStall \in Nat /\ MaxUnsent \in Nat
  /\ Quick + Quick < Time

VARIABLES prog,    \* which of the programs this is
          pc,      \* "pacing", "counting", "sending" or "exited"
          lead,    \* time of the bytes counted in bytesent, less the elapsed time
          stall,   \* how much longer than Quick steps may still take
          unsent   \* packets counted that the kernel has not taken

vars == <<prog, pc, lead, stall, unsent>>

Program == {"tcpcbr", "tcpcbr-rate"}

(* At least t microseconds go by.                                            *)
Elapse(t) ==
  \E more \in 0 .. Quick + stall :
    /\ lead' = lead - t - more
    /\ stall' = IF more <= Quick THEN stall ELSE stall - (more - Quick)

MutantNap(wait) ==   \* a fixed pause instead of one that depends on the lead
  IF wait > 0 THEN 1 ELSE 0

MutantNapBehind(wait) ==   \* a lag is slept like a lead
  (IF wait < 0 THEN -wait ELSE wait) \div Scale

(* nanosleep for wait_time, which is in microseconds, taken for nanoseconds. *)
(* What is negative has become a huge unsigned number (or, on some machines, *)
(* zero); either that or a second and more is not slept.                     *)
Nap(wait) ==
  IF 0 < wait /\ wait < MaxNsec THEN wait \div Scale ELSE 0

-----------------------------------------------------------------------------
PaceByClock ==
  /\ prog = "tcpcbr" /\ pc = "pacing"
  /\ Elapse(Nap(lead))
  /\ pc' = "counting"
  /\ UNCHANGED <<prog, unsent>>

(* bytesent / d > MBps. With d = 0 the quotient is infinite, or not a number *)
(* while nothing is sent, which agrees with the sign of the lead.            *)
PaceByRate ==
  /\ prog = "tcpcbr-rate" /\ pc = "pacing"
  /\ IF lead > 0 THEN Elapse(Pause) /\ UNCHANGED pc
                 ELSE Elapse(0) /\ pc' = "counting"
  /\ UNCHANGED <<prog, unsent>>

(* bytesent += cursize + header_size, before the packet is sent.             *)
Count ==
  /\ pc = "counting"
  /\ lead' = lead + Time
  /\ unsent' = unsent + 1
  /\ pc' = "sending"
  /\ UNCHANGED <<prog, stall>>

(* MSG_DONTWAIT: with a full buffer nothing is sent and nobody is told.      *)
SendNow ==
  /\ prog = "tcpcbr" /\ pc = "sending"
  /\ Elapse(0)
  /\ unsent' \in {unsent - 1, unsent} \cap 0 .. MaxUnsent
  /\ pc' = "pacing"
  /\ UNCHANGED prog

(* Without it send waits for room.                                           *)
SendBlocking ==
  /\ prog = "tcpcbr-rate" /\ pc = "sending"
  /\ Elapse(0)
  /\ unsent' = unsent - 1
  /\ pc' = "pacing"
  /\ UNCHANGED prog

(* SIGINT or SIGTERM: the handler reports bytesent and exits.                *)
Signal ==
  /\ pc # "exited"
  /\ pc' = "exited"
  /\ UNCHANGED <<prog, lead, stall, unsent>>

Init ==
  /\ prog \in Program /\ pc = "pacing"
  /\ lead = 0 /\ stall = MaxStall /\ unsent = 0

Loop == PaceByClock \/ PaceByRate \/ Count \/ SendNow \/ SendBlocking

Next == Loop \/ Signal

Spec == Init /\ [][Next]_vars

(* The sender is scheduled; nobody has to stop it.                           *)
FairSpec == Spec /\ WF_vars(Loop)

-----------------------------------------------------------------------------
(* Properties.                                                               *)

(* Every variable has its type, and what is being sent is counted.           *)
TypeOK ==
  /\ prog \in Program /\ pc \in {"pacing", "counting", "sending", "exited"}
  /\ lead \in Int /\ stall \in 0 .. MaxStall /\ unsent \in Nat
  /\ pc = "sending" => unsent > 0

(* How far the sender may get ahead of the constant rate: tcpcbr.c sleeps    *)
(* only a thousandth of its lead (tcpcbr.c:87), so the lead grows until that *)
(* is a packet's time; tcpcbr-rate.c sends one packet too many.              *)
Ahead == IF prog = "tcpcbr" THEN Scale * Time ELSE Time

(* The rate asked for is kept: after any number of packets, whatever delays  *)
(* have come between, the sender is at most Ahead early; before a packet is  *)
(* counted there is room for it. That supposes a rate at which such a lead   *)
(* is less than a second in nanosleep's eyes (tcpcbr.c:88).                  *)
NeverFarAhead ==
  (prog = "tcpcbr" => Scale * Time < MaxNsec) =>
    lead <= Ahead - (IF pc = "counting" THEN Time ELSE 0)

(* It is late only as much as the machine and the receiver have held it up,  *)
(* besides one turn of the loop and, for tcpcbr-rate.c, one usleep: the      *)
(* unsigned difference of a late sender (tcpcbr.c:85) is never slept.        *)
LateOnlyByStalls ==
  lead >= stall - MaxStall - Quick
            - (IF prog = "tcpcbr" THEN 0 ELSE Pause + Quick - 1)

(* And it makes up for that: packets follow without a pause until none is    *)
(* overdue.                                                                  *)
CatchesUp == lead < 0 ~> (lead >= 0 \/ pc = "exited")

(* Lab/3/Constant-BitRate-TCP-Flow/tcpcbr.c:30: what the handler reports are *)
(* the "bytes sent".                                                         *)
ReportedAreSent == pc = "exited" => unsent = 0

(* Lab/3/README.md: the program "must control the data sending rate", which  *)
(* is its argument: also a rate so low that the lead of a sender that sleeps *)
(* too little is a second and more in nanosleep's eyes.                      *)
RateKept == lead <= Ahead
=============================================================================
