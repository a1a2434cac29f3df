-------------------------------- MODULE Nkat --------------------------------
(* nkat.c of Lab/4: a process that forks for each connection; the child     *)
(* turns the connection into the standard descriptors of the program that   *)
(* it executes. The state is the processes' descriptor tables.              *)
EXTENDS Integers, FiniteSets, FiniteSetsExt

CONSTANTS Client,  \* connections; the child of one has its name
          None

Parent  == "nkat"
Process == Client \cup {Parent}
Fd      == 0 .. 6  \* the parent never has more than five descriptors open

ASSUME NkatAssumption ==
  Client \cap {Parent, None, "tty", "listen"} = {} /\ None \notin {"tty", "listen"}

VARIABLES file,     \* what a descriptor of a process refers to
          cloexec,  \* descriptors closed by a successful exec
          step,     \* next step of a process
          conn,     \* client that the parent has accepted last
          connfd,   \* its descriptor, as the process knows it
          wrote     \* where the error messages of children have gone

NkatVars == <<file, cloexec, step, conn, connfd, wrote>>

listenfd  == 3
Holds(p)  == {file[p][fd] : fd \in Fd} \ {None}
Free(p)   == Min({fd \in Fd : file[p][fd] = None})

(* A new descriptor, and a number that is free again, is not close-on-exec. *)
Open(p, fd, f) ==
  /\ file' = [file EXCEPT ![p][fd] = f]
  /\ cloexec' = [cloexec EXCEPT ![p] = @ \ {fd}]

CloseFd(p, fd) == Open(p, fd, None)

Goto(p, l) == step' = [step EXCEPT ![p] = l]

-----------------------------------------------------------------------------
(* The parent.                                                              *)

Accept(c) ==
  /\ step[Parent] = "accept" /\ step[c] = "waiting"
  /\ Open(Parent, Free(Parent), c)
  /\ conn' = c /\ connfd' = [connfd EXCEPT ![Parent] = Free(Parent)]
  /\ step' = [step EXCEPT ![Parent] = "fork", ![c] = "accepted"]
  /\ UNCHANGED <<wrote>>

Fork ==
  /\ step[Parent] = "fork"
  /\ file' = [file EXCEPT ![conn] = file[Parent]]
  /\ cloexec' = [cloexec EXCEPT ![conn] = cloexec[Parent]]
  /\ connfd' = [connfd EXCEPT ![conn] = connfd[Parent]]
  /\ step' = [step EXCEPT ![Parent] = "close_connfd", ![conn] = "close_listenfd"]
  /\ UNCHANGED <<conn, wrote>>

(* A result of -1 is not 0: the parent goes on as after a fork.             *)
ForkFails ==
  /\ step[Parent] = "fork"
  /\ step' = [step EXCEPT ![Parent] = "close_connfd", ![conn] = "ended"]
  /\ UNCHANGED <<file, cloexec, conn, connfd, wrote>>

MutantParentClose ==   \* keeps the connection open
  /\ step[Parent] = "close_connfd"
  /\ Goto(Parent, "accept")
  /\ UNCHANGED <<file, cloexec, conn, connfd, wrote>>

ParentClose ==
  /\ step[Parent] = "close_connfd"
  /\ CloseFd(Parent, connfd[Parent])
  /\ Goto(Parent, "accept")
  /\ UNCHANGED <<conn, connfd, wrote>>

-----------------------------------------------------------------------------
(* The child, from fork to exec.                                            *)

CloseListen(c) ==
  /\ step[c] = "close_listenfd"
  /\ CloseFd(c, listenfd)
  /\ Goto(c, "dup")
  /\ UNCHANGED <<conn, connfd, wrote>>

MutantDup(c) ==   \* without close-on-exec
  /\ step[c] = "dup"
  /\ Open(c, Free(c), file[c][2])
  /\ Goto(c, "dup2_0")
  /\ UNCHANGED <<conn, connfd, wrote>>

(* oldstderr gets the number of the listening socket.                       *)
oldstderr == listenfd

Dup(c) ==
  /\ step[c] = "dup"
  /\ file' = [file EXCEPT ![c][Free(c)] = file[c][2]]
  /\ cloexec' = [cloexec EXCEPT ![c] = @ \cup {Free(c)}]
  /\ Goto(c, "dup2_0")
  /\ UNCHANGED <<conn, connfd, wrote>>

AfterDup2 == [dup2_0 |-> "dup2_1", dup2_1 |-> "dup2_2", dup2_2 |-> "close_connfd"]
Target    == [dup2_0 |-> 0, dup2_1 |-> 1, dup2_2 |-> 2]

Dup2(c) ==
  /\ step[c] \in DOMAIN Target
  /\ Open(c, Target[step[c]], file[c][connfd[c]])
  /\ Goto(c, AfterDup2[step[c]])
  /\ UNCHANGED <<conn, connfd, wrote>>

ChildClose(c) ==
  /\ step[c] = "close_connfd"
  /\ CloseFd(c, connfd[c])
  /\ Goto(c, "exec")
  /\ UNCHANGED <<conn, connfd, wrote>>

Exec(c) ==
  /\ step[c] = "exec"
  /\ file' = [file EXCEPT ![c] = [fd \in Fd |-> IF fd \in cloexec[c] THEN None ELSE @[fd]]]
  /\ cloexec' = [cloexec EXCEPT ![c] = {}]
  /\ Goto(c, "program")
  /\ UNCHANGED <<conn, connfd, wrote>>

MutantExecFails(c) ==   \* reports before it restores the descriptor
  /\ step[c] = "exec"
  /\ wrote' = wrote \cup {file[c][2]}
  /\ Open(c, 2, file[c][oldstderr])
  /\ Goto(c, "exit")
  /\ UNCHANGED <<conn, connfd>>

(* The message goes to what was standard error before, and the child exits. *)
ExecFails(c) ==
  /\ step[c] = "exec"
  /\ Open(c, 2, file[c][oldstderr])
  /\ wrote' = wrote \cup {file'[c][2]}
  /\ Goto(c, "exit")
  /\ UNCHANGED <<conn, connfd>>

(* The child, or the program, exits; SIGCHLD is ignored, so that it is gone. *)
Exits(c) ==
  /\ step[c] \in {"exit", "program"}
  /\ file' = [file EXCEPT ![c] = [fd \in Fd |-> None]]
  /\ cloexec' = [cloexec EXCEPT ![c] = {}]
  /\ Goto(c, "ended")
  /\ UNCHANGED <<conn, connfd, wrote>>

-----------------------------------------------------------------------------

NkatInit ==
  /\ file = [p \in Process |-> [fd \in Fd |->
       IF p # Parent THEN None ELSE IF fd < 3 THEN "tty" ELSE IF fd = listenfd THEN "listen" ELSE None]]
  /\ cloexec = [p \in Process |-> IF p = Parent THEN {listenfd} ELSE {}]
  /\ step = [p \in Process |-> IF p = Parent THEN "accept" ELSE "waiting"]
  /\ conn = None /\ connfd = [p \in Process |-> 0] /\ wrote = {}

Child(c) ==
  \/ CloseListen(c) \/ Dup(c) \/ Dup2(c) \/ ChildClose(c)
  \/ Exec(c) \/ ExecFails(c) \/ Exits(c)

NkatNext ==
  \/ \E c \in Client : Accept(c) \/ Child(c)
  \/ Fork \/ ForkFails \/ ParentClose

NkatSpec == NkatInit /\ [][NkatNext]_NkatVars

(* The parent, whose calls return at once after accept, goes on.            *)
NkatFairSpec == NkatSpec /\ WF_NkatVars(Fork \/ ForkFails) /\ WF_NkatVars(ParentClose)

-----------------------------------------------------------------------------
(* Properties.                                                              *)

ParentStep == {"accept", "fork", "close_connfd"}
ChildStep  == {"waiting", "accepted", "close_listenfd", "dup", "dup2_0", "dup2_1", "dup2_2",
               "close_connfd", "exec", "program", "exit", "ended"}

(* Every variable has its type.                                             *)
NkatTypeOK ==
  /\ file \in [Process -> [Fd -> Client \cup {None, "tty", "listen"}]]
  /\ cloexec \in [Process -> SUBSET Fd]
  /\ step \in [Process -> ParentStep \cup ChildStep]
  /\ step[Parent] \in ParentStep /\ \A c \in Client : step[c] \in ChildStep
  /\ conn \in Client \cup {None}
  /\ connfd \in [Process -> Fd] /\ wrote \subseteq Client \cup {"tty"}

(* A program runs with its connection as standard input, output and error   *)
(* and with nothing else: neither the listening socket, nor nkat's terminal, *)
(* nor another client's connection.                                         *)
ProgramTable ==
  \A c \in Client : step[c] = "program" =>
    \A fd \in Fd : file[c][fd] = IF fd < 3 THEN c ELSE None

(* Lab/4/README.md: "you should not send the error message to the client".  *)
ErrorsNotSent == wrote \subseteq {"tty"}

(* When its program has ended nobody keeps the connection open, and the     *)
(* client sees its end.                                                     *)
EndSeen ==
  \A c \in Client : step[c] = "ended" ~> \A p \in Process : c \notin Holds(p)
=============================================================================
