----------------------------- MODULE LabProofs ------------------------------
(* The proofs about the three small programs of Labs 3, 4 and 9. They do not *)
(* interact; their modules have no name in common.                           *)
EXTENDS TcpCbr, Nkat, Sudoku, WellFoundedInduction, TLAPS

-----------------------------------------------------------------------------
(* Nkat: the descriptor tables from fork to exec, for any set of clients.    *)

(* The parent has its terminal, the listening socket and, until it has       *)
(* closed it, the connection that it has accepted, at 4. A child has put its *)
(* connection in the place of the first Placed of the standard descriptors,  *)
(* and from dup on its terminal is at 3.                                     *)
Placed(c) ==
  CASE step[c] = "dup2_1" -> 1
    [] step[c] = "dup2_2" -> 2
    [] step[c] \in {"close_connfd", "exec", "program"} -> 3
    [] OTHER -> 0

Third(c) ==
  CASE step[c] = "close_listenfd" -> "listen"
    [] step[c] \in {"dup", "program"} -> None
    [] OTHER -> "tty"

Fourth(c) == IF step[c] \in {"exec", "program"} THEN None ELSE c

Table(c, placed, third, fourth) ==
  [fd \in Fd |-> IF fd < placed THEN c ELSE IF fd < 3 THEN "tty"
                 ELSE IF fd = 3 THEN third ELSE IF fd = 4 THEN fourth ELSE None]

ParentTable ==
  /\ file[Parent] = Table(None, 0, "listen", IF step[Parent] = "accept" THEN None ELSE conn)
  /\ cloexec[Parent] = {listenfd}
  /\ step[Parent] # "accept" => conn \in Client /\ connfd[Parent] = 4

ChildTable(c) ==
  step[c] \notin {"waiting", "accepted", "exit", "ended"} =>
    /\ file[c] = Table(c, Placed(c), Third(c), Fourth(c))
    /\ cloexec[c] = IF step[c] \in {"dup", "program"} THEN {} ELSE {listenfd}
    /\ connfd[c] = 4

TablesInv == ParentTable /\ \A c \in Client : ChildTable(c)

(* The number that accept and dup give: the least that is not in use.        *)
LEMMA FreeIs ==
  ASSUME NEW p, NEW n \in Fd, file[p][n] = None,
         \A fd \in Fd : fd < n => file[p][fd] # None
  PROVE  Free(p) = n
<1> DEFINE S == {fd \in Fd : file[p][fd] = None}
<1>1. n \in S /\ \A fd \in S : n <= fd
  BY DEF Fd
<1>2. S \subseteq Nat
  BY DEF Fd
<1> HIDE DEF S
<1>3. Min(S) \in S /\ \A fd \in S : Min(S) <= fd
  BY <1>1 DEF Min
<1>4. Min(S) = n
  <2>1. n <= Min(S) /\ Min(S) <= n /\ Min(S) \in Nat /\ n \in Nat
    BY <1>1, <1>2, <1>3
  <2> QED BY ONLY <2>1
<1> QED BY <1>4 DEF Free, S

(* Clients, nkat and what its descriptors refer to are distinct.             *)
LEMMA Names ==
  /\ \A c \in Client : c \notin {Parent, None, "tty", "listen"} /\ c \in Process
  /\ Parent \in Process /\ None \notin {"tty", "listen"} /\ Parent \notin Client
  /\ Process = Client \cup {Parent}
BY NkatAssumption DEF NkatAssumption, Process

File == Client \cup {None, "tty", "listen"}

(* A table refers to what there is.                                          *)
LEMMA TableType ==
  ASSUME NEW c \in Client \cup {None}, NEW placed, NEW third \in File, NEW fourth \in File
  PROVE  Table(c, placed, third, fourth) \in [Fd -> File]
BY DEF Table, File

(* A child that a step does not concern keeps its table.                     *)
LEMMA OthersKeep ==
  ASSUME NEW c \in Client, ChildTable(c),
         file'[c] = file[c], cloexec'[c] = cloexec[c], step'[c] = step[c], connfd'[c] = connfd[c]
  PROVE  ChildTable(c)'
BY DEF ChildTable, Placed, Third, Fourth, Table

NkatInv == NkatTypeOK /\ TablesInv /\ ErrorsNotSent

(* nkat begins with its terminal and the listening socket.                   *)
LEMMA NkatStart == NkatInit => NkatInv
<1> SUFFICES ASSUME NkatInit PROVE NkatInv
  OBVIOUS
<1>1. NkatTypeOK
  BY Names DEF NkatInit, NkatTypeOK, ParentStep, ChildStep, Fd, listenfd
<1>2. ParentTable
  BY Names DEF NkatInit, ParentTable, Table, Fd, listenfd
<1>3. \A c \in Client : ChildTable(c)
  BY Names DEF NkatInit, ChildTable
<1>4. ErrorsNotSent
  BY DEF NkatInit, ErrorsNotSent
<1> QED BY <1>1, <1>2, <1>3, <1>4 DEF NkatInv, TablesInv

(* accept gives the connection the number 4.                                 *)
LEMMA AcceptStep ==
  ASSUME NkatInv, NEW c \in Client, Accept(c)
  PROVE  NkatInv'
<1>1. /\ step[Parent] = "accept" /\ step[c] = "waiting" /\ conn' = c /\ wrote' = wrote
      /\ file' = [file EXCEPT ![Parent][Free(Parent)] = c]
      /\ cloexec' = [cloexec EXCEPT ![Parent] = @ \ {Free(Parent)}]
      /\ connfd' = [connfd EXCEPT ![Parent] = Free(Parent)]
      /\ step' = [step EXCEPT ![Parent] = "fork", ![c] = "accepted"]
  BY DEF Accept, Open
<1>2. /\ file \in [Process -> [Fd -> File]] /\ cloexec \in [Process -> SUBSET Fd]
      /\ connfd \in [Process -> Fd] /\ DOMAIN step = Process
  BY DEF NkatInv, NkatTypeOK, File
<1>3. \A fd \in Fd : file[Parent][fd] = IF fd < 3 THEN "tty" ELSE IF fd = 3 THEN "listen" ELSE None
  BY <1>1 DEF NkatInv, TablesInv, ParentTable, Table, Fd
<1>4. Free(Parent) = 4
  <2>1. 4 \in Fd /\ file[Parent][4] = None
    BY <1>3 DEF Fd
  <2>2. \A fd \in Fd : fd < 4 => file[Parent][fd] # None
    BY <1>3, Names DEF Fd
  <2> QED BY <2>1, <2>2, FreeIs
<1>5. file'[Parent] = Table(None, 0, "listen", c)
  <2>1. file'[Parent] = [file[Parent] EXCEPT ![4] = c]
    BY <1>1, <1>2, <1>4, Names
  <2>2. [file[Parent] EXCEPT ![4] = c] = Table(None, 0, "listen", c)
    BY <1>2, <1>3, Names DEF Table, Fd
  <2> QED BY <2>1, <2>2
<1>6. \A d \in Client : file'[d] = file[d] /\ cloexec'[d] = cloexec[d] /\ connfd'[d] = connfd[d]
                        /\ step'[d] = IF d = c THEN "accepted" ELSE step[d]
  BY <1>1, <1>2, Names
<1>7. step'[Parent] = "fork"
  BY <1>1, <1>2, Names
<1>8. NkatTypeOK'
  <2>1. file' \in [Process -> [Fd -> File]]
    BY <1>1, <1>2, <1>4, Names DEF File, Fd
  <2>2. cloexec' \in [Process -> SUBSET Fd] /\ connfd' \in [Process -> Fd]
    <3>1. 4 \in Fd
      BY DEF Fd
    <3> QED BY <1>1, <1>2, <1>4, <3>1, Names
  <2>3. step' \in [Process -> ParentStep \cup ChildStep]
    BY <1>1 DEF NkatInv, NkatTypeOK, ParentStep, ChildStep
  <2>4. \A d \in Client : step'[d] \in ChildStep
    BY <1>6 DEF NkatInv, NkatTypeOK, ChildStep
  <2> QED BY <1>1, <1>7, <2>1, <2>2, <2>3, <2>4 DEF NkatInv, NkatTypeOK, File, ParentStep
<1>9. ParentTable'
  <2>1. cloexec'[Parent] = {listenfd} /\ connfd'[Parent] = 4
    BY <1>1, <1>2, <1>4, Names DEF NkatInv, TablesInv, ParentTable, listenfd
  <2> QED BY <1>1, <1>5, <1>7, <2>1 DEF ParentTable, Table, listenfd
<1>10. ASSUME NEW d \in Client PROVE ChildTable(d)'
  <2>1. CASE d = c
    BY <1>6, <2>1 DEF ChildTable
  <2>2. CASE d # c
    BY <1>6, <2>2, OthersKeep DEF NkatInv, TablesInv
  <2> QED BY <2>1, <2>2
<1> QED BY <1>1, <1>8, <1>9, <1>10 DEF NkatInv, TablesInv, ErrorsNotSent

(* The child has the parent's descriptors, and the parent keeps them.        *)
LEMMA ForkStep ==
  ASSUME NkatInv, Fork
  PROVE  NkatInv'
<1>1. /\ step[Parent] = "fork" /\ conn' = conn /\ wrote' = wrote
      /\ file' = [file EXCEPT ![conn] = file[Parent]]
      /\ cloexec' = [cloexec EXCEPT ![conn] = cloexec[Parent]]
      /\ connfd' = [connfd EXCEPT ![conn] = connfd[Parent]]
      /\ step' = [step EXCEPT ![Parent] = "close_connfd", ![conn] = "close_listenfd"]
  BY DEF Fork
<1>2. /\ file \in [Process -> [Fd -> File]] /\ cloexec \in [Process -> SUBSET Fd]
      /\ connfd \in [Process -> Fd] /\ DOMAIN step = Process
  BY DEF NkatInv, NkatTypeOK, File
<1>3. /\ conn \in Client /\ connfd[Parent] = 4 /\ cloexec[Parent] = {listenfd}
      /\ file[Parent] = Table(None, 0, "listen", conn)
  BY <1>1 DEF NkatInv, TablesInv, ParentTable
<1>4. /\ file'[Parent] = file[Parent] /\ cloexec'[Parent] = cloexec[Parent]
      /\ connfd'[Parent] = connfd[Parent] /\ step'[Parent] = "close_connfd"
  BY <1>1, <1>2, <1>3, Names
<1>5. \A d \in Client \ {conn} :
        file'[d] = file[d] /\ cloexec'[d] = cloexec[d] /\ connfd'[d] = connfd[d] /\ step'[d] = step[d]
  BY <1>1, <1>2, <1>3, Names
<1>6. /\ file'[conn] = file[Parent] /\ cloexec'[conn] = {listenfd} /\ connfd'[conn] = 4
      /\ step'[conn] = "close_listenfd"
  BY <1>1, <1>2, <1>3, Names
<1>7. NkatTypeOK'
  <2>1. file' \in [Process -> [Fd -> File]]
    BY <1>1, <1>2, Names
  <2>2. cloexec' \in [Process -> SUBSET Fd] /\ connfd' \in [Process -> Fd]
    BY <1>1, <1>2, Names
  <2>3. step' \in [Process -> ParentStep \cup ChildStep]
    BY <1>1 DEF NkatInv, NkatTypeOK, ParentStep, ChildStep
  <2>4. \A d \in Client : step'[d] \in ChildStep
    BY <1>5, <1>6 DEF NkatInv, NkatTypeOK, ChildStep
  <2> QED BY <1>1, <1>4, <2>1, <2>2, <2>3, <2>4 DEF NkatInv, NkatTypeOK, File, ParentStep
<1>8. ParentTable'
  BY <1>1, <1>3, <1>4 DEF ParentTable, Table, listenfd
<1>9. ASSUME NEW d \in Client PROVE ChildTable(d)'
  <2>1. CASE d = conn
    <3>1. file'[d] = Table(d, 0, "listen", d)
      BY <1>3, <1>6, <2>1 DEF Table, Fd
    <3> QED BY <1>6, <2>1, <3>1 DEF ChildTable, Placed, Third, Fourth, Table, listenfd
  <2>2. CASE d # conn
    BY <1>5, <2>2, OthersKeep DEF NkatInv, TablesInv
  <2> QED BY <2>1, <2>2
<1> QED BY <1>1, <1>7, <1>8, <1>9 DEF NkatInv, TablesInv, ErrorsNotSent

(* The parent goes on, with or without a child, and closes the connection.   *)
LEMMA ParentStepsOn ==
  ASSUME NkatInv, ForkFails \/ ParentClose
  PROVE  NkatInv'
<1>1. CASE ForkFails
  <2>1. /\ step[Parent] = "fork" /\ UNCHANGED <<file, cloexec, conn, connfd, wrote>>
        /\ step' = [step EXCEPT ![Parent] = "close_connfd", ![conn] = "ended"]
    BY <1>1 DEF ForkFails
  <2>2. conn \in Client /\ DOMAIN step = Process
    BY <2>1 DEF NkatInv, NkatTypeOK, TablesInv, ParentTable
  <2>3. step'[Parent] = "close_connfd" /\ step'[conn] = "ended"
        /\ \A d \in Client \ {conn} : step'[d] = step[d]
    BY <2>1, <2>2, Names
  <2>4. NkatTypeOK'
    <3>1. step' \in [Process -> ParentStep \cup ChildStep]
      BY <2>1 DEF NkatInv, NkatTypeOK, ParentStep, ChildStep
    <3>2. \A d \in Client : step'[d] \in ChildStep
      BY <2>3 DEF NkatInv, NkatTypeOK, ChildStep
    <3> QED BY <2>1, <2>3, <3>1, <3>2 DEF NkatInv, NkatTypeOK, ParentStep
  <2>5. ParentTable'
    BY <2>1, <2>3 DEF NkatInv, TablesInv, ParentTable, Table, listenfd
  <2>6. ASSUME NEW d \in Client PROVE ChildTable(d)'
    <3>1. CASE d = conn
      BY <2>3, <3>1 DEF ChildTable
    <3>2. CASE d # conn
      BY <2>1, <2>3, <3>2, OthersKeep DEF NkatInv, TablesInv
    <3> QED BY <3>1, <3>2
  <2> QED BY <2>1, <2>4, <2>5, <2>6 DEF NkatInv, TablesInv, ErrorsNotSent
<1>2. CASE ParentClose
  <2>1. /\ step[Parent] = "close_connfd" /\ UNCHANGED <<conn, connfd, wrote>>
        /\ file' = [file EXCEPT ![Parent][connfd[Parent]] = None]
        /\ cloexec' = [cloexec EXCEPT ![Parent] = @ \ {connfd[Parent]}]
        /\ step' = [step EXCEPT ![Parent] = "accept"]
    BY <1>2 DEF ParentClose, CloseFd, Open, Goto
  <2>2. /\ connfd[Parent] = 4 /\ cloexec[Parent] = {listenfd} /\ conn \in Client
        /\ file[Parent] = Table(None, 0, "listen", conn)
    BY <2>1 DEF NkatInv, TablesInv, ParentTable
  <2>3. /\ file \in [Process -> [Fd -> File]] /\ cloexec \in [Process -> SUBSET Fd]
        /\ DOMAIN step = Process
    BY DEF NkatInv, NkatTypeOK, File
  <2>4. file'[Parent] = [file[Parent] EXCEPT ![4] = None] /\ cloexec'[Parent] = {listenfd}
        /\ step'[Parent] = "accept"
    BY <2>1, <2>2, <2>3, Names DEF listenfd
  <2>5. \A d \in Client : file'[d] = file[d] /\ cloexec'[d] = cloexec[d] /\ step'[d] = step[d]
    BY <2>1, <2>3, Names
  <2>6. NkatTypeOK'
    <3>1. file' \in [Process -> [Fd -> File]] /\ cloexec' \in [Process -> SUBSET Fd]
      BY <2>1, <2>2, <2>3, Names DEF File, Fd
    <3>2. step' \in [Process -> ParentStep \cup ChildStep]
      BY <2>1 DEF NkatInv, NkatTypeOK, ParentStep, ChildStep
    <3> QED BY <2>1, <2>4, <2>5, <3>1, <3>2 DEF NkatInv, NkatTypeOK, File, ParentStep
  <2>7. ParentTable'
    <3>1. file'[Parent] = Table(None, 0, "listen", None)
      BY <2>2, <2>4 DEF Table, Fd
    <3> QED BY <2>4, <3>1 DEF ParentTable, Table, listenfd
  <2>8. \A d \in Client : ChildTable(d)'
    BY <2>1, <2>5, OthersKeep DEF NkatInv, TablesInv
  <2> QED BY <2>1, <2>6, <2>7, <2>8 DEF NkatInv, TablesInv, ErrorsNotSent
<1> QED BY <1>1, <1>2

-----------------------------------------------------------------------------
(* A child's step changes its own row of the state only.                     *)
OwnRow(c, f, x, l) ==
  /\ file' = [file EXCEPT ![c] = f] /\ cloexec' = [cloexec EXCEPT ![c] = x]
  /\ step' = [step EXCEPT ![c] = l] /\ UNCHANGED <<conn, connfd>>

(* Such a step keeps the invariant if the child's new row is right.          *)
LEMMA ChildKeeps ==
  ASSUME NkatInv, NEW c \in Client, NEW f \in [Fd -> File], NEW x \in SUBSET Fd,
         NEW l \in ChildStep, OwnRow(c, f, x, l), wrote' \subseteq {"tty"},
         l \notin {"exit", "ended"} =>
           /\ f = Table(c, Placed(c), Third(c), Fourth(c))'
           /\ x = IF l \in {"dup", "program"} THEN {} ELSE {listenfd}
           /\ connfd[c] = 4
  PROVE  NkatInv'
<1>1. /\ file \in [Process -> [Fd -> File]] /\ cloexec \in [Process -> SUBSET Fd]
      /\ step \in [Process -> ParentStep \cup ChildStep]
  BY DEF NkatInv, NkatTypeOK, File
<1>2. file'[c] = f /\ cloexec'[c] = x /\ step'[c] = l
  BY <1>1, Names DEF OwnRow
<1>3. \A d \in Process \ {c} : file'[d] = file[d] /\ cloexec'[d] = cloexec[d] /\ step'[d] = step[d]
  BY <1>1 DEF OwnRow
<1>4. conn' = conn /\ connfd' = connfd
  BY DEF OwnRow
<1>5. NkatTypeOK'
  <2>1. file' \in [Process -> [Fd -> File]] /\ cloexec' \in [Process -> SUBSET Fd]
    BY <1>1 DEF OwnRow
  <2>2. step' \in [Process -> ParentStep \cup ChildStep]
    BY <1>1 DEF OwnRow
  <2>3. step'[Parent] \in ParentStep /\ \A d \in Client : step'[d] \in ChildStep
    BY <1>2, <1>3, Names DEF NkatInv, NkatTypeOK
  <2> QED BY <1>4, <2>1, <2>2, <2>3 DEF NkatInv, NkatTypeOK, File
<1>6. ParentTable'
  BY <1>3, <1>4, Names DEF NkatInv, TablesInv, ParentTable, Table, listenfd
<1>7. ASSUME NEW d \in Client PROVE ChildTable(d)'
  <2>1. CASE d = c
    BY <1>2, <1>4, <2>1 DEF ChildTable, listenfd
  <2>2. CASE d # c
    BY <1>3, <1>4, <2>2, Names, OthersKeep DEF NkatInv, TablesInv
  <2> QED BY <2>1, <2>2
<1> QED BY <1>5, <1>6, <1>7 DEF NkatInv, TablesInv, ErrorsNotSent

(* The number 3 becomes free, for the copy of standard error.                *)
LEMMA CloseListenStep ==
  ASSUME NkatInv, NEW c \in Client, CloseListen(c)
  PROVE  NkatInv'
<1>1. /\ step[c] = "close_listenfd" /\ UNCHANGED <<conn, connfd, wrote>>
      /\ file' = [file EXCEPT ![c][listenfd] = None]
      /\ cloexec' = [cloexec EXCEPT ![c] = @ \ {listenfd}]
      /\ step' = [step EXCEPT ![c] = "dup"]
  BY DEF CloseListen, CloseFd, Open, Goto
<1>2. /\ file \in [Process -> [Fd -> File]] /\ DOMAIN cloexec = Process /\ DOMAIN step = Process
  BY DEF NkatInv, NkatTypeOK, File
<1>3. file[c] = Table(c, 0, "listen", c) /\ cloexec[c] = {listenfd} /\ connfd[c] = 4
  BY <1>1 DEF NkatInv, TablesInv, ChildTable, Placed, Third, Fourth
<1> DEFINE f == [file[c] EXCEPT ![listenfd] = None]
<1>4. f = Table(c, 0, None, c)
  BY <1>3 DEF Table, Fd, listenfd
<1>5. Table(c, 0, None, c) \in [Fd -> File]
  BY TableType DEF File
<1>6. OwnRow(c, f, {}, "dup")
  BY <1>1, <1>2, <1>3, Names DEF OwnRow
<1>7. step'[c] = "dup"
  BY <1>1, <1>2, Names
<1>8. Table(c, Placed(c), Third(c), Fourth(c))' = Table(c, 0, None, c)
  BY <1>7 DEF Placed, Third, Fourth, Table
<1> HIDE DEF f
<1> QED BY <1>1, <1>3, <1>4, <1>5, <1>6, <1>8, ChildKeeps DEF ChildStep, NkatInv, ErrorsNotSent

(* The copy of standard error is at 3, close-on-exec.                        *)
LEMMA DupStep ==
  ASSUME NkatInv, NEW c \in Client, Dup(c)
  PROVE  NkatInv'
<1>1. /\ step[c] = "dup" /\ UNCHANGED <<conn, connfd, wrote>>
      /\ file' = [file EXCEPT ![c][Free(c)] = file[c][2]]
      /\ cloexec' = [cloexec EXCEPT ![c] = @ \cup {Free(c)}]
      /\ step' = [step EXCEPT ![c] = "dup2_0"]
  BY DEF Dup, Goto
<1>2. /\ file \in [Process -> [Fd -> File]] /\ DOMAIN cloexec = Process /\ DOMAIN step = Process
  BY DEF NkatInv, NkatTypeOK, File
<1>3. file[c] = Table(c, 0, None, c) /\ cloexec[c] = {} /\ connfd[c] = 4
  BY <1>1 DEF NkatInv, TablesInv, ChildTable, Placed, Third, Fourth
<1>4. Free(c) = 3 /\ file[c][2] = "tty"
  <2>1. /\ 3 \in Fd /\ file[c][3] = None /\ file[c][2] = "tty"
        /\ \A fd \in Fd : fd < 3 => file[c][fd] = "tty"
    BY <1>3 DEF Table, Fd
  <2>2. \A fd \in Fd : fd < 3 => file[c][fd] # None
    BY <2>1, Names
  <2> QED BY <2>1, <2>2, FreeIs
<1> DEFINE f == [file[c] EXCEPT ![3] = "tty"]
<1>5. f = Table(c, 0, "tty", c)
  BY <1>3 DEF Table, Fd
<1>6. Table(c, 0, "tty", c) \in [Fd -> File]
  BY TableType DEF File
<1>7. OwnRow(c, f, {listenfd}, "dup2_0")
  BY <1>1, <1>2, <1>3, <1>4, Names DEF OwnRow, listenfd
<1>8. step'[c] = "dup2_0"
  BY <1>1, <1>2, Names
<1>9. Table(c, Placed(c), Third(c), Fourth(c))' = Table(c, 0, "tty", c)
  BY <1>8 DEF Placed, Third, Fourth, Table
<1> HIDE DEF f
<1> QED BY <1>1, <1>3, <1>5, <1>6, <1>7, <1>9, ChildKeeps
    DEF ChildStep, Fd, listenfd, NkatInv, ErrorsNotSent

(* The connection takes the place of one more standard descriptor.           *)
LEMMA Dup2Step ==
  ASSUME NkatInv, NEW c \in Client, Dup2(c)
  PROVE  NkatInv'
<1>1. PICK n \in 0 .. 2 : step[c] = IF n = 0 THEN "dup2_0" ELSE IF n = 1 THEN "dup2_1" ELSE "dup2_2"
  BY DEF Dup2, Target
<1> DEFINE l == IF n = 0 THEN "dup2_1" ELSE IF n = 1 THEN "dup2_2" ELSE "close_connfd"
<1>2. Target[step[c]] = n /\ AfterDup2[step[c]] = l
  BY <1>1 DEF Target, AfterDup2
<1>3. /\ UNCHANGED <<conn, connfd, wrote>>
      /\ file' = [file EXCEPT ![c][n] = file[c][connfd[c]]]
      /\ cloexec' = [cloexec EXCEPT ![c] = @ \ {n}]
      /\ step' = [step EXCEPT ![c] = l]
  BY <1>2 DEF Dup2, Open, Goto
<1>4. /\ file \in [Process -> [Fd -> File]] /\ DOMAIN cloexec = Process /\ DOMAIN step = Process
  BY DEF NkatInv, NkatTypeOK, File
<1>5. file[c] = Table(c, n, "tty", c) /\ cloexec[c] = {listenfd} /\ connfd[c] = 4
  <2>1. ChildTable(c)
    BY DEF NkatInv, TablesInv
  <2>2. Placed(c) = n /\ Third(c) = "tty" /\ Fourth(c) = c
    BY <1>1 DEF Placed, Third, Fourth
  <2> QED BY <1>1, <2>1, <2>2 DEF ChildTable
<1>6. file[c][4] = c
  BY <1>5 DEF Table, Fd
<1> DEFINE f == [file[c] EXCEPT ![n] = c]
<1>7. f = Table(c, n + 1, "tty", c)
  BY <1>5 DEF Table, Fd
<1>8. Table(c, n + 1, "tty", c) \in [Fd -> File]
  BY TableType DEF File
<1>9. OwnRow(c, f, {listenfd}, l)
  <2>1. cloexec[c] \ {n} = {listenfd}
    BY <1>5 DEF listenfd
  <2> QED BY <1>3, <1>4, <1>5, <1>6, <2>1, Names DEF OwnRow
<1>10. step'[c] = l
  BY <1>3, <1>4, Names
<1>11. Table(c, Placed(c), Third(c), Fourth(c))' = Table(c, n + 1, "tty", c)
  BY <1>10 DEF Placed, Third, Fourth, Table
<1>12. l \in ChildStep /\ l \notin {"dup", "program"} /\ {listenfd} \in SUBSET Fd
  BY DEF ChildStep, listenfd, Fd
<1>13. wrote' \subseteq {"tty"}
  BY <1>3 DEF NkatInv, ErrorsNotSent
<1> HIDE DEF f, l
<1> QED BY <1>5, <1>7, <1>8, <1>9, <1>11, <1>12, <1>13, ChildKeeps

(* The connection stays open at 0, 1 and 2.                                  *)
LEMMA ChildCloseStep ==
  ASSUME NkatInv, NEW c \in Client, ChildClose(c)
  PROVE  NkatInv'
<1>1. /\ step[c] = "close_connfd" /\ UNCHANGED <<conn, connfd, wrote>>
      /\ file' = [file EXCEPT ![c][connfd[c]] = None]
      /\ cloexec' = [cloexec EXCEPT ![c] = @ \ {connfd[c]}]
      /\ step' = [step EXCEPT ![c] = "exec"]
  BY DEF ChildClose, CloseFd, Open, Goto
<1>2. /\ file \in [Process -> [Fd -> File]] /\ DOMAIN cloexec = Process /\ DOMAIN step = Process
  BY DEF NkatInv, NkatTypeOK, File
<1>3. file[c] = Table(c, 3, "tty", c) /\ cloexec[c] = {listenfd} /\ connfd[c] = 4
  BY <1>1 DEF NkatInv, TablesInv, ChildTable, Placed, Third, Fourth
<1> DEFINE f == [file[c] EXCEPT ![4] = None]
<1>4. f = Table(c, 3, "tty", None)
  BY <1>3 DEF Table, Fd
<1>5. Table(c, 3, "tty", None) \in [Fd -> File]
  BY TableType DEF File
<1>6. OwnRow(c, f, {listenfd}, "exec")
  <2>1. cloexec[c] \ {4} = {listenfd}
    BY <1>3 DEF listenfd
  <2> QED BY <1>1, <1>2, <1>3, <2>1, Names DEF OwnRow
<1>7. step'[c] = "exec"
  BY <1>1, <1>2, Names
<1>8. Table(c, Placed(c), Third(c), Fourth(c))' = Table(c, 3, "tty", None)
  BY <1>7 DEF Placed, Third, Fourth, Table
<1> HIDE DEF f
<1> QED BY <1>1, <1>3, <1>4, <1>5, <1>6, <1>8, ChildKeeps
    DEF ChildStep, Fd, listenfd, NkatInv, ErrorsNotSent

(* exec closes the copy of the terminal, and leaves the connection only.     *)
LEMMA ExecStep ==
  ASSUME NkatInv, NEW c \in Client, Exec(c)
  PROVE  NkatInv'
<1> DEFINE f == [fd \in Fd |-> IF fd \in cloexec[c] THEN None ELSE file[c][fd]]
<1>1. /\ step[c] = "exec" /\ UNCHANGED <<conn, connfd, wrote>>
      /\ file' = [file EXCEPT ![c] = f]
      /\ cloexec' = [cloexec EXCEPT ![c] = {}]
      /\ step' = [step EXCEPT ![c] = "program"]
  BY Names DEF Exec, Goto, NkatInv, NkatTypeOK
<1>2. DOMAIN file = Process /\ DOMAIN cloexec = Process /\ DOMAIN step = Process
  BY DEF NkatInv, NkatTypeOK
<1>3. file[c] = Table(c, 3, "tty", None) /\ cloexec[c] = {listenfd} /\ connfd[c] = 4
  BY <1>1 DEF NkatInv, TablesInv, ChildTable, Placed, Third, Fourth
<1>4. f = Table(c, 3, None, None)
  BY <1>3 DEF Table, Fd, listenfd
<1>5. Table(c, 3, None, None) \in [Fd -> File]
  BY TableType DEF File
<1>6. OwnRow(c, f, {}, "program")
  BY <1>1 DEF OwnRow
<1>7. step'[c] = "program"
  BY <1>1, <1>2, Names
<1>8. Table(c, Placed(c), Third(c), Fourth(c))' = Table(c, 3, None, None)
  BY <1>7 DEF Placed, Third, Fourth, Table
<1> HIDE DEF f
<1> QED BY <1>1, <1>3, <1>4, <1>5, <1>6, <1>8, ChildKeeps DEF ChildStep, NkatInv, ErrorsNotSent

(* When exec fails, standard error is the terminal again before it is used.  *)
LEMMA ExecFailsStep ==
  ASSUME NkatInv, NEW c \in Client, ExecFails(c)
  PROVE  NkatInv'
<1>1. /\ step[c] = "exec" /\ UNCHANGED <<conn, connfd>>
      /\ file' = [file EXCEPT ![c][2] = file[c][oldstderr]]
      /\ cloexec' = [cloexec EXCEPT ![c] = @ \ {2}]
      /\ wrote' = wrote \cup {file'[c][2]}
      /\ step' = [step EXCEPT ![c] = "exit"]
  BY DEF ExecFails, Open, Goto
<1>2. /\ file \in [Process -> [Fd -> File]] /\ cloexec \in [Process -> SUBSET Fd]
  BY DEF NkatInv, NkatTypeOK, File
<1>3. file[c][3] = "tty" /\ 2 \in Fd
  <2>1. file[c] = Table(c, 3, "tty", None)
    BY <1>1 DEF NkatInv, TablesInv, ChildTable, Placed, Third, Fourth
  <2> QED BY <2>1 DEF Table, Fd
<1> DEFINE f == [file[c] EXCEPT ![2] = "tty"]
           x == cloexec[c] \ {2}
<1>4. f \in [Fd -> File] /\ x \in SUBSET Fd
  BY <1>2, Names DEF File
<1>5. OwnRow(c, f, x, "exit")
  BY <1>1, <1>2, <1>3, Names DEF OwnRow, oldstderr, listenfd
<1>6. wrote' \subseteq {"tty"}
  <2>1. file'[c][2] = "tty"
    BY <1>2, <1>3, <1>5, Names DEF OwnRow
  <2> QED BY <1>1, <2>1 DEF NkatInv, ErrorsNotSent
<1> HIDE DEF f, x
<1> QED BY <1>4, <1>5, <1>6, ChildKeeps DEF ChildStep

(* A child that exits holds nothing.                                         *)
LEMMA ExitsStep ==
  ASSUME NkatInv, NEW c \in Client, Exits(c)
  PROVE  NkatInv'
<1> DEFINE f == [fd \in Fd |-> None]
<1>1. OwnRow(c, f, {}, "ended") /\ wrote' \subseteq {"tty"}
  BY DEF Exits, Goto, OwnRow, NkatInv, ErrorsNotSent
<1>2. f \in [Fd -> File]
  BY DEF File
<1> HIDE DEF f
<1> QED BY <1>1, <1>2, ChildKeeps DEF ChildStep

(* A step that leaves nkat's state alone keeps the invariant.                *)
LEMMA NkatStutter == NkatInv /\ UNCHANGED NkatVars => NkatInv'
<1> SUFFICES ASSUME NkatInv, UNCHANGED NkatVars PROVE NkatInv'
  OBVIOUS
<1>1. UNCHANGED <<file, cloexec, step, conn, connfd, wrote>>
  BY DEF NkatVars
<1>2. NkatTypeOK' /\ ErrorsNotSent'
  BY <1>1 DEF NkatInv, NkatTypeOK, ErrorsNotSent
<1>3. ParentTable'
  BY <1>1 DEF NkatInv, TablesInv, ParentTable, Table, listenfd
<1>4. \A c \in Client : ChildTable(c)'
  BY <1>1, OthersKeep DEF NkatInv, TablesInv
<1> QED BY <1>2, <1>3, <1>4 DEF NkatInv, TablesInv

(* The descriptor tables of the parent and of every child are as TablesInv   *)
(* says, and no message has gone elsewhere than to the terminal.             *)
THEOREM NkatInvariance == NkatSpec => []NkatInv
<1>1. NkatInv /\ [NkatNext]_NkatVars => NkatInv'
  BY AcceptStep, ForkStep, ParentStepsOn, CloseListenStep, DupStep, Dup2Step, ChildCloseStep,
     ExecStep, ExecFailsStep, ExitsStep, NkatStutter DEF NkatNext, Child
<1> QED BY <1>1, NkatStart, PTL DEF NkatSpec

(* A program runs with its own connection as its standard descriptors and    *)
(* with no other descriptor.                                                 *)
THEOREM ProgramTableHolds == NkatSpec => []ProgramTable
<1>1. ASSUME NkatInv PROVE ProgramTable
  <2> SUFFICES ASSUME NEW c \in Client, step[c] = "program", NEW fd \in Fd
               PROVE  file[c][fd] = IF fd < 3 THEN c ELSE None
    BY DEF ProgramTable
  <2>1. file[c] = Table(c, 3, None, None)
    BY <1>1 DEF NkatInv, TablesInv, ChildTable, Placed, Third, Fourth
  <2> QED BY <2>1 DEF Table, Fd
<1> QED BY <1>1, NkatInvariance, PTL

(* The error messages of a child whose exec fails go to nkat's terminal.     *)
THEOREM ErrorsNotSentHolds == NkatSpec => []ErrorsNotSent
BY NkatInvariance, PTL DEF NkatInv

-----------------------------------------------------------------------------
(* Sudoku: the search passes no solution, for every side of a block and      *)
(* every set of puzzles.                                                     *)

(* The board between calls: the puzzle's own digits stay, every empty cell   *)
(* before k has a digit, none after it has, and what is filled is valid. An  *)
(* empty cell that kept a digit would be passed over as one of the puzzle's. *)
SearchInv ==
  /\ \A c \in Cell : Given(c) => mp[c] = init[c]
  /\ at \in {"call", "next"} => \A c \in Cell : ~Given(c) =>
       (c < k => mp[c] # 0) /\ (c > k => mp[c] = 0) /\ (c = k /\ at = "call" => mp[c] = 0)
  /\ at = "next" => Valid([mp EXCEPT ![k] = 0])
  /\ at # "next" => Valid(mp)
  /\ at \in {"found", "checked"} => \A c \in Cell : mp[c] # 0
  /\ at = "checked" => Missing = {}

(* The solutions, as boards.                                                 *)
Solved == {[c \in Cell |-> IF Given(c) THEN init[c] ELSE f[c]] : f \in Solutions}

(* The boards are tried in the order of their digits, and no solution is     *)
(* before the one that is being tried: below k they agree, and its digit at  *)
(* k is still to come, or the first cell at which they differ is one whose   *)
(* loop has not come to the solution's digit yet.                            *)
Agrees(b, n) == \A c \in Cell : c < n => b[c] = mp[c]

ToCome(b) ==
  \/ Agrees(b, k) /\ (at = "next" => b[k] > mp[k])
  \/ \E c \in Cell : c < k /\ ~Given(c) /\ Agrees(b, c) /\ b[c] > mp[c]

NonePassed ==
  /\ at \in {"call", "next"} => \A b \in Solved : ToCome(b)
  /\ at = "fail" => Solved = {}

(* The least-number principle, for a set.                                    *)
LEMMA LeastElement ==
  ASSUME NEW S \in SUBSET Nat, S # {}
  PROVE  \E n \in S : \A m \in S : n <= m
<1> DEFINE R == OpToRel(<, Nat)
<1>1. IsWellFoundedOn(R, Nat)
  BY NatLessThanWellFounded
<1>2. \A x, y \in Nat : y < x => <<y, x>> \in R
  BY DEF OpToRel
<1> HIDE DEF R
<1>3. PICK x \in S : \A y \in S : ~ (<<y, x>> \in R)
  BY <1>1, WFMin
<1>4. ASSUME NEW y \in S PROVE x <= y
  <2>1. ~ (y < x)
    BY <1>2, <1>3
  <2> QED BY <2>1
<1> QED BY <1>4

(* Max of a bounded set: the cell to which a failing loop returns.           *)
LEMMA GreatestElement ==
  ASSUME NEW n \in Nat, NEW S \in SUBSET (0 .. n - 1), S # {}
  PROVE  Max(S) \in S /\ \A m \in S : m <= Max(S)
<1> DEFINE T == {n - 1 - m : m \in S}
<1>1. T \in SUBSET Nat /\ T # {}
  <2>1. ASSUME NEW m \in S PROVE n - 1 - m \in Nat
    <3>1. m \in 0 .. n - 1
      OBVIOUS
    <3> QED BY ONLY <3>1, n \in Nat
  <2>2. PICK m \in S : TRUE
    OBVIOUS
  <2>3. n - 1 - m \in T
    BY <2>2
  <2> QED BY <2>1, <2>3
<1> HIDE DEF T
<1>2. PICK t \in T : \A x \in T : t <= x
  BY <1>1, LeastElement
<1>3. PICK g \in S : t = n - 1 - g
  BY DEF T
<1>4. \A m \in S : g >= m
  <2> SUFFICES ASSUME NEW m \in S PROVE g >= m
    OBVIOUS
  <2>1. n - 1 - m \in T
    BY DEF T
  <2>2. t <= n - 1 - m
    BY <1>2, <2>1
  <2>3. g \in 0 .. n - 1 /\ m \in 0 .. n - 1
    OBVIOUS
  <2> QED BY ONLY <1>3, <2>2, <2>3
<1>5. Max(S) \in S /\ \A m \in S : Max(S) >= m
  BY <1>4 DEF Max
<1> QED BY <1>5

-----------------------------------------------------------------------------
(* Row a, column b of a table with n columns is a place of it.               *)
LEMMA Place ==
  ASSUME NEW m \in Nat, NEW n \in Nat, NEW a \in 0 .. m - 1, NEW b \in 0 .. n - 1
  PROVE  a * n + b \in 0 .. m * n - 1
<1>1. a + 1 <= m /\ a \in Nat /\ b \in Nat /\ b + 1 <= n
  OBVIOUS
<1>2. PICK d \in Nat : m = (a + 1) + d
  <2>1. m - (a + 1) \in Nat /\ m = (a + 1) + (m - (a + 1))
    BY <1>1
  <2> QED BY <2>1
<1>3. m * n = a * n + n + d * n
  BY <1>1, <1>2
<1>4. d * n \in Nat /\ a * n \in Nat
  BY <1>1
<1> QED BY <1>1, <1>3, <1>4

(* The board has cells, and they are numbered from 0.                        *)
LEMMA Cells == /\ B \in Nat \ {0} /\ N \in Nat \ {0} /\ End \in Nat \ {0}
               /\ Cell = 0 .. End - 1
<1>1. B \in Nat /\ B >= 1
  BY SudokuAssumption DEF SudokuAssumption
<1>2. B * B \in Nat /\ B * B >= 1
  BY <1>1
<1>3. N \in Nat /\ N >= 1
  BY <1>2 DEF N
<1>4. N * N \in Nat /\ N * N >= 1
  BY <1>3
<1> QED BY <1>1, <1>3, <1>4 DEF End, Cell

(* Rows, columns and blocks lie on the board.                                *)
LEMMA UnitCells == \A U \in Units : U \subseteq Cell
<1>1. \A i, j \in 0 .. N - 1 : i * N + j \in Cell
  <2> SUFFICES ASSUME NEW i \in 0 .. N - 1, NEW j \in 0 .. N - 1 PROVE i * N + j \in Cell
    OBVIOUS
  <2> DEFINE n == N
  <2>1. n \in Nat /\ i \in 0 .. n - 1 /\ j \in 0 .. n - 1 /\ Cell = 0 .. n * n - 1
    BY Cells DEF Cell
  <2> HIDE DEF n
  <2>2. i * n + j \in 0 .. n * n - 1
    BY <2>1, Place
  <2> QED BY <2>1, <2>2 DEF n
<1>2. \A i \in 0 .. N - 1, j \in 0 .. B - 1 :
        (i \div B) * B + j \in 0 .. N - 1 /\ (i % B) * B + j \in 0 .. N - 1
  <2> SUFFICES ASSUME NEW i \in 0 .. N - 1, NEW j \in 0 .. B - 1
               PROVE  (i \div B) * B + j \in 0 .. N - 1 /\ (i % B) * B + j \in 0 .. N - 1
    OBVIOUS
  <2> DEFINE q == i \div B
             r == i % B
  <2>1. B \in Nat \ {0} /\ i \in Nat /\ i <= B * B - 1 /\ N = B * B
    BY Cells DEF N
  <2>2. q \in Nat /\ r \in 0 .. B - 1 /\ i = B * q + r
    BY <2>1
  <2> HIDE DEF q, r
  <2>3. q <= B - 1
    <3> SUFFICES ASSUME q >= B PROVE FALSE
      BY <2>1, <2>2
    <3>1. PICK d \in Nat : q = B + d
      <4>1. q - B \in Nat /\ q = B + (q - B)
        BY <2>1, <2>2
      <4> QED BY <4>1
    <3>2. B * q = B * B + B * d /\ B * d \in Nat /\ B * B \in Nat
      BY <2>1, <3>1
    <3> QED BY <2>1, <2>2, <3>2
  <2>4. q \in 0 .. B - 1 /\ B \in Nat
    BY <2>1, <2>2, <2>3
  <2>5. q * B + j \in 0 .. B * B - 1 /\ r * B + j \in 0 .. B * B - 1
    BY <2>2, <2>4, Place
  <2> QED BY <2>1, <2>5 DEF q, r
<1>3. ASSUME NEW i \in 0 .. N - 1
      PROVE  Row(i) \subseteq Cell /\ Col(i) \subseteq Cell /\ Block(i) \subseteq Cell
  <2>1. Row(i) \subseteq Cell /\ Col(i) \subseteq Cell
    BY <1>1, <1>3 DEF Row, Col
  <2>2. ASSUME NEW jx \in 0 .. B - 1, NEW jy \in 0 .. B - 1
        PROVE  ((i \div B) * B + jx) * N + (i % B) * B + jy \in Cell
    <3> DEFINE x == (i \div B) * B + jx
               y == (i % B) * B + jy
    <3>1. x \in 0 .. N - 1 /\ y \in 0 .. N - 1
      BY <1>2, <1>3, <2>2
    <3>2. x * N + y \in Cell
      BY <1>1, <3>1
    <3>3. i \in Int /\ jx \in Int /\ jy \in Int /\ B \in Int /\ N \in Int /\ i % B \in Int
      BY <1>3, <2>2, Cells
    <3>4. x * N \in Int /\ (i % B) * B \in Int
      BY <3>1, <3>3
    <3>5. x * N + (i % B) * B + jy = x * N + y
      <4> DEFINE u == x * N
                 v == (i % B) * B
      <4>1. u \in Int /\ v \in Int /\ jy \in Int
        BY <3>3, <3>4
      <4> HIDE DEF u, v, x
      <4>2. u + v + jy = u + (v + jy)
        BY <4>1
      <4> QED BY <4>2 DEF u, v
    <3> QED BY <3>2, <3>5
  <2>3. Block(i) \subseteq Cell
    BY <2>2 DEF Block
  <2> QED BY <2>1, <2>3
<1> QED BY <1>3 DEF Units

(* What is filled of a valid board is valid.                                 *)
LEMMA ValidPart ==
  ASSUME NEW b, NEW p, Valid(b), \A c \in Cell : p[c] = 0 \/ p[c] = b[c]
  PROVE  Valid(p)
<1> SUFFICES ASSUME NEW U \in Units, NEW c \in U, NEW d \in U \ {c}, p[c] # 0
             PROVE  p[c] # p[d]
  BY DEF Valid
<1>1. c \in Cell /\ d \in Cell
  BY UnitCells
<1>2. p[c] = b[c] /\ b[c] # 0 /\ b[c] # b[d]
  BY <1>1 DEF Valid
<1> QED BY <1>1, <1>2

(* What the types say of the board and of the argument of dfs.               *)
LEMMA BoardTypes ==
  ASSUME SearchTypeOK
  PROVE  /\ mp \in [Cell -> 0 .. N] /\ init \in [Cell -> 0 .. N] /\ k \in 0 .. End
         /\ at = "next" => k \in Cell /\ ~Given(k)
         /\ at = "call" /\ k < End => k \in Cell
         /\ \A c \in Cell : c \in Nat
BY Cells, SudokuAssumption DEF SearchTypeOK, SudokuAssumption

(* A solution is a full and valid board with the puzzle's digits.            *)
LEMMA SolvedBoard ==
  ASSUME SearchTypeOK, NEW b \in Solved
  PROVE  /\ b \in [Cell -> Digit] /\ Valid(b)
         /\ \A c \in Cell : Given(c) => b[c] = init[c]
<1>1. PICK f \in Solutions : b = [c \in Cell |-> IF Given(c) THEN init[c] ELSE f[c]]
  BY DEF Solved
<1>2. f \in [{c \in Cell : ~Given(c)} -> Digit] /\ Valid(b)
  BY <1>1 DEF Solutions
<1>3. \A c \in Cell : Given(c) => init[c] \in Digit
  BY BoardTypes DEF Given, Digit
<1> QED BY <1>1, <1>2, <1>3

SudokuInv == SearchTypeOK /\ SearchInv /\ NonePassed

(* The puzzle itself is on the board, and no solution is passed.             *)
LEMMA SudokuStart == SearchInit => SudokuInv
<1> SUFFICES ASSUME SearchInit PROVE SudokuInv
  OBVIOUS
<1>1. init \in Puzzles /\ mp = init /\ k = 0 /\ at = "call" /\ sent = {}
  BY DEF SearchInit
<1>2. init \in [Cell -> 0 .. N] /\ Valid(init)
  BY <1>1, SudokuAssumption DEF SudokuAssumption
<1>3. SearchTypeOK
  BY <1>1, <1>2, Cells DEF SearchTypeOK
<1>4. \A c \in Cell : c \in Nat
  BY Cells
<1>5. SearchInv
  BY <1>1, <1>2, <1>4 DEF SearchInv, Given
<1>6. NonePassed
  BY <1>1, <1>4 DEF NonePassed, ToCome, Agrees
<1> QED BY <1>3, <1>5, <1>6 DEF SudokuInv

(* A solution has the puzzle's digit at the cell that is passed over.        *)
LEMMA SkipStep ==
  ASSUME SudokuInv, Skip
  PROVE  SudokuInv'
<1>1. /\ at = "call" /\ k < End /\ mp[k] # 0 /\ k' = k + 1
      /\ UNCHANGED <<init, mp, at, sent>>
  BY DEF Skip
<1>2. k \in Cell /\ Given(k) /\ mp[k] = init[k] /\ k \in Nat
  BY <1>1, BoardTypes DEF SudokuInv, SearchInv
<1>3. \A c \in Cell : c \in Nat /\ (c < k' => c < k \/ c = k) /\ (c > k' => c > k)
  BY <1>1, <1>2, BoardTypes DEF SudokuInv
<1>4. SearchTypeOK'
  BY <1>1, <1>2, Cells DEF SudokuInv, SearchTypeOK, Given
<1>5. SearchInv'
  BY <1>1, <1>2, <1>3 DEF SudokuInv, SearchInv, Given
<1>6. NonePassed'
  <2>1. Solved' = Solved
    BY <1>1 DEF Solved, Solutions, Given
  <2>2. ASSUME NEW b \in Solved PROVE ToCome(b)'
    <3>1. ToCome(b)
      BY <1>1 DEF SudokuInv, NonePassed
    <3>2. b[k] = mp[k]
      BY <1>2, SolvedBoard DEF SudokuInv
    <3> QED BY <1>1, <1>2, <1>3, <3>1, <3>2 DEF ToCome, Agrees, Given
  <2> QED BY <1>1, <2>1, <2>2 DEF NonePassed
<1> QED BY <1>4, <1>5, <1>6 DEF SudokuInv

(* Every digit of a solution is above 0, where the loop begins.              *)
LEMMA EnterLoopStep ==
  ASSUME SudokuInv, EnterLoop
  PROVE  SudokuInv'
<1>1. /\ at = "call" /\ k < End /\ mp[k] = 0 /\ at' = "next"
      /\ UNCHANGED <<init, mp, k, sent>>
  BY DEF EnterLoop
<1>2. k \in Cell /\ ~Given(k) /\ k # End
  BY <1>1, BoardTypes DEF SudokuInv, SearchInv, Given
<1>3. SearchTypeOK'
  BY <1>1, <1>2 DEF SudokuInv, SearchTypeOK, Given
<1>4. Valid([mp EXCEPT ![k] = 0])
  <2>1. Valid(mp) /\ DOMAIN mp = Cell
    BY <1>1, BoardTypes DEF SudokuInv, SearchInv
  <2>2. \A c \in Cell : [mp EXCEPT ![k] = 0][c] = 0 \/ [mp EXCEPT ![k] = 0][c] = mp[c]
    BY <2>1
  <2> QED BY <2>1, <2>2, ValidPart
<1>5. SearchInv'
  BY <1>1, <1>4 DEF SudokuInv, SearchInv, Given
<1>6. NonePassed'
  <2>1. Solved' = Solved
    BY <1>1 DEF Solved, Solutions, Given
  <2>2. ASSUME NEW b \in Solved PROVE ToCome(b)'
    <3>1. ToCome(b)
      BY <1>1 DEF SudokuInv, NonePassed
    <3>2. b[k] > mp[k]
      BY <1>1, <1>2, SolvedBoard DEF SudokuInv, Digit
    <3> QED BY <1>1, <3>1, <3>2 DEF ToCome, Agrees, Given
  <2> QED BY <1>1, <2>1, <2>2 DEF NonePassed
<1> QED BY <1>3, <1>5, <1>6 DEF SudokuInv

(* A digit that breaks the rules is no solution's.                           *)
LEMMA TryStep ==
  ASSUME SudokuInv, Try
  PROVE  SudokuInv'
<1>1. /\ at = "next" /\ mp[k] < N /\ mp' = [mp EXCEPT ![k] = @ + 1]
      /\ UNCHANGED <<init, sent>>
      /\ \/ Valid(mp') /\ at' = "call" /\ k' = k + 1
         \/ ~ Valid(mp') /\ UNCHANGED <<at, k>>
  BY DEF Try
<1>2. /\ k \in Cell /\ ~Given(k) /\ k \in Nat /\ k < End /\ DOMAIN mp = Cell
      /\ mp[k] \in Nat /\ mp[k] <= N
  BY <1>1, BoardTypes, Cells DEF SudokuInv
<1>3. \A c \in Cell : mp'[c] = IF c = k THEN mp[k] + 1 ELSE mp[c]
  BY <1>1, <1>2
<1>4. \A c \in Cell : c \in Nat /\ (c < k + 1 => c < k \/ c = k) /\ (c > k + 1 => c > k)
  BY <1>2, BoardTypes DEF SudokuInv
<1>5. SearchTypeOK'
  <2>1. mp' \in [Cell -> 0 .. N]
    BY <1>1, <1>2, BoardTypes, Cells DEF SudokuInv
  <2>2. k' \in 0 .. End /\ (at' = "next" => k' = k)
    BY <1>1, <1>2, Cells
  <2> QED BY <1>1, <2>1, <2>2 DEF SudokuInv, SearchTypeOK, Given
<1>6. SearchInv'
  <2>1. \A c \in Cell : Given(c) => mp'[c] = init[c]
    BY <1>2, <1>3 DEF SudokuInv, SearchInv
  <2>2. \A c \in Cell : ~Given(c) => (c < k => mp'[c] # 0) /\ (c > k => mp'[c] = 0)
    BY <1>1, <1>2, <1>3, <1>4 DEF SudokuInv, SearchInv
  <2>3. mp'[k] # 0
    BY <1>2, <1>3
  <2>4. CASE Valid(mp') /\ at' = "call" /\ k' = k + 1
    <3>1. \A c \in Cell : ~Given(c) =>
            (c < k' => mp'[c] # 0) /\ (c > k' => mp'[c] = 0) /\ (c = k' => mp'[c] = 0)
      BY <1>2, <1>4, <2>2, <2>3, <2>4
    <3> QED BY <1>1, <2>1, <2>4, <3>1 DEF SearchInv, Given
  <2>5. CASE ~ Valid(mp') /\ UNCHANGED <<at, k>>
    <3>1. Valid([mp' EXCEPT ![k] = 0])
      <4>1. [mp' EXCEPT ![k] = 0] = [mp EXCEPT ![k] = 0]
        BY <1>1, <1>2
      <4> QED BY <1>1, <4>1 DEF SudokuInv, SearchInv
    <3> QED BY <1>1, <2>1, <2>2, <2>5, <3>1 DEF SearchInv, Given
  <2> QED BY <1>1, <2>4, <2>5
<1>7. NonePassed'
  <2>1. Solved' = Solved
    BY <1>1 DEF Solved, Solutions, Given
  <2>2. ASSUME NEW b \in Solved PROVE ToCome(b)'
    <3>0. /\ b \in [Cell -> Digit] /\ Valid(b) /\ \A c \in Cell : Given(c) => b[c] = init[c]
          /\ b[k] \in Nat
      BY <1>2, SolvedBoard, Cells DEF SudokuInv, Digit
    <3>1. CASE \E c \in Cell : c < k /\ ~Given(c) /\ Agrees(b, c) /\ b[c] > mp[c]
      <4>1. PICK c \in Cell : c < k /\ ~Given(c) /\ Agrees(b, c) /\ b[c] > mp[c]
        BY <3>1
      <4>2. c < k' /\ mp'[c] = mp[c]
        BY <1>1, <1>2, <1>3, <1>4, <4>1
      <4>3. Agrees(b, c)'
        BY <1>2, <1>3, <1>4, <4>1 DEF Agrees
      <4> QED BY <1>1, <4>1, <4>2, <4>3 DEF ToCome, Given
    <3>2. CASE Agrees(b, k) /\ b[k] > mp[k]
      <4>1. \A c \in Cell : c < k => b[c] = mp'[c]
        BY <1>2, <1>3, <1>4, <3>2 DEF Agrees
      <4>2. CASE b[k] = mp'[k]
        <5>1. \A c \in Cell : mp'[c] = 0 \/ mp'[c] = b[c]
          <6> SUFFICES ASSUME NEW c \in Cell PROVE mp'[c] = 0 \/ mp'[c] = b[c]
            OBVIOUS
          <6>1. CASE Given(c)
            BY <1>2, <1>3, <3>0, <6>1 DEF SudokuInv, SearchInv
          <6>2. CASE ~Given(c)
            <7>1. c < k \/ c = k \/ c > k
              BY <1>2, <1>4
            <7>2. c > k => mp'[c] = 0
              BY <1>1, <1>2, <1>3, <1>4, <6>2 DEF SudokuInv, SearchInv
            <7> QED BY <4>1, <4>2, <7>1, <7>2
          <6> QED BY <6>1, <6>2
        <5>2. Valid(mp')
          BY <3>0, <5>1, ValidPart
        <5>3. at' = "call" /\ k' = k + 1
          BY <1>1, <5>2
        <5>4. Agrees(b, k)' /\ \A c \in Cell : c < k' => b[c] = mp'[c]
          BY <1>4, <4>1, <4>2, <5>3 DEF Agrees
        <5> QED BY <5>3, <5>4 DEF ToCome, Agrees
      <4>3. CASE b[k] # mp'[k]
        <5>1. b[k] > mp'[k]
          BY <1>2, <1>3, <3>0, <3>2, <4>3
        <5>2. CASE at' = "call" /\ k' = k + 1
          <6>1. PICK x \in Cell : x = k
            BY <1>2
          <6>2. x < k' /\ ~ Given(x)'
            BY <1>1, <1>2, <5>2, <6>1 DEF Given
          <6>3. Agrees(b, x)' /\ b[x] > mp'[x]
            BY <4>1, <5>1, <6>1 DEF Agrees
          <6> QED BY <6>2, <6>3 DEF ToCome
        <5>3. CASE UNCHANGED <<at, k>>
          BY <4>1, <5>1, <5>3 DEF ToCome, Agrees
        <5> QED BY <1>1, <5>2, <5>3
      <4> QED BY <4>2, <4>3
    <3> QED BY <1>1, <2>2, <3>1, <3>2 DEF SudokuInv, NonePassed, ToCome
  <2> QED BY <1>1, <2>1, <2>2 DEF NonePassed
<1> QED BY <1>5, <1>6, <1>7 DEF SudokuInv

(* When every digit of a cell has been tried, each solution differs before   *)
(* it, at the last open cell or before that.                                 *)
LEMMA GiveUpStep ==
  ASSUME SudokuInv, GiveUp
  PROVE  SudokuInv'
<1>1. /\ at = "next" /\ mp[k] = N /\ mp' = [mp EXCEPT ![k] = 0]
      /\ UNCHANGED <<init, sent>>
      /\ \/ Caller = {} /\ at' = "fail" /\ k' = 0
         \/ Caller # {} /\ at' = "next" /\ k' = Max(Caller)
  BY DEF GiveUp
<1>2. /\ k \in Cell /\ ~Given(k) /\ k \in Nat /\ k < End /\ DOMAIN mp = Cell
  BY <1>1, BoardTypes, Cells DEF SudokuInv
<1>3. \A c \in Cell : mp'[c] = IF c = k THEN 0 ELSE mp[c]
  BY <1>1, <1>2
<1>4. \A c \in Cell : c \in Nat /\ (c < k /\ ~Given(c) => c \in Caller)
  BY <1>2, BoardTypes DEF SudokuInv, Caller
<1>5. Caller # {} => /\ k' \in Caller /\ k' \in Cell /\ ~Given(k') /\ k' < k /\ k' \in Nat
                     /\ \A c \in Caller : c <= k'
  <2> SUFFICES ASSUME Caller # {}
               PROVE  /\ k' \in Caller /\ k' \in Cell /\ ~Given(k') /\ k' < k /\ k' \in Nat
                      /\ \A c \in Caller : c <= k'
    OBVIOUS
  <2>1. Caller \in SUBSET (0 .. k - 1)
    BY DEF Caller
  <2>2. k' = Max(Caller) /\ Max(Caller) \in Caller /\ \A c \in Caller : c <= Max(Caller)
    BY <1>1, <1>2, <2>1, GreatestElement
  <2>3. k' \in 0 .. k - 1 /\ ~Given(k')
    BY <2>1, <2>2 DEF Caller
  <2>4. k' \in Cell
    BY <1>2, <2>3, Cells
  <2> QED BY <1>2, <2>2, <2>3, <2>4
<1>6. SearchTypeOK'
  <2>1. mp' \in [Cell -> 0 .. N]
    BY <1>1, <1>2, BoardTypes, Cells DEF SudokuInv
  <2>2. k' \in 0 .. End /\ (at' = "next" => k' # End /\ ~Given(k'))
    BY <1>1, <1>5, Cells
  <2>3. at' \in {"next", "fail"}
    BY <1>1
  <2> QED BY <1>1, <2>1, <2>2, <2>3 DEF SudokuInv, SearchTypeOK, Given
<1>7. SearchInv'
  <2>1. \A c \in Cell : Given(c) => mp'[c] = init[c]
    BY <1>2, <1>3 DEF SudokuInv, SearchInv
  <2>2. Valid(mp')
    BY <1>1 DEF SudokuInv, SearchInv
  <2>3. \A c \in Cell : ~Given(c) =>
          (at' = "next" /\ c < k' => mp'[c] # 0) /\ (at' = "next" /\ c > k' => mp'[c] = 0)
    <3> SUFFICES ASSUME NEW c \in Cell, ~Given(c), at' = "next"
                 PROVE  (c < k' => mp'[c] # 0) /\ (c > k' => mp'[c] = 0)
      OBVIOUS
    <3>1. c \in Nat /\ k' \in Nat /\ k' < k /\ (c < k => c <= k')
      BY <1>1, <1>4, <1>5
    <3>2. c < k' => c < k /\ mp[c] # 0
      BY <1>1, <1>2, <3>1 DEF SudokuInv, SearchInv
    <3>3. c > k' => c = k \/ mp[c] = 0
      BY <1>1, <1>2, <3>1 DEF SudokuInv, SearchInv
    <3> QED BY <1>2, <1>3, <3>1, <3>2, <3>3
  <2>4. at' = "next" => Valid([mp' EXCEPT ![k'] = 0])
    <3> DEFINE p == [mp' EXCEPT ![k'] = 0]
    <3>1. \A c \in Cell : p[c] = 0 \/ p[c] = mp'[c]
      BY <1>1, <1>2
    <3> HIDE DEF p
    <3>2. Valid(p)
      BY <2>2, <3>1, ValidPart
    <3> QED BY <3>2 DEF p
  <2>5. at' \notin {"call", "found", "checked"}
    BY <1>1
  <2> QED BY <1>1, <2>1, <2>2, <2>3, <2>4, <2>5 DEF SearchInv, Given
<1>8. NonePassed'
  <2>1. Solved' = Solved
    BY <1>1 DEF Solved, Solutions, Given
  <2>2. ASSUME NEW b \in Solved
        PROVE  \E c \in Caller : c \in Cell /\ c < k /\ Agrees(b, c) /\ b[c] > mp[c]
    <3>1. ~ (b[k] > mp[k])
      BY <1>1, <1>2, SolvedBoard, Cells DEF SudokuInv, Digit
    <3>2. \E c \in Cell : c < k /\ ~Given(c) /\ Agrees(b, c) /\ b[c] > mp[c]
      BY <1>1, <2>2, <3>1 DEF SudokuInv, NonePassed, ToCome
    <3> QED BY <1>4, <3>2
  <2>3. CASE Caller = {} /\ at' = "fail"
    BY <2>1, <2>2, <2>3 DEF NonePassed
  <2>4. CASE Caller # {} /\ at' = "next"
    <3>1. ASSUME NEW b \in Solved PROVE ToCome(b)'
      <4>1. PICK c \in Caller : c \in Cell /\ c < k /\ Agrees(b, c) /\ b[c] > mp[c]
        BY <2>2
      <4>2. c <= k' /\ c \in Nat /\ k' \in Nat /\ k' < k /\ ~Given(c)
        BY <1>4, <1>5, <2>4 DEF Caller
      <4>3. mp'[c] = mp[c] /\ \A d \in Cell : d < c => b[d] = mp'[d]
        BY <1>2, <1>3, <1>4, <4>1 DEF Agrees
      <4>4. CASE c = k'
        BY <4>1, <4>3, <4>4 DEF ToCome, Agrees
      <4>5. CASE c < k'
        BY <1>1, <4>1, <4>2, <4>3, <4>5 DEF ToCome, Agrees, Given
      <4> QED BY <4>2, <4>4, <4>5
    <3> QED BY <2>1, <2>4, <3>1 DEF NonePassed
  <2> QED BY <1>1, <2>3, <2>4
<1> QED BY <1>6, <1>7, <1>8 DEF SudokuInv

(* The board is full, and what follows does not change it.                   *)
LEMMA FoundStep ==
  ASSUME SudokuInv, Found \/ Send \/ Check \/ UNCHANGED SearchVars
  PROVE  SudokuInv'
<1>1. UNCHANGED <<init, mp, k>>
  BY DEF Found, Send, Check, SearchVars
<1>2. Solved' = Solved /\ \A c : Given(c)' <=> Given(c)
  BY <1>1 DEF Solved, Solutions, Given
<1>3. CASE Found
  <2>1. at = "call" /\ k = End /\ at' = "found" /\ sent' = sent
    BY <1>3 DEF Found
  <2>2. \A c \in Cell : c < k /\ (Given(c) => mp[c] = init[c] /\ init[c] # 0)
    BY <2>1, Cells DEF SudokuInv, SearchInv, Given
  <2>3. SearchTypeOK'
    BY <1>1, <2>1 DEF SudokuInv, SearchTypeOK, Given
  <2>4. SearchInv'
    BY <1>1, <2>1, <2>2 DEF SudokuInv, SearchInv, Given
  <2>5. NonePassed'
    BY <2>1 DEF NonePassed
  <2> QED BY <2>3, <2>4, <2>5 DEF SudokuInv
<1>4. CASE Send
  <2>1. at = "found" /\ at' = at /\ Missing # {} /\ sent' = sent \cup {Min(Missing)}
    BY <1>4 DEF Send
  <2>2. Min(Missing) \in Missing
    <3>1. Missing \in SUBSET Nat
      BY Cells DEF Missing
    <3>2. \E n \in Missing : \A m \in Missing : n <= m
      BY <2>1, <3>1, LeastElement
    <3> QED BY <3>2 DEF Min
  <2>3. SearchTypeOK'
    BY <1>1, <2>1, <2>2 DEF SudokuInv, SearchTypeOK, Given, Missing
  <2>4. SearchInv'
    BY <1>1, <2>1 DEF SudokuInv, SearchInv, Given
  <2>5. NonePassed'
    BY <2>1 DEF NonePassed
  <2> QED BY <2>3, <2>4, <2>5 DEF SudokuInv
<1>5. CASE Check
  <2>1. at = "found" /\ at' = "checked" /\ Missing = {} /\ sent' = sent
    BY <1>5 DEF Check
  <2>2. SearchTypeOK'
    BY <1>1, <2>1 DEF SudokuInv, SearchTypeOK, Given
  <2>3. SearchInv'
    BY <1>1, <2>1 DEF SudokuInv, SearchInv, Given, Missing
  <2>4. NonePassed'
    BY <2>1 DEF NonePassed
  <2> QED BY <2>2, <2>3, <2>4 DEF SudokuInv
<1>6. CASE UNCHANGED SearchVars
  <2>1. UNCHANGED <<init, mp, k, at, sent>>
    BY <1>6 DEF SearchVars
  <2>2. SearchTypeOK' /\ SearchInv'
    BY <2>1 DEF SudokuInv, SearchTypeOK, SearchInv, Given, Missing
  <2>3. NonePassed'
    BY <1>2, <2>1 DEF SudokuInv, NonePassed, ToCome, Agrees
  <2> QED BY <2>2, <2>3 DEF SudokuInv
<1> QED BY <1>3, <1>4, <1>5, <1>6

(* dfs keeps the puzzle's digits, leaves no digit behind where it gives up,  *)
(* and passes no solution.                                                   *)
THEOREM SudokuInvariance == SearchSpec => []SudokuInv
<1>1. SudokuInv /\ [SearchNext]_SearchVars => SudokuInv'
  BY SkipStep, EnterLoopStep, TryStep, GiveUpStep, FoundStep DEF SearchNext
<1> QED BY <1>1, SudokuStart, PTL DEF SearchSpec

(* solve fails only on a puzzle that no digits complete, for every side of a *)
(* block and every puzzle.                                                   *)
THEOREM SearchIsComplete == SearchSpec => []FailOnlyWithoutSolution
<1>1. ASSUME SudokuInv PROVE FailOnlyWithoutSolution
  <2> SUFFICES ASSUME at = "fail", Solutions # {} PROVE FALSE
    BY DEF FailOnlyWithoutSolution
  <2>1. Solved # {}
    BY DEF Solved
  <2> QED BY <1>1, <2>1 DEF SudokuInv, NonePassed
<1> QED BY <1>1, SudokuInvariance, PTL

(* What is sent, cell by cell, before C is a solution of the puzzle.         *)
THEOREM SearchIsSound == SearchSpec => []CheckedIsSolution
<1>1. ASSUME SudokuInv PROVE CheckedIsSolution
  BY <1>1 DEF SudokuInv, SearchInv, CheckedIsSolution, Missing
<1> QED BY <1>1, SudokuInvariance, PTL

-----------------------------------------------------------------------------
(* TcpCbr: both senders keep within their bounds of the constant rate, for   *)
(* every rate, scale, pause and delay.                                       *)

(* How late a turn of the loop may begin, besides what others have caused.   *)
Slack == IF prog = "tcpcbr" THEN 0 ELSE Pause + Quick - 1

(* The lead, were it not for the delays.                                     *)
Margin == lead + (MaxStall - stall)

(* What is missing to none, by the steps of the loop: a packet counted makes *)
(* up for what the steps of its turn have taken.                             *)
LagInv ==
  /\ pc = "pacing" => Margin >= -Slack
  /\ pc \in {"counting", "exited"} => Margin >= -Slack - Quick
  /\ pc = "sending" => Margin >= Time - Slack - Quick

CbrInv == TypeOK /\ NeverFarAhead /\ LagInv

-----------------------------------------------------------------------------
USE TcpCbrAssumption DEF TcpCbrAssumption

(* What is left of x after an S-th of it is at most what is left of S * T:   *)
(* the fixed point of tcpcbr.c's pacing.                                     *)
LEMMA NapIsEnough ==
  ASSUME NEW S \in Nat \ {0}, NEW T \in Nat, NEW x \in Nat, x <= S * T
  PROVE  x - (x \div S) <= S * T - T
<1> DEFINE q == x \div S
           r == x % S
<1>1. q \in Nat /\ r \in 0 .. S - 1 /\ x = S * q + r
  OBVIOUS
<1> HIDE DEF q, r
<1>2. CASE q >= T
  BY <1>1, <1>2 DEF q
<1>3. CASE q < T
  <2>1. PICK e \in Nat : T = q + 1 + e
    <3>1. T - q - 1 \in Nat /\ T = q + 1 + (T - q - 1)
      BY <1>1, <1>3
    <3> QED
      BY <3>1
  <2>2. S * T = S * q + S + S * e
    BY <1>1, <2>1
  <2>3. S * e >= e
    BY <2>1
  <2>4. S * q \in Nat /\ S * e \in Nat
    BY <1>1, <2>1
  <2> QED
    BY <1>1, <2>1, <2>2, <2>3, <2>4 DEF q
<1> QED
  BY <1>1, <1>2, <1>3

(* A nap is not longer than the lead, and none is taken when behind.         *)
LEMMA NapRange ==
  ASSUME NEW x \in Int
  PROVE  Nap(x) \in Nat /\ (x <= 0 => Nap(x) = 0) /\ (x > 0 => Nap(x) <= x)
<1>1. ASSUME x > 0 PROVE x \div Scale \in Nat /\ x \div Scale <= x
  <2> DEFINE q == x \div Scale
             r == x % Scale
  <2>1. q \in Nat /\ r \in 0 .. Scale - 1 /\ x = Scale * q + r
    BY <1>1
  <2> HIDE DEF q, r
  <2>2. Scale * q >= q
    BY <2>1
  <2>3. Scale * q \in Nat
    BY <2>1
  <2> QED
    BY <2>1, <2>2, <2>3 DEF q
<1> QED
  BY <1>1 DEF Nap

(* What a step may take.                                                     *)
LEMMA ElapseBounds ==
  ASSUME TypeOK, NEW t \in Nat, Elapse(t)
  PROVE  /\ lead' \in Int /\ stall' \in 0 .. MaxStall
         /\ lead' <= lead - t
         /\ Margin' \in Int /\ Margin' >= Margin - t - Quick
<1>1. PICK more \in 0 .. Quick + stall :
        /\ lead' = lead - t - more
        /\ stall' = IF more <= Quick THEN stall ELSE stall - (more - Quick)
  BY DEF Elapse
<1>2. CASE more <= Quick
  BY <1>1, <1>2 DEF TypeOK, Margin
<1>3. CASE ~(more <= Quick)
  <2>1. stall' = stall - (more - Quick) /\ lead' = lead - t - more
    BY <1>1, <1>3
  <2>2. lead' \in Int /\ stall' \in 0 .. MaxStall /\ lead' <= lead - t
    BY <1>1, <1>3, <2>1 DEF TypeOK
  <2>3. Margin' = Margin - t - Quick
    BY <1>1, <2>1 DEF TypeOK, Margin
  <2>4. Margin \in Int
    BY DEF TypeOK, Margin
  <2> QED
    BY <2>2, <2>3, <2>4
<1> QED
  BY <1>2, <1>3

(* Both senders begin with no lead.                                          *)
LEMMA InitCbr == Init => CbrInv
<1> SUFFICES ASSUME Init PROVE CbrInv
  OBVIOUS
<1>1. Scale * Time \in Nat /\ Scale * Time >= Time
  OBVIOUS
<1>2. TypeOK /\ Margin = 0 /\ pc = "pacing"
  BY DEF Init, TypeOK, Program, Margin
<1>3. Slack \in Nat /\ Ahead \in Nat
  BY <1>1 DEF Slack, Ahead
<1>4. NeverFarAhead
  BY <1>2, <1>3 DEF Init, NeverFarAhead
<1>5. LagInv
  BY <1>2, <1>3 DEF LagInv
<1> QED
  BY <1>2, <1>4, <1>5 DEF CbrInv

(* No step of a loop passes a bound.                                         *)
LEMMA NextCbr == ASSUME CbrInv, [Next]_vars PROVE CbrInv'
<1> USE DEF CbrInv
<1>0. Scale * Time \in Nat /\ Scale * Time >= Time
  OBVIOUS
<1>9. /\ Slack \in Nat /\ Margin \in Int /\ Ahead \in Nat /\ Ahead >= Time
      /\ prog = "tcpcbr" => Slack = 0
      /\ prog = "tcpcbr-rate" => Slack = Pause + Quick - 1 /\ Ahead = Time
      /\ prog' = prog => Slack' = Slack /\ Ahead' = Ahead
  BY <1>0 DEF Slack, Margin, Ahead, TypeOK
<1>1. CASE PaceByClock
  <2>1. Nap(lead) \in Nat /\ (lead <= 0 => Nap(lead) = 0) /\ (lead > 0 => Nap(lead) <= lead)
    BY NapRange DEF TypeOK
  <2>2. /\ lead' \in Int /\ stall' \in 0 .. MaxStall
        /\ lead' <= lead - Nap(lead)
        /\ Margin' \in Int /\ Margin' >= Margin - Nap(lead) - Quick
    BY <1>1, <2>1, ElapseBounds DEF PaceByClock
  <2>3. pc = "pacing" /\ pc' = "counting" /\ prog = "tcpcbr" /\ prog' = prog /\ unsent' = unsent
    BY <1>1 DEF PaceByClock
  <2>4. TypeOK'
    BY <2>2, <2>3 DEF TypeOK, Program
  <2>5. ASSUME Scale * Time < MaxNsec PROVE lead' <= Scale * Time - Time
    <3>1. lead \in Int /\ lead <= Scale * Time
      BY <2>3, <2>5, <1>0 DEF NeverFarAhead, Ahead, TypeOK
    <3>2. CASE lead <= 0
      BY <1>0, <2>1, <2>2, <3>1, <3>2
    <3>3. CASE lead > 0
      <4>1. Nap(lead) = lead \div Scale
        BY <3>1, <3>3, <2>5, <1>0 DEF Nap
      <4>2. lead - (lead \div Scale) <= Scale * Time - Time
        BY <3>1, <3>3, NapIsEnough
      <4> QED
        BY <4>1, <4>2, <2>1, <2>2, <3>1, <1>0
    <3> QED
      BY <3>1, <3>2, <3>3
  <2>6. NeverFarAhead'
    BY <2>3, <2>5 DEF NeverFarAhead, Ahead
  <2>7. LagInv'
    <3>1. Margin >= 0 /\ Margin >= lead
      BY <1>9, <2>3 DEF LagInv, Margin, TypeOK
    <3>2. Margin' >= -Quick
      BY <1>9, <2>1, <2>2, <3>1 DEF TypeOK
    <3> QED
      BY <1>9, <2>3, <3>2 DEF LagInv
  <2> QED
    BY <2>4, <2>6, <2>7
<1>2. CASE PaceByRate
  <2>1. prog = "tcpcbr-rate" /\ pc = "pacing" /\ prog' = prog /\ unsent' = unsent
    BY <1>2 DEF PaceByRate
  <2>2. Margin >= -Slack /\ lead \in Int /\ lead <= Time /\ MaxStall - stall \in Nat
    BY <1>9, <2>1 DEF LagInv, TypeOK, NeverFarAhead
  <2>3. CASE lead > 0 /\ Elapse(Pause) /\ pc' = pc
    <3>1. /\ lead' \in Int /\ stall' \in 0 .. MaxStall /\ lead' <= lead - Pause
          /\ Margin' \in Int /\ Margin' >= Margin - Pause - Quick
      BY <2>3, ElapseBounds
    <3>2. Margin >= 1
      BY <2>2, <2>3 DEF Margin, TypeOK
    <3>3. Margin' >= -Slack
      BY <1>9, <2>1, <3>1, <3>2
    <3>4. lead' <= Time
      BY <2>2, <3>1
    <3> QED
      BY <1>9, <2>1, <2>3, <3>1, <3>3, <3>4 DEF TypeOK, NeverFarAhead, LagInv
  <2>4. CASE ~(lead > 0) /\ Elapse(0) /\ pc' = "counting"
    <3>1. /\ lead' \in Int /\ stall' \in 0 .. MaxStall /\ lead' <= lead - 0
          /\ Margin' \in Int /\ Margin' >= Margin - 0 - Quick
      BY <2>4, ElapseBounds
    <3>2. Margin' >= -Slack - Quick
      BY <1>9, <2>2, <3>1
    <3>3. lead' <= Time - Time
      BY <2>2, <2>4, <3>1
    <3> QED
      BY <1>9, <2>1, <2>4, <3>1, <3>2, <3>3 DEF TypeOK, NeverFarAhead, LagInv
  <2> QED
    BY <1>2, <2>3, <2>4 DEF PaceByRate
<1>3. CASE Count
  <2>1. /\ pc = "counting" /\ pc' = "sending" /\ prog' = prog /\ stall' = stall
        /\ lead' = lead + Time /\ unsent' = unsent + 1
    BY <1>3 DEF Count
  <2>2. TypeOK'
    BY <2>1 DEF TypeOK
  <2>3. NeverFarAhead'
    BY <1>9, <2>1 DEF NeverFarAhead, TypeOK
  <2>4. Margin' = Margin + Time
    BY <2>1 DEF Margin, TypeOK
  <2>5. LagInv'
    BY <1>9, <2>1, <2>4 DEF LagInv
  <2> QED
    BY <2>2, <2>3, <2>5
<1>4. ASSUME pc = "sending", pc' = "pacing", prog' = prog, unsent' \in Nat, Elapse(0) PROVE CbrInv'
  <2>1. /\ lead' \in Int /\ stall' \in 0 .. MaxStall /\ lead' <= lead - 0
        /\ Margin' \in Int /\ Margin' >= Margin - 0 - Quick
    BY <1>4, ElapseBounds
  <2>2. TypeOK'
    BY <1>4, <2>1 DEF TypeOK
  <2>3. NeverFarAhead'
    BY <1>9, <1>4, <2>1 DEF NeverFarAhead, TypeOK
  <2>4. LagInv'
    BY <1>9, <1>4, <2>1 DEF LagInv
  <2> QED
    BY <2>2, <2>3, <2>4
<1>5. CASE SendNow
  BY <1>4, <1>5 DEF SendNow
<1>6. CASE SendBlocking
  <2>1. unsent' \in Nat
    BY <1>6 DEF SendBlocking, TypeOK
  <2> QED
    BY <1>4, <1>6, <2>1 DEF SendBlocking
<1>7. CASE Signal
  <2>1. /\ pc # "exited" /\ pc' = "exited"
        /\ prog' = prog /\ lead' = lead /\ stall' = stall /\ unsent' = unsent
    BY <1>7 DEF Signal
  <2>2. TypeOK'
    BY <2>1 DEF TypeOK
  <2>3. NeverFarAhead'
    BY <1>9, <2>1 DEF NeverFarAhead, TypeOK
  <2>4. Margin' = Margin
    BY <2>1 DEF Margin
  <2>5. pc \in {"pacing", "counting", "sending"}
    BY <2>1 DEF TypeOK
  <2>6. LagInv'
    BY <1>9, <2>1, <2>4, <2>5 DEF LagInv
  <2> QED
    BY <2>2, <2>3, <2>6
<1>8. CASE UNCHANGED vars
  <2>1. Margin' = Margin /\ Slack' = Slack /\ Ahead' = Ahead
    BY <1>8 DEF vars, Margin, Slack, Ahead
  <2> QED
    BY <1>8, <2>1 DEF vars, TypeOK, NeverFarAhead, LagInv
<1> QED
  BY <1>1, <1>2, <1>3, <1>5, <1>6, <1>7, <1>8 DEF Next, Loop

(* Types and bounds hold at every point of both senders' loops.              *)
THEOREM CbrInvariance == Spec => []CbrInv
<1>1. Init => CbrInv
  BY InitCbr
<1>2. CbrInv /\ [Next]_vars => CbrInv'
  BY NextCbr
<1> QED
  BY <1>1, <1>2, PTL DEF Spec

(* However long it runs, the sender is never more than Ahead early.          *)
THEOREM NeverFarAheadHolds == Spec => []NeverFarAhead
BY CbrInvariance, PTL DEF CbrInv

(* Nor later than its delays, one turn and one usleep make it.               *)
THEOREM LateOnlyByStallsHolds == Spec => []LateOnlyByStalls
<1>1. ASSUME CbrInv PROVE LateOnlyByStalls
  <2>1. Slack \in Nat /\ Margin \in Int /\ lead \in Int /\ stall \in 0 .. MaxStall
    BY <1>1 DEF CbrInv, TypeOK, Slack, Margin
  <2>2. Margin >= -Slack - Quick
    BY <1>1, <2>1 DEF CbrInv, TypeOK, LagInv
  <2>3. lead >= stall - MaxStall - Quick - Slack
    BY <2>1, <2>2 DEF Margin
  <2> QED
    BY <2>3 DEF Slack, LateOnlyByStalls
<1> QED
  BY <1>1, CbrInvariance, PTL
=============================================================================
