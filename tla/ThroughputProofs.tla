-------------------------- MODULE ThroughputProofs --------------------------
(* Proofs about the throughput server, for any number of connections and of *)
(* descriptors, any mss of each and any order of the events of a batch, and  *)
(* about its client, for any number of runs and of sinks of each.            *)
EXTENDS ThroughputClient, FiniteSetTheorems, SequenceTheorems, WellFoundedInduction, TLAPS

-----------------------------------------------------------------------------
(* The inductive invariants, of the server and of its client.                *)

(* What keeps the tables in step. A descriptor is registered while it has a *)
(* connection, mapped to the port of it and counted there; one that has had *)
(* a connection has an mss above the header.                                *)
OpenAt(l) == {fd \in Fds : file[fd] # None /\ Port(file[fd]) = l}

TablesInv ==
  /\ file \in [Fds -> Conn \cup {None}]
  /\ interest = Listener \cup {fd \in Fds : file[fd] # None}
  /\ mapping = [fd \in Fds |-> IF file[fd] = None THEN 0 ELSE Port(file[fd])]
  /\ cnt = [l \in Listener |-> Cardinality(OpenAt(l))]
  /\ mss \in [Fds -> Nat]
  /\ \A fd \in Fds : IF mss[fd] = 0 THEN file[fd] = None ELSE mss[fd] > HeaderSize

(* A connection waits in the backlog of its own port, once, or has one      *)
(* descriptor, or has not been made.                                        *)
HeldOnce ==
  /\ peer \in [Conn -> {"none", "open", "closed"}]
  /\ backlog \in [Listener -> Seq(Conn)]
  /\ \A l \in Listener : IsInjective(backlog[l])
  /\ \A l \in Listener : \A i \in 1 .. Len(backlog[l]) :
       LET c == backlog[l][i]
       IN Port(c) = l /\ peer[c] # "none" /\ \A fd \in Fds : file[fd] # c
  /\ \A fd \in Fds : file[fd] # None =>
       peer[file[fd]] # "none" /\ \A gd \in Fds : file[gd] = file[fd] => gd = fd

(* An event of the rest of the batch is still there when it is handled.     *)
EventsReady ==
  /\ inbuf \in [Conn -> Nat] /\ DOMAIN cmds = Conn
  /\ events \subseteq interest
  /\ \A l \in events \cap Listener : backlog[l] # <<>>
  /\ \A fd \in events \ Listener :
       file[fd] \in Sink => inbuf[file[fd]] > 0 \/ peer[file[fd]] = "closed"
  /\ \A s \in Sink : cmds[s] = <<>>

ServerInv == TablesInv /\ HeldOnce /\ EventsReady

(* With the variables that only the counter depends on.                     *)
CountInv ==
  /\ written \in [Conn -> Nat] /\ cmds \in [Conn -> Seq(Command \cup {"cut"})]
  /\ replies \in [Conn -> Seq({"RESET", "PONG", "REPORT", "CLIENTS"} \X Nat)]
  /\ recv_size \in Nat /\ running \in BOOLEAN
  /\ EveryByteCountedOnce

(* The client's. A connection that is not made has seen nothing, and the     *)
(* runs to come have made none of theirs; data is only sent when the answer  *)
(* to the reset is there.                                                    *)
RunsInv ==
  /\ run \in 1 .. Len(Runs) /\ used \in Nat
  /\ c_pc \in {"start", "connect", "reset", "read_reset", "sending", "leave",
              "read_report", "stdin", "close", "exited"}
  /\ shown \in Seq({"RESET", "PONG", "REPORT", "CLIENTS"} \X Nat)
  /\ \A c \in Conn : peer[c] = "none" => written[c] = 0 /\ cmds[c] = <<>> /\ replies[c] = <<>>
  /\ \A s \in Sink : inbuf[s] <= written[s]
  /\ \A i \in run + 1 .. Len(Runs) :
       \A c \in ToSet(Runs[i].sinks) \cup {Runs[i].control} : peer[c] = "none"
  /\ c_pc \in {"start", "connect", "reset", "read_reset"} => \A s \in Mine : written[s] = 0
  /\ c_pc \in {"reset", "read_reset", "sending"} => peer[sinks[1]] # "none"

Has(q, m) == \E i \in 1 .. Len(q) : q[i] = m
Blank(q)  == \A i \in 1 .. Len(q) : q[i] = "cut"

(* At most one reset and one report are on their way, in this order.         *)
Orderly(q) ==
  \A i \in 1 .. Len(q) :
    /\ q[i] \in {"cut", "/reset", "/report"}
    /\ \A j \in 1 .. Len(q) :
         /\ q[i] = q[j] /\ q[i] # "cut" => i = j
         /\ q[i] = "/reset" /\ j < i => q[j] = "cut"

(* A reset that is on its way is the running client's, and has no data yet   *)
(* to take away.                                                             *)
ResetsInv ==
  \A c \in Control :
    /\ Orderly(cmds[c])
    /\ Has(cmds[c], "/reset") =>
         /\ c = control /\ replies[c] = <<>> /\ c_pc \in {"read_reset", "leave", "read_report"}
         /\ \A s \in Mine : written[s] = 0

(* What has been asked, answered and read at each point of the client.       *)
AnswersInv ==
  LET q == cmds[control]
      r == replies[control]
      at == IF c_pc = "leave" THEN cut ELSE c_pc
  IN  /\ at \in {"start", "connect", "reset", "stdin"} => q = <<>> /\ r = <<>> /\ used = 0
      /\ at = "read_reset" =>
           /\ used = 0 /\ ~Has(q, "/report")
           /\ r = <<>> \/ (Len(r) = 1 /\ Blank(q))
      /\ at = "sending" => used = 1 /\ Len(r) = 1 /\ Blank(q)
      /\ at = "read_report" /\ cut # "read_reset" =>
           \/ Len(r) = used /\ ~Has(q, "/reset")
           \/ /\ Len(r) = used + 1 /\ Blank(q)
              /\ r[used + 1][1] = "REPORT" /\ r[used + 1][2] <= recv_size
      /\ c_pc = "leave" => at \in {"connect", "reset", "read_reset", "sending"}
      /\ c_pc \notin {"close", "exited"} => shown = <<>>

ClientInv == RunsInv /\ ResetsInv /\ AnswersInv /\ OwnBytesCounted /\ ReportIsAnswer

-----------------------------------------------------------------------------
(* Numbers.                                                                  *)

(* The least-number principle, for a set.                                    *)
LEMMA LeastElement ==
  ASSUME NEW S \in SUBSET Nat, S # {}
  PROVE  \E n \in S : \A m \in S : n <= m
<1> DEFINE R == OpToRel(<, Nat)
<1>1. IsWellFoundedOn(R, Nat)
  BY NatLessThanWellFounded
<1>2. \A x, y \in Nat : y < x => <<y, x>> \in R
  BY DEF OpToRel
<1> HIDE DEF R
<1>3. PICK x \in S : \A y \in S : ~ (<<y, x>> \in R)
  BY <1>1, WFMin
<1>4. ASSUME NEW y \in S PROVE x <= y
  <2>1. ~ (y < x)
    BY <1>2, <1>3
  <2> QED BY <2>1
<1> QED BY <1>4

LEMMA MinElement ==
  ASSUME NEW S \in SUBSET Nat, S # {}
  PROVE  Min(S) \in S
<1>1. \E n \in S : \A m \in S : n <= m
  BY LeastElement
<1> QED BY <1>1 DEF Min

LEMMA MinOfTwo ==
  ASSUME NEW a \in Int, NEW b \in Int
  PROVE  Min({a, b}) = IF a <= b THEN a ELSE b
<1>1. CASE a <= b
  <2>1. \A x \in {a, b} : (\A y \in {a, b} : x <= y) => x = a
    BY <1>1
  <2>2. a \in {a, b} /\ \A y \in {a, b} : a <= y
    BY <1>1
  <2> QED BY <1>1, <2>1, <2>2 DEF Min
<1>2. CASE ~(a <= b)
  <2>1. \A x \in {a, b} : (\A y \in {a, b} : x <= y) => x = b
    BY <1>2
  <2>2. b \in {a, b} /\ \A y \in {a, b} : b <= y
    BY <1>2
  <2> QED BY <1>2, <2>1, <2>2 DEF Min
<1> QED BY <1>1, <1>2

-----------------------------------------------------------------------------
(* Sums. SumFunctionOnSet is a recursive function on the subsets of its set. *)

Picked(s) == CHOOSE x \in s : TRUE

SumStep(F, g, s) == IF s = {} THEN 0 ELSE g[Picked(s)] + F[s \ {Picked(s)}]

IsSum(F, g, D) == F = [s \in D |-> SumStep(F, g, s)]

Sums(g, S) == CHOOSE F : IsSum(F, g, SUBSET S)

LEMMA PickedIn == \A s : s # {} => Picked(s) \in s
BY DEF Picked

LEMMA SumOnSet ==
  ASSUME NEW g, NEW S
  PROVE  SumFunctionOnSet(g, S) = Sums(g, S)[S]
BY DEF SumFunctionOnSet, FoldFunctionOnSet, MapThenFoldSet, Sums, IsSum, SumStep, Picked

(* The subsets of at most n elements.                                        *)
UpTo(S, n) == {s \in SUBSET S : Cardinality(s) <= n}

LEMMA UpToLess ==
  ASSUME NEW S, IsFiniteSet(S), NEW n \in Nat, NEW s \in UpTo(S, n), NEW x \in s
  PROVE  n > 0 /\ s \ {x} \in UpTo(S, n - 1)
<1>1. IsFiniteSet(s) /\ Cardinality(s) \in Nat
  BY FS_Subset, FS_CardinalityType DEF UpTo
<1>2. Cardinality(s \ {x}) = Cardinality(s) - 1 /\ IsFiniteSet(s \ {x})
  BY <1>1, FS_RemoveElement
<1>3. Cardinality(s \ {x}) \in Nat
  BY <1>2, FS_CardinalityType
<1> QED BY <1>1, <1>2, <1>3 DEF UpTo

LEMMA UpToAll ==
  ASSUME NEW S, IsFiniteSet(S)
  PROVE  Cardinality(S) \in Nat /\ UpTo(S, Cardinality(S)) = SUBSET S
BY FS_Subset, FS_CardinalityType DEF UpTo

LEMMA SumExists ==
  ASSUME NEW g, NEW S, IsFiniteSet(S)
  PROVE  \E F : IsSum(F, g, SUBSET S)
<1> DEFINE Bad == {n \in Nat : ~ \E F : IsSum(F, g, UpTo(S, n))}
<1>1. CASE Bad = {}
  <2>1. Cardinality(S) \in Nat /\ UpTo(S, Cardinality(S)) = SUBSET S
    BY UpToAll
  <2>2. Cardinality(S) \notin Bad
    BY <1>1
  <2> QED BY <2>1, <2>2
<1>2. CASE Bad # {}
  <2>1. PICK n \in Bad : \A m \in Bad : n <= m
    BY <1>2, LeastElement
  <2>2. n \in Nat
    OBVIOUS
  <2>3. \E F : IsSum(F, g, UpTo(S, n))
    <3>1. CASE n = 0
      <4> DEFINE F == [s \in UpTo(S, n) |-> 0]
      <4>1. \A s \in UpTo(S, n) : s = {}
        <5> SUFFICES ASSUME NEW s \in UpTo(S, n), s # {} PROVE FALSE
          OBVIOUS
        <5>1. PICK x : x \in s
          OBVIOUS
        <5>2. n > 0
          BY <2>2, <5>1, UpToLess
        <5> QED BY <3>1, <5>2
      <4>2. IsSum(F, g, UpTo(S, n))
        BY <4>1 DEF IsSum, SumStep
      <4> QED BY <4>2
    <3>2. CASE n # 0
      <4>1. n - 1 \in Nat /\ n - 1 \notin Bad
        BY <2>1, <2>2, <3>2
      <4>2. PICK F : IsSum(F, g, UpTo(S, n - 1))
        BY <4>1
      <4> DEFINE G == [s \in UpTo(S, n) |-> SumStep(F, g, s)]
      <4>3. ASSUME NEW s \in UpTo(S, n), s # {}
            PROVE  G[s \ {Picked(s)}] = F[s \ {Picked(s)}]
        <5>1. s \ {Picked(s)} \in UpTo(S, n - 1)
          BY <2>2, <4>3, UpToLess, PickedIn
        <5>2. \A t \in UpTo(S, n - 1) : t \in UpTo(S, n)
          BY <2>2, FS_Subset, FS_CardinalityType DEF UpTo
        <5>3. \A t \in UpTo(S, n - 1) : F[t] = SumStep(F, g, t)
          BY <4>2 DEF IsSum
        <5> QED BY <5>1, <5>2, <5>3
      <4> HIDE DEF G
      <4>4. \A s \in UpTo(S, n) : SumStep(F, g, s) = SumStep(G, g, s)
        BY <4>3 DEF SumStep
      <4>5. G = [s \in UpTo(S, n) |-> SumStep(G, g, s)]
        BY <4>4 DEF G
      <4> QED BY <4>5 DEF IsSum
    <3> QED BY <3>1, <3>2
  <2> QED BY <2>3
<1> QED BY <1>1, <1>2

LEMMA SumRecursion ==
  ASSUME NEW g, NEW S, IsFiniteSet(S), NEW s \in SUBSET S
  PROVE  Sums(g, S)[s] = SumStep(Sums(g, S), g, s)
<1>1. IsSum(Sums(g, S), g, SUBSET S)
  BY SumExists DEF Sums
<1> QED BY <1>1 DEF IsSum

(* Typed, and the same by whatever element it is taken apart.                *)
LEMMA SumTaken ==
  ASSUME NEW S, IsFiniteSet(S), NEW g, \A x \in S : g[x] \in Int
  PROVE  \A s \in SUBSET S :
           /\ Sums(g, S)[s] \in Int
           /\ \A x \in s : Sums(g, S)[s] = g[x] + Sums(g, S)[s \ {x}]
<1> DEFINE F == Sums(g, S)
           Good(s) == F[s] \in Int /\ \A x \in s : F[s] = g[x] + F[s \ {x}]
           Bad == {n \in Nat : \E s \in UpTo(S, n) : ~ Good(s)}
<1>1. \A s \in SUBSET S : F[s] = IF s = {} THEN 0 ELSE g[Picked(s)] + F[s \ {Picked(s)}]
  BY SumRecursion DEF SumStep
<1> HIDE DEF F
<1>2. CASE Bad = {}
  <2>1. Cardinality(S) \in Nat /\ UpTo(S, Cardinality(S)) = SUBSET S
    BY UpToAll
  <2>2. Cardinality(S) \notin Bad
    BY <1>2
  <2> QED BY <2>1, <2>2 DEF F
<1>3. CASE Bad # {}
  <2>1. PICK n \in Bad : \A m \in Bad : n <= m
    BY <1>3, LeastElement
  <2>2. n \in Nat
    OBVIOUS
  <2>3. PICK s \in UpTo(S, n) : ~ Good(s)
    OBVIOUS
  <2>4. s \in SUBSET S
    BY DEF UpTo
  <2>5. CASE s = {}
    <3>1. F[s] = 0 /\ \A x \in s : FALSE
      BY <1>1, <2>4, <2>5
    <3> QED BY <2>3, <3>1
  <2>6. CASE s # {}
    <3>1. n - 1 \in Nat /\ \A x \in s : s \ {x} \in UpTo(S, n - 1)
      <4>1. \A x \in s : n > 0 /\ s \ {x} \in UpTo(S, n - 1)
        BY <2>2, UpToLess
      <4>2. n > 0
        BY <2>6, <4>1
      <4> QED BY <2>2, <4>1, <4>2
    <3>2. n - 1 \notin Bad
      BY <2>1, <2>2, <3>1
    <3>3. \A t \in UpTo(S, n - 1) : Good(t)
      BY <3>1, <3>2
    <3>4. \A x \in s : Good(s \ {x})
      BY <3>1, <3>3
    <3> DEFINE p == Picked(s)
    <3>5. p \in s /\ F[s] = g[p] + F[s \ {p}]
      BY <1>1, <2>4, <2>6, PickedIn
    <3> HIDE DEF p
    <3>6. F[s] \in Int
      <4>1. g[p] \in Int /\ F[s \ {p}] \in Int
        BY <2>4, <3>4, <3>5
      <4> QED BY <3>5, <4>1
    <3>7. ASSUME NEW x \in s, x # p
          PROVE  F[s] = g[x] + F[s \ {x}]
      <4>1. F[s \ {p}] = g[x] + F[(s \ {p}) \ {x}] /\ F[s \ {x}] = g[p] + F[(s \ {x}) \ {p}]
        BY <3>4, <3>5, <3>7
      <4>2. (s \ {p}) \ {x} = (s \ {x}) \ {p}
        OBVIOUS
      <4> DEFINE v == F[(s \ {x}) \ {p}]
      <4>3. F[s \ {p}] = g[x] + v /\ F[s \ {x}] = g[p] + v
        BY <4>1, <4>2
      <4>4. v \in Int /\ g[x] \in Int /\ g[p] \in Int
        <5>1. Good((s \ {x}) \ {p})
          <6>1. IsFiniteSet(s) /\ Cardinality(s) \in Nat /\ s \ {x} \in UpTo(S, n - 1)
            BY <2>4, <3>1, FS_Subset, FS_CardinalityType
          <6>2. p \in s \ {x}
            BY <3>5, <3>7
          <6>3. n - 1 > 0 /\ (s \ {x}) \ {p} \in UpTo(S, (n - 1) - 1)
            BY <3>1, <6>1, <6>2, UpToLess
          <6>4. (s \ {x}) \ {p} \in UpTo(S, n - 1)
            BY <3>1, <6>3, FS_Subset, FS_CardinalityType DEF UpTo
          <6> QED BY <3>3, <6>4
        <5> QED BY <2>4, <3>5, <5>1
      <4> HIDE DEF v
      <4> QED BY <3>5, <4>3, <4>4
    <3> QED BY <2>3, <3>5, <3>6, <3>7
  <2> QED BY <2>5, <2>6
<1> QED BY <1>2, <1>3

(* It depends on the values in the set alone.                                *)
LEMMA SumAgrees ==
  ASSUME NEW S, IsFiniteSet(S), NEW T, IsFiniteSet(T), NEW g, NEW h
  PROVE  \A s \in (SUBSET S) \cap (SUBSET T) :
           (\A x \in s : g[x] = h[x]) => Sums(g, S)[s] = Sums(h, T)[s]
<1> DEFINE F == Sums(g, S)
           G == Sums(h, T)
           Good(s) == (\A x \in s : g[x] = h[x]) => F[s] = G[s]
           Bad == {n \in Nat : \E s \in UpTo(S, n) \cap SUBSET T : ~ Good(s)}
<1>1. /\ \A s \in SUBSET S : F[s] = IF s = {} THEN 0 ELSE g[Picked(s)] + F[s \ {Picked(s)}]
      /\ \A s \in SUBSET T : G[s] = IF s = {} THEN 0 ELSE h[Picked(s)] + G[s \ {Picked(s)}]
  BY SumRecursion DEF SumStep
<1> HIDE DEF F, G
<1>2. CASE Bad = {}
  <2>1. Cardinality(S) \in Nat /\ UpTo(S, Cardinality(S)) = SUBSET S
    BY UpToAll
  <2>2. Cardinality(S) \notin Bad
    BY <1>2
  <2> QED BY <2>1, <2>2 DEF F, G
<1>3. CASE Bad # {}
  <2>1. PICK n \in Bad : \A m \in Bad : n <= m
    BY <1>3, LeastElement
  <2>2. n \in Nat
    OBVIOUS
  <2>3. PICK s \in UpTo(S, n) \cap SUBSET T : ~ Good(s)
    OBVIOUS
  <2>4. s \in SUBSET S /\ s \in SUBSET T /\ s \in UpTo(S, n)
    BY DEF UpTo
  <2>5. CASE s = {}
    BY <1>1, <2>3, <2>4, <2>5
  <2>6. CASE s # {}
    <3> DEFINE p == Picked(s)
    <3>1. p \in s
      BY <2>6, PickedIn
    <3>2. n - 1 \in Nat /\ s \ {p} \in UpTo(S, n - 1)
      BY <2>2, <2>4, <3>1, UpToLess
    <3>3. n - 1 \notin Bad
      BY <2>1, <2>2, <3>2
    <3>4. Good(s \ {p})
      BY <2>4, <3>2, <3>3
    <3>5. F[s] = g[p] + F[s \ {p}] /\ G[s] = h[p] + G[s \ {p}]
      BY <1>1, <2>4, <2>6
    <3> HIDE DEF p
    <3> QED BY <2>3, <3>1, <3>4, <3>5
  <2> QED BY <2>5, <2>6
<1> QED BY <1>2, <1>3

-----------------------------------------------------------------------------
(* The facts about sums that the proofs use.                                 *)

LEMMA SumType ==
  ASSUME NEW S, IsFiniteSet(S), NEW g, \A x \in S : g[x] \in Int
  PROVE  SumFunctionOnSet(g, S) \in Int
BY SumTaken, SumOnSet

LEMMA SumEmpty ==
  ASSUME NEW g
  PROVE  SumFunctionOnSet(g, {}) = 0
<1> DEFINE S == {}
<1>1. IsFiniteSet(S) /\ S \in SUBSET S /\ S = {}
  BY FS_EmptySet
<1> HIDE DEF S
<1>2. SumFunctionOnSet(g, S) = 0
  BY <1>1, SumOnSet, SumRecursion DEF SumStep
<1> QED BY <1>1, <1>2

(* One more element, and other values elsewhere that are not counted.        *)
LEMMA SumAdd ==
  ASSUME NEW S, IsFiniteSet(S), NEW g, NEW x, x \notin S,
         NEW h, \A y \in S : h[y] = g[y] /\ g[y] \in Int, h[x] \in Int
  PROVE  SumFunctionOnSet(h, S \cup {x}) = SumFunctionOnSet(g, S) + h[x]
<1> DEFINE T == S \cup {x}
<1>1. /\ IsFiniteSet(T) /\ T \in SUBSET T /\ S \in SUBSET T /\ S \in SUBSET S
      /\ x \in T /\ T \ {x} = S /\ \A y \in T : h[y] \in Int
  BY FS_AddElement
<1> HIDE DEF T
<1>2. Sums(h, T)[T] = h[x] + Sums(h, T)[S]
  BY <1>1, SumTaken
<1>3. Sums(h, T)[S] = Sums(g, S)[S]
  <2>1. S \in (SUBSET T) \cap (SUBSET S) /\ \A y \in S : h[y] = g[y]
    BY <1>1
  <2> QED BY <1>1, <2>1, SumAgrees
<1>4. Sums(g, S)[S] \in Int /\ h[x] \in Int
  BY <1>1, SumTaken
<1> QED BY <1>2, <1>3, <1>4, SumOnSet DEF T

(* One value changed.                                                        *)
LEMMA SumChange ==
  ASSUME NEW S, IsFiniteSet(S), NEW g, NEW h, NEW x \in S,
         \A y \in S : g[y] \in Int /\ h[y] \in Int,
         \A y \in S \ {x} : h[y] = g[y]
  PROVE  SumFunctionOnSet(h, S) = SumFunctionOnSet(g, S) + h[x] - g[x]
<1>1. S \in SUBSET S /\ S \ {x} \in SUBSET S
  OBVIOUS
<1>2. Sums(h, S)[S] = h[x] + Sums(h, S)[S \ {x}] /\ Sums(g, S)[S] = g[x] + Sums(g, S)[S \ {x}]
  BY <1>1, SumTaken
<1>3. Sums(h, S)[S \ {x}] = Sums(g, S)[S \ {x}]
  <2>1. \A y \in S \ {x} : h[y] = g[y]
    OBVIOUS
  <2>2. \A s \in (SUBSET S) \cap (SUBSET S) :
          (\A y \in s : h[y] = g[y]) => Sums(h, S)[s] = Sums(g, S)[s]
    BY ONLY IsFiniteSet(S), SumAgrees
  <2> QED BY ONLY <1>1, <2>1, <2>2
<1>4. Sums(g, S)[S \ {x}] \in Int /\ g[x] \in Int /\ h[x] \in Int
  BY <1>1, SumTaken
<1> QED BY <1>2, <1>3, <1>4, SumOnSet

LEMMA SumSame ==
  ASSUME NEW S, IsFiniteSet(S), NEW g, NEW h, \A y \in S : h[y] = g[y]
  PROVE  SumFunctionOnSet(h, S) = SumFunctionOnSet(g, S)
<1>1. S \in SUBSET S
  OBVIOUS
<1> QED BY <1>1, SumAgrees, SumOnSet

LEMMA SumZero ==
  ASSUME NEW S, IsFiniteSet(S), NEW g, \A y \in S : g[y] = 0
  PROVE  SumFunctionOnSet(g, S) = 0
<1> DEFINE F == Sums(g, S)
           Bad == {n \in Nat : \E s \in UpTo(S, n) : F[s] # 0}
<1>1. \A s \in SUBSET S : F[s] = IF s = {} THEN 0 ELSE g[Picked(s)] + F[s \ {Picked(s)}]
  BY SumRecursion DEF SumStep
<1> HIDE DEF F
<1>2. CASE Bad = {}
  <2>1. Cardinality(S) \in Nat /\ UpTo(S, Cardinality(S)) = SUBSET S
    BY UpToAll
  <2>2. Cardinality(S) \notin Bad
    BY <1>2
  <2>3. F[S] = 0
    BY <2>1, <2>2
  <2> QED BY <2>3, SumOnSet DEF F
<1>3. CASE Bad # {}
  <2>1. PICK n \in Bad : \A m \in Bad : n <= m
    BY <1>3, LeastElement
  <2>2. n \in Nat
    OBVIOUS
  <2>3. PICK s \in UpTo(S, n) : F[s] # 0
    OBVIOUS
  <2>4. s \in SUBSET S /\ s # {}
    BY <1>1, <2>3 DEF UpTo
  <2>5. Picked(s) \in s
    BY <2>4, PickedIn
  <2>6. n - 1 \in Nat /\ s \ {Picked(s)} \in UpTo(S, n - 1)
    BY <2>2, <2>5, UpToLess
  <2>7. n - 1 \notin Bad
    BY <2>1, <2>2, <2>6
  <2>8. F[s \ {Picked(s)}] = 0
    BY <2>6, <2>7
  <2>9. F[s] = g[Picked(s)] + F[s \ {Picked(s)}] /\ g[Picked(s)] = 0
    BY <1>1, <2>4, <2>5
  <2> QED BY <2>3, <2>8, <2>9
<1> QED BY <1>2, <1>3

LEMMA SumOfAll ==
  ASSUME NEW g
  PROVE  SumFunction(g) = SumFunctionOnSet(g, DOMAIN g)
BY DEF SumFunction

LEMMA SumGrows ==
  ASSUME NEW S, IsFiniteSet(S), NEW g, NEW h, DOMAIN g = S, DOMAIN h = S,
         NEW x \in S, NEW n \in Int, h[x] = g[x] + n,
         \A y \in S : g[y] \in Int /\ h[y] \in Int,
         \A y \in S \ {x} : h[y] = g[y]
  PROVE  SumFunction(h) = SumFunction(g) + n /\ SumFunction(g) \in Int
<1>1. SumFunctionOnSet(h, S) = SumFunctionOnSet(g, S) + h[x] - g[x]
  BY SumChange
<1>2. SumFunctionOnSet(g, S) \in Int /\ g[x] \in Int
  BY SumType
<1> QED BY <1>1, <1>2, SumOfAll

-----------------------------------------------------------------------------
(* A backlog in which each connection is once.                               *)

LEMMA AppendOnce ==
  ASSUME NEW C, NEW q \in Seq(C), IsInjective(q), NEW c \in C,
         \A i \in 1 .. Len(q) : q[i] # c
  PROVE  /\ Append(q, c) \in Seq(C) /\ IsInjective(Append(q, c))
         /\ Len(Append(q, c)) = Len(q) + 1 /\ Append(q, c) # << >>
         /\ \A i \in 1 .. Len(q) + 1 :
              IF i = Len(q) + 1 THEN Append(q, c)[i] = c
                                ELSE i \in 1 .. Len(q) /\ Append(q, c)[i] = q[i]
BY DEF IsInjective

LEMMA TailOnce ==
  ASSUME NEW C, NEW q \in Seq(C), IsInjective(q), q # << >>
  PROVE  /\ Head(q) = q[1] /\ q[1] \in C /\ 1 \in 1 .. Len(q)
         /\ Tail(q) \in Seq(C) /\ IsInjective(Tail(q))
         /\ \A i \in 1 .. Len(Tail(q)) :
              i + 1 \in 1 .. Len(q) /\ Tail(q)[i] = q[i + 1] /\ q[i + 1] # q[1]
<1>1. Len(q) \in Nat /\ Len(q) > 0 /\ Head(q) = q[1] /\ q[1] \in C
  OBVIOUS
<1>2. Tail(q) \in Seq(C) /\ Len(Tail(q)) = Len(q) - 1
  OBVIOUS
<1>3. \A i \in 1 .. Len(Tail(q)) : i + 1 \in 1 .. Len(q) /\ Tail(q)[i] = q[i + 1]
  BY <1>1, <1>2
<1>4. \A i, j \in 1 .. Len(q) : q[i] = q[j] => i = j
  BY DEF IsInjective
<1>5. \A i \in 1 .. Len(Tail(q)) : q[i + 1] # q[1]
  BY <1>1, <1>3, <1>4
<1>6. \A i, j \in 1 .. Len(Tail(q)) : Tail(q)[i] = Tail(q)[j] => i = j
  BY <1>1, <1>2, <1>3, <1>4
<1>7. DOMAIN Tail(q) = 1 .. Len(Tail(q))
  BY <1>2
<1>8. IsInjective(Tail(q))
  BY <1>6, <1>7 DEF IsInjective
<1> QED BY <1>1, <1>2, <1>3, <1>5, <1>8

-----------------------------------------------------------------------------
(* What the resets in a sequence of answers have reported.                   *)

Answers == {"RESET", "PONG", "REPORT", "CLIENTS"} \X Nat

Size(e) == IF e[1] = "RESET" THEN e[2] ELSE 0

LEMMA ReportedOnSet ==
  ASSUME NEW q \in Seq(Answers)
  PROVE  /\ Reported(q) = SumFunctionOnSet([i \in 1 .. Len(q) |-> Size(q[i])], 1 .. Len(q))
         /\ IsFiniteSet(1 .. Len(q))
         /\ \A i \in 1 .. Len(q) : [j \in 1 .. Len(q) |-> Size(q[j])][i] \in Int
<1>1. DOMAIN q = 1 .. Len(q) /\ Len(q) \in Nat
  OBVIOUS
<1>2. [i \in DOMAIN q |-> IF q[i][1] = "RESET" THEN q[i][2] ELSE 0]
        = [i \in 1 .. Len(q) |-> Size(q[i])]
  BY <1>1 DEF Size
<1>3. Reported(q) = SumFunctionOnSet([i \in 1 .. Len(q) |-> Size(q[i])], 1 .. Len(q))
  BY <1>2, SumOfAll DEF Reported
<1>4. IsFiniteSet(1 .. Len(q))
  BY <1>1, FS_Interval
<1>5. \A i \in 1 .. Len(q) : Size(q[i]) \in Int
  BY DEF Answers, Size
<1> QED BY <1>3, <1>4, <1>5

LEMMA ReportedType ==
  ASSUME NEW q \in Seq(Answers)
  PROVE  Reported(q) \in Int
BY ReportedOnSet, SumType

LEMMA ReportedNone == Reported(<< >>) = 0
<1> DEFINE q == << >>
<1>1. q \in Seq(Answers) /\ 1 .. Len(q) = {}
  OBVIOUS
<1> HIDE DEF q
<1>2. Reported(q) = 0
  BY <1>1, ReportedOnSet, SumEmpty
<1> QED BY <1>2 DEF q

LEMMA ReportedAppend ==
  ASSUME NEW q \in Seq(Answers), NEW e \in Answers
  PROVE  Append(q, e) \in Seq(Answers) /\ Reported(Append(q, e)) = Reported(q) + Size(e)
<1> DEFINE r == Append(q, e)
           g == [i \in 1 .. Len(q) |-> Size(q[i])]
           h == [i \in 1 .. Len(r) |-> Size(r[i])]
<1>1. /\ r \in Seq(Answers) /\ Len(q) \in Nat /\ Len(r) = Len(q) + 1
      /\ r[Len(q) + 1] = e /\ \A i \in 1 .. Len(q) : r[i] = q[i]
  OBVIOUS
<1>2. /\ 1 .. Len(r) = (1 .. Len(q)) \cup {Len(q) + 1}
      /\ Len(q) + 1 \notin 1 .. Len(q) /\ IsFiniteSet(1 .. Len(q))
  <2>1. IsFiniteSet(1 .. Len(q))
    BY ReportedOnSet
  <2> HIDE DEF r
  <2>2. \A i : i \in 1 .. Len(r) <=> i \in 1 .. Len(q) \/ i = Len(q) + 1
    BY <1>1
  <2>3. Len(q) + 1 \notin 1 .. Len(q)
    BY <1>1
  <2> QED BY <2>1, <2>2, <2>3
<1>3. /\ Reported(r) = SumFunctionOnSet(h, 1 .. Len(r))
      /\ Reported(q) = SumFunctionOnSet(g, 1 .. Len(q))
      /\ \A i \in 1 .. Len(q) : g[i] \in Int
      /\ \A i \in 1 .. Len(r) : h[i] \in Int
  <2> HIDE DEF r
  <2> QED BY <1>1, ReportedOnSet
<1>4. h[Len(q) + 1] = Size(e) /\ \A i \in 1 .. Len(q) : h[i] = g[i]
  <2> HIDE DEF r
  <2> QED BY <1>1
<1> HIDE DEF g, h
<1>5. SumFunctionOnSet(h, (1 .. Len(q)) \cup {Len(q) + 1})
        = SumFunctionOnSet(g, 1 .. Len(q)) + h[Len(q) + 1]
  <2> DEFINE S == 1 .. Len(q)
             x == Len(q) + 1
  <2>1. IsFiniteSet(S) /\ x \notin S /\ \A y \in S : h[y] = g[y] /\ g[y] \in Int
    BY <1>2, <1>3, <1>4
  <2>2. h[x] \in Int
    BY <1>1, <1>3
  <2> HIDE DEF S, x
  <2>3. SumFunctionOnSet(h, S \cup {x}) = SumFunctionOnSet(g, S) + h[x]
    BY <2>1, <2>2, SumAdd
  <2> QED BY <2>3 DEF S, x
<1> QED BY <1>1, <1>2, <1>3, <1>4, <1>5
-----------------------------------------------------------------------------
USE ThroughputAssumption DEF ThroughputAssumption

(* A descriptor is taken by a connection, and given back.                    *)

(* OpenAt, of any descriptor table.                                          *)
With(f, l) == {fd \in Fds : f[fd] # None /\ Port(f[fd]) = l}

Set(f, fd, c) == [f EXCEPT ![fd] = c]

LEMMA Ports == \A c \in Conn : Port(c) \in Listener /\ Port(c) # 0 /\ c # None
BY DEF Port, Listener, serverfd, sinkfd, Conn

LEMMA FdsAreNot == \A fd \in Fds : fd \in Nat /\ fd \notin Listener /\ fd # 0
BY DEF Listener, serverfd, sinkfd

LEMMA CountTaken ==
  ASSUME NEW f \in [Fds -> Conn \cup {None}], NEW fd \in Fds, NEW c \in Conn, NEW l,
         f[fd] = None
  PROVE  Cardinality(With(Set(f, fd, c), l)) =
           IF l = Port(c) THEN Cardinality(With(f, l)) + 1 ELSE Cardinality(With(f, l))
<1>1. IsFiniteSet(With(f, l)) /\ fd \notin With(f, l)
  BY FS_Subset DEF With
<1> DEFINE g == Set(f, fd, c)
<1>2. With(g, l) = IF l = Port(c) THEN With(f, l) \cup {fd} ELSE With(f, l)
  <2>1. \A x \in Fds : g[x] = IF x = fd THEN c ELSE f[x]
    BY DEF Set
  <2> QED BY <2>1, Ports DEF With
<1>3. Cardinality(With(f, l) \cup {fd}) = Cardinality(With(f, l)) + 1
  BY ONLY <1>1, FS_AddElement
<1>4. CASE l = Port(c)
  BY ONLY <1>2, <1>3, <1>4
<1>5. CASE l # Port(c)
  BY ONLY <1>2, <1>5
<1> QED BY ONLY <1>4, <1>5

LEMMA CountGiven ==
  ASSUME NEW f \in [Fds -> Conn \cup {None}], NEW fd \in Fds, NEW l, f[fd] # None
  PROVE  Cardinality(With(Set(f, fd, None), l)) =
           IF l = Port(f[fd]) THEN Cardinality(With(f, l)) - 1 ELSE Cardinality(With(f, l))
<1>1. IsFiniteSet(With(f, l)) /\ (l = Port(f[fd]) <=> fd \in With(f, l))
  BY FS_Subset DEF With
<1> DEFINE g == Set(f, fd, None)
<1>2. With(g, l) = With(f, l) \ {fd}
  <2>1. \A x \in Fds : g[x] = IF x = fd THEN None ELSE f[x]
    BY DEF Set
  <2>2. \A x : x \in With(g, l) <=> x \in With(f, l) /\ x # fd
    BY <2>1 DEF With
  <2> QED BY <2>2
<1>3. Cardinality(With(f, l) \ {fd}) =
        IF fd \in With(f, l) THEN Cardinality(With(f, l)) - 1 ELSE Cardinality(With(f, l))
  BY ONLY <1>1, FS_RemoveElement
<1>4. CASE l = Port(f[fd])
  BY ONLY <1>1, <1>2, <1>3, <1>4
<1>5. CASE l # Port(f[fd])
  BY ONLY <1>1, <1>2, <1>3, <1>5
<1> QED BY ONLY <1>4, <1>5

-----------------------------------------------------------------------------
LEMMA Start == Init => ServerInv
<1> SUFFICES ASSUME Init PROVE ServerInv
  OBVIOUS
<1> USE DEF Init
<1>1. \A fd \in Fds : file[fd] = None
  OBVIOUS
<1>2. TablesInv
  <2>1. \A l \in Listener : OpenAt(l) = {}
    BY <1>1 DEF OpenAt
  <2>2. \A l \in Listener : Cardinality(OpenAt(l)) = 0
    BY <2>1, FS_EmptySet
  <2>3. cnt = [l \in Listener |-> Cardinality(OpenAt(l))]
    BY <2>2
  <2>4. interest = Listener \cup {fd \in Fds : file[fd] # None}
    BY <1>1
  <2>5. mapping = [fd \in Fds |-> IF file[fd] = None THEN 0 ELSE Port(file[fd])]
    BY <1>1
  <2> QED BY <1>1, <2>3, <2>4, <2>5 DEF TablesInv
<1>3. HeldOnce
  <2>1. \A l \in Listener : backlog[l] = << >> /\ Len(backlog[l]) = 0
    OBVIOUS
  <2>2. backlog \in [Listener -> Seq(Conn)]
    OBVIOUS
  <2>3. \A l \in Listener : IsInjective(backlog[l])
    BY <2>1 DEF IsInjective
  <2>4. \A l \in Listener : \A i \in 1 .. Len(backlog[l]) : FALSE
    BY <2>1
  <2> QED BY <1>1, <2>2, <2>3, <2>4 DEF HeldOnce
<1>4. EventsReady
  <2>1. inbuf \in [Conn -> Nat] /\ events = {} /\ DOMAIN cmds = Conn
       /\ \A s \in Sink : cmds[s] = << >>
    BY DEF Conn
  <2> QED BY <2>1 DEF EventsReady
<1> QED BY <1>2, <1>3, <1>4 DEF ServerInv

(* The tables when a connection is accepted, and when it is forgotten.       *)
LEMMA TablesTaken ==
  ASSUME TablesInv, NEW fd \in FreeFds, NEW c \in Conn,
         file' = [file EXCEPT ![fd] = c],
         mapping' = [mapping EXCEPT ![fd] = IF @ = 0 THEN Port(c) ELSE @],
         mss' = [mss EXCEPT ![fd] = IF @ = 0 THEN Mss[c] ELSE @],
         interest' = interest \cup {fd},
         cnt' = [cnt EXCEPT ![Port(c)] = @ + 1]
  PROVE  TablesInv'
<1> USE DEF TablesInv
<1>1. fd \in Fds /\ file[fd] = None /\ c # None /\ Port(c) \in Listener
  BY Ports DEF FreeFds
<1>2. file' \in [Fds -> Conn \cup {None}]
  BY <1>1
<1>3. \A x \in Fds : file'[x] = IF x = fd THEN c ELSE file[x]
  BY <1>1
<1>4. interest' = Listener \cup {x \in Fds : file'[x] # None}
  BY <1>1, <1>3
<1>5. mapping' = [x \in Fds |-> IF file'[x] = None THEN 0 ELSE Port(file'[x])]
  <2>1. mapping[fd] = 0
    BY <1>1
  <2>2. mapping' = [x \in Fds |-> IF x = fd THEN Port(c) ELSE mapping[x]]
    BY <1>1, <2>1
  <2> QED BY <1>1, <1>3, <2>2
<1>6. cnt' = [l \in Listener |-> Cardinality(OpenAt(l)')]
  <2>1. \A l \in Listener : OpenAt(l) = With(file, l) /\ OpenAt(l)' = With(file', l)
    BY DEF OpenAt, With
  <2>2. \A l \in Listener : Cardinality(With(file', l)) =
          IF l = Port(c) THEN Cardinality(With(file, l)) + 1 ELSE Cardinality(With(file, l))
    <3>1. file \in [Fds -> Conn \cup {None}] /\ file' = Set(file, fd, c)
      BY DEF Set
    <3> HIDE DEF TablesInv
    <3>2. ASSUME NEW l \in Listener
          PROVE  Cardinality(With(Set(file, fd, c), l)) =
                   IF l = Port(c) THEN Cardinality(With(file, l)) + 1
                                  ELSE Cardinality(With(file, l))
      BY <1>1, <3>1, CountTaken
    <3> QED BY <3>1, <3>2
  <2>3. \A l \in Listener : cnt[l] = Cardinality(With(file, l)) /\ cnt[l] \in Nat
    BY <2>1, FS_Subset, FS_CardinalityType DEF With
  <2>4. cnt' = [l \in Listener |-> IF l = Port(c) THEN cnt[l] + 1 ELSE cnt[l]]
    BY <1>1
  <2>5. \A l \in Listener : cnt'[l] = Cardinality(OpenAt(l)')
    BY ONLY <2>1, <2>2, <2>3, <2>4
  <2> QED BY ONLY <2>4, <2>5
<1>7. /\ mss' \in [Fds -> Nat]
      /\ \A x \in Fds : IF mss'[x] = 0 THEN file'[x] = None ELSE mss'[x] > HeaderSize
  <2>1. Mss[c] \in Nat /\ Mss[c] > HeaderSize
    OBVIOUS
  <2>2. mss' \in [Fds -> Nat]
    BY <1>1, <2>1
  <2>3. mss'[fd] # 0 /\ mss'[fd] > HeaderSize
    BY <1>1, <2>1
  <2>4. \A x \in Fds \ {fd} : mss'[x] = mss[x] /\ file'[x] = file[x]
    BY <1>1, <1>3
  <2> QED BY <2>2, <2>3, <2>4
<1> QED BY <1>2, <1>4, <1>5, <1>6, <1>7

LEMMA TablesGiven ==
  ASSUME TablesInv, NEW fd \in Fds, file[fd] # None, Forget(fd)
  PROVE  TablesInv'
<1> USE DEF TablesInv, Forget
<1>1. file[fd] \in Conn /\ Port(file[fd]) \in Listener /\ fd \notin Listener
      /\ mapping[fd] = Port(file[fd])
  BY Ports, FdsAreNot
<1>2. file' \in [Fds -> Conn \cup {None}]
  OBVIOUS
<1>3. \A x \in Fds : file'[x] = IF x = fd THEN None ELSE file[x]
  OBVIOUS
<1>4. interest' = Listener \cup {x \in Fds : file'[x] # None}
  BY <1>1, <1>3
<1>5. mapping' = [x \in Fds |-> IF file'[x] = None THEN 0 ELSE Port(file'[x])]
  <2>1. mapping' = [x \in Fds |-> IF x = fd THEN 0 ELSE mapping[x]]
    OBVIOUS
  <2> QED BY <1>3, <2>1
<1>6. cnt' = [l \in Listener |-> Cardinality(OpenAt(l)')]
  <2>1. \A l \in Listener : OpenAt(l) = With(file, l) /\ OpenAt(l)' = With(file', l)
    BY DEF OpenAt, With
  <2>2. \A l \in Listener : Cardinality(With(file', l)) =
          IF l = Port(file[fd]) THEN Cardinality(With(file, l)) - 1
                                ELSE Cardinality(With(file, l))
    <3>1. file \in [Fds -> Conn \cup {None}] /\ file' = Set(file, fd, None)
      BY DEF Set
    <3> HIDE DEF TablesInv, Forget
    <3> QED BY <3>1, CountGiven
  <2>3. \A l \in Listener : cnt[l] = Cardinality(With(file, l)) /\ cnt[l] \in Nat
    BY <2>1, FS_Subset, FS_CardinalityType DEF With
  <2>4. cnt' = [l \in Listener |-> IF l = Port(file[fd]) THEN cnt[l] - 1 ELSE cnt[l]]
    BY <1>1
  <2> HIDE DEF TablesInv, Forget
  <2>5. \A l \in Listener : cnt'[l] = Cardinality(OpenAt(l)')
    BY <2>1, <2>2, <2>3, <2>4
  <2> QED BY <2>4, <2>5
<1>7. \A x \in Fds : IF mss'[x] = 0 THEN file'[x] = None ELSE mss'[x] > HeaderSize
  BY <1>3
<1> QED BY <1>2, <1>4, <1>5, <1>6, <1>7

LEMMA TablesSame ==
  ASSUME TablesInv, UNCHANGED <<file, interest, tables>>
  PROVE  TablesInv'
BY DEF TablesInv, OpenAt, tables

LEMMA HeldSame ==
  ASSUME HeldOnce, UNCHANGED <<peer, backlog, file>>
  PROVE  HeldOnce'
BY DEF HeldOnce

-----------------------------------------------------------------------------
(* The peers' steps.                                                         *)

LEMMA ConnectStep ==
  ASSUME ServerInv, NEW c \in Conn, Connect(c)
  PROVE  ServerInv'
<1> USE DEF ServerInv, Connect, kernel, tables
<1>1. TablesInv'
  BY TablesSame
<1>2. HeldOnce'
  <2> DEFINE p == Port(c)
             q == backlog[p]
  <2>1. /\ p \in Listener /\ peer \in [Conn -> {"none", "open", "closed"}]
        /\ backlog \in [Listener -> Seq(Conn)] /\ q \in Seq(Conn) /\ IsInjective(q)
    BY Ports DEF HeldOnce
  <2>2. \A l \in Listener : \A i \in 1 .. Len(backlog[l]) :
          /\ Port(backlog[l][i]) = l /\ peer[backlog[l][i]] # "none"
          /\ \A fd \in Fds : file[fd] # backlog[l][i]
    BY DEF HeldOnce
  <2>3. \A i \in 1 .. Len(q) : q[i] # c
    BY <2>1, <2>2
  <2>4. \A fd \in Fds : file[fd] # c /\ (file[fd] # None => peer[file[fd]] # "none")
    BY Ports DEF HeldOnce
  <2>5. backlog' = [backlog EXCEPT ![p] = Append(q, c)] /\ UNCHANGED file
        /\ peer' = [peer EXCEPT ![c] = "open"]
    OBVIOUS
  <2>6. peer' \in [Conn -> {"none", "open", "closed"}]
        /\ \A d : d \in Conn /\ peer[d] # "none" => peer'[d] # "none"
    BY <2>1, <2>5
  <2>7. peer'[c] # "none"
    BY <2>1, <2>5
  <2>8. /\ Append(q, c) \in Seq(Conn) /\ IsInjective(Append(q, c))
        /\ Len(Append(q, c)) = Len(q) + 1
        /\ \A i \in 1 .. Len(q) + 1 :
             IF i = Len(q) + 1 THEN Append(q, c)[i] = c
                               ELSE i \in 1 .. Len(q) /\ Append(q, c)[i] = q[i]
    BY <2>1, <2>3, AppendOnce
  <2>9. backlog' \in [Listener -> Seq(Conn)] /\ \A l \in Listener : IsInjective(backlog'[l])
    BY <2>1, <2>5, <2>8 DEF HeldOnce
  <2>10. ASSUME NEW l \in Listener, NEW i \in 1 .. Len(backlog'[l])
         PROVE  /\ Port(backlog'[l][i]) = l /\ peer'[backlog'[l][i]] # "none"
                /\ \A fd \in Fds : file'[fd] # backlog'[l][i]
    <3>1. CASE l = p
      <4>1. backlog'[l] = Append(q, c)
        BY <2>1, <2>5, <3>1
      <4>2. CASE i = Len(q) + 1
        <5>1. backlog'[l][i] = c
          BY <2>8, <4>1, <4>2
        <5> QED BY <2>4, <2>5, <2>7, <3>1, <5>1
      <4>3. CASE i # Len(q) + 1
        <5> HIDE DEF Connect
        <5>1. i \in 1 .. Len(q) + 1 /\ i # Len(q) + 1
          BY <2>8, <4>1, <4>3
        <5>2. i \in 1 .. Len(q) /\ Append(q, c)[i] = q[i]
          BY <2>8, <5>1
        <5>3. backlog'[l][i] = q[i] /\ q[i] \in Conn
          BY <2>1, <4>1, <5>2
        <5> QED BY <2>1, <2>2, <2>5, <2>6, <3>1, <5>2, <5>3
      <4> QED BY <4>2, <4>3
    <3>2. CASE l # p
      <4>1. backlog'[l] = backlog[l] /\ backlog[l][i] \in Conn
        BY <2>1, <2>5, <3>2
      <4>2. i \in 1 .. Len(backlog[l])
        BY <4>1
      <4>3. /\ Port(backlog[l][i]) = l /\ peer[backlog[l][i]] # "none"
            /\ \A fd \in Fds : file[fd] # backlog[l][i]
        BY <2>2, <4>2
      <4> HIDE DEF Connect
      <4> QED BY <2>5, <2>6, <4>1, <4>3
    <3> QED BY <3>1, <3>2
  <2>11. \A fd \in Fds : file'[fd] # None =>
          peer'[file'[fd]] # "none" /\ \A gd \in Fds : file'[gd] = file'[fd] => gd = fd
    <3>1. \A fd \in Fds : file[fd] # None => file[fd] \in Conn
      BY DEF TablesInv
    <3> QED BY <2>4, <2>5, <2>6, <3>1 DEF HeldOnce
  <2> HIDE DEF Connect
  <2> QED BY <2>6, <2>9, <2>10, <2>11 DEF HeldOnce
<1>3. EventsReady'
  <2>1. \A d \in Conn : peer[d] = "closed" => peer'[d] = "closed"
    BY DEF HeldOnce
  <2>2. \A l \in Listener : backlog[l] # << >> => backlog'[l] # << >>
    <3>1. backlog \in [Listener -> Seq(Conn)] /\ Port(c) \in Listener
      BY Ports DEF HeldOnce
    <3>2. Append(backlog[Port(c)], c) # << >>
      BY <3>1
    <3>3. backlog' = [backlog EXCEPT ![Port(c)] = Append(backlog[Port(c)], c)]
      OBVIOUS
    <3> HIDE DEF Connect
    <3> QED BY <3>1, <3>2, <3>3
  <2>3. UNCHANGED <<inbuf, cmds, interest, events, file>>
    OBVIOUS
  <2> HIDE DEF Connect
  <2> QED BY <2>1, <2>2, <2>3 DEF EventsReady, Conn
<1> QED BY <1>1, <1>2, <1>3

LEMMA WriteStep ==
  ASSUME ServerInv, NEW s \in Sink, NEW n \in 1 .. MaxBytes, Write(s, n)
  PROVE  ServerInv'
<1> USE DEF ServerInv, Write, kernel, tables
<1>1. TablesInv' /\ HeldOnce'
  BY TablesSame, HeldSame
<1>2. inbuf' \in [Conn -> Nat] /\ \A t \in Sink : inbuf[t] > 0 => inbuf'[t] > 0
  BY DEF EventsReady, Conn
<1> QED BY <1>1, <1>2 DEF EventsReady

LEMMA AskStep ==
  ASSUME ServerInv, NEW c \in Control, NEW m \in Command, Ask(c, m)
  PROVE  ServerInv'
<1> USE DEF ServerInv, Ask, kernel, tables
<1>1. TablesInv' /\ HeldOnce'
  BY TablesSame, HeldSame
<1>2. DOMAIN cmds' = Conn /\ \A s \in Sink : cmds'[s] = cmds[s]
  BY DEF EventsReady, Conn
<1> QED BY <1>1, <1>2 DEF EventsReady

LEMMA CloseStep ==
  ASSUME ServerInv, NEW c \in Conn, Close(c)
  PROVE  ServerInv'
<1> USE DEF ServerInv, Close, kernel, tables
<1>1. TablesInv'
  BY TablesSame
<1>2. HeldOnce'
  <2>1. peer' \in [Conn -> {"none", "open", "closed"}]
        /\ \A d : d \in Conn /\ peer[d] # "none" => peer'[d] # "none"
    BY DEF HeldOnce
  <2>2. UNCHANGED <<backlog, file>> /\ file \in [Fds -> Conn \cup {None}]
    BY DEF TablesInv
  <2> QED BY <2>1, <2>2 DEF HeldOnce
<1>3. EventsReady'
  <2>1. DOMAIN cmds' = Conn /\ \A s \in Sink : cmds'[s] = << >>
    BY DEF EventsReady, Conn
  <2>2. \A s \in Sink : peer[s] = "closed" => peer'[s] = "closed"
    BY DEF HeldOnce, Conn
  <2> QED BY <2>1, <2>2 DEF EventsReady
<1> QED BY <1>1, <1>2, <1>3

-----------------------------------------------------------------------------
(* The server's steps.                                                       *)

LEMMA EpollWaitStep ==
  ASSUME ServerInv, EpollWait
  PROVE  ServerInv'
<1> USE DEF ServerInv, EpollWait, kernel, tables
<1>1. TablesInv' /\ HeldOnce'
  BY TablesSame, HeldSame DEF peers
<1>2. \A fd \in events' : fd \in interest /\ Readable(fd)
  OBVIOUS
<1>3. UNCHANGED <<inbuf, cmds, interest, backlog, file, peer>>
  BY DEF peers
<1> QED BY <1>1, <1>2, <1>3 DEF EventsReady, Readable

LEMMA HandleServerStep ==
  ASSUME ServerInv, NEW fd \in Fds, HandleServer(fd)
  PROVE  ServerInv'
<1> USE DEF ServerInv
<1>1. UNCHANGED <<peer, inbuf, kernel, tables>> /\ events' = events \ {fd}
  BY DEF HandleServer
<1>2. TablesInv' /\ HeldOnce'
  BY <1>1, TablesSame, HeldSame DEF kernel, tables
<1>3. file[fd] \notin Sink
  <2>1. mapping[fd] = serverfd
    BY DEF HandleServer
  <2> QED BY <2>1 DEF TablesInv, Port, serverfd, sinkfd
<1>4. PICK seg : cmds' = [cmds EXCEPT ![file[fd]] = seg[2]]
  BY DEF HandleServer
<1>5. DOMAIN cmds' = Conn /\ \A s \in Sink : cmds'[s] = cmds[s]
  BY <1>3, <1>4 DEF EventsReady, Conn
<1> QED BY <1>1, <1>2, <1>5 DEF EventsReady, kernel

(* A descriptor is given back by a step that leaves the peers, what they     *)
(* have sent, and the other events of the batch.                             *)
LEMMA ForgetStep ==
  ASSUME ServerInv, NEW fd \in Fds, file[fd] # None, Forget(fd),
         events' = events \ {fd}, UNCHANGED <<peer, inbuf, cmds>>
  PROVE  ServerInv'
<1> USE DEF ServerInv
<1>1. TablesInv'
  BY TablesGiven
<1>2. /\ file \in [Fds -> Conn \cup {None}] /\ UNCHANGED backlog
      /\ file' = [file EXCEPT ![fd] = None] /\ interest' = interest \ {fd}
  BY DEF TablesInv, Forget
<1>3. \A x \in Fds : file'[x] = IF x = fd THEN None ELSE file[x]
  BY <1>2
<1>4. HeldOnce'
  <2>1. \A l \in Listener : \A i \in 1 .. Len(backlog[l]) : backlog[l][i] # None
    BY Ports DEF HeldOnce
  <2> QED BY <1>2, <1>3, <2>1 DEF HeldOnce
<1>5. EventsReady'
  <2>1. \A x \in (events \ {fd}) \ Listener : x \in Fds /\ x # fd
    BY DEF EventsReady, TablesInv
  <2>2. events' \subseteq interest'
    BY <1>2 DEF EventsReady
  <2> QED BY <1>2, <1>3, <2>1, <2>2 DEF EventsReady
<1> QED BY <1>1, <1>4, <1>5

LEMMA LoseServerStep ==
  ASSUME ServerInv, NEW fd \in Fds, LoseServer(fd)
  PROVE  ServerInv'
<1>1. file[fd] # None
  BY DEF LoseServer, ServerInv, TablesInv, serverfd
<1>2. Forget(fd) /\ events' = events \ {fd} /\ UNCHANGED <<peer, inbuf, cmds>>
  BY DEF LoseServer, peers
<1> QED BY <1>1, <1>2, ForgetStep

LEMMA HandleSinkStep ==
  ASSUME ServerInv, NEW fd \in Fds, HandleSink(fd)
  PROVE  ServerInv'
<1>1. file[fd] \in Conn /\ file[fd] # None /\ mss[fd] \in Nat
  BY Ports DEF HandleSink, ServerInv, TablesInv, sinkfd
<1> DEFINE c == file[fd]
           n == Min({inbuf[c], BufSize(fd)})
<1>2. inbuf \in [Conn -> Nat] /\ n \in Int /\ n <= inbuf[c]
  <2>1. inbuf \in [Conn -> Nat]
    BY DEF ServerInv, EventsReady
  <2>2. inbuf[c] \in Int /\ BufSize(fd) \in Int
    BY <1>1, <2>1 DEF BufSize
  <2> QED BY <2>1, <2>2, MinOfTwo
<1>3. CASE n <= 0
  <2>1. Forget(fd) /\ events' = events \ {fd} /\ UNCHANGED <<peer, inbuf, cmds>>
    BY <1>2, <1>3 DEF HandleSink, peers
  <2> QED BY <1>1, <2>1, ForgetStep
<1>4. CASE n > 0
  <2>1. /\ inbuf' = [inbuf EXCEPT ![c] = @ - n] /\ UNCHANGED <<kernel, tables>>
        /\ events' = events \ {fd} /\ UNCHANGED <<peers, cmds>>
    BY <1>2, <1>4 DEF HandleSink
  <2>2. TablesInv' /\ HeldOnce'
    BY <2>1, TablesSame, HeldSame DEF ServerInv, peers, kernel, tables
  <2>3. inbuf' \in [Conn -> Nat] /\ \A d \in Conn : d # c => inbuf'[d] = inbuf[d]
    BY <1>1, <1>2, <2>1
  <2>4. \A x \in Fds : x # fd => file[x] # c
    BY <1>1 DEF ServerInv, HeldOnce
  <2>5. \A x \in events' \ Listener : x \in Fds /\ x # fd /\ x \in events
    BY <2>1 DEF ServerInv, EventsReady, TablesInv
  <2>6. ASSUME NEW x \in events' \ Listener, file[x] \in Sink
        PROVE  inbuf'[file[x]] > 0 \/ peer[file[x]] = "closed"
    BY <2>3, <2>4, <2>5, <2>6 DEF ServerInv, EventsReady, Conn
  <2>7. UNCHANGED <<peer, cmds, backlog, file, interest>>
    BY <2>1 DEF peers, kernel
  <2>8. EventsReady'
    BY <2>1, <2>3, <2>6, <2>7 DEF ServerInv, EventsReady
  <2> QED BY <2>2, <2>8 DEF ServerInv
<1> QED BY <1>2, <1>3, <1>4

LEMMA NewClientStep ==
  ASSUME ServerInv, NEW l \in Listener, NewClient(l)
  PROVE  ServerInv'
<1> DEFINE q  == backlog[l]
           c  == Head(q)
           fd == Min(FreeFds)
<1>1. fd \in Fds /\ file[fd] = None /\ fd \in FreeFds
  <2>1. FreeFds \in SUBSET Nat /\ FreeFds # {}
    BY DEF NewClient, FreeFds
  <2>2. fd \in FreeFds
    BY <2>1, MinElement
  <2> QED BY <2>2 DEF FreeFds
<1>2. /\ backlog \in [Listener -> Seq(Conn)] /\ q \in Seq(Conn) /\ IsInjective(q)
      /\ q # << >>
  BY DEF NewClient, ServerInv, HeldOnce, EventsReady
<1>3. /\ c = q[1] /\ c \in Conn /\ 1 \in 1 .. Len(q)
      /\ Tail(q) \in Seq(Conn) /\ IsInjective(Tail(q))
      /\ \A i \in 1 .. Len(Tail(q)) :
           i + 1 \in 1 .. Len(q) /\ Tail(q)[i] = q[i + 1] /\ q[i + 1] # c
  BY <1>2, TailOnce
<1>4. \A k \in Listener : \A i \in 1 .. Len(backlog[k]) :
        /\ Port(backlog[k][i]) = k /\ peer[backlog[k][i]] # "none"
        /\ \A x \in Fds : file[x] # backlog[k][i]
  BY DEF ServerInv, HeldOnce
<1>5. Port(c) = l /\ peer[c] # "none" /\ \A x \in Fds : file[x] # c
  BY <1>3, <1>4
<1>6. /\ file' = [file EXCEPT ![fd] = c]
      /\ mapping' = [mapping EXCEPT ![fd] = IF @ = 0 THEN l ELSE @]
      /\ mss' = [mss EXCEPT ![fd] = IF @ = 0 THEN Mss[c] ELSE @]
      /\ interest' = interest \cup {fd} /\ cnt' = [cnt EXCEPT ![l] = @ + 1]
      /\ backlog' = [backlog EXCEPT ![l] = Tail(q)] /\ events' = events \ {l}
      /\ UNCHANGED <<peer, inbuf, cmds>>
  BY DEF NewClient, peers
<1> HIDE DEF q, c, fd
<1>7. TablesInv'
  BY <1>1, <1>3, <1>5, <1>6, TablesTaken DEF ServerInv
<1>8. file \in [Fds -> Conn \cup {None}] /\ c # None
      /\ \A x \in Fds : file'[x] = IF x = fd THEN c ELSE file[x]
  BY <1>1, <1>3, <1>6, Ports DEF ServerInv, TablesInv
<1>9. \A k \in Listener : backlog'[k] = IF k = l THEN Tail(q) ELSE backlog[k]
  BY <1>2, <1>6
<1>10. HeldOnce'
  <2>1. backlog' \in [Listener -> Seq(Conn)] /\ \A k \in Listener : IsInjective(backlog'[k])
    <3>1. backlog' \in [Listener -> Seq(Conn)]
      BY <1>2, <1>3, <1>6
    <3> QED BY <1>3, <1>9, <3>1 DEF ServerInv, HeldOnce
  <2>2. ASSUME NEW k \in Listener, NEW i \in 1 .. Len(backlog'[k])
        PROVE  /\ Port(backlog'[k][i]) = k /\ peer[backlog'[k][i]] # "none"
               /\ \A x \in Fds : file'[x] # backlog'[k][i]
    <3>1. CASE k = l
      <4>1. i \in 1 .. Len(Tail(q)) /\ backlog'[k] = Tail(q)
        BY <1>9, <3>1
      <4>2. i + 1 \in 1 .. Len(q) /\ backlog'[k][i] = q[i + 1] /\ q[i + 1] # c
        BY <1>3, <4>1
      <4>3. /\ Port(q[i + 1]) = l /\ peer[q[i + 1]] # "none"
            /\ \A x \in Fds : file[x] # q[i + 1]
        BY <1>4, <4>2 DEF q
      <4> QED BY <1>8, <3>1, <4>2, <4>3
    <3>2. CASE k # l
      <4>1. backlog'[k] = backlog[k] /\ i \in 1 .. Len(backlog[k])
        BY <1>9, <3>2
      <4>2. /\ Port(backlog[k][i]) = k /\ peer[backlog[k][i]] # "none"
            /\ \A x \in Fds : file[x] # backlog[k][i]
        BY <1>4, <4>1
      <4>3. backlog[k][i] # c
        BY <1>5, <3>2, <4>2
      <4> QED BY <1>8, <4>1, <4>2, <4>3
    <3> QED BY <3>1, <3>2
  <2>3. \A x \in Fds : file'[x] # None =>
         peer[file'[x]] # "none" /\ \A y \in Fds : file'[y] = file'[x] => y = x
    BY <1>5, <1>8 DEF ServerInv, HeldOnce
  <2> QED BY <1>6, <2>1, <2>2, <2>3 DEF ServerInv, HeldOnce
<1>11. EventsReady'
  <2>1. events' \subseteq interest'
    BY <1>6 DEF ServerInv, EventsReady
  <2>2. \A k \in events' \cap Listener : backlog'[k] # << >>
    BY <1>6, <1>9 DEF ServerInv, EventsReady
  <2>3. \A x \in events' \ Listener : x \in Fds /\ x \in events /\ file'[x] = file[x]
    BY <1>1, <1>6, <1>8 DEF ServerInv, EventsReady, TablesInv
  <2> QED BY <1>6, <2>1, <2>2, <2>3 DEF ServerInv, EventsReady
<1> QED BY <1>7, <1>10, <1>11 DEF ServerInv

-----------------------------------------------------------------------------
LEMMA Stutter ==
  ASSUME ServerInv, UNCHANGED <<peers, inbuf, cmds, kernel, events, tables>>
  PROVE  ServerInv'
<1>1. TablesInv' /\ HeldOnce'
  BY TablesSame, HeldSame DEF ServerInv, peers, kernel, tables
<1> QED BY <1>1 DEF ServerInv, EventsReady, peers, kernel

LEMMA Step == ServerInv /\ [Next]_vars => ServerInv'
<1> SUFFICES ASSUME ServerInv, [Next]_vars PROVE ServerInv'
  OBVIOUS
<1>1. CASE UNCHANGED vars
  BY <1>1, Stutter DEF vars
<1>2. CASE EpollWait
  BY <1>2, EpollWaitStep
<1>3. ASSUME NEW fd \in events, Handle(fd)
      PROVE  ServerInv'
  <2>1. fd \in Listener \/ fd \in Fds
    BY DEF ServerInv, EventsReady, TablesInv
  <2>2. CASE fd \in Listener
    <3>1. CASE NewClient(fd)
      BY <2>2, <3>1, NewClientStep
    <3>2. CASE AcceptFails(fd)
      BY <3>2, Stutter DEF AcceptFails
    <3> QED BY <1>3, <2>2, <3>1, <3>2 DEF Handle
  <2>3. CASE fd \in Fds
    <3>1. HandleSink(fd) \/ HandleServer(fd) \/ LoseServer(fd)
      BY <1>3, <2>3, FdsAreNot DEF Handle
    <3> QED BY <2>3, <3>1, HandleSinkStep, HandleServerStep, LoseServerStep
  <2> QED BY <2>1, <2>2, <2>3
<1>4. CASE Peers
  BY <1>4, ConnectStep, WriteStep, AskStep, CloseStep DEF Peers
<1> QED BY <1>1, <1>2, <1>3, <1>4 DEF Next, Server

(* The tables, the backlogs and the batch of events hold together however    *)
(* connections come, close and have their descriptors used again meanwhile.  *)
THEOREM Invariance == Spec => []ServerInv
BY Start, Step, PTL DEF Spec

-----------------------------------------------------------------------------
(* Every event that main looks up in mapping is there, with the port of its  *)
(* connection, and cnt, which /clients answers with, counts the open ones.   *)
THEOREM TablesHold == Spec => []TablesInStep
<1>1. ServerInv => TablesInStep
  <2> SUFFICES ASSUME ServerInv PROVE TablesInStep
    OBVIOUS
  <2>1. \A fd \in interest \ Listener : file[fd] # None /\ mapping[fd] = Port(file[fd])
    BY DEF ServerInv, TablesInv
  <2>2. \A l \in Listener :
          cnt[l] = Quantify(Fds, LAMBDA fd : file[fd] # None /\ Port(file[fd]) = l)
    BY DEF ServerInv, TablesInv, OpenAt, Quantify
  <2> QED BY <2>1, <2>2 DEF TablesInStep
<1> QED BY <1>1, Invariance, PTL

(* The server closes a sink connection only at the end of all that its peer  *)
(* wrote: read is given room, so it returns 0 only when nothing is left, and *)
(* the event that it answers then comes of the peer's close.                 *)
THEOREM DataNotDropped == Spec => NoDataDropped
<1> DEFINE Kept == \A fd \in Fds : LET c == file[fd] IN
                     c \in Sink /\ file'[fd] # c => peer[c] = "closed" /\ inbuf[c] = 0
<1>1. ServerInv /\ [Next]_vars => [Kept]_vars
  <2> SUFFICES ASSUME ServerInv, Next,
                      NEW fd \in Fds, file[fd] \in Sink, file'[fd] # file[fd]
               PROVE  peer[file[fd]] = "closed" /\ inbuf[file[fd]] = 0
    BY DEF vars
  <2>1. \A x \in Fds : file[x] = None \/ file[x] \in Conn
    BY DEF ServerInv, TablesInv
  <2>2. file[fd] # None /\ file[fd] \in Conn
    BY Ports DEF Conn
  <2>3. ~ UNCHANGED file
    OBVIOUS
  <2>4. CASE \E l \in Listener : NewClient(l)
    <3>1. Min(FreeFds) \in FreeFds
      BY <2>4, MinElement DEF NewClient, FreeFds
    <3>2. file' = [file EXCEPT ![Min(FreeFds)] = file'[Min(FreeFds)]]
      BY <2>4, <3>1 DEF NewClient, FreeFds, ServerInv, TablesInv
    <3> QED BY <2>2, <3>1, <3>2 DEF FreeFds, ServerInv, TablesInv
  <2>5. CASE \E x \in Fds : LoseServer(x)
    <3>1. PICK x \in Fds : LoseServer(x)
      BY <2>5
    <3>2. file[x] \notin Sink
      BY <3>1 DEF LoseServer, ServerInv, TablesInv, Port, serverfd, sinkfd
    <3> QED BY <3>1, <3>2 DEF LoseServer, Forget, ServerInv, TablesInv
  <2>6. CASE \E x \in events \ Listener : HandleSink(x)
    <3>1. PICK x \in events \ Listener : HandleSink(x)
      BY <2>6
    <3>2. x = fd /\ Min({inbuf[file[fd]], BufSize(fd)}) <= 0
      BY <2>3, <3>1 DEF HandleSink, Forget, kernel, ServerInv, TablesInv
    <3>3. BufSize(fd) \in Int /\ BufSize(fd) > 0 /\ inbuf[file[fd]] \in Nat
      BY <2>2 DEF BufSize, ServerInv, TablesInv, EventsReady
    <3>4. inbuf[file[fd]] = 0
      BY <3>2, <3>3, MinOfTwo
    <3>5. fd \in events \ Listener
      BY <3>1, <3>2
    <3>6. inbuf[file[fd]] > 0 \/ peer[file[fd]] = "closed"
      BY <3>5 DEF ServerInv, EventsReady
    <3> QED BY <3>4, <3>6
  <2>7. \/ \E l \in Listener : NewClient(l)
        \/ \E x \in Fds : LoseServer(x)
        \/ \E x \in events \ Listener : HandleSink(x)
    <3>1. events \subseteq Listener \cup Fds
      BY DEF ServerInv, EventsReady, TablesInv
    <3>2. ~ Peers /\ ~ EpollWait
      BY <2>3 DEF Peers, Connect, Write, Ask, Close, EpollWait, kernel
    <3>3. \A x : ~ HandleServer(x) /\ ~ AcceptFails(x)
      BY <2>3 DEF HandleServer, AcceptFails, kernel
    <3> QED BY <3>1, <3>2, <3>3 DEF Next, Server, Handle
  <2> QED BY <2>4, <2>5, <2>6, <2>7
<1>2. NoDataDropped <=> [][Kept]_vars
  BY DEF NoDataDropped
<1> HIDE DEF Kept
<1> QED BY <1>1, <1>2, Invariance, PTL DEF Spec

-----------------------------------------------------------------------------
(* handle_server goes through its tokens one by one.                         *)

State == [size : Nat, out : Seq(Answers), up : BOOLEAN]

(* What the resets have reported and what is counted since, when r has been  *)
(* sent before.                                                              *)
Total(r, st) == Reported(r \o st.out) + st.size

LEMMA AnswerStep ==
  ASSUME cnt[sinkfd] \in Nat, NEW st \in State, NEW m, NEW r \in Seq(Answers)
  PROVE  Answer(st, m) \in State /\ Total(r, Answer(st, m)) = Total(r, st)
<1>1. /\ st.out \in Seq(Answers) /\ st.size \in Nat /\ st.up \in BOOLEAN
      /\ r \o st.out \in Seq(Answers)
  BY DEF State
<1>2. ASSUME NEW e \in Answers
      PROVE  /\ Append(st.out, e) \in Seq(Answers)
             /\ Reported(r \o Append(st.out, e)) = Reported(r \o st.out) + Size(e)
  <2>1. r \o Append(st.out, e) = Append(r \o st.out, e)
    BY <1>1
  <2> QED BY <1>1, <2>1, ReportedAppend
<1>3. Reported(r \o st.out) \in Int
  BY <1>1, ReportedType
<1>4. ASSUME NEW e \in Answers, Size(e) = 0, Answer(st, m) = [st EXCEPT !.out = Append(@, e)]
      PROVE  Answer(st, m) \in State /\ Total(r, Answer(st, m)) = Total(r, st)
  <2>1. /\ Answer(st, m).out = Append(st.out, e) /\ Answer(st, m).size = st.size
        /\ Answer(st, m) \in State
    BY <1>1, <1>2, <1>4 DEF State
  <2>2. Reported(r \o Append(st.out, e)) = Reported(r \o st.out)
    BY <1>2, <1>3, <1>4
  <2> QED BY <2>1, <2>2 DEF Total
<1>5. CASE st.up /\ m = "/reset"
  <2> DEFINE e == <<"RESET", st.size>>
  <2>1. e \in Answers /\ Size(e) = st.size
    BY <1>1 DEF Answers, Size
  <2>2. Answer(st, m) = [st EXCEPT !.size = 0, !.out = Append(@, e)]
    BY <1>5 DEF Answer
  <2> HIDE DEF e
  <2>3. /\ Answer(st, m).out = Append(st.out, e) /\ Answer(st, m).size = 0
        /\ Answer(st, m) \in State
    <3>1. st = [size |-> st.size, out |-> st.out, up |-> st.up]
      BY DEF State
    <3>2. Answer(st, m) = [size |-> 0, out |-> Append(st.out, e), up |-> st.up]
      BY <2>2, <3>1
    <3>3. Append(st.out, e) \in Seq(Answers) /\ 0 \in Nat /\ st.up \in BOOLEAN
      BY <1>1, <1>2, <2>1
    <3> HIDE DEF Answers
    <3> QED BY <3>2, <3>3 DEF State
  <2>4. Reported(r \o Append(st.out, e)) = Reported(r \o st.out) + st.size
    BY <1>2, <2>1
  <2>5. Total(r, Answer(st, m)) = Reported(r \o st.out) + st.size + 0
    BY <2>3, <2>4 DEF Total
  <2> QED BY <1>1, <1>3, <2>3, <2>5 DEF Total
<1>6. CASE st.up /\ m = "/ping"
  <2>1. <<"PONG", 0>> \in Answers /\ Size(<<"PONG", 0>>) = 0
    BY DEF Answers, Size
  <2>2. Answer(st, m) = [st EXCEPT !.out = Append(@, <<"PONG", 0>>)]
    BY <1>6 DEF Answer
  <2> QED BY <1>4, <2>1, <2>2
<1>7. CASE st.up /\ m = "/report"
  <2>1. <<"REPORT", st.size>> \in Answers /\ Size(<<"REPORT", st.size>>) = 0
    BY <1>1 DEF Answers, Size
  <2>2. Answer(st, m) = [st EXCEPT !.out = Append(@, <<"REPORT", st.size>>)]
    BY <1>7 DEF Answer
  <2> QED BY <1>4, <2>1, <2>2
<1>8. CASE st.up /\ m = "/clients"
  <2>1. <<"CLIENTS", cnt[sinkfd]>> \in Answers /\ Size(<<"CLIENTS", cnt[sinkfd]>>) = 0
    BY DEF Answers, Size
  <2>2. Answer(st, m) = [st EXCEPT !.out = Append(@, <<"CLIENTS", cnt[sinkfd]>>)]
    BY <1>8 DEF Answer
  <2> QED BY <1>4, <2>1, <2>2
<1>9. CASE st.up /\ m = "/exit"
  <2>1. Answer(st, m) = [st EXCEPT !.up = FALSE]
    BY <1>9 DEF Answer
  <2>2. /\ Answer(st, m) \in State /\ Answer(st, m).out = st.out
        /\ Answer(st, m).size = st.size
    BY <2>1 DEF State
  <2> QED BY <2>2 DEF Total
<1>10. CASE ~st.up \/ m \notin {"/reset", "/ping", "/report", "/clients", "/exit"}
  <2>1. Answer(st, m) = st
    BY <1>10 DEF Answer
  <2> QED BY <2>1
<1> QED BY <1>5, <1>6, <1>7, <1>8, <1>9, <1>10

(* FoldLeft is a recursive function on the subsets of the sequence's domain. *)
AnswerRec(F, b, q, s) == IF s = {} THEN b ELSE Answer(F[s \ {Max(s)}], q[Max(s)])

IsRun(F, b, q, D) == F = [s \in D |-> AnswerRec(F, b, q, s)]

Run(b, q) == CHOOSE F : IsRun(F, b, q, SUBSET DOMAIN q)

LEMMA FoldIsRun ==
  ASSUME NEW b, NEW q
  PROVE  FoldLeft(Answer, b, q) = Run(b, q)[DOMAIN q]
BY DEF FoldLeft, MapThenFoldSet, Run, IsRun, AnswerRec

LEMMA MaxOfPrefix ==
  ASSUME NEW n \in Nat
  PROVE  Max(1 .. (n + 1)) = n + 1 /\ (1 .. (n + 1)) \ {n + 1} = 1 .. n
<1>1. n + 1 \in 1 .. (n + 1) /\ \A y \in 1 .. (n + 1) : n + 1 >= y
  OBVIOUS
<1>2. \A x \in 1 .. (n + 1) : (\A y \in 1 .. (n + 1) : x >= y) => x = n + 1
  OBVIOUS
<1>3. \A i : i \in (1 .. (n + 1)) \ {n + 1} <=> i \in 1 .. n
  OBVIOUS
<1> QED BY <1>1, <1>2, <1>3 DEF Max

LEMMA MaxElement ==
  ASSUME NEW n \in Nat, NEW S \in SUBSET (1 .. n), S # {}
  PROVE  Max(S) \in S
<1> DEFINE U == {m \in Nat : \A x \in S : x <= m}
<1>1. n \in U
  OBVIOUS
<1>2. PICK u \in U : \A m \in U : u <= m
  BY <1>1, LeastElement
<1>3. u \in Nat /\ \A x \in S : x <= u /\ x \in Nat /\ x >= 1
  OBVIOUS
<1>4. u \in S
  <2> SUFFICES ASSUME u \notin S PROVE FALSE
    OBVIOUS
  <2>1. PICK x : x \in S
    OBVIOUS
  <2>2. u - 1 \in Nat /\ \A y \in S : y <= u - 1
    BY <1>3, <2>1
  <2>3. u - 1 \in U
    BY <2>2
  <2> QED BY <1>2, <1>3, <2>3
<1>5. \E x \in S : \A y \in S : x >= y
  BY <1>3, <1>4
<1> QED BY <1>5 DEF Max

LEMMA RunExists ==
  ASSUME NEW b, NEW M, NEW q \in Seq(M)
  PROVE  \E F : IsRun(F, b, q, SUBSET DOMAIN q)
<1> DEFINE S == DOMAIN q
           Bad == {n \in Nat : ~ \E F : IsRun(F, b, q, UpTo(S, n))}
<1>1. S = 1 .. Len(q) /\ Len(q) \in Nat /\ IsFiniteSet(S)
  <2>1. S = 1 .. Len(q) /\ Len(q) \in Nat
    OBVIOUS
  <2> QED BY <2>1, FS_Interval
<1> HIDE DEF S
<1>2. CASE Bad = {}
  <2>1. Cardinality(S) \in Nat /\ UpTo(S, Cardinality(S)) = SUBSET S
    BY <1>1, UpToAll
  <2>2. Cardinality(S) \notin Bad
    BY <1>2
  <2>3. \E F : IsRun(F, b, q, UpTo(S, Cardinality(S)))
    BY ONLY <2>1, <2>2
  <2> QED BY ONLY <2>1, <2>3 DEF S
<1>3. CASE Bad # {}
  <2>1. PICK n \in Bad : \A m \in Bad : n <= m
    BY <1>3, LeastElement
  <2>2. n \in Nat
    OBVIOUS
  <2>3. \E F : IsRun(F, b, q, UpTo(S, n))
    <3>1. CASE n = 0
      <4> DEFINE F == [s \in UpTo(S, n) |-> b]
      <4>1. \A s \in UpTo(S, n) : s = {}
        <5> SUFFICES ASSUME NEW s \in UpTo(S, n), s # {} PROVE FALSE
          OBVIOUS
        <5>1. PICK x : x \in s
          OBVIOUS
        <5>2. n > 0
          BY <1>1, <2>2, <5>1, UpToLess
        <5> QED BY <3>1, <5>2
      <4>2. IsRun(F, b, q, UpTo(S, n))
        BY <4>1 DEF IsRun, AnswerRec
      <4> QED BY <4>2
    <3>2. CASE n # 0
      <4>1. n - 1 \in Nat /\ n - 1 \notin Bad
        BY <2>1, <2>2, <3>2
      <4>2. PICK F : IsRun(F, b, q, UpTo(S, n - 1))
        BY <4>1
      <4> DEFINE G == [s \in UpTo(S, n) |-> AnswerRec(F, b, q, s)]
      <4>3. ASSUME NEW s \in UpTo(S, n), s # {}
            PROVE  G[s \ {Max(s)}] = F[s \ {Max(s)}]
        <5>1. Max(s) \in s
          BY <1>1, <4>3, MaxElement DEF UpTo
        <5>2. s \ {Max(s)} \in UpTo(S, n - 1)
          BY <1>1, <2>2, <5>1, UpToLess
        <5>3. \A t \in UpTo(S, n - 1) : t \in UpTo(S, n)
          <6> SUFFICES ASSUME NEW t \in UpTo(S, n - 1) PROVE Cardinality(t) <= n
            BY DEF UpTo
          <6>1. Cardinality(t) \in Nat /\ Cardinality(t) <= n - 1
            BY <1>1, FS_Subset, FS_CardinalityType DEF UpTo
          <6> QED BY <2>2, <6>1
        <5>4. \A t \in UpTo(S, n - 1) : F[t] = AnswerRec(F, b, q, t)
          BY <4>2 DEF IsRun
        <5> QED BY <5>2, <5>3, <5>4
      <4> HIDE DEF G
      <4>4. \A s \in UpTo(S, n) : AnswerRec(F, b, q, s) = AnswerRec(G, b, q, s)
        BY <4>3 DEF AnswerRec
      <4>5. G = [s \in UpTo(S, n) |-> AnswerRec(G, b, q, s)]
        BY <4>4 DEF G
      <4> QED BY <4>5 DEF IsRun
    <3> QED BY <3>1, <3>2
  <2> QED BY <2>3
<1> QED BY <1>2, <1>3

LEMMA AnswerFold ==
  ASSUME cnt[sinkfd] \in Nat, NEW b \in State, NEW M, NEW q \in Seq(M)
  PROVE  /\ FoldLeft(Answer, b, q) \in State
         /\ \A r \in Seq(Answers) : Total(r, FoldLeft(Answer, b, q)) = Total(r, b)
<1> DEFINE F == Run(b, q)
           Good(st) == st \in State /\ \A r \in Seq(Answers) : Total(r, st) = Total(r, b)
           Bad == {n \in 0 .. Len(q) : ~ Good(F[1 .. n])}
<1>1. Len(q) \in Nat /\ DOMAIN q = 1 .. Len(q)
  OBVIOUS
<1>2. \A s \in SUBSET (1 .. Len(q)) : F[s] = AnswerRec(F, b, q, s)
  <2>1. IsRun(F, b, q, SUBSET DOMAIN q)
    BY RunExists DEF Run
  <2> QED BY <1>1, <2>1 DEF IsRun
<1> HIDE DEF F
<1>3. CASE Bad = {}
  <2>1. Len(q) \in 0 .. Len(q) /\ Len(q) \notin Bad
    BY <1>1, <1>3
  <2>2. Good(F[1 .. Len(q)])
    BY <2>1
  <2>3. FoldLeft(Answer, b, q) = F[1 .. Len(q)]
    BY <1>1, FoldIsRun DEF F
  <2> QED BY <2>2, <2>3
<1>4. CASE Bad # {}
  <2>1. PICK n \in Bad : \A m \in Bad : n <= m
    <3>1. Bad \in SUBSET Nat
      BY <1>1
    <3> HIDE DEF Bad
    <3> QED BY <1>4, <3>1, LeastElement
  <2>2. n \in Nat /\ n <= Len(q)
    BY <1>1
  <2>3. CASE n = 0
    <3> DEFINE e == 1 .. n
    <3>1. e = {} /\ e \in SUBSET (1 .. Len(q))
      BY <2>3
    <3> HIDE DEF e
    <3>2. F[e] = b
      BY <1>2, <3>1 DEF AnswerRec
    <3>3. Good(F[e])
      BY <3>2
    <3> QED BY <3>3 DEF e
  <2>4. CASE n # 0
    <3>1. n - 1 \in 0 .. Len(q) /\ n - 1 \in Nat /\ (n - 1) + 1 = n
      BY <1>1, <2>2, <2>4
    <3>2. n - 1 \notin Bad
      BY <2>1, <2>2, <3>1
    <3>3. Good(F[1 .. (n - 1)])
      BY <3>1, <3>2
    <3>4. Max(1 .. n) = n /\ (1 .. n) \ {n} = 1 .. (n - 1)
      BY <3>1, MaxOfPrefix
    <3>5. 1 .. n \in SUBSET (1 .. Len(q)) /\ 1 .. n # {}
      BY <1>1, <2>2, <2>4
    <3>6. F[1 .. n] = Answer(F[1 .. (n - 1)], q[n])
      BY <1>2, <3>4, <3>5 DEF AnswerRec
    <3> DEFINE st == F[1 .. (n - 1)]
    <3>7. st \in State /\ \A r \in Seq(Answers) : Total(r, st) = Total(r, b)
      BY <3>3
    <3> HIDE DEF st
    <3>8. Good(Answer(st, q[n]))
      <4>1. Answer(st, q[n]) \in State
        <5>1. PICK r : r \in Seq(Answers)
          <6>1. << >> \in Seq(Answers)
            OBVIOUS
          <6> QED BY <6>1
        <5> QED BY <3>7, <5>1, AnswerStep
      <4>2. ASSUME NEW r \in Seq(Answers)
            PROVE  Total(r, Answer(st, q[n])) = Total(r, b)
        BY <3>7, AnswerStep
      <4> QED BY <4>1, <4>2
    <3>9. Good(F[1 .. n])
      BY <3>6, <3>8 DEF st
    <3> QED BY <3>9
  <2> QED BY <2>3, <2>4
<1> QED BY <1>3, <1>4

-----------------------------------------------------------------------------
(* Every byte is counted once.                                               *)

LEMMA Headers ==
  ASSUME NEW n \in Nat, n >= 1
  PROVE  n + HeaderSize <= n * (1 + HeaderSize)
<1> DEFINE H == HeaderSize
<1>1. H \in Nat
  OBVIOUS
<1> HIDE DEF H
<1>2. n * (1 + H) = n + n * H /\ n * H >= H
  BY <1>1
<1> QED BY <1>1, <1>2 DEF H

(* The two sums as the lemmas on sums take them.                             *)
LEMMA CountedSums ==
  /\ BytesRead = SumFunctionOnSet([s \in Sink |-> written[s] - inbuf[s]], Sink)
  /\ Counted = recv_size + SumFunctionOnSet([c \in Control |-> Reported(replies[c])], Control)
BY SumOfAll DEF BytesRead, Counted

LEMMA CountedTypes ==
  ASSUME written \in [Conn -> Nat], inbuf \in [Conn -> Nat],
         replies \in [Conn -> Seq(Answers)], recv_size \in Nat
  PROVE  /\ BytesRead \in Int /\ Counted \in Int
         /\ \A s \in Sink : written[s] - inbuf[s] \in Int
         /\ \A c \in Control : Reported(replies[c]) \in Int
<1> DEFINE g == [s \in Sink |-> written[s] - inbuf[s]]
           h == [c \in Control |-> Reported(replies[c])]
<1>1. \A s \in Sink : written[s] - inbuf[s] \in Int
  BY DEF Conn
<1>2. \A c \in Control : Reported(replies[c]) \in Int
  BY ReportedType DEF Conn
<1>3. SumFunctionOnSet(g, Sink) \in Int
  <2>1. \A s \in Sink : g[s] \in Int
    BY <1>1
  <2> HIDE DEF g
  <2> QED BY <2>1, SumType
<1>4. SumFunctionOnSet(h, Control) \in Int
  <2>1. \A s \in Control : h[s] \in Int
    BY <1>2
  <2> HIDE DEF h
  <2> QED BY <2>1, SumType
<1>5. BytesRead = SumFunctionOnSet(g, Sink) /\ Counted = recv_size + SumFunctionOnSet(h, Control)
  BY CountedSums
<1> HIDE DEF g, h
<1> QED BY <1>1, <1>2, <1>3, <1>4, <1>5

LEMMA CountStart == Init => CountInv
<1> SUFFICES ASSUME Init PROVE CountInv
  OBVIOUS
<1>1. /\ written \in [Conn -> Nat] /\ inbuf \in [Conn -> Nat]
      /\ cmds \in [Conn -> Seq(Command \cup {"cut"})]
      /\ replies \in [Conn -> Seq(Answers)] /\ recv_size = 0 /\ running \in BOOLEAN
  BY DEF Init
<1> DEFINE g == [s \in Sink |-> written[s] - inbuf[s]]
           h == [c \in Control |-> Reported(replies[c])]
<1>2. (\A s \in Sink : g[s] = 0) /\ (\A c \in Control : h[c] = 0)
  BY ReportedNone DEF Init, Conn
<1>3. BytesRead = SumFunctionOnSet(g, Sink) /\ Counted = recv_size + SumFunctionOnSet(h, Control)
  BY CountedSums
<1> HIDE DEF g, h
<1>4. BytesRead = 0 /\ Counted = 0
  <2>1. SumFunctionOnSet(g, Sink) = 0
    BY <1>2, SumZero
  <2>2. SumFunctionOnSet(h, Control) = 0
    BY <1>2, SumZero
  <2> QED BY <1>1, <1>3, <2>1, <2>2
<1>5. EveryByteCountedOnce
  <2>1. 0 <= 0 * (1 + HeaderSize)
    OBVIOUS
  <2> QED BY <1>4, <2>1 DEF EveryByteCountedOnce
<1> QED BY <1>1, <1>5 DEF CountInv, Answers

(* Steps that neither read nor answer, for which the two sums are the same.  *)
LEMMA CountSame ==
  ASSUME CountInv, \A s \in Sink : written'[s] - inbuf'[s] = written[s] - inbuf[s],
         UNCHANGED <<replies, recv_size>>
  PROVE  EveryByteCountedOnce'
<1> DEFINE g == [s \in Sink |-> written[s] - inbuf[s]]
<1>1. g' = g
  OBVIOUS
<1>2. BytesRead = SumFunctionOnSet(g, Sink) /\ BytesRead' = SumFunctionOnSet(g', Sink)
  BY CountedSums, SumOfAll DEF BytesRead
<1>3. BytesRead' = BytesRead
  <2> HIDE DEF g
  <2> QED BY <1>1, <1>2
<1>4. Counted' = Counted
  BY DEF Counted
<1> QED BY <1>3, <1>4 DEF CountInv, EveryByteCountedOnce

LEMMA SegmentTypes ==
  ASSUME NEW M, "cut" \in M, NEW q \in Seq(M), NEW seg \in Segments(q)
  PROVE  seg[1] \in Seq(M) /\ seg[2] \in Seq(M)
<1>1. \A i, j \in Int : 1 <= i /\ j <= Len(q) => SubSeq(q, i, j) \in Seq(M)
  BY SubSeqProperties
<1>2. CASE \E k \in 1 .. Len(q) : seg = <<SubSeq(q, 1, k), SubSeq(q, k + 1, Len(q))>>
  BY <1>1, <1>2
<1>3. CASE \E k \in 1 .. Len(q) :
             seg = <<Append(SubSeq(q, 1, k - 1), "cut"),
                     <<"cut">> \o SubSeq(q, k + 1, Len(q))>>
  <2>1. PICK k \in 1 .. Len(q) : seg = <<Append(SubSeq(q, 1, k - 1), "cut"),
                                         <<"cut">> \o SubSeq(q, k + 1, Len(q))>>
    BY <1>3
  <2>2. SubSeq(q, 1, k - 1) \in Seq(M) /\ SubSeq(q, k + 1, Len(q)) \in Seq(M)
    BY <1>1
  <2>3. Append(SubSeq(q, 1, k - 1), "cut") \in Seq(M) /\ <<"cut">> \in Seq(M)
    BY <2>2
  <2> QED BY <2>1, <2>2, <2>3
<1> QED BY <1>2, <1>3 DEF Segments

LEMMA WriteCounts ==
  ASSUME ServerInv, CountInv, NEW s \in Sink, NEW n \in 1 .. MaxBytes, Write(s, n)
  PROVE  CountInv'
<1>1. /\ written \in [Conn -> Nat] /\ inbuf \in [Conn -> Nat] /\ s \in Conn /\ n \in Nat
      /\ written' = [written EXCEPT ![s] = @ + n] /\ inbuf' = [inbuf EXCEPT ![s] = @ + n]
  BY DEF Write, ServerInv, EventsReady, CountInv, Conn
<1>2. written' \in [Conn -> Nat]
  BY <1>1
<1>3. \A t \in Sink : written'[t] - inbuf'[t] = written[t] - inbuf[t]
  BY <1>1 DEF Conn
<1>4. UNCHANGED <<cmds, replies, recv_size, running>>
  BY DEF Write
<1>5. EveryByteCountedOnce'
  BY <1>3, <1>4, CountSame
<1> QED BY <1>2, <1>4, <1>5 DEF CountInv

LEMMA OthersCount ==
  ASSUME CountInv, written' \in [Conn -> Nat],
         cmds' \in [Conn -> Seq(Command \cup {"cut"})], running' \in BOOLEAN,
         UNCHANGED <<inbuf, replies, recv_size>>,
         \A s \in Sink : written'[s] = written[s]
  PROVE  CountInv'
<1>1. EveryByteCountedOnce'
  BY CountSame
<1> QED BY <1>1 DEF CountInv

(* A read of n bytes.                                                        *)
LEMMA OneRead ==
  ASSUME NEW b \in Int, NEW c \in Int, b <= c, c <= b * (1 + HeaderSize),
         NEW n \in Nat, n >= 1
  PROVE  b + n <= c + HeaderSize + n /\ c + HeaderSize + n <= (b + n) * (1 + HeaderSize)
<1> DEFINE H == 1 + HeaderSize
<1>1. H \in Nat /\ H >= 1 /\ HeaderSize = H - 1
  OBVIOUS
<1>2. n + HeaderSize <= n * H
  BY Headers
<1> HIDE DEF H
<1>3. (b + n) * H = b * H + n * H /\ b * H \in Int /\ n * H \in Int
  BY <1>1
<1>4. c <= b * H
  BY DEF H
<1>5. c + HeaderSize + n <= (b + n) * H
  BY <1>1, <1>2, <1>3, <1>4
<1> QED BY <1>1, <1>5 DEF H

LEMMA HandleSinkCounts ==
  ASSUME ServerInv, CountInv, NEW fd \in Fds, HandleSink(fd)
  PROVE  CountInv'
<1> DEFINE c == file[fd]
           n == Min({inbuf[c], BufSize(fd)})
<1>1. c \in Sink /\ mss[fd] \in Nat
  BY Ports DEF HandleSink, ServerInv, TablesInv, Port, Conn, serverfd, sinkfd
<1>2. /\ inbuf \in [Conn -> Nat] /\ written \in [Conn -> Nat] /\ recv_size \in Nat
      /\ replies \in [Conn -> Seq(Answers)]
      /\ cmds \in [Conn -> Seq(Command \cup {"cut"})] /\ running \in BOOLEAN
  BY DEF ServerInv, EventsReady, CountInv, Answers
<1>3. n \in Int /\ n <= inbuf[c]
  <2>1. inbuf[c] \in Int /\ BufSize(fd) \in Int
    BY <1>1, <1>2 DEF BufSize, Conn
  <2> QED BY <2>1, MinOfTwo
<1>4. UNCHANGED <<written, cmds, replies, running>>
  BY DEF HandleSink, peers
<1>5. CASE n <= 0
  <2>1. UNCHANGED <<inbuf, recv_size>>
    BY <1>3, <1>5 DEF HandleSink
  <2> QED BY <1>2, <1>4, <2>1, OthersCount
<1>6. CASE n > 0
  <2>1. inbuf' = [inbuf EXCEPT ![c] = @ - n] /\ recv_size' = recv_size + HeaderSize + n
    BY <1>3, <1>6 DEF HandleSink
  <2> HIDE DEF c, n
  <2> DEFINE g == [s \in Sink |-> written[s] - inbuf[s]]
             h == [s \in Sink |-> written[s] - inbuf'[s]]
  <2>2. c \in Conn /\ inbuf[c] \in Nat
    BY <1>1, <1>2 DEF Conn
  <2>3. /\ \A s \in Sink : g[s] \in Int /\ h[s] \in Int
        /\ \A s \in Sink \ {c} : h[s] = g[s]
        /\ h[c] = g[c] + n
    BY <1>1, <1>2, <1>3, <2>1, <2>2 DEF Conn
  <2>4. BytesRead = SumFunctionOnSet(g, Sink) /\ BytesRead' = SumFunctionOnSet(h, Sink)
    BY <1>4, CountedSums, SumOfAll DEF BytesRead
  <2> HIDE DEF g, h
  <2>5. SumFunctionOnSet(h, Sink) = SumFunctionOnSet(g, Sink) + h[c] - g[c]
    BY <1>1, <2>3, SumChange
  <2>6. BytesRead \in Int /\ Counted \in Int /\ g[c] \in Int
    BY <1>1, <1>2, <2>3, CountedTypes
  <2>7. BytesRead' = BytesRead + n
    BY <1>3, <2>3, <2>4, <2>5, <2>6
  <2>8. Counted' = Counted + HeaderSize + n
    <3> DEFINE r == SumFunctionOnSet([d \in Control |-> Reported(replies[d])], Control)
    <3>1. Counted = recv_size + r /\ Counted' = recv_size' + r
      BY <1>4, CountedSums, SumOfAll DEF Counted
    <3>2. r \in Int
      <4> DEFINE k == [d \in Control |-> Reported(replies[d])]
      <4>1. \A d \in Control : k[d] \in Int
        BY <1>2, CountedTypes
      <4> HIDE DEF k
      <4>2. SumFunctionOnSet(k, Control) \in Int
        BY <4>1, SumType
      <4> QED BY <4>2 DEF k
    <3> HIDE DEF r
    <3> QED BY <1>2, <1>3, <2>1, <3>1, <3>2
  <2>9. EveryByteCountedOnce'
    <3>1. BytesRead <= Counted /\ Counted <= BytesRead * (1 + HeaderSize) /\ n \in Nat /\ n >= 1
      BY <1>3, <1>6 DEF CountInv, EveryByteCountedOnce
    <3> QED BY <2>6, <2>7, <2>8, <3>1, OneRead DEF EveryByteCountedOnce
  <2>10. recv_size' \in Nat
    BY <1>2, <1>3, <1>6, <2>1
  <2> QED BY <1>2, <1>4, <2>9, <2>10 DEF CountInv, Answers
<1> QED BY <1>3, <1>5, <1>6

LEMMA CountType == TablesInv => cnt[sinkfd] \in Nat
<1>1. IsFiniteSet(OpenAt(sinkfd)) /\ sinkfd \in Listener
  BY FS_Subset DEF OpenAt, Listener
<1> QED BY <1>1, FS_CardinalityType DEF TablesInv

(* What the server's port has accepted is a control connection.              *)
LEMMA ServerConn ==
  ASSUME ServerInv, NEW fd \in Fds, HandleServer(fd)
  PROVE  file[fd] \in Control /\ file[fd] \in Conn
<1>1. mapping[fd] = serverfd
  BY DEF HandleServer
<1>2. file[fd] # None /\ Port(file[fd]) = serverfd /\ file[fd] \in Conn
  <2>1. file[fd] \in Conn \cup {None}
    BY DEF ServerInv, TablesInv
  <2>2. mapping[fd] = IF file[fd] = None THEN 0 ELSE Port(file[fd])
    BY DEF ServerInv, TablesInv
  <2>3. serverfd # 0
    BY DEF serverfd
  <2> QED BY ONLY <1>1, <2>1, <2>2, <2>3
<1>3. file[fd] \in Control
  BY ONLY <1>2 DEF Port, sinkfd, serverfd
<1> QED BY ONLY <1>2, <1>3

LEMMA HandleServerCounts ==
  ASSUME ServerInv, CountInv, NEW fd \in Fds, HandleServer(fd)
  PROVE  CountInv'
<1> DEFINE c == file[fd]
           b == [size |-> recv_size, out |-> << >>, up |-> TRUE]
<1>1. c \in Control /\ c \in Conn
  BY ServerConn
<1>2. /\ inbuf \in [Conn -> Nat] /\ written \in [Conn -> Nat] /\ recv_size \in Nat
      /\ replies \in [Conn -> Seq(Answers)]
      /\ cmds \in [Conn -> Seq(Command \cup {"cut"})]
  BY DEF ServerInv, EventsReady, CountInv, Answers
<1>3. UNCHANGED <<written, inbuf>>
  BY DEF HandleServer, peers
<1>4. PICK seg \in Segments(cmds[c]) :
        LET st == FoldLeft(Answer, b, seg[1])
        IN  /\ cmds' = [cmds EXCEPT ![c] = seg[2]] /\ recv_size' = st.size
            /\ replies' = [replies EXCEPT ![c] = @ \o st.out] /\ running' = st.up
  BY DEF HandleServer
<1> DEFINE st == FoldLeft(Answer, b, seg[1])
<1>5. /\ cmds' = [cmds EXCEPT ![c] = seg[2]] /\ recv_size' = st.size
      /\ replies' = [replies EXCEPT ![c] = @ \o st.out] /\ running' = st.up
  BY <1>4
<1>6. b \in State /\ b.out = << >> /\ b.size = recv_size
  BY <1>2 DEF State
<1>7. seg[1] \in Seq(Command \cup {"cut"}) /\ seg[2] \in Seq(Command \cup {"cut"})
  BY <1>1, <1>2, SegmentTypes
<1>8. cnt[sinkfd] \in Nat
  BY CountType DEF ServerInv
<1> DEFINE q == replies[c]
<1>9. q \in Seq(Answers)
  BY <1>1, <1>2
<1> HIDE DEF b, c, q
<1>10. st \in State /\ Total(q, st) = Total(q, b)
  BY <1>6, <1>7, <1>8, <1>9, AnswerFold
<1> HIDE DEF st
<1>11. st.out \in Seq(Answers) /\ st.size \in Nat /\ st.up \in BOOLEAN
  BY <1>10 DEF State
<1>12. Reported(q \o st.out) + st.size = Reported(q) + recv_size
  <2>1. q \o << >> = q
    BY <1>9
  <2> QED BY <1>6, <1>10, <2>1 DEF Total
<1>13. /\ replies' \in [Conn -> Seq(Answers)] /\ cmds' \in [Conn -> Seq(Command \cup {"cut"})]
       /\ recv_size' \in Nat /\ running' \in BOOLEAN /\ replies'[c] = q \o st.out
  <2>1. q \o st.out \in Seq(Answers)
    BY <1>9, <1>11
  <2>2. replies' = [replies EXCEPT ![c] = q \o st.out]
    BY <1>5 DEF q
  <2> HIDE DEF Answers
  <2> QED BY <1>1, <1>2, <1>5, <1>7, <1>11, <2>1, <2>2
<1> DEFINE g == [d \in Control |-> Reported(replies[d])]
           h == [d \in Control |-> Reported(replies'[d])]
<1>14. /\ \A d \in Control : g[d] \in Int /\ h[d] \in Int
       /\ \A d \in Control \ {c} : h[d] = g[d]
       /\ g[c] = Reported(q) /\ h[c] = Reported(q \o st.out)
  <2>1. \A d \in Control : Reported(replies[d]) \in Int /\ Reported(replies'[d]) \in Int
    BY <1>2, <1>13, ReportedType DEF Conn
  <2>2. \A d \in Control \ {c} : replies'[d] = replies[d]
    BY <1>1, <1>2, <1>5 DEF Conn
  <2> QED BY <1>1, <1>13, <2>1, <2>2 DEF q
<1>15. /\ Counted = recv_size + SumFunctionOnSet(g, Control)
       /\ Counted' = recv_size' + SumFunctionOnSet(h, Control)
  BY CountedSums, SumOfAll DEF Counted
<1> HIDE DEF g, h
<1>16. /\ SumFunctionOnSet(h, Control) = SumFunctionOnSet(g, Control) + h[c] - g[c]
       /\ SumFunctionOnSet(g, Control) \in Int
  <2>1. \A d \in Control : g[d] \in Int /\ h[d] \in Int
    BY <1>14
  <2>2. \A d \in Control \ {c} : h[d] = g[d]
    BY <1>14
  <2>3. IsFiniteSet(Control)
    OBVIOUS
  <2>4. SumFunctionOnSet(h, Control) = SumFunctionOnSet(g, Control) + h[c] - g[c]
    BY <1>1, <2>1, <2>2, <2>3, SumChange
  <2>5. SumFunctionOnSet(g, Control) \in Int
    BY <2>1, <2>3, SumType
  <2> QED BY <2>4, <2>5
<1>17. Counted' = Counted
  <2>1. g[c] \in Int /\ h[c] \in Int
    BY <1>1, <1>14
  <2>2. recv_size' + h[c] = g[c] + recv_size
    BY <1>5, <1>11, <1>12, <1>14, <2>1
  <2>3. recv_size \in Int /\ recv_size' \in Int
    BY <1>2, <1>13
  <2> QED BY <1>15, <1>16, <2>1, <2>2, <2>3
<1>18. BytesRead' = BytesRead
  BY <1>3 DEF BytesRead
<1>19. EveryByteCountedOnce'
  BY <1>17, <1>18 DEF CountInv, EveryByteCountedOnce
<1> QED BY <1>2, <1>3, <1>13, <1>19 DEF CountInv, Answers

LEMMA CountStep == ServerInv /\ CountInv /\ [Next]_vars => CountInv'
<1> SUFFICES ASSUME ServerInv, CountInv, [Next]_vars PROVE CountInv'
  OBVIOUS
<1>1. /\ written \in [Conn -> Nat] /\ cmds \in [Conn -> Seq(Command \cup {"cut"})]
      /\ running \in BOOLEAN
  BY DEF CountInv
<1>2. CASE UNCHANGED <<written, cmds, running, inbuf, replies, recv_size>>
  BY <1>1, <1>2, OthersCount
<1>3. ASSUME NEW fd \in events, Handle(fd)
      PROVE  CountInv'
  <2>1. fd \in Listener \/ fd \in Fds
    BY DEF ServerInv, EventsReady, TablesInv
  <2>2. CASE fd \in Listener
    <3>1. /\ UNCHANGED <<written, cmds, inbuf, replies, recv_size>>
          /\ running' \in BOOLEAN
      BY <1>1, <1>3, <2>2 DEF Handle, NewClient, AcceptFails, peers
    <3> QED BY <1>1, <3>1, OthersCount
  <2>3. CASE fd \in Fds
    <3>1. HandleSink(fd) \/ HandleServer(fd) \/ LoseServer(fd)
      BY <1>3, <2>3, FdsAreNot DEF Handle
    <3>2. CASE LoseServer(fd)
      BY <1>2, <3>2 DEF LoseServer, peers
    <3> QED BY <2>3, <3>1, <3>2, HandleSinkCounts, HandleServerCounts
  <2> QED BY <2>1, <2>2, <2>3
<1>4. ASSUME NEW c \in Conn, Connect(c) \/ Close(c)
      PROVE  CountInv'
  <2>1. UNCHANGED <<written, inbuf, replies, recv_size, running>>
    BY <1>4 DEF Connect, Close
  <2>2. cmds' \in [Conn -> Seq(Command \cup {"cut"})]
    <3>1. << >> \in Seq(Command \cup {"cut"})
      OBVIOUS
    <3> QED BY <1>1, <1>4, <3>1 DEF Connect, Close
  <2> QED BY <1>1, <2>1, <2>2, OthersCount
<1>5. ASSUME NEW c \in Control, NEW m \in Command, Ask(c, m)
      PROVE  CountInv'
  <2>1. UNCHANGED <<inbuf, replies, recv_size, running>> /\ c \in Conn
    BY <1>5 DEF Ask, Conn
  <2>2. written' \in [Conn -> Nat] /\ \A s \in Sink : written'[s] = written[s]
    BY <1>1, <1>5 DEF Ask, Conn
  <2>3. cmds' \in [Conn -> Seq(Command \cup {"cut"})]
    <3>1. cmds[c] \in Seq(Command \cup {"cut"}) /\ m \in Command \cup {"cut"}
      BY <1>1, <2>1
    <3>2. Append(cmds[c], m) \in Seq(Command \cup {"cut"})
      BY <3>1
    <3> QED BY <1>1, <1>5, <2>1, <3>2 DEF Ask
  <2> QED BY <1>1, <2>1, <2>2, <2>3, OthersCount
<1>6. CASE EpollWait
  BY <1>2, <1>6 DEF EpollWait, peers
<1>7. CASE UNCHANGED vars
  BY <1>2, <1>7 DEF vars, peers
<1> QED BY <1>3, <1>4, <1>5, <1>6, <1>7, WriteCounts DEF Next, Server, Peers

(* Over all connections, resets and descriptors that are used again, every   *)
(* byte that the server reads is in the counter once, with at most one       *)
(* header for each.                                                          *)
THEOREM BytesCountedOnce == Spec => []EveryByteCountedOnce
<1>1. CountInv => EveryByteCountedOnce
  BY DEF CountInv
<1> QED BY <1>1, CountStart, CountStep, Invariance, PTL DEF Spec

(* No read loses a token: one that is cut is counted twice.                  *)
LEMMA NoTokenLost ==
  ASSUME NEW M, NEW q \in Seq(M), NEW seg \in Segments(q)
  PROVE  Len(seg[1]) + Len(seg[2]) - Len(q) \in Nat
<1>0. Len(q) \in Nat
  OBVIOUS
<1>1. \A i, j \in Int : 1 <= i /\ j <= Len(q) =>
        /\ SubSeq(q, i, j) \in Seq(M)
        /\ Len(SubSeq(q, i, j)) = IF i <= j THEN j - i + 1 ELSE 0
  BY SubSeqProperties
<1>2. CASE \E k \in 1 .. Len(q) : seg = <<SubSeq(q, 1, k), SubSeq(q, k + 1, Len(q))>>
  <2>1. PICK k \in 1 .. Len(q) : seg = <<SubSeq(q, 1, k), SubSeq(q, k + 1, Len(q))>>
    BY <1>2
  <2>2. Len(SubSeq(q, 1, k)) = k /\ Len(SubSeq(q, k + 1, Len(q))) = Len(q) - k
    BY <1>0, <1>1
  <2> QED BY <1>0, <2>1, <2>2
<1>3. CASE \E k \in 1 .. Len(q) :
             seg = <<Append(SubSeq(q, 1, k - 1), "cut"),
                     <<"cut">> \o SubSeq(q, k + 1, Len(q))>>
  <2>1. PICK k \in 1 .. Len(q) : seg = <<Append(SubSeq(q, 1, k - 1), "cut"),
                                         <<"cut">> \o SubSeq(q, k + 1, Len(q))>>
    BY <1>3
  <2> DEFINE a == SubSeq(q, 1, k - 1)
             e == SubSeq(q, k + 1, Len(q))
  <2>2. a \in Seq(M) /\ Len(a) = k - 1 /\ e \in Seq(M) /\ Len(e) = Len(q) - k
    BY <1>0, <1>1
  <2>3. seg[1] = Append(a, "cut") /\ seg[2] = <<"cut">> \o e
    BY <2>1
  <2> HIDE DEF a, e
  <2>4. Len(seg[1]) = k
    BY <2>2, <2>3
  <2>5. Len(seg[2]) = 1 + (Len(q) - k)
    <3>1. e \in Seq(M \cup {"cut"}) /\ <<"cut">> \in Seq(M \cup {"cut"})
      BY <2>2
    <3>2. Len(<<"cut">> \o e) = 1 + Len(e)
      BY <3>1
    <3> QED BY <2>2, <2>3, <3>2
  <2> QED BY <1>0, <2>4, <2>5
<1> QED BY <1>2, <1>3 DEF Segments

LEMMA MoreCuts ==
  ASSUME NEW a \in Nat, NEW x \in Nat, NEW y \in Nat, NEW z \in Nat, x + y - z \in Nat
  PROVE  a + x + y - z \in Nat
OBVIOUS

CutsInv == cuts \in [Conn -> Nat]

LEMMA CutsStep == CountInv /\ CutsInv /\ [Next]_vars => CutsInv'
<1> SUFFICES ASSUME CountInv, CutsInv, [Next]_vars PROVE CutsInv'
  OBVIOUS
<1>1. CASE UNCHANGED cuts
  BY <1>1 DEF CutsInv
<1>2. ASSUME NEW fd, HandleServer(fd)
      PROVE  CutsInv'
  <2> DEFINE c == file[fd]
  <2>1. PICK seg \in Segments(cmds[c]) :
          cuts' = [cuts EXCEPT ![c] = @ + Len(seg[1]) + Len(seg[2]) - Len(cmds[c])]
    BY <1>2 DEF HandleServer
  <2>2. CASE c \in Conn
    <3>1. cmds[c] \in Seq(Command \cup {"cut"}) /\ cuts[c] \in Nat
      BY <2>2 DEF CountInv, CutsInv
    <3>2. Len(seg[1]) + Len(seg[2]) - Len(cmds[c]) \in Nat
      BY <3>1, NoTokenLost
    <3>3. /\ Len(seg[1]) \in Nat /\ Len(seg[2]) \in Nat /\ Len(cmds[c]) \in Nat
      <4>1. "cut" \in Command \cup {"cut"}
        OBVIOUS
      <4>2. seg[1] \in Seq(Command \cup {"cut"}) /\ seg[2] \in Seq(Command \cup {"cut"})
        BY <3>1, <4>1, SegmentTypes
      <4> QED BY <3>1, <4>2
    <3> HIDE DEF c
    <3>4. cuts[c] + Len(seg[1]) + Len(seg[2]) - Len(cmds[c]) \in Nat
      BY <3>1, <3>2, <3>3, MoreCuts
    <3> QED BY <2>1, <2>2, <3>4 DEF CutsInv
  <2>3. CASE c \notin Conn
    BY <2>1, <2>3 DEF CutsInv
  <2> QED BY <2>2, <2>3
<1>3. ASSUME NEW fd, Handle(fd)
      PROVE  CutsInv'
  BY <1>1, <1>2, <1>3 DEF Handle, NewClient, AcceptFails, HandleSink, LoseServer, peers
<1>4. CASE Peers
  BY <1>1, <1>4 DEF Peers, Connect, Close, Write, Ask
<1>5. CASE EpollWait \/ UNCHANGED vars
  BY <1>1, <1>5 DEF EpollWait, vars, peers
<1> QED BY <1>3, <1>4, <1>5 DEF Next, Server

(* Every variable has its type.                                              *)
THEOREM TypeCorrect == Spec => []TypeOK
<1>1. ServerInv /\ CountInv /\ CutsInv => TypeOK
  <2> SUFFICES ASSUME ServerInv, CountInv, CutsInv PROVE TypeOK
    OBVIOUS
  <2>1. /\ peer \in [Conn -> {"none", "open", "closed"}] /\ inbuf \in [Conn -> Nat]
        /\ backlog \in [Listener -> Seq(Conn)] /\ file \in [Fds -> Conn \cup {None}]
        /\ interest \subseteq Fds \cup Listener /\ events \subseteq interest
        /\ mss \in [Fds -> Nat]
    BY DEF ServerInv, TablesInv, HeldOnce, EventsReady
  <2>2. mapping \in [Fds -> Listener \cup {0}]
    BY Ports DEF ServerInv, TablesInv
  <2>3. cnt \in [Listener -> Nat]
    <3>1. \A l \in Listener : Cardinality(OpenAt(l)) \in Nat
      BY FS_Subset, FS_CardinalityType DEF OpenAt
    <3> QED BY <3>1 DEF ServerInv, TablesInv
  <2>4. /\ written \in [Conn -> Nat] /\ cmds \in [Conn -> Seq(Command \cup {"cut"})]
        /\ recv_size \in Nat /\ running \in BOOLEAN
    BY DEF CountInv
  <2>5. \A c \in Conn : \A i \in 1 .. Len(replies[c]) :
          replies[c][i] \in {"RESET", "PONG", "REPORT", "CLIENTS"} \X Nat
    BY DEF CountInv
  <2> QED BY <2>1, <2>2, <2>3, <2>4, <2>5 DEF TypeOK, CutsInv
<1>2. Init => CutsInv
  BY DEF Init, CutsInv
<1> QED BY <1>1, <1>2, CountStart, CountStep, CutsStep, Invariance, PTL DEF Spec

-----------------------------------------------------------------------------
(* When the server stays up: fail() and /exit are the only ways out.         *)

LEMMA AnswerUp ==
  ASSUME NEW st \in State, st.up, NEW m, m # "/exit"
  PROVE  (Answer(st, m)).up
<1>1. st.up \in BOOLEAN
  BY DEF State
<1> QED BY <1>1 DEF Answer, State

LEMMA FoldUp ==
  ASSUME cnt[sinkfd] \in Nat, NEW b \in State, b.up, NEW M, "/exit" \notin M, NEW q \in Seq(M)
  PROVE  (FoldLeft(Answer, b, q)).up
<1> DEFINE F == Run(b, q)
           Good(st) == st \in State /\ st.up
           Bad == {n \in 0 .. Len(q) : ~ Good(F[1 .. n])}
<1>1. Len(q) \in Nat /\ DOMAIN q = 1 .. Len(q)
  OBVIOUS
<1>2. \A s \in SUBSET (1 .. Len(q)) : F[s] = AnswerRec(F, b, q, s)
  <2>1. IsRun(F, b, q, SUBSET DOMAIN q)
    BY RunExists DEF Run
  <2> QED BY <1>1, <2>1 DEF IsRun
<1> HIDE DEF F
<1>3. CASE Bad = {}
  <2>1. Len(q) \in 0 .. Len(q) /\ Len(q) \notin Bad
    BY <1>1, <1>3
  <2>2. Good(F[1 .. Len(q)])
    BY <2>1
  <2>3. FoldLeft(Answer, b, q) = F[1 .. Len(q)]
    BY <1>1, FoldIsRun DEF F
  <2> QED BY <2>2, <2>3
<1>4. CASE Bad # {}
  <2>1. PICK n \in Bad : \A m \in Bad : n <= m
    <3>1. Bad \in SUBSET Nat
      BY <1>1
    <3> HIDE DEF Bad
    <3> QED BY <1>4, <3>1, LeastElement
  <2>2. n \in Nat /\ n <= Len(q)
    BY <1>1
  <2>3. CASE n = 0
    <3> DEFINE e == 1 .. n
    <3>1. e = {} /\ e \in SUBSET (1 .. Len(q))
      BY <2>3
    <3> HIDE DEF e
    <3>2. F[e] = b
      BY <1>2, <3>1 DEF AnswerRec
    <3>3. Good(F[e])
      BY <3>2
    <3> QED BY <3>3 DEF e
  <2>4. CASE n # 0
    <3>1. n - 1 \in 0 .. Len(q) /\ n - 1 \in Nat /\ (n - 1) + 1 = n /\ n \in 1 .. Len(q)
      BY <1>1, <2>2, <2>4
    <3>2. n - 1 \notin Bad
      BY <2>1, <2>2, <3>1
    <3>3. Good(F[1 .. (n - 1)])
      BY <3>1, <3>2
    <3>4. Max(1 .. n) = n /\ (1 .. n) \ {n} = 1 .. (n - 1)
      BY <3>1, MaxOfPrefix
    <3>5. 1 .. n \in SUBSET (1 .. Len(q)) /\ 1 .. n # {}
      BY <1>1, <2>2, <2>4
    <3>6. F[1 .. n] = Answer(F[1 .. (n - 1)], q[n])
      BY <1>2, <3>4, <3>5 DEF AnswerRec
    <3> DEFINE st == F[1 .. (n - 1)]
    <3>7. st \in State /\ st.up /\ q[n] # "/exit"
      BY <3>1, <3>3
    <3> HIDE DEF st
    <3>8. (Answer(st, q[n])).up
      BY <3>7, AnswerUp
    <3>9. Answer(st, q[n]) \in State
      <4>1. << >> \in Seq(Answers)
        OBVIOUS
      <4> QED BY <3>7, <4>1, AnswerStep
    <3> QED BY <3>6, <3>8, <3>9 DEF st
  <2> QED BY <2>3, <2>4
<1> QED BY <1>3, <1>4

(* A connection that waits has no descriptor, so that one is left for it.    *)
LEMMA FdLeft ==
  ASSUME ServerInv, Cardinality(Conn) <= Cardinality(Fds), NEW l \in events \cap Listener
  PROVE  FreeFds # {}
<1> SUFFICES ASSUME FreeFds = {} PROVE FALSE
  OBVIOUS
<1> DEFINE c == Head(backlog[l])
           T == Conn \ {c}
           f == [fd \in Fds |-> file[fd]]
<1>1. backlog[l] # << >> /\ backlog[l] \in Seq(Conn)
  BY DEF ServerInv, EventsReady, HeldOnce
<1>2. c \in Conn /\ c = backlog[l][1] /\ 1 \in 1 .. Len(backlog[l])
  BY <1>1
<1>3. \A fd \in Fds : file[fd] # c
  BY <1>2 DEF ServerInv, HeldOnce
<1>4. \A fd \in Fds : file[fd] \in Conn
  BY DEF FreeFds, ServerInv, TablesInv
<1>5. \A fd, gd \in Fds : file[fd] = file[gd] => fd = gd
  BY ThroughputAssumption, <1>4 DEF ServerInv, HeldOnce
<1>6. IsFiniteSet(Conn) /\ IsFiniteSet(Fds)
  BY ThroughputAssumption, FS_Union DEF Conn
<1> HIDE DEF c
<1>7. IsFiniteSet(T) /\ Cardinality(T) = Cardinality(Conn) - 1
  BY <1>2, <1>6, FS_RemoveElement
<1> HIDE DEF T
<1>8. \A fd \in Fds : file[fd] \in T
  BY <1>3, <1>4 DEF T
<1>9. f \in Injection(Fds, T)
  BY <1>5, <1>8 DEF Injection, IsInjective
<1> HIDE DEF f
<1>10. Cardinality(Fds) <= Cardinality(T)
  BY <1>7, <1>9, FS_Injection
<1>11. Cardinality(Conn) \in Nat /\ Cardinality(Fds) \in Nat
  BY <1>6, FS_CardinalityType
<1> QED BY ONLY <1>7, <1>10, <1>11, Cardinality(Conn) <= Cardinality(Fds)

LEMMA UpStep ==
  ASSUME "/exit" \notin Command, Cardinality(Conn) <= Cardinality(Fds),
         ServerInv, CountInv, running, [Next]_vars
  PROVE  running'
<1>1. ASSUME NEW l \in Listener, AcceptFails(l)
      PROVE  FALSE
  BY <1>1, FdLeft DEF AcceptFails
<1>2. ASSUME NEW fd \in Fds, HandleServer(fd)
      PROVE  running'
  <2> DEFINE b == [size |-> recv_size, out |-> << >>, up |-> TRUE]
             M == Command \cup {"cut"}
  <2>1. PICK seg \in Segments(cmds[file[fd]]) : running' = (FoldLeft(Answer, b, seg[1])).up
    BY <1>2 DEF HandleServer
  <2>2. cmds[file[fd]] \in Seq(M)
    BY <1>2, ServerConn DEF CountInv
  <2>3. seg[1] \in Seq(M)
    BY <2>1, <2>2, SegmentTypes
  <2>4. b \in State /\ b.up
    BY DEF State, CountInv
  <2>5. cnt[sinkfd] \in Nat /\ "/exit" \notin M
    BY CountType DEF ServerInv
  <2> HIDE DEF b, M
  <2>6. (FoldLeft(Answer, b, seg[1])).up
    BY <2>3, <2>4, <2>5, FoldUp
  <2> QED BY <2>1, <2>6
<1>3. CASE EpollWait \/ Peers \/ UNCHANGED vars
  BY <1>3 DEF EpollWait, Peers, Connect, Write, Ask, Close, vars
<1>4. ASSUME NEW l \in Listener, NewClient(l)
      PROVE  running'
  BY <1>4 DEF NewClient
<1>5. ASSUME NEW fd, HandleSink(fd) \/ LoseServer(fd)
      PROVE  running'
  BY <1>5 DEF HandleSink, LoseServer
<1>6. events \subseteq Listener \cup Fds
  BY DEF ServerInv, EventsReady, TablesInv
<1> QED BY <1>1, <1>2, <1>3, <1>4, <1>5, <1>6 DEF Next, Server, Handle

(* What MCThroughputAccepts shows takes fewer descriptors than connections:  *)
(* with as many, and without an /exit, the server never goes down, however   *)
(* descriptors and their tables are used again (server.cpp of Lab/6).        *)
THEOREM StaysUp ==
  "/exit" \notin Command /\ Cardinality(Conn) <= Cardinality(Fds) => (Spec => []SinkAcceptsAny)
<1> SUFFICES ASSUME "/exit" \notin Command, Cardinality(Conn) <= Cardinality(Fds)
             PROVE  Spec => []running
  BY DEF SinkAcceptsAny
<1>1. Init => running
  BY DEF Init
<1>2. ServerInv /\ CountInv /\ running /\ [Next]_vars => running'
  BY UpStep
<1> QED BY <1>1, <1>2, Invariance, CountStart, CountStep, PTL DEF Spec

-----------------------------------------------------------------------------
(* The client.                                                               *)

LEMMA RunTypes ==
  ASSUME NEW i \in 1 .. Len(Runs)
  PROVE  /\ Runs[i].control \in Control /\ Runs[i].control \in Conn
         /\ ToSet(Runs[i].sinks) \subseteq Sink /\ Len(Runs[i].sinks) \in Nat \ {0}
         /\ DOMAIN Runs[i].sinks = 1 .. Len(Runs[i].sinks)
         /\ \A k \in 1 .. Len(Runs[i].sinks) :
              /\ Runs[i].sinks[k] \in ToSet(Runs[i].sinks)
              /\ Runs[i].sinks[k] \in Sink /\ Runs[i].sinks[k] \in Conn
<1>1. Runs[i] \in [control : Control, sinks : Seq(Sink)] /\ Runs[i].sinks # << >>
  <2> DEFINE S == [control : Control, sinks : Seq(Sink)]
  <2>1. Runs \in Seq(S) /\ Runs[i].sinks # << >>
    BY ThroughputClientAssumption DEF ThroughputClientAssumption
  <2> HIDE DEF S
  <2>2. Runs[i] \in S
    BY <2>1
  <2> QED BY <2>1, <2>2 DEF S
<1> DEFINE q == Runs[i].sinks
<1>2. q \in Seq(Sink) /\ q # << >> /\ Runs[i].control \in Control
  BY <1>1
<1> HIDE DEF q
<1>3. Len(q) \in Nat \ {0} /\ DOMAIN q = 1 .. Len(q) /\ \A k \in 1 .. Len(q) : q[k] \in Sink
  BY <1>2
<1>4. ToSet(q) = {q[k] : k \in 1 .. Len(q)}
  BY <1>3 DEF ToSet
<1> QED BY <1>2, <1>3, <1>4 DEF Conn, q

(* A step of a client is a step of the server's peers.                       *)
LEMMA ClientStep ==
  ASSUME ServerInv, CountInv, RunsInv, [ClientNext]_cvars
  PROVE  [Next]_vars
<1>1. /\ control \in Control /\ control \in Conn
      /\ Mine \subseteq Sink /\ \A k \in 1 .. Len(sinks) : sinks[k] \in Sink /\ sinks[k] \in Conn
      /\ DOMAIN sinks = 1 .. Len(sinks) /\ Len(sinks) \in Nat
  <2>1. run \in 1 .. Len(Runs)
    BY DEF RunsInv
  <2> QED BY <2>1, RunTypes DEF control, sinks, Mine
<1>2. {"/reset", "/report"} \subseteq Command
  BY ThroughputClientAssumption DEF ThroughputClientAssumption
<1>3. CASE ConnectControl \/ ConnectSink
  BY <1>1, <1>3 DEF ConnectControl, ConnectSink, Next, Peers
<1>4. CASE SendReset \/ SendReport
  BY <1>1, <1>2, <1>4 DEF SendReset, SendReport, Next, Peers
<1>5. CASE SendData
  <2>1. PICK s \in Mine, n \in 1 .. Mss[sinks[1]] - HeaderSize : Write(s, n)
    BY <1>5 DEF SendData
  <2>2. s \in Sink /\ s \in Conn /\ written[s] \in Nat /\ n \in Nat /\ n >= 1
    <3>1. s \in Sink /\ s \in Conn
      BY <1>1 DEF Conn
    <3>2. n \in Int /\ n >= 1
      OBVIOUS
    <3> QED BY <3>1, <3>2 DEF CountInv
  <2>3. written[s] + n <= MaxBytes
    BY <2>1 DEF Write
  <2>4. n \in 1 .. MaxBytes
    BY <2>2, <2>3
  <2> QED BY <2>1, <2>2, <2>4 DEF Next, Peers
<1>6. CASE CloseNext
  <2>1. PICK i \in 0 .. Len(sinks) : Close(IF i = 0 THEN control ELSE sinks[i])
    BY <1>6 DEF CloseNext
  <2>2. (IF i = 0 THEN control ELSE sinks[i]) \in Conn
    BY <1>1
  <2> QED BY <2>1, <2>2 DEF Next, Peers
<1>7. CASE ReadReset \/ Sigterm \/ ReadStdin \/ ReadReport \/ Exit \/ NextRun \/ UNCHANGED cvars
  BY <1>7 DEF ReadReset, Sigterm, ReadStdin, ReadReport, Exit, NextRun, cvars
<1>8. CASE Server
  BY <1>8 DEF Next
<1> QED BY <1>3, <1>4, <1>5, <1>6, <1>7, <1>8 DEF ClientNext, Client

-----------------------------------------------------------------------------
(* What one read of the client's commands does.                              *)

(* A read takes the first n tokens and leaves those behind the first d; one  *)
(* that is cut is in both parts, as "cut".                                   *)
LEMMA SegmentParts ==
  ASSUME NEW M, "cut" \in M, NEW q \in Seq(M), NEW seg \in Segments(q)
  PROVE  \E n \in 1 .. Len(q), d \in Nat :
           /\ Len(seg[1]) = n /\ \A i \in 1 .. n : seg[1][i] = q[i] \/ seg[1][i] = "cut"
           /\ \A j \in 1 .. Len(seg[2]) : seg[2][j] # "cut" =>
                d + j \in 1 .. Len(q) /\ d + j > n /\ seg[2][j] = q[d + j]
<1>0. Len(q) \in Nat
  OBVIOUS
<1>1. \A i, j \in Int : 1 <= i /\ j <= Len(q) =>
        /\ SubSeq(q, i, j) \in Seq(M)
        /\ Len(SubSeq(q, i, j)) = IF i <= j THEN j - i + 1 ELSE 0
        /\ \A k \in 1 .. j - i + 1 : SubSeq(q, i, j)[k] = q[i + k - 1]
  BY SubSeqProperties
<1>2. CASE \E k \in 1 .. Len(q) : seg = <<SubSeq(q, 1, k), SubSeq(q, k + 1, Len(q))>>
  <2>1. PICK k \in 1 .. Len(q) : seg = <<SubSeq(q, 1, k), SubSeq(q, k + 1, Len(q))>>
    BY <1>2
  <2> DEFINE a == SubSeq(q, 1, k)
             e == SubSeq(q, k + 1, Len(q))
  <2>2. k \in Nat /\ k >= 1 /\ k <= Len(q)
    BY <1>0
  <2>3. Len(a) = k /\ \A i \in 1 .. k : a[i] = q[i]
    BY <1>1, <2>2
  <2>4. Len(e) = Len(q) - k /\ \A j \in 1 .. Len(e) : e[j] = q[k + j] /\ k + j \in 1 .. Len(q)
    BY <1>0, <1>1, <2>2
  <2>5. seg[1] = a /\ seg[2] = e
    BY <2>1
  <2> HIDE DEF a, e
  <2>6. \A j \in 1 .. Len(e) : k + j > k
    BY <2>2
  <2>7. Len(seg[1]) = k /\ \A i \in 1 .. k : seg[1][i] = q[i]
    BY ONLY <2>3, <2>5
  <2>8. \A j \in 1 .. Len(seg[2]) :
          k + j \in 1 .. Len(q) /\ k + j > k /\ seg[2][j] = q[k + j]
    BY ONLY <2>4, <2>5, <2>6
  <2>9. k \in 1 .. Len(q) /\ k \in Nat
    BY <2>2
  <2> QED BY ONLY <2>7, <2>8, <2>9
<1>3. CASE \E k \in 1 .. Len(q) :
             seg = <<Append(SubSeq(q, 1, k - 1), "cut"),
                     <<"cut">> \o SubSeq(q, k + 1, Len(q))>>
  <2>1. PICK k \in 1 .. Len(q) : seg = <<Append(SubSeq(q, 1, k - 1), "cut"),
                                         <<"cut">> \o SubSeq(q, k + 1, Len(q))>>
    BY <1>3
  <2> DEFINE a == SubSeq(q, 1, k - 1)
             e == SubSeq(q, k + 1, Len(q))
  <2>2. k \in Nat /\ k >= 1 /\ k <= Len(q)
    BY <1>0
  <2>3. a \in Seq(M) /\ Len(a) = k - 1 /\ \A i \in 1 .. k - 1 : a[i] = q[i]
    BY <1>1, <2>2
  <2>4. /\ e \in Seq(M) /\ Len(e) = Len(q) - k
        /\ \A j \in 1 .. Len(e) : e[j] = q[k + j] /\ k + j \in 1 .. Len(q)
    BY <1>0, <1>1, <2>2
  <2>5. seg[1] = Append(a, "cut") /\ seg[2] = <<"cut">> \o e
    BY <2>1
  <2> HIDE DEF a, e
  <2>6. Len(seg[1]) = k /\ \A i \in 1 .. k : seg[1][i] = q[i] \/ seg[1][i] = "cut"
    BY <2>2, <2>3, <2>5
  <2>7. ASSUME NEW j \in 1 .. Len(seg[2]), seg[2][j] # "cut"
        PROVE  (k - 1) + j \in 1 .. Len(q) /\ (k - 1) + j > k /\ seg[2][j] = q[(k - 1) + j]
    <3> DEFINE f == <<"cut">>
    <3>1. f \in Seq(M) /\ Len(f) = 1 /\ f[1] = "cut" /\ seg[2] = f \o e
      BY <2>5
    <3> HIDE DEF f
    <3>2. /\ Len(f \o e) = 1 + Len(e)
          /\ \A i \in 1 .. 1 + Len(e) : (f \o e)[i] = IF i <= 1 THEN f[i] ELSE e[i - 1]
      <4>1. e \in Seq(M)
        BY <2>4
      <4>2. /\ Len(f \o e) = Len(f) + Len(e)
            /\ \A i \in 1 .. Len(f) + Len(e) :
                 (f \o e)[i] = IF i <= Len(f) THEN f[i] ELSE e[i - Len(f)]
        BY ONLY <3>1, <4>1, ConcatProperties, Zenon
      <4> QED BY <3>1, <4>2
    <3>6. j \in 1 .. 1 + Len(e) /\ seg[2][j] = IF j <= 1 THEN f[j] ELSE e[j - 1]
      BY <3>1, <3>2
    <3>3. j > 1 /\ j - 1 \in 1 .. Len(e) /\ seg[2][j] = e[j - 1]
      <4>1. j \in Nat /\ j >= 1 /\ j <= 1 + Len(e) /\ Len(e) \in Int
        BY <1>0, <2>2, <2>4, <3>6
      <4>2. j # 1
        BY <2>7, <3>1, <3>6
      <4> QED BY <3>6, <4>1, <4>2
    <3>4. e[j - 1] = q[k + (j - 1)] /\ k + (j - 1) \in 1 .. Len(q)
      BY <2>4, <3>3
    <3>5. k + (j - 1) = (k - 1) + j /\ (k - 1) + j > k
      <4>1. k \in Nat /\ j \in Int /\ j > 1
        BY <2>2, <3>3
      <4> QED BY ONLY <4>1
    <3> QED BY <3>3, <3>4, <3>5
  <2>8. k - 1 \in Nat
    BY <2>2
  <2> QED BY <2>2, <2>6, <2>7, <2>8
<1> QED BY <1>2, <1>3 DEF Segments

(* Of tokens that are cut but for one, that one is answered.                 *)
LEMMA FoldOne ==
  ASSUME NEW b, NEW M, NEW q \in Seq(M), NEW k \in 1 .. Len(q),
         \A i \in 1 .. Len(q) : i # k => q[i] = "cut"
  PROVE  FoldLeft(Answer, b, q) = Answer(b, q[k])
<1> DEFINE F == Run(b, q)
           Good(n) == F[1 .. n] = IF n >= k THEN Answer(b, q[k]) ELSE b
           Bad == {n \in 0 .. Len(q) : ~ Good(n)}
<1>1. Len(q) \in Nat /\ DOMAIN q = 1 .. Len(q)
  OBVIOUS
<1>2. \A s \in SUBSET (1 .. Len(q)) : F[s] = AnswerRec(F, b, q, s)
  <2>1. IsRun(F, b, q, SUBSET DOMAIN q)
    BY RunExists DEF Run
  <2> QED BY <1>1, <2>1 DEF IsRun
<1>3. FoldLeft(Answer, b, q) = F[1 .. Len(q)]
  BY <1>1, FoldIsRun
<1> HIDE DEF F
<1>4. \A x : Answer(x, "cut") = x
  BY DEF Answer
<1>5. CASE Bad = {}
  <2>1. Len(q) \in 0 .. Len(q) /\ Len(q) \notin Bad /\ Len(q) >= k
    BY <1>1, <1>5
  <2>2. Good(Len(q))
    BY <2>1
  <2> QED BY <1>3, <2>1, <2>2
<1>6. CASE Bad # {}
  <2>1. PICK n \in Bad : \A m \in Bad : n <= m
    <3>1. Bad \in SUBSET Nat
      BY <1>1
    <3> HIDE DEF Bad
    <3> QED BY <1>6, <3>1, LeastElement
  <2>2. n \in Nat /\ n <= Len(q) /\ ~ Good(n)
    BY <1>1
  <2>3. CASE n = 0
    <3> DEFINE e == 1 .. n
    <3>1. e = {} /\ e \in SUBSET (1 .. Len(q)) /\ ~(n >= k)
      BY <2>3
    <3> HIDE DEF e
    <3>2. F[e] = b
      BY <1>2, <3>1 DEF AnswerRec
    <3> QED BY <2>2, <3>1, <3>2 DEF e
  <2>4. CASE n # 0
    <3>1. n - 1 \in 0 .. Len(q) /\ n - 1 \in Nat /\ (n - 1) + 1 = n /\ n \in 1 .. Len(q)
      BY <1>1, <2>2, <2>4
    <3>2. n - 1 \notin Bad
      BY <2>1, <2>2, <3>1
    <3>3. Good(n - 1)
      BY <3>1, <3>2
    <3>4. Max(1 .. n) = n /\ (1 .. n) \ {n} = 1 .. (n - 1)
      BY <3>1, MaxOfPrefix
    <3>5. 1 .. n \in SUBSET (1 .. Len(q)) /\ 1 .. n # {}
      BY <1>1, <2>2, <2>4
    <3>6. F[1 .. n] = Answer(F[1 .. (n - 1)], q[n])
      BY <1>2, <3>4, <3>5 DEF AnswerRec
    <3>7. CASE n = k
      <4>1. F[1 .. (n - 1)] = b
        BY <3>1, <3>3, <3>7
      <4> QED BY <2>2, <3>1, <3>6, <3>7, <4>1
    <3>8. CASE n # k
      <4>1. q[n] = "cut" /\ F[1 .. n] = F[1 .. (n - 1)]
        BY <1>4, <3>1, <3>6, <3>8
      <4>2. n - 1 >= k <=> n >= k
        BY <3>1, <3>8
      <4> QED BY <2>2, <3>3, <4>1, <4>2
    <3> QED BY <3>7, <3>8
  <2> QED BY <2>3, <2>4
<1> QED BY <1>5, <1>6

(* A read of one connection's commands, when they are in order.              *)
LEMMA ServerTalk ==
  ASSUME ServerInv, CountInv, NEW fd \in Fds, HandleServer(fd), NEW c, c = file[fd],
         Orderly(cmds[c])
  PROVE  /\ c \in Control /\ cmds[c] # << >>
         /\ \A d \in Conn \ {c} : cmds'[d] = cmds[d] /\ replies'[d] = replies[d]
         /\ Orderly(cmds'[c])
         /\ \A m \in {"/reset", "/report"} : Has(cmds'[c], m) => Has(cmds[c], m)
         /\ Has(cmds'[c], "/reset") => UNCHANGED <<replies, recv_size>>
         /\ ~Has(cmds[c], "/reset") =>
              \/ UNCHANGED <<replies, recv_size>>
              \/ /\ replies'[c] = Append(replies[c], <<"REPORT", recv_size>>)
                 /\ UNCHANGED recv_size
                 /\ Has(cmds[c], "/report") /\ Blank(cmds'[c])
         /\ ~Has(cmds[c], "/report") =>
              \/ UNCHANGED replies
              \/ Has(cmds[c], "/reset") /\ Blank(cmds'[c]) /\ Len(replies'[c]) = Len(replies[c]) + 1
<1> DEFINE b == [size |-> recv_size, out |-> << >>, up |-> TRUE]
           q == cmds[c]
           r == replies[c]
           M == Command \cup {"cut"}
<1>1. c \in Control /\ c \in Conn
  BY ServerConn
<1>2. /\ recv_size \in Nat /\ replies \in [Conn -> Seq(Answers)] /\ cmds \in [Conn -> Seq(M)]
  BY DEF CountInv, Answers
<1>3. PICK seg \in Segments(q) :
        LET st == FoldLeft(Answer, b, seg[1])
        IN  /\ cmds' = [cmds EXCEPT ![c] = seg[2]] /\ recv_size' = st.size
            /\ replies' = [replies EXCEPT ![c] = @ \o st.out]
  BY DEF HandleServer
<1> DEFINE st == FoldLeft(Answer, b, seg[1])
           p == seg[1]
           e == seg[2]
<1>4. /\ cmds' = [cmds EXCEPT ![c] = e] /\ recv_size' = st.size
      /\ replies' = [replies EXCEPT ![c] = @ \o st.out]
  BY <1>3
<1>5. q \in Seq(M) /\ "cut" \in M /\ r \in Seq(Answers)
  BY <1>1, <1>2
<1>6. p \in Seq(M) /\ e \in Seq(M)
  <2> HIDE DEF M, q
  <2> QED BY <1>5, SegmentTypes
<1>7. PICK n \in 1 .. Len(q), d \in Nat :
        /\ Len(p) = n /\ \A i \in 1 .. n : p[i] = q[i] \/ p[i] = "cut"
        /\ \A j \in 1 .. Len(e) : e[j] # "cut" =>
             d + j \in 1 .. Len(q) /\ d + j > n /\ e[j] = q[d + j]
  <2>1. seg \in Segments(q)
    OBVIOUS
  <2> HIDE DEF M, q
  <2>2. \E n \in 1 .. Len(q), d \in Nat :
          /\ Len(seg[1]) = n /\ \A i \in 1 .. n : seg[1][i] = q[i] \/ seg[1][i] = "cut"
          /\ \A j \in 1 .. Len(seg[2]) : seg[2][j] # "cut" =>
               d + j \in 1 .. Len(q) /\ d + j > n /\ seg[2][j] = q[d + j]
    BY ONLY <1>5, <2>1, SegmentParts, Zenon
  <2> QED BY <2>2
<1>8. Len(q) \in Nat /\ Len(e) \in Nat /\ n >= 1 /\ n \in Nat /\ n <= Len(q)
  BY <1>5, <1>6
<1>9. \A i, j \in 1 .. Len(q) :
        /\ q[i] \in {"cut", "/reset", "/report"}
        /\ q[i] = q[j] /\ q[i] # "cut" => i = j
        /\ q[i] = "/reset" /\ j < i => q[j] = "cut"
  BY DEF Orderly
<1>10. cmds'[c] = e /\ replies'[c] = r \o st.out
       /\ \A x \in Conn \ {c} : cmds'[x] = cmds[x] /\ replies'[x] = replies[x]
  <2> HIDE DEF st
  <2> QED BY <1>1, <1>2, <1>4
<1> HIDE DEF M, p, e
<1>11. q # << >>
  BY <1>7, <1>8
<1>12. Orderly(e)
  <2> SUFFICES ASSUME NEW i \in 1 .. Len(e), NEW j \in 1 .. Len(e)
               PROVE  /\ e[i] \in {"cut", "/reset", "/report"}
                      /\ e[i] = e[j] /\ e[i] # "cut" => i = j
                      /\ e[i] = "/reset" /\ j < i => e[j] = "cut"
    BY DEF Orderly
  <2> HIDE DEF q
  <2>0. i \in Nat /\ j \in Nat /\ d \in Nat
    BY <1>8
  <2>1. e[i] \in {"cut", "/reset", "/report"}
    BY <1>7, <1>9
  <2>2. ASSUME e[i] = e[j], e[i] # "cut"
        PROVE  d + i = d + j
    <3>1. /\ d + i \in 1 .. Len(q) /\ e[i] = q[d + i]
          /\ d + j \in 1 .. Len(q) /\ e[j] = q[d + j]
      BY <1>7, <2>2
    <3>2. \A u, v \in 1 .. Len(q) : q[u] = q[v] /\ q[u] # "cut" => u = v
      BY ONLY <1>9
    <3> QED BY ONLY <2>2, <3>1, <3>2
  <2>3. ASSUME e[i] = "/reset", j < i
        PROVE  e[j] = "cut"
    <3> SUFFICES ASSUME e[j] # "cut" PROVE FALSE
      OBVIOUS
    <3>1. /\ d + i \in 1 .. Len(q) /\ e[i] = q[d + i]
          /\ d + j \in 1 .. Len(q) /\ e[j] = q[d + j]
      BY <1>7, <2>3
    <3>2. d + j < d + i
      BY <2>0, <2>3
    <3> QED BY <1>9, <2>3, <3>1, <3>2
  <2> QED BY <2>0, <2>1, <2>2, <2>3
<1>13. \A m \in {"/reset", "/report"} : Has(e, m) => \E i \in 1 .. Len(q) : i > n /\ q[i] = m
  BY <1>7 DEF Has
<1>14. \A m \in {"/reset", "/report"} : Has(e, m) => Has(q, m)
  BY <1>13 DEF Has
<1>15. \A x : Answer(x, "cut") = x
  BY DEF Answer
<1>16. ASSUME Blank(p)
       PROVE  UNCHANGED <<replies, recv_size>>
  <2>1. 1 \in 1 .. Len(p) /\ \A i \in 1 .. Len(p) : p[i] = "cut"
    BY <1>7, <1>8, <1>16 DEF Blank
  <2>2. st = Answer(b, p[1])
    <3> HIDE DEF b
    <3>1. \A i \in 1 .. Len(p) : i # 1 => p[i] = "cut"
      BY ONLY <2>1
    <3>2. FoldLeft(Answer, b, p) = Answer(b, p[1])
      BY ONLY <1>6, <2>1, <3>1, FoldOne
    <3> QED BY ONLY <3>2 DEF p
  <2>3. st = b
    BY <1>15, <2>1, <2>2
  <2>4. st.size = recv_size /\ st.out = << >>
    BY <2>3
  <2> HIDE DEF st
  <2>5. r \o << >> = r
    BY <1>5
  <2> HIDE DEF r
  <2>6. recv_size' = recv_size /\ replies'[c] = r
    BY <1>4, <1>10, <2>4, <2>5
  <2>7. replies' = replies
    BY <1>1, <1>2, <1>4, <2>6 DEF r
  <2> QED BY <2>6, <2>7
<1>17. Has(e, "/reset") => Blank(p)
  <2> SUFFICES ASSUME Has(e, "/reset"), NEW i \in 1 .. Len(p)
               PROVE  p[i] = "cut"
    BY DEF Blank
  <2>1. PICK k \in 1 .. Len(q) : k > n /\ q[k] = "/reset"
    BY <1>13
  <2>2. i \in 1 .. n /\ i \in 1 .. Len(q) /\ i < k
    BY <1>7, <1>8, <2>1
  <2> HIDE DEF q
  <2> QED BY <1>7, <1>9, <2>1, <2>2
<1>18. ASSUME NEW k \in 1 .. n, p[k] # "cut"
       PROVE  /\ k \in 1 .. Len(q) /\ q[k] = p[k] /\ Has(q, p[k]) /\ ~Has(e, p[k])
              /\ p[k] \in {"/reset", "/report"}
              /\ p[k] = "/report" => ~Has(e, "/reset")
  <2>1. k \in 1 .. Len(q) /\ k \in Nat /\ k <= n
    BY <1>8
  <2> HIDE DEF q
  <2>2. q[k] = p[k] /\ p[k] \in {"/reset", "/report"}
    BY <1>7, <1>9, <1>18, <2>1
  <2>3. \A i \in 1 .. Len(q) : i > n => q[i] # q[k] /\ (q[i] = "/reset" => q[k] = "cut")
    <3> SUFFICES ASSUME NEW i \in 1 .. Len(q), i > n
                 PROVE  q[i] # q[k] /\ (q[i] = "/reset" => q[k] = "cut")
      OBVIOUS
    <3>1. i # k /\ k < i
      BY <1>8, <2>1
    <3> QED BY <1>9, <1>18, <2>1, <2>2, <3>1
  <2>4. ~Has(e, p[k])
    BY <1>13, <2>2, <2>3
  <2>5. p[k] = "/report" => ~Has(e, "/reset")
    BY <1>13, <2>2, <2>3
  <2> QED BY <2>1, <2>2, <2>4, <2>5 DEF Has
<1>19. \A m \in {"/reset", "/report"} :
         ~Has(q, m) => ~Has(e, m) /\ \A i \in 1 .. n : p[i] # m
  <2>1. \A m \in {"/reset", "/report"} : ~Has(q, m) => ~Has(e, m)
    BY ONLY <1>14
  <2> HIDE DEF q
  <2>2. \A i \in 1 .. n : i \in 1 .. Len(q) /\ (p[i] = q[i] \/ p[i] = "cut")
    BY ONLY <1>7, <1>8
  <2>3. \A m \in {"/reset", "/report"} : \A i \in 1 .. n : p[i] = m => Has(q, m)
    BY ONLY <2>2 DEF Has
  <2> QED BY ONLY <2>1, <2>3
<1>20. ~Has(e, "/reset") /\ ~Has(e, "/report") => Blank(e)
  <2> HIDE DEF q
  <2>1. \A j \in 1 .. Len(e) : e[j] \in {"cut", "/reset", "/report"}
    BY <1>12 DEF Orderly
  <2> QED BY <2>1 DEF Has, Blank
<1>21. ASSUME NEW k \in 1 .. n, \A i \in 1 .. n : i # k => p[i] = "cut"
       PROVE  st = Answer(b, p[k])
  <2>1. k \in 1 .. Len(p) /\ \A i \in 1 .. Len(p) : i # k => p[i] = "cut"
    BY <1>7, <1>21
  <2> HIDE DEF b
  <2> QED BY <1>6, <2>1, FoldOne DEF p
<1>22. ASSUME ~Has(q, "/reset"), ~Blank(p)
       PROVE  /\ replies'[c] = Append(r, <<"REPORT", recv_size>>) /\ UNCHANGED recv_size
              /\ Has(q, "/report") /\ Blank(e)
  <2>1. PICK k \in 1 .. n : p[k] # "cut"
    BY <1>7, <1>22 DEF Blank
  <2>2. p[k] = "/report" /\ q[k] = "/report" /\ k \in 1 .. Len(q)
        /\ Has(q, "/report") /\ ~Has(e, "/report")
    BY <1>18, <1>22, <2>1
  <2>3. \A i \in 1 .. n : i # k => p[i] = "cut"
    <3> SUFFICES ASSUME NEW i \in 1 .. n, p[i] # "cut", i # k PROVE FALSE
      OBVIOUS
    <3>1. p[i] = "/report" /\ q[i] = "/report" /\ i \in 1 .. Len(q)
      BY <1>18, <1>22
    <3> HIDE DEF q
    <3> QED BY <1>9, <2>2, <3>1
  <2>4. st = Answer(b, "/report")
    BY <1>21, <2>2, <2>3
  <2>5. st.size = recv_size /\ st.out = <<<<"REPORT", recv_size>>>>
    <3>1. b.up /\ b.size = recv_size /\ b.out = << >>
      OBVIOUS
    <3>2. st = [b EXCEPT !.out = Append(@, <<"REPORT", b.size>>)]
      BY <2>4, <3>1 DEF Answer
    <3>3. Append(<< >>, <<"REPORT", recv_size>>) = <<<<"REPORT", recv_size>>>>
      OBVIOUS
    <3> QED BY <3>1, <3>2, <3>3
  <2> DEFINE a == <<"REPORT", recv_size>>
  <2>6. r \o <<a>> = Append(r, a)
    <3>1. a \in Answers
      BY <1>2 DEF Answers
    <3> HIDE DEF a
    <3> QED BY <1>5, <3>1
  <2>7. Blank(e)
    BY <1>19, <1>20, <1>22, <2>2
  <2> HIDE DEF st, r, q
  <2> QED BY <1>4, <1>10, <2>2, <2>5, <2>6, <2>7
<1>23. ASSUME ~Has(q, "/report"), ~Blank(p)
       PROVE  Has(q, "/reset") /\ Blank(e) /\ Len(replies'[c]) = Len(r) + 1
  <2>1. PICK k \in 1 .. n : p[k] # "cut"
    BY <1>7, <1>23 DEF Blank
  <2>2. p[k] = "/reset" /\ q[k] = "/reset" /\ k \in 1 .. Len(q)
        /\ Has(q, "/reset") /\ ~Has(e, "/reset")
    BY <1>18, <1>23, <2>1
  <2>3. \A i \in 1 .. n : i # k => p[i] = "cut"
    <3> SUFFICES ASSUME NEW i \in 1 .. n, p[i] # "cut", i # k PROVE FALSE
      OBVIOUS
    <3>1. p[i] = "/reset" /\ q[i] = "/reset" /\ i \in 1 .. Len(q)
      BY <1>18, <1>23
    <3> HIDE DEF q
    <3> QED BY <1>9, <2>2, <3>1
  <2>4. st = Answer(b, "/reset")
    BY <1>21, <2>2, <2>3
  <2>5. st.out = <<<<"RESET", recv_size>>>>
    <3>1. b.up /\ b.size = recv_size /\ b.out = << >>
      OBVIOUS
    <3>2. st = [b EXCEPT !.size = 0, !.out = Append(@, <<"RESET", b.size>>)]
      BY <2>4, <3>1 DEF Answer
    <3>3. Append(<< >>, <<"RESET", recv_size>>) = <<<<"RESET", recv_size>>>>
      OBVIOUS
    <3> QED BY <3>1, <3>2, <3>3
  <2> DEFINE a == <<"RESET", recv_size>>
  <2>6. Len(r \o <<a>>) = Len(r) + 1
    <3>1. a \in Answers
      BY <1>2 DEF Answers
    <3> HIDE DEF a
    <3> QED BY <1>5, <3>1
  <2>7. Blank(e)
    BY <1>19, <1>20, <1>23, <2>2
  <2> HIDE DEF st, r, q
  <2> QED BY <1>10, <2>2, <2>5, <2>6, <2>7
<1> HIDE DEF st, b
<1> QED BY <1>1, <1>10, <1>11, <1>12, <1>14, <1>16, <1>17, <1>22, <1>23

-----------------------------------------------------------------------------
(* The bytes of the running client.                                          *)

LEMMA MineFacts ==
  ASSUME RunsInv
  PROVE  /\ control \in Control /\ control \in Conn /\ Mine \subseteq Sink /\ Mine \subseteq Conn
         /\ IsFiniteSet(Mine) /\ DOMAIN sinks = 1 .. Len(sinks) /\ Len(sinks) \in Nat \ {0}
         /\ \A k \in 1 .. Len(sinks) : sinks[k] \in Mine /\ sinks[k] \in Sink /\ sinks[k] \in Conn
<1>1. run \in 1 .. Len(Runs)
  BY DEF RunsInv
<1> QED BY <1>1, RunTypes, FS_Subset DEF control, sinks, Mine, Conn

LEMMA MineSame ==
  ASSUME UNCHANGED run
  PROVE  control' = control /\ sinks' = sinks /\ Mine' = Mine
BY DEF control, sinks, Mine

LEMMA OwnSame ==
  ASSUME ServerInv, CountInv, RunsInv, OwnBytesCounted, UNCHANGED run,
         \A s \in Mine : written'[s] - inbuf'[s] = written[s] - inbuf[s],
         recv_size' \in Nat, recv_size' >= recv_size
  PROVE  OwnBytesCounted'
<1> DEFINE g == [s \in Mine |-> written[s] - inbuf[s]]
<1>1. \A s \in Mine : g[s] \in Int
  BY MineFacts DEF ServerInv, EventsReady, CountInv
<1>2. g' = g
  BY MineSame
<1> HIDE DEF g
<1>3. SumFunctionOnSet(g, Mine) \in Int
  BY <1>1, MineFacts, SumType
<1>4. DOMAIN g = Mine
  BY DEF g
<1>5. SumFunction(g) \in Int
  BY <1>3, <1>4, SumOfAll
<1>6. SumFunction(g) <= recv_size /\ recv_size \in Nat
  BY DEF OwnBytesCounted, CountInv, g
<1>7. SumFunction(g') <= recv_size'
  BY <1>2, <1>5, <1>6
<1> QED BY <1>7 DEF OwnBytesCounted, g

LEMMA OwnZero ==
  ASSUME RunsInv', CountInv', ServerInv', \A s \in Mine' : written'[s] = 0
  PROVE  OwnBytesCounted'
<1> DEFINE g == [s \in Mine |-> written[s] - inbuf[s]]
<1>1. Mine' \subseteq Sink /\ Mine' \subseteq Conn /\ IsFiniteSet(Mine')
  <2>1. run' \in 1 .. Len(Runs)
    BY DEF RunsInv
  <2> QED BY <2>1, RunTypes, FS_Subset DEF sinks, Mine, Conn
<1>2. \A s \in Mine' : g'[s] = 0
  BY <1>1 DEF RunsInv, ServerInv, EventsReady
<1>3. DOMAIN g' = Mine'
  OBVIOUS
<1>4. SumFunction(g') = 0
  <2> HIDE DEF g
  <2>1. SumFunctionOnSet(g', Mine') = 0
    BY <1>1, <1>2, SumZero
  <2> QED BY <1>3, <2>1, SumOfAll
<1>5. recv_size' \in Nat
  BY DEF CountInv
<1> QED BY <1>4, <1>5 DEF OwnBytesCounted

LEMMA OwnRead ==
  ASSUME ServerInv, CountInv, RunsInv, OwnBytesCounted, UNCHANGED run,
         NEW fd \in Fds, HandleSink(fd)
  PROVE  /\ OwnBytesCounted' /\ recv_size' \in Nat /\ recv_size' >= recv_size
         /\ UNCHANGED <<peer, written, cmds, replies>>
         /\ \A s \in Sink : inbuf'[s] <= written'[s]
<1> DEFINE c == file[fd]
           n == Min({inbuf[c], BufSize(fd)})
<1>1. c \in Sink /\ c \in Conn /\ mss[fd] \in Nat
  BY Ports DEF HandleSink, ServerInv, TablesInv, Port, Conn, serverfd, sinkfd
<1>2. inbuf \in [Conn -> Nat] /\ written \in [Conn -> Nat] /\ recv_size \in Nat
  BY DEF ServerInv, EventsReady, CountInv
<1>3. n \in Int /\ n <= inbuf[c]
  <2>1. inbuf[c] \in Int /\ BufSize(fd) \in Int
    BY <1>1, <1>2 DEF BufSize
  <2> QED BY <2>1, MinOfTwo
<1>4. UNCHANGED <<peer, written, cmds, replies>>
  BY DEF HandleSink, peers
<1>5. \A s \in Sink : inbuf[s] <= written[s]
  BY DEF RunsInv
<1>6. CASE n <= 0
  <2>1. UNCHANGED <<inbuf, recv_size>>
    BY <1>3, <1>6 DEF HandleSink
  <2>2. OwnBytesCounted'
    BY <1>2, <1>4, <2>1, OwnSame
  <2> QED BY <1>2, <1>4, <1>5, <2>1, <2>2
<1>7. CASE n > 0
  <2>1. inbuf' = [inbuf EXCEPT ![c] = @ - n] /\ recv_size' = recv_size + HeaderSize + n
    BY <1>3, <1>7 DEF HandleSink
  <2> HIDE DEF c, n
  <2>2. recv_size' \in Nat /\ recv_size' >= recv_size + n
    BY <1>2, <1>3, <1>7, <2>1
  <2>3. inbuf' = [s \in Conn |-> IF s = c THEN inbuf[s] - n ELSE inbuf[s]]
    BY <1>1, <1>2, <2>1
  <2>4. \A s \in Sink : inbuf'[s] <= written'[s]
    BY <1>2, <1>3, <1>4, <1>5, <1>7, <2>3 DEF Conn
  <2>5. OwnBytesCounted'
    <3>1. CASE c \in Mine
      <4> DEFINE g == [s \in Mine |-> written[s] - inbuf[s]]
                 h == [s \in Mine |-> written[s] - inbuf'[s]]
      <4>1. /\ \A s \in Mine : g[s] \in Int /\ h[s] \in Int
            /\ \A s \in Mine \ {c} : h[s] = g[s]
            /\ h[c] = g[c] + n /\ DOMAIN g = Mine /\ DOMAIN h = Mine
        BY <1>2, <1>3, <2>3, <3>1, MineFacts
      <4>2. OwnBytesCounted <=> SumFunction(g) <= recv_size
        BY DEF OwnBytesCounted
      <4>3. OwnBytesCounted' <=> SumFunction(h) <= recv_size'
        BY <1>4, MineSame DEF OwnBytesCounted
      <4> HIDE DEF g, h
      <4>4. c \in Mine /\ IsFiniteSet(Mine) /\ n \in Int
        BY <1>3, <3>1, MineFacts
      <4> DEFINE S == Mine
                 x == c
      <4>5. /\ IsFiniteSet(S) /\ x \in S /\ DOMAIN g = S /\ DOMAIN h = S
            /\ \A y \in S : g[y] \in Int /\ h[y] \in Int
            /\ \A y \in S \ {x} : h[y] = g[y]
            /\ h[x] = g[x] + n
        BY <4>1, <4>4
      <4> HIDE DEF S, x
      <4>6. SumFunction(h) = SumFunction(g) + n /\ SumFunction(g) \in Int
        BY <4>4, <4>5, SumGrows
      <4> QED BY <1>2, <1>3, <2>2, <4>2, <4>3, <4>6
    <3>2. CASE c \notin Mine
      <4>1. \A s \in Mine : written'[s] - inbuf'[s] = written[s] - inbuf[s]
        BY <1>4, <2>3, <3>2, MineFacts
      <4>2. recv_size' >= recv_size
        BY <1>2, <1>3, <1>7, <2>2
      <4> QED BY <2>2, <4>1, <4>2, OwnSame
    <3> QED BY <3>1, <3>2
  <2>6. recv_size' >= recv_size
    BY <1>2, <1>3, <1>7, <2>2
  <2> QED BY <1>4, <2>2, <2>4, <2>5, <2>6
<1> QED BY <1>3, <1>6, <1>7

-----------------------------------------------------------------------------
(* The server's steps, as the running client sees them.                      *)

LEMMA BlankHas ==
  ASSUME NEW q
  PROVE  /\ Blank(q) => ~Has(q, "/reset") /\ ~Has(q, "/report")
         /\ Orderly(q) /\ ~Has(q, "/reset") /\ ~Has(q, "/report") => Blank(q)
BY DEF Blank, Has, Orderly

LEMMA Quiet ==
  ASSUME CountInv, ClientInv, UNCHANGED <<client, peer, written, cmds, replies>>,
         recv_size' \in Nat, recv_size' >= recv_size,
         \A s \in Sink : inbuf'[s] <= written'[s]
  PROVE  RunsInv' /\ ResetsInv' /\ AnswersInv' /\ ReportIsAnswer'
<1>1. /\ control' = control /\ sinks' = sinks /\ Mine' = Mine
      /\ UNCHANGED <<run, c_pc, used, cut, shown, peer, written, cmds, replies>>
  BY MineSame DEF client
<1>2. RunsInv'
  BY <1>1 DEF ClientInv, RunsInv
<1>3. ResetsInv'
  BY <1>1 DEF ClientInv, ResetsInv
<1>4. recv_size \in Nat /\ \A x \in Nat : x <= recv_size => x <= recv_size'
  BY DEF CountInv
<1>5. AnswersInv'
  <2> DEFINE r == replies[control]
  <2>1. r \in Seq(Answers) /\ used \in Nat
    BY MineFacts DEF CountInv, ClientInv, RunsInv, Answers
  <2>2. Len(r) = used + 1 => r[used + 1][2] \in Nat
    <3> HIDE DEF r
    <3> QED BY <2>1 DEF Answers
  <2> QED BY <1>1, <1>4, <2>2 DEF ClientInv, AnswersInv
<1>6. ReportIsAnswer'
  <2>1. Len(shown) = 1 => shown[1][2] \in Nat
    BY DEF ClientInv, RunsInv
  <2> QED BY <1>1, <1>4, <2>1 DEF ClientInv, ReportIsAnswer
<1> QED BY <1>2, <1>3, <1>5, <1>6

LEMMA TalkSeen ==
  ASSUME ServerInv, CountInv, ClientInv, ServerInv', CountInv', UNCHANGED client,
         NEW fd \in Fds, HandleServer(fd)
  PROVE  ClientInv'
<1> DEFINE c == file[fd]
<1>1. /\ control' = control /\ sinks' = sinks /\ Mine' = Mine /\ control \in Control
      /\ UNCHANGED <<run, c_pc, used, cut, shown>>
  BY MineSame, MineFacts DEF client, ClientInv
<1>2. UNCHANGED <<peer, written, inbuf>>
  BY DEF HandleServer, peers
<1>3. /\ recv_size \in Nat /\ recv_size' \in Nat /\ replies \in [Conn -> Seq(Answers)]
      /\ inbuf \in [Conn -> Nat] /\ written \in [Conn -> Nat]
  BY DEF CountInv, ServerInv, EventsReady, Answers
<1>4. c \in Control
  BY ServerConn
<1>5. Orderly(cmds[c])
  BY <1>4 DEF ClientInv, ResetsInv
<1>6. /\ c \in Control /\ cmds[c] # << >>
      /\ \A d \in Conn \ {c} : cmds'[d] = cmds[d] /\ replies'[d] = replies[d]
      /\ Orderly(cmds'[c])
      /\ \A m \in {"/reset", "/report"} : Has(cmds'[c], m) => Has(cmds[c], m)
      /\ Has(cmds'[c], "/reset") => UNCHANGED <<replies, recv_size>>
      /\ ~Has(cmds[c], "/reset") =>
           \/ UNCHANGED <<replies, recv_size>>
           \/ /\ replies'[c] = Append(replies[c], <<"REPORT", recv_size>>)
              /\ UNCHANGED recv_size
              /\ Has(cmds[c], "/report") /\ Blank(cmds'[c])
      /\ ~Has(cmds[c], "/report") =>
           \/ UNCHANGED replies
           \/ Has(cmds[c], "/reset") /\ Blank(cmds'[c]) /\ Len(replies'[c]) = Len(replies[c]) + 1
  <2> HIDE DEF c
  <2>1. c = file[fd]
    BY DEF c
  <2> QED BY <1>5, <2>1, ServerTalk
<1> HIDE DEF c
<1>7. \A d \in Control : Has(cmds[d], "/reset") =>
        /\ d = control /\ replies[d] = << >> /\ c_pc \in {"read_reset", "leave", "read_report"}
        /\ \A s \in Mine : written[s] = 0
  BY DEF ClientInv, ResetsInv
<1>8. RunsInv'
  <2>1. \A d \in Conn : peer'[d] = "none" =>
          written'[d] = 0 /\ cmds'[d] = << >> /\ replies'[d] = << >>
    BY <1>2, <1>6 DEF ClientInv, RunsInv, Conn
  <2> QED BY <1>1, <1>2, <2>1 DEF ClientInv, RunsInv
<1>9. ResetsInv'
  <2> SUFFICES ASSUME NEW d \in Control
               PROVE  /\ Orderly(cmds'[d])
                      /\ Has(cmds'[d], "/reset") =>
                           /\ d = control /\ replies'[d] = << >>
                           /\ c_pc \in {"read_reset", "leave", "read_report"}
                           /\ \A s \in Mine : written[s] = 0
    BY <1>1, <1>2 DEF ResetsInv
  <2>1. CASE d # c
    <3>1. cmds'[d] = cmds[d] /\ replies'[d] = replies[d]
      BY <1>6, <2>1 DEF Conn
    <3> QED BY <1>7, <3>1 DEF ClientInv, ResetsInv
  <2>2. CASE d = c
    BY <1>6, <1>7, <2>2
  <2> QED BY <2>1, <2>2
<1>10. ~Has(cmds[c], "/reset") => recv_size' = recv_size
  BY <1>6
<1>11. OwnBytesCounted'
  <2>1. CASE Has(cmds[c], "/reset")
    <3>1. \A s \in Mine' : written'[s] = 0
      BY <1>1, <1>2, <1>6, <1>7, <2>1
    <3> QED BY <1>8, <3>1, OwnZero
  <2>2. CASE ~Has(cmds[c], "/reset")
    BY <1>1, <1>2, <1>3, <1>10, <2>2, OwnSame DEF ClientInv
  <2> QED BY <2>1, <2>2
<1>12. ReportIsAnswer'
  BY <1>1, <1>6, <1>7, <1>10 DEF ClientInv, ReportIsAnswer
<1>13. AnswersInv'
  <2> DEFINE q == cmds[control]
             r == replies[control]
             at == IF c_pc = "leave" THEN cut ELSE c_pc
  <2>1. CASE c # control
    <3>1. cmds'[control] = q /\ replies'[control] = r
      BY <1>1, <1>6, <2>1 DEF Conn
    <3>2. recv_size' = recv_size
      BY <1>6, <1>7, <1>10, <2>1
    <3> QED BY <1>1, <3>1, <3>2 DEF ClientInv, AnswersInv
  <2>2. CASE c = control
    <3> DEFINE Q == cmds'[control]
               R == replies'[control]
    <3>1. /\ q # << >> /\ Orderly(q) /\ Orderly(Q) /\ r \in Seq(Answers) /\ used \in Nat
          /\ \A m \in {"/reset", "/report"} : Has(Q, m) => Has(q, m)
          /\ Has(q, "/reset") => r = << >>
          /\ ~Has(q, "/reset") =>
               \/ R = r /\ recv_size' = recv_size
               \/ /\ R = Append(r, <<"REPORT", recv_size>>) /\ recv_size' = recv_size
                  /\ Has(q, "/report") /\ Blank(Q)
          /\ ~Has(q, "/report") =>
               \/ R = r
               \/ Has(q, "/reset") /\ Blank(Q) /\ Len(R) = Len(r) + 1
      BY <1>3, <1>5, <1>6, <1>7, <2>2 DEF Conn, ClientInv, RunsInv
    <3>2. /\ at \in {"start", "connect", "reset", "stdin"} => q = << >>
          /\ at = "read_reset" =>
               /\ used = 0 /\ ~Has(q, "/report")
               /\ r = << >> \/ (Len(r) = 1 /\ Blank(q))
          /\ at = "sending" => used = 1 /\ Len(r) = 1 /\ Blank(q)
          /\ at = "read_report" /\ cut # "read_reset" =>
               \/ Len(r) = used /\ ~Has(q, "/reset")
               \/ /\ Len(r) = used + 1 /\ Blank(q)
                  /\ r[used + 1][1] = "REPORT" /\ r[used + 1][2] <= recv_size
          /\ c_pc = "leave" => at \in {"connect", "reset", "read_reset", "sending"}
          /\ c_pc \notin {"close", "exited"} => shown = << >>
      BY DEF ClientInv, AnswersInv
    <3> HIDE DEF q, r, at, Q, R
    <3>3. at \notin {"start", "connect", "reset", "stdin"}
      BY <3>1, <3>2
    <3>4. Blank(q) => Blank(Q) /\ R = r /\ recv_size' = recv_size
      BY <3>1, BlankHas
    <3>5. at = "read_reset" =>
            /\ used = 0 /\ ~Has(Q, "/report")
            /\ R = << >> \/ (Len(R) = 1 /\ Blank(Q))
      <4> SUFFICES ASSUME at = "read_reset" PROVE R = << >> \/ (Len(R) = 1 /\ Blank(Q))
        BY <3>1, <3>2
      <4>1. Len(<< >>) = 0
        OBVIOUS
      <4>2. CASE Len(r) = 1 /\ Blank(q)
        BY <3>4, <4>2
      <4>3. CASE r = << >>
        <5>1. R = r \/ (Blank(Q) /\ Len(R) = Len(r) + 1)
          BY <3>1, <3>2
        <5>2. Len(r) + 1 = 1
          BY <4>1, <4>3
        <5> QED BY <4>3, <5>1, <5>2
      <4> QED BY <3>2, <4>2, <4>3
    <3>6. at = "sending" => used = 1 /\ Len(R) = 1 /\ Blank(Q)
      BY <3>2, <3>4
    <3>7. ASSUME at = "read_report", cut # "read_reset"
          PROVE  \/ Len(R) = used /\ ~Has(Q, "/reset")
                 \/ /\ Len(R) = used + 1 /\ Blank(Q)
                    /\ R[used + 1][1] = "REPORT" /\ R[used + 1][2] <= recv_size'
      <4>1. CASE Blank(q) /\ Len(r) = used + 1
                 /\ r[used + 1][1] = "REPORT" /\ r[used + 1][2] <= recv_size
        BY <3>4, <4>1
      <4>2. CASE Len(r) = used /\ ~Has(q, "/reset")
        <5>1. CASE R = r
          BY <3>1, <4>2, <5>1
        <5>2. CASE R = Append(r, <<"REPORT", recv_size>>) /\ recv_size' = recv_size /\ Blank(Q)
          <6> DEFINE e == <<"REPORT", recv_size>>
          <6>1. e \in Answers /\ e[1] = "REPORT" /\ e[2] <= recv_size
            BY <1>3 DEF Answers
          <6> HIDE DEF e
          <6>2. Len(Append(r, e)) = used + 1 /\ Append(r, e)[used + 1] = e
            BY <3>1, <4>2, <6>1
          <6> QED BY <5>2, <6>1, <6>2 DEF e
        <5> QED BY <3>1, <4>2, <5>1, <5>2
      <4> QED BY <3>2, <3>7, <4>1, <4>2
    <3>8. at' = at /\ q' = Q /\ r' = R
      BY <1>1 DEF at, q, r, Q, R
    <3> QED BY <1>1, <3>2, <3>3, <3>5, <3>6, <3>7, <3>8 DEF AnswersInv, at, q, r
  <2> QED BY <2>1, <2>2
<1> QED BY <1>8, <1>9, <1>11, <1>12, <1>13 DEF ClientInv

LEMMA ServerSeen ==
  ASSUME ServerInv, CountInv, ClientInv, ServerInv', CountInv', Server, UNCHANGED client
  PROVE  ClientInv'
<1>1. /\ UNCHANGED run /\ RunsInv /\ OwnBytesCounted /\ recv_size \in Nat
      /\ \A s \in Sink : inbuf[s] <= written[s]
  BY DEF ClientInv, RunsInv, CountInv, client
<1>2. ASSUME UNCHANGED <<peer, written, inbuf, cmds, replies, recv_size>>
      PROVE  ClientInv'
  <2>1. recv_size' \in Nat /\ recv_size' >= recv_size /\ \A s \in Sink : inbuf'[s] <= written'[s]
    BY <1>1, <1>2
  <2>2. RunsInv' /\ ResetsInv' /\ AnswersInv' /\ ReportIsAnswer'
    BY <1>2, <2>1, Quiet
  <2>3. OwnBytesCounted'
    BY <1>1, <1>2, <2>1, OwnSame
  <2> QED BY <2>2, <2>3 DEF ClientInv
<1>3. CASE EpollWait
  BY <1>2, <1>3 DEF EpollWait, peers
<1>4. ASSUME NEW fd \in events, Handle(fd)
      PROVE  ClientInv'
  <2>1. CASE fd \in Listener
    BY <1>2, <1>4, <2>1 DEF Handle, NewClient, AcceptFails, peers
  <2>2. CASE LoseServer(fd)
    BY <1>2, <2>2 DEF LoseServer, peers
  <2>3. CASE fd \notin Listener /\ (HandleSink(fd) \/ HandleServer(fd))
    <3>1. fd \in Fds
      BY <2>3 DEF ServerInv, TablesInv, EventsReady
    <3>2. CASE HandleServer(fd)
      BY <3>1, <3>2, TalkSeen
    <3>3. CASE HandleSink(fd)
      <4>1. /\ OwnBytesCounted' /\ recv_size' \in Nat /\ recv_size' >= recv_size
            /\ UNCHANGED <<peer, written, cmds, replies>>
            /\ \A s \in Sink : inbuf'[s] <= written'[s]
        BY <1>1, <3>1, <3>3, OwnRead
      <4>2. RunsInv' /\ ResetsInv' /\ AnswersInv' /\ ReportIsAnswer'
        BY <4>1, Quiet
      <4> QED BY <4>1, <4>2 DEF ClientInv
    <3> QED BY <2>3, <3>2, <3>3
  <2> QED BY <1>4, <2>1, <2>2, <2>3 DEF Handle
<1> QED BY <1>3, <1>4 DEF Server

-----------------------------------------------------------------------------
(* The client's own steps.                                                   *)

LEMMA RunsApart ==
  ASSUME NEW i \in 1 .. Len(Runs), NEW j \in 1 .. Len(Runs), i # j
  PROVE  \A c \in ToSet(Runs[i].sinks) \cup {Runs[i].control} :
           c \notin ToSet(Runs[j].sinks) \cup {Runs[j].control}
<1>1. Runs[i].control # Runs[j].control /\ ToSet(Runs[i].sinks) \cap ToSet(Runs[j].sinks) = {}
  BY ThroughputClientAssumption DEF ThroughputClientAssumption
<1>2. /\ Runs[i].control \in Control /\ ToSet(Runs[i].sinks) \subseteq Sink
      /\ Runs[j].control \in Control /\ ToSet(Runs[j].sinks) \subseteq Sink
  BY RunTypes
<1>3. Control \cap Sink = {}
  BY ThroughputAssumption DEF ThroughputAssumption
<1> QED BY <1>1, <1>2, <1>3

(* The runs to come make none of the running client's connections.           *)
LEMMA LaterRuns ==
  ASSUME RunsInv, UNCHANGED run, NEW c \in Mine \cup {control},
         \A d \in Conn : d # c => peer'[d] = peer[d]
  PROVE  \A i \in run' + 1 .. Len(Runs) :
           \A d \in ToSet(Runs[i].sinks) \cup {Runs[i].control} : peer'[d] = "none"
<1> SUFFICES ASSUME NEW i \in run + 1 .. Len(Runs),
                    NEW d \in ToSet(Runs[i].sinks) \cup {Runs[i].control}
             PROVE  peer'[d] = "none"
  OBVIOUS
<1>1. run \in 1 .. Len(Runs) /\ i \in 1 .. Len(Runs) /\ i # run
  BY DEF RunsInv
<1>2. d # c
  BY <1>1, RunsApart DEF Mine, sinks, control
<1>3. d \in Conn
  BY <1>1, RunTypes DEF Conn
<1>4. peer[d] = "none"
  BY DEF RunsInv
<1> QED BY <1>2, <1>3, <1>4

(* With its own connections, none of which carries a command or its answer.  *)
LEMMA ConnectSeen ==
  ASSUME ServerInv, CountInv, ClientInv, ConnectControl \/ ConnectSink
  PROVE  ClientInv'
<1>1. PICK c \in Mine \cup {control} : c \in Conn /\ Connect(c)
  BY MineFacts DEF ConnectControl, ConnectSink, ClientInv
<1>2. /\ UNCHANGED <<run, used, cut, shown, written, inbuf, cmds, replies, recv_size>>
      /\ control' = control /\ sinks' = sinks /\ Mine' = Mine
      /\ c_pc \in {"start", "connect"} /\ c_pc' \in {"connect", "reset"}
  BY <1>1, MineSame DEF Connect, ConnectControl, ConnectSink, Goto
<1>3. /\ \A d \in Conn : peer'[d] = "none" => peer[d] = "none"
      /\ \A d \in Conn : d # c => peer'[d] = peer[d]
  BY <1>1 DEF Connect, ServerInv, HeldOnce
<1>4. /\ cmds[control] = << >> /\ replies[control] = << >> /\ used = 0 /\ shown = << >>
  BY <1>2 DEF ClientInv, AnswersInv
<1>5. \A d \in Control : Orderly(cmds[d]) /\ ~ Has(cmds[d], "/reset")
  BY <1>2 DEF ClientInv, ResetsInv
<1>6. RunsInv'
  <2>1. \A i \in run' + 1 .. Len(Runs) :
          \A d \in ToSet(Runs[i].sinks) \cup {Runs[i].control} : peer'[d] = "none"
    BY <1>2, <1>3, LaterRuns DEF ClientInv
  <2>2. c_pc' = "reset" => peer'[sinks[1]] # "none"
    <3> SUFFICES ASSUME c_pc' = "reset" PROVE peer'[sinks[1]] # "none"
      OBVIOUS
    <3>1. PICK i \in DOMAIN sinks : /\ \A j \in DOMAIN sinks : (j < i) <=> (peer[sinks[j]] # "none")
                                    /\ Connect(sinks[i])
      BY DEF ConnectControl, ConnectSink, Goto
    <3>2. DOMAIN sinks = 1 .. Len(sinks) /\ Len(sinks) \in Nat \ {0}
          /\ sinks[1] \in Conn /\ sinks[i] \in Conn
      BY <3>1, MineFacts DEF ClientInv
    <3>3. peer' = [peer EXCEPT ![sinks[i]] = "open"] /\ DOMAIN peer = Conn
      BY <3>1 DEF Connect, ServerInv, HeldOnce
    <3>4. CASE i = 1
      BY <3>2, <3>3, <3>4
    <3>5. CASE i # 1
      <4>1. peer[sinks[1]] # "none"
        BY <3>1, <3>2, <3>5
      <4> QED BY <3>2, <3>3, <4>1
    <3> QED BY <3>4, <3>5
  <2> QED BY <1>2, <1>3, <2>1, <2>2 DEF ClientInv, RunsInv
<1>7. ResetsInv'
  BY <1>2, <1>5 DEF ResetsInv
<1>8. AnswersInv'
  BY <1>2, <1>4 DEF AnswersInv
<1>9. OwnBytesCounted'
  BY <1>2, OwnSame DEF ClientInv, CountInv
<1>10. ReportIsAnswer'
  BY <1>2 DEF ReportIsAnswer
<1> QED BY <1>6, <1>7, <1>8, <1>9, <1>10 DEF ClientInv

LEMMA AppendReset ==
  ASSUME NEW q, q = << >>
  PROVE  /\ Orderly(Append(q, "/reset")) /\ ~ Has(Append(q, "/reset"), "/report")
<1>1. Append(q, "/reset") = <<"/reset">>
  OBVIOUS
<1> DEFINE p == <<"/reset">>
<1>2. Len(p) = 1 /\ p[1] = "/reset"
  OBVIOUS
<1> HIDE DEF p
<1>3. Orderly(p) /\ ~ Has(p, "/report")
  BY <1>2 DEF Orderly, Has
<1> QED BY <1>1, <1>3 DEF p

LEMMA AppendReport ==
  ASSUME NEW M, "/report" \in M, NEW q \in Seq(M), Orderly(q), ~ Has(q, "/report")
  PROVE  LET p == Append(q, "/report")
         IN  Orderly(p) /\ (Has(p, "/reset") => Has(q, "/reset"))
<1> DEFINE p == Append(q, "/report")
           n == Len(q)
<1>1. n \in Nat /\ Len(p) = n + 1 /\ p[n + 1] = "/report" /\ \A i \in 1 .. n : p[i] = q[i]
  OBVIOUS
<1> HIDE DEF p
<1>2. /\ \A i \in 1 .. n : q[i] \in {"cut", "/reset"}
      /\ \A i, j \in 1 .. n : q[i] = q[j] /\ q[i] # "cut" => i = j
      /\ \A i, j \in 1 .. n : q[i] = "/reset" /\ j < i => q[j] = "cut"
  BY DEF Orderly, Has, n
<1> HIDE DEF n
<1>3. Orderly(p)
  <2> SUFFICES ASSUME NEW i \in 1 .. n + 1
               PROVE  /\ p[i] \in {"cut", "/reset", "/report"}
                      /\ \A j \in 1 .. n + 1 :
                           /\ p[i] = p[j] /\ p[i] # "cut" => i = j
                           /\ p[i] = "/reset" /\ j < i => p[j] = "cut"
    BY <1>1 DEF Orderly
  <2>1. CASE i = n + 1
    <3>1. \A j \in 1 .. n + 1 : p[j] = "/report" => j = n + 1
      BY <1>1, <1>2
    <3> QED BY <1>1, <2>1, <3>1
  <2>2. CASE i # n + 1
    <3>1. i \in 1 .. n /\ p[i] = q[i] /\ p[i] \in {"cut", "/reset"}
      BY <1>1, <1>2, <2>2
    <3>2. ASSUME NEW j \in 1 .. n + 1
          PROVE  /\ p[i] = p[j] /\ p[i] # "cut" => i = j
                 /\ p[i] = "/reset" /\ j < i => p[j] = "cut"
      <4>1. CASE j = n + 1
        BY <1>1, <3>1, <4>1
      <4>2. CASE j # n + 1
        <5>1. j \in 1 .. n /\ p[j] = q[j]
          BY <1>1, <4>2
        <5> QED BY <1>2, <3>1, <5>1
      <4> QED BY <4>1, <4>2
    <3> QED BY <3>1, <3>2
  <2> QED BY <2>1, <2>2
<1>4. Has(p, "/reset") => Has(q, "/reset")
  <2> SUFFICES ASSUME NEW i \in 1 .. n + 1, p[i] = "/reset" PROVE Has(q, "/reset")
    BY <1>1 DEF Has
  <2>1. i \in 1 .. n /\ q[i] = "/reset"
    BY <1>1
  <2> QED BY <2>1 DEF Has, n
<1> QED BY <1>3, <1>4 DEF p

(* A command on its way changes nothing that is counted, and no other queue. *)
LEMMA AskSeen ==
  ASSUME ServerInv, CountInv, ClientInv, UNCHANGED run, NEW m, Ask(control, m)
  PROVE  /\ UNCHANGED <<peer, inbuf, replies, recv_size>>
         /\ cmds'[control] = Append(cmds[control], m)
         /\ \A d \in Control : d # control => cmds'[d] = cmds[d]
         /\ \A s \in Sink : written'[s] = written[s]
         /\ peer[control] = "open" /\ control' = control /\ sinks' = sinks /\ Mine' = Mine
         /\ \A d \in Conn : peer'[d] = "none" =>
              written'[d] = 0 /\ cmds'[d] = << >> /\ replies'[d] = << >>
         /\ \A s \in Sink : inbuf'[s] <= written'[s]
         /\ OwnBytesCounted'
<1>1. /\ UNCHANGED <<peer, inbuf, replies, recv_size>> /\ peer[control] = "open"
      /\ cmds' = [cmds EXCEPT ![control] = Append(@, m)]
      /\ written' = [written EXCEPT ![control] = @ + 1]
  BY DEF Ask
<1>2. /\ control \in Control /\ control \in Conn /\ Mine \subseteq Sink /\ Mine \subseteq Conn
      /\ control' = control /\ sinks' = sinks /\ Mine' = Mine
  BY MineFacts, MineSame DEF ClientInv
<1>3. /\ DOMAIN cmds = Conn /\ written \in [Conn -> Nat] /\ recv_size \in Nat
      /\ control \notin Sink
  BY <1>2, ThroughputAssumption DEF ServerInv, EventsReady, CountInv, ThroughputAssumption
<1>4. /\ cmds'[control] = Append(cmds[control], m)
      /\ \A d \in Conn : d # control => cmds'[d] = cmds[d] /\ written'[d] = written[d]
  BY <1>1, <1>2, <1>3
<1>5. \A s \in Sink : written'[s] = written[s]
  BY <1>3, <1>4 DEF Conn
<1>6. \A d \in Conn : peer'[d] = "none" =>
        written'[d] = 0 /\ cmds'[d] = << >> /\ replies'[d] = << >>
  BY <1>1, <1>4 DEF ClientInv, RunsInv
<1>7. OwnBytesCounted'
  BY <1>1, <1>2, <1>3, <1>5, OwnSame DEF ClientInv
<1> QED BY <1>1, <1>2, <1>4, <1>5, <1>6, <1>7 DEF ClientInv, RunsInv, Conn

LEMMA SendResetSeen ==
  ASSUME ServerInv, CountInv, ClientInv, SendReset
  PROVE  ClientInv'
<1>1. /\ c_pc = "reset" /\ c_pc' = "read_reset" /\ UNCHANGED <<run, used, cut, shown>>
      /\ Ask(control, "/reset")
  BY DEF SendReset, Goto
<1>2. cmds[control] = << >> /\ replies[control] = << >> /\ used = 0 /\ shown = << >>
  BY <1>1 DEF ClientInv, AnswersInv
<1>3. \A s \in Mine : written[s] = 0
  BY <1>1 DEF ClientInv, RunsInv
<1>4. \A d \in Control : Orderly(cmds[d]) /\ ~ Has(cmds[d], "/reset")
  BY <1>1 DEF ClientInv, ResetsInv
<1>5. /\ UNCHANGED <<peer, inbuf, replies, recv_size>>
      /\ cmds'[control] = Append(cmds[control], "/reset")
      /\ \A d \in Control : d # control => cmds'[d] = cmds[d]
      /\ \A s \in Sink : written'[s] = written[s]
      /\ control' = control /\ sinks' = sinks /\ Mine' = Mine
      /\ \A d \in Conn : peer'[d] = "none" =>
           written'[d] = 0 /\ cmds'[d] = << >> /\ replies'[d] = << >>
      /\ \A s \in Sink : inbuf'[s] <= written'[s]
      /\ OwnBytesCounted'
  BY <1>1, AskSeen
<1>6. Orderly(cmds'[control]) /\ ~ Has(cmds'[control], "/report")
  <2> DEFINE q == cmds[control]
  <2>1. q = << >> /\ cmds'[control] = Append(q, "/reset")
    BY <1>2, <1>5
  <2> HIDE DEF q
  <2>2. Orderly(Append(q, "/reset")) /\ ~ Has(Append(q, "/reset"), "/report")
    BY <2>1, AppendReset
  <2> QED BY <2>1, <2>2
<1>7. Mine \subseteq Sink
  BY MineFacts DEF ClientInv
<1>8. RunsInv'
  BY <1>1, <1>3, <1>5, <1>7 DEF ClientInv, RunsInv
<1>9. ResetsInv'
  BY <1>1, <1>2, <1>3, <1>4, <1>5, <1>6, <1>7 DEF ResetsInv
<1>10. AnswersInv'
  BY <1>1, <1>2, <1>5, <1>6 DEF AnswersInv
<1>11. ReportIsAnswer'
  BY <1>1 DEF ReportIsAnswer
<1> QED BY <1>5, <1>8, <1>9, <1>10, <1>11 DEF ClientInv

LEMMA SendReportSeen ==
  ASSUME ServerInv, CountInv, ClientInv, SendReport
  PROVE  ClientInv'
<1> DEFINE q == cmds[control]
           r == replies[control]
<1>1. /\ c_pc = "leave" /\ c_pc' = "read_report" /\ UNCHANGED <<run, used, cut, shown>>
      /\ Ask(control, "/report")
  BY DEF SendReport, Goto
<1>2. /\ cut \in {"connect", "reset", "read_reset", "sending"} /\ shown = << >>
      /\ cut \in {"connect", "reset"} => q = << >> /\ r = << >> /\ used = 0
      /\ cut = "read_reset" => ~ Has(q, "/report")
      /\ cut = "sending" => used = 1 /\ Len(r) = 1 /\ Blank(q)
  BY <1>1 DEF ClientInv, AnswersInv
<1>3. /\ control \in Control /\ control \in Conn /\ Mine \subseteq Sink
  BY MineFacts DEF ClientInv
<1>4. \A d \in Control : Orderly(cmds[d]) /\ (Has(cmds[d], "/reset") =>
        d = control /\ replies[d] = << >> /\ \A s \in Mine : written[s] = 0)
  BY DEF ClientInv, ResetsInv
<1>5. /\ UNCHANGED <<peer, inbuf, replies, recv_size>>
      /\ cmds'[control] = Append(q, "/report")
      /\ \A d \in Control : d # control => cmds'[d] = cmds[d]
      /\ \A s \in Sink : written'[s] = written[s]
      /\ control' = control /\ sinks' = sinks /\ Mine' = Mine
      /\ \A d \in Conn : peer'[d] = "none" =>
           written'[d] = 0 /\ cmds'[d] = << >> /\ replies'[d] = << >>
      /\ \A s \in Sink : inbuf'[s] <= written'[s]
      /\ OwnBytesCounted'
  BY <1>1, AskSeen
<1>6. q \in Seq(Command \cup {"cut"}) /\ "/report" \in Command
  BY <1>3, ThroughputClientAssumption DEF CountInv, ThroughputClientAssumption
<1>7. /\ ~ Has(q, "/report") /\ Orderly(q)
      /\ cut # "read_reset" => ~ Has(q, "/reset") /\ Len(r) = used
  <2>1. Len(<< >>) = 0 /\ ~ Has(<< >>, "/report") /\ ~ Has(<< >>, "/reset")
    BY DEF Has
  <2> HIDE DEF q, r
  <2>2. Blank(q) => ~ Has(q, "/report") /\ ~ Has(q, "/reset")
    BY BlankHas
  <2>3. Orderly(q)
    BY <1>3, <1>4 DEF q
  <2> QED BY <1>2, <2>1, <2>2, <2>3
<1>8. Orderly(cmds'[control]) /\ (Has(cmds'[control], "/reset") => Has(q, "/reset"))
  <2> HIDE DEF q
  <2> QED BY <1>5, <1>6, <1>7, AppendReport
<1>9. RunsInv'
  BY <1>1, <1>5, <1>3 DEF ClientInv, RunsInv
<1>10. ResetsInv'
  BY <1>1, <1>3, <1>4, <1>5, <1>8 DEF ResetsInv
<1>11. AnswersInv'
  BY <1>1, <1>2, <1>5, <1>7, <1>8 DEF AnswersInv
<1>12. ReportIsAnswer'
  BY <1>1 DEF ReportIsAnswer
<1> QED BY <1>5, <1>9, <1>10, <1>11, <1>12 DEF ClientInv

LEMMA ReadResetSeen ==
  ASSUME ServerInv, CountInv, ClientInv, ReadReset
  PROVE  ClientInv'
<1> DEFINE q == cmds[control]
           r == replies[control]
<1>1. PICK k \in used + 1 .. Len(r) : used' = k
  BY DEF ReadReset
<1>2. /\ c_pc = "read_reset" /\ c_pc' = "sending" /\ UNCHANGED <<vars, run, cut, shown>>
  BY DEF ReadReset, Goto
<1>3. /\ control' = control /\ sinks' = sinks /\ Mine' = Mine
      /\ UNCHANGED <<run, cut, shown, peer, written, inbuf, cmds, replies, recv_size>>
  BY <1>2, MineSame DEF vars, peers
<1>4. used = 0 /\ (r = << >> \/ (Len(r) = 1 /\ Blank(q))) /\ shown = << >>
  BY <1>2 DEF ClientInv, AnswersInv
<1>5. used' = 1 /\ Len(r) = 1 /\ Blank(q) /\ r # << >>
  <2> HIDE DEF q, r
  <2>1. Len(<< >>) = 0
    OBVIOUS
  <2>2. k \in 1 .. Len(r)
    BY <1>1, <1>4
  <2>3. r # << >>
    BY <2>1, <2>2
  <2>4. Len(r) = 1 /\ Blank(q)
    BY <1>4, <2>3
  <2>5. k = 1
    BY <2>2, <2>4
  <2> QED BY <1>1, <2>3, <2>4, <2>5
<1>6. \A d \in Control : Orderly(cmds[d]) /\ ~ Has(cmds[d], "/reset")
  BY <1>5 DEF ClientInv, ResetsInv
<1>7. RunsInv'
  BY <1>2, <1>3, <1>5 DEF ClientInv, RunsInv
<1>8. ResetsInv'
  BY <1>3, <1>6 DEF ResetsInv
<1>9. AnswersInv'
  BY <1>2, <1>3, <1>4, <1>5 DEF AnswersInv
<1>10. OwnBytesCounted'
  BY <1>3, OwnSame DEF ClientInv, CountInv
<1>11. ReportIsAnswer'
  BY <1>2 DEF ReportIsAnswer
<1> QED BY <1>7, <1>8, <1>9, <1>10, <1>11 DEF ClientInv

LEMMA SendDataSeen ==
  ASSUME ServerInv, CountInv, ClientInv, SendData
  PROVE  ClientInv'
<1>1. PICK s \in Mine, n \in 1 .. Mss[sinks[1]] - HeaderSize : Write(s, n)
  BY DEF SendData
<1>2. /\ c_pc = "sending" /\ UNCHANGED <<run, c_pc, used, cut, shown>>
      /\ control' = control /\ sinks' = sinks /\ Mine' = Mine
  BY MineSame DEF SendData, client
<1>3. /\ UNCHANGED <<peer, cmds, replies, recv_size>> /\ peer[s] = "open"
      /\ written' = [written EXCEPT ![s] = @ + n] /\ inbuf' = [inbuf EXCEPT ![s] = @ + n]
  BY <1>1 DEF Write
<1>4. /\ Mine \subseteq Sink /\ Mine \subseteq Conn /\ control \in Control
      /\ written \in [Conn -> Nat] /\ inbuf \in [Conn -> Nat] /\ recv_size \in Nat
      /\ n \in Int
  <2>1. Mine \subseteq Sink /\ Mine \subseteq Conn /\ control \in Control
    BY MineFacts DEF ClientInv
  <2>2. written \in [Conn -> Nat] /\ inbuf \in [Conn -> Nat] /\ recv_size \in Nat
    BY DEF CountInv, ServerInv, EventsReady
  <2>3. n \in Int
    OBVIOUS
  <2> QED BY ONLY <2>1, <2>2, <2>3
<1>5. \A d \in Conn : /\ written'[d] = IF d = s THEN written[d] + n ELSE written[d]
                      /\ inbuf'[d] = IF d = s THEN inbuf[d] + n ELSE inbuf[d]
  BY <1>3, <1>4
<1>6. \A d \in Control : Orderly(cmds[d]) /\ ~ Has(cmds[d], "/reset")
  BY <1>2 DEF ClientInv, ResetsInv
<1>7. RunsInv'
  <2>1. \A d \in Conn : peer'[d] = "none" =>
          written'[d] = 0 /\ cmds'[d] = << >> /\ replies'[d] = << >>
    BY <1>3, <1>5 DEF ClientInv, RunsInv
  <2>2. \A d \in Sink : inbuf'[d] <= written'[d]
    <3>1. \A d \in Sink : d \in Conn /\ inbuf[d] <= written[d]
      BY DEF ClientInv, RunsInv, Conn
    <3> QED BY <1>4, <1>5, <3>1
  <2> QED BY <1>2, <1>3, <2>1, <2>2 DEF ClientInv, RunsInv
<1>8. ResetsInv'
  BY <1>2, <1>3, <1>6 DEF ResetsInv
<1>9. AnswersInv'
  BY <1>2, <1>3 DEF ClientInv, AnswersInv
<1>10. OwnBytesCounted'
  <2>1. \A d \in Mine : written'[d] - inbuf'[d] = written[d] - inbuf[d]
    BY <1>4, <1>5
  <2> QED BY <1>2, <1>3, <1>4, <2>1, OwnSame DEF ClientInv
<1>11. ReportIsAnswer'
  BY <1>2 DEF ReportIsAnswer
<1> QED BY <1>7, <1>8, <1>9, <1>10, <1>11 DEF ClientInv

(* The steps that touch neither a connection nor what has been read.         *)
LEMMA SigtermSeen ==
  ASSUME ServerInv, CountInv, ClientInv, Sigterm
  PROVE  ClientInv'
<1>1. /\ c_pc \in {"start", "connect", "reset", "read_reset", "sending"}
      /\ \/ c_pc # "start" /\ c_pc' = "leave"
         \/ peer[sinks[1]] = "none" /\ c_pc' = "stdin"
      /\ cut' = c_pc /\ UNCHANGED <<vars, run, used, shown>>
  BY DEF Sigterm, Goto
<1>2. /\ control' = control /\ sinks' = sinks /\ Mine' = Mine
      /\ UNCHANGED <<run, used, shown, peer, written, inbuf, cmds, replies, recv_size>>
  BY <1>1, MineSame DEF vars, peers
<1>3. c_pc' = "stdin" => c_pc \in {"start", "connect"}
  BY <1>1 DEF ClientInv, RunsInv
<1>4. RunsInv'
  BY <1>1, <1>2 DEF ClientInv, RunsInv
<1>5. ResetsInv'
  BY <1>1, <1>2, <1>3 DEF ClientInv, ResetsInv
<1>6. AnswersInv'
  BY <1>1, <1>2, <1>3 DEF ClientInv, AnswersInv
<1>7. OwnBytesCounted'
  BY <1>2, OwnSame DEF ClientInv, CountInv
<1>8. ReportIsAnswer'
  BY <1>1 DEF ReportIsAnswer
<1> QED BY <1>4, <1>5, <1>6, <1>7, <1>8 DEF ClientInv

LEMMA LeaveSeen ==
  ASSUME ServerInv, CountInv, ClientInv, ReadStdin \/ Exit
  PROVE  ClientInv'
<1>1. /\ \/ c_pc = "stdin" /\ c_pc' = "close"
         \/ c_pc = "close" /\ c_pc' = "exited"
      /\ UNCHANGED <<vars, run, used, cut, shown>>
  BY DEF ReadStdin, Exit, Goto
<1>2. /\ control' = control /\ sinks' = sinks /\ Mine' = Mine
      /\ UNCHANGED <<run, used, cut, shown, peer, written, inbuf, cmds, replies, recv_size>>
  BY <1>1, MineSame DEF vars, peers
<1>3. c_pc' = "close" => shown = << >>
  BY <1>1 DEF ClientInv, AnswersInv
<1>4. RunsInv'
  BY <1>1, <1>2 DEF ClientInv, RunsInv
<1>5. ResetsInv'
  BY <1>1, <1>2 DEF ClientInv, ResetsInv
<1>6. AnswersInv'
  BY <1>1, <1>2 DEF AnswersInv
<1>7. OwnBytesCounted'
  BY <1>2, OwnSame DEF ClientInv, CountInv
<1>8. ReportIsAnswer'
  BY <1>2, <1>3 DEF ReportIsAnswer
<1> QED BY <1>4, <1>5, <1>6, <1>7, <1>8 DEF ClientInv

(* An answer that has come after the report was asked for is the report.     *)
LEMMA ReadReportSeen ==
  ASSUME ServerInv, CountInv, ClientInv, ReadReport
  PROVE  ClientInv'
<1> DEFINE r == replies[control]
<1>1. PICK k \in used + 1 .. Len(r) : used' = k /\ shown' = SubSeq(r, used + 1, k)
  BY DEF ReadReport, Unread
<1>2. /\ c_pc = "read_report" /\ c_pc' = "close" /\ UNCHANGED <<vars, run, cut>>
  BY DEF ReadReport, Goto
<1>3. /\ control' = control /\ sinks' = sinks /\ Mine' = Mine
      /\ UNCHANGED <<run, cut, peer, written, inbuf, cmds, replies, recv_size>>
  BY <1>2, MineSame DEF vars, peers
<1>4. r \in Seq(Answers) /\ used \in Nat
  BY MineFacts DEF CountInv, ClientInv, RunsInv, Answers
<1>5. cut # "read_reset" =>
        \/ Len(r) = used
        \/ Len(r) = used + 1 /\ r[used + 1][1] = "REPORT" /\ r[used + 1][2] <= recv_size
  BY <1>2 DEF ClientInv, AnswersInv
<1> HIDE DEF r
<1>6. /\ k \in Nat /\ shown' \in Seq(Answers) /\ r # << >>
      /\ k = used + 1 => Len(shown') = 1 /\ shown'[1] = r[used + 1]
  BY <1>1, <1>4
<1>7. \A d \in Control : Orderly(cmds[d]) /\ ~ Has(cmds[d], "/reset")
  BY <1>6 DEF ClientInv, ResetsInv, r
<1>8. RunsInv'
  BY <1>1, <1>2, <1>3, <1>6 DEF ClientInv, RunsInv, Answers
<1>9. ResetsInv'
  BY <1>3, <1>7 DEF ResetsInv
<1>10. AnswersInv'
  BY <1>2 DEF AnswersInv
<1>11. OwnBytesCounted'
  BY <1>3, OwnSame DEF ClientInv, CountInv
<1>12. ReportIsAnswer'
  <2>1. cut # "read_reset" => k = used + 1 /\ r[used + 1][1] = "REPORT" /\ r[used + 1][2] <= recv_size
    BY <1>1, <1>4, <1>5
  <2> QED BY <1>3, <1>6, <2>1 DEF ReportIsAnswer
<1> QED BY <1>8, <1>9, <1>10, <1>11, <1>12 DEF ClientInv

LEMMA CloseSeen ==
  ASSUME ServerInv, CountInv, ClientInv, CloseNext
  PROVE  ClientInv'
<1>1. /\ c_pc = "close" /\ UNCHANGED <<run, c_pc, used, cut, shown>>
      /\ control' = control /\ sinks' = sinks /\ Mine' = Mine
  BY MineSame DEF CloseNext, client
<1>2. PICK c \in Mine \cup {control} : c \in Conn /\ Close(c)
  <2>1. PICK i \in 0 .. Len(sinks) : Close(IF i = 0 THEN control ELSE sinks[i])
    BY DEF CloseNext
  <2>2. i = 0 \/ i \in 1 .. Len(sinks)
    BY MineFacts DEF ClientInv
  <2> QED BY <2>1, <2>2, MineFacts DEF ClientInv
<1>3. /\ UNCHANGED <<written, inbuf, replies, recv_size>>
      /\ peer' = [peer EXCEPT ![c] = "closed"]
      /\ cmds' = cmds \/ cmds' = [cmds EXCEPT ![c] = << >>]
  BY <1>2 DEF Close
<1>4. DOMAIN peer = Conn /\ DOMAIN cmds = Conn
  BY DEF ServerInv, HeldOnce, EventsReady
<1>5. /\ \A d \in Conn : d # c => peer'[d] = peer[d]
      /\ peer'[c] = "closed"
      /\ \A d \in Conn : cmds'[d] = cmds[d] \/ cmds'[d] = << >>
  BY <1>2, <1>3, <1>4
<1>6. RunsInv'
  <2>1. \A i \in run' + 1 .. Len(Runs) :
          \A d \in ToSet(Runs[i].sinks) \cup {Runs[i].control} : peer'[d] = "none"
    BY <1>1, <1>5, LaterRuns DEF ClientInv
  <2>2. \A d \in Conn : peer'[d] = "none" =>
          written'[d] = 0 /\ cmds'[d] = << >> /\ replies'[d] = << >>
    BY <1>3, <1>5 DEF ClientInv, RunsInv
  <2> QED BY <1>1, <1>3, <2>1, <2>2 DEF ClientInv, RunsInv
<1>7. ResetsInv'
  <2>1. Orderly(<< >>) /\ ~ Has(<< >>, "/reset")
    BY DEF Orderly, Has
  <2>2. \A d \in Control : Orderly(cmds[d]) /\ ~ Has(cmds[d], "/reset")
    BY <1>1 DEF ClientInv, ResetsInv
  <2>3. \A d \in Control : Orderly(cmds'[d]) /\ ~ Has(cmds'[d], "/reset")
    BY <1>5, <2>1, <2>2 DEF Conn
  <2> QED BY <2>3 DEF ResetsInv
<1>8. AnswersInv'
  BY <1>1 DEF AnswersInv
<1>9. OwnBytesCounted'
  BY <1>1, <1>3, OwnSame DEF ClientInv, CountInv
<1>10. ReportIsAnswer'
  BY <1>1, <1>3 DEF ClientInv, ReportIsAnswer
<1> QED BY <1>6, <1>7, <1>8, <1>9, <1>10 DEF ClientInv

(* The next run's connections have not been made, and no reset is pending.   *)
LEMMA NextRunSeen ==
  ASSUME ServerInv, CountInv, ClientInv, ServerInv', CountInv', NextRun
  PROVE  ClientInv'
<1>1. /\ c_pc = "exited" /\ c_pc' = "start" /\ run < Len(Runs) /\ run' = run + 1
      /\ used' = 0 /\ cut' = "" /\ shown' = << >>
      /\ UNCHANGED <<peer, written, inbuf, cmds, replies, recv_size>>
  BY DEF NextRun, Goto, vars, peers
<1>2. run \in 1 .. Len(Runs) /\ run' \in 1 .. Len(Runs) /\ run' \in run + 1 .. Len(Runs)
      /\ Len(Runs) \in Nat
  <2>1. run \in 1 .. Len(Runs) /\ Len(Runs) \in Nat
    <3> DEFINE S == [control : Control, sinks : Seq(Sink)]
    <3>1. Runs \in Seq(S)
      BY ThroughputClientAssumption DEF ThroughputClientAssumption
    <3> HIDE DEF S
    <3>2. Len(Runs) \in Nat
      BY <3>1
    <3> QED BY <3>2 DEF ClientInv, RunsInv
  <2> DEFINE n == Len(Runs)
  <2>2. run \in 1 .. n /\ n \in Nat /\ run < n /\ run' = run + 1
    BY <1>1, <2>1
  <2> HIDE DEF n
  <2>3. run' \in 1 .. n /\ run' \in run + 1 .. n
    BY ONLY <2>2
  <2> QED BY <2>2, <2>3 DEF n
<1>3. \A c \in Mine' \cup {control'} :
        c \in Conn /\ written[c] = 0 /\ cmds[c] = << >> /\ replies[c] = << >>
  <2>1. \A c \in Mine' \cup {control'} : peer[c] = "none"
    BY <1>2 DEF ClientInv, RunsInv, Mine, sinks, control
  <2>2. \A c \in Mine' \cup {control'} : c \in Conn
    BY <1>2, RunTypes DEF Mine, sinks, control, Conn
  <2> QED BY <2>1, <2>2 DEF ClientInv, RunsInv
<1>4. \A d \in Control : Orderly(cmds[d]) /\ ~ Has(cmds[d], "/reset")
  BY <1>1 DEF ClientInv, ResetsInv
<1>5. RunsInv'
  <2>1. \A i \in run' + 1 .. Len(Runs) : i \in run + 1 .. Len(Runs)
    <3>1. run' = run + 1
      BY ONLY <1>1
    <3>2. run \in Nat /\ Len(Runs) \in Nat
      BY ONLY <1>2
    <3> QED BY ONLY <3>1, <3>2
  <2>2. \A i \in run' + 1 .. Len(Runs) :
          \A d \in ToSet(Runs[i].sinks) \cup {Runs[i].control} : peer'[d] = "none"
    BY <1>1, <2>1 DEF ClientInv, RunsInv
  <2>3. << >> \in Seq({"RESET", "PONG", "REPORT", "CLIENTS"} \X Nat)
    OBVIOUS
  <2> QED BY <1>1, <1>2, <1>3, <2>2, <2>3 DEF ClientInv, RunsInv
<1>6. ResetsInv'
  BY <1>1, <1>4 DEF ResetsInv
<1>7. AnswersInv'
  BY <1>1, <1>3 DEF AnswersInv
<1>8. OwnBytesCounted'
  BY <1>1, <1>3, <1>5, OwnZero
<1>9. ReportIsAnswer'
  BY <1>1 DEF ReportIsAnswer
<1> QED BY <1>5, <1>6, <1>7, <1>8, <1>9 DEF ClientInv

LEMMA ClientStart == ClientInit => ClientInv
<1> SUFFICES ASSUME ClientInit PROVE ClientInv
  OBVIOUS
<1>1. /\ run = 1 /\ c_pc = "start" /\ used = 0 /\ shown = << >> /\ recv_size = 0
      /\ peer = [c \in Conn |-> "none"] /\ written = [c \in Conn |-> 0]
      /\ inbuf = [c \in Conn |-> 0] /\ cmds = [c \in Conn |-> << >>]
      /\ replies = [c \in Conn |-> << >>]
  BY DEF ClientInit, Init
<1>2. 1 \in 1 .. Len(Runs)
  <2> DEFINE S == [control : Control, sinks : Seq(Sink)]
  <2>1. Runs \in Seq(S) /\ Runs # << >>
    BY ThroughputClientAssumption DEF ThroughputClientAssumption
  <2> HIDE DEF S
  <2> QED BY <2>1
<1>3. /\ control \in Control /\ control \in Conn /\ Mine \subseteq Conn /\ IsFiniteSet(Mine)
  BY <1>1, <1>2, RunTypes, FS_Subset DEF control, Mine, sinks, Conn
<1>4. RunsInv
  <2>1. \A i \in run + 1 .. Len(Runs) :
          \A c \in ToSet(Runs[i].sinks) \cup {Runs[i].control} : peer[c] = "none"
    <3>1. \A i \in run + 1 .. Len(Runs) : i \in 1 .. Len(Runs)
      BY <1>1, <1>2
    <3> QED BY <1>1, <3>1, RunTypes DEF Conn
  <2>2. << >> \in Seq({"RESET", "PONG", "REPORT", "CLIENTS"} \X Nat)
    OBVIOUS
  <2> QED BY <1>1, <1>2, <1>3, <2>1, <2>2 DEF RunsInv, Conn
<1>5. Orderly(<< >>) /\ ~ Has(<< >>, "/reset")
  BY DEF Orderly, Has
<1>6. ResetsInv
  BY <1>1, <1>5 DEF ResetsInv, Conn
<1>7. AnswersInv
  BY <1>1, <1>3 DEF AnswersInv
<1>8. OwnBytesCounted
  <2> DEFINE g == [s \in Mine |-> written[s] - inbuf[s]]
  <2>1. DOMAIN g = Mine /\ \A s \in Mine : g[s] = 0
    BY <1>1, <1>3
  <2>2. OwnBytesCounted <=> SumFunction(g) <= 0
    BY <1>1 DEF OwnBytesCounted
  <2> HIDE DEF g
  <2>3. SumFunctionOnSet(g, Mine) = 0
    BY <1>3, <2>1, SumZero
  <2> QED BY <2>1, <2>2, <2>3, SumOfAll
<1>9. ReportIsAnswer
  BY <1>1 DEF ReportIsAnswer
<1> QED BY <1>4, <1>6, <1>7, <1>8, <1>9 DEF ClientInv

LEMMA ClientIdle ==
  ASSUME ServerInv, CountInv, ClientInv, UNCHANGED cvars
  PROVE  ClientInv'
<1>1. /\ UNCHANGED <<run, c_pc, used, cut, shown, peer, written, inbuf, cmds, replies, recv_size>>
      /\ control' = control /\ sinks' = sinks /\ Mine' = Mine
  BY MineSame DEF cvars, client, vars, peers
<1>2. RunsInv'
  BY <1>1 DEF ClientInv, RunsInv
<1>3. ResetsInv'
  BY <1>1 DEF ClientInv, ResetsInv
<1>4. AnswersInv'
  BY <1>1 DEF ClientInv, AnswersInv
<1>5. OwnBytesCounted' /\ ReportIsAnswer'
  BY <1>1 DEF ClientInv, OwnBytesCounted, ReportIsAnswer
<1> QED BY <1>2, <1>3, <1>4, <1>5 DEF ClientInv

-----------------------------------------------------------------------------
(* The invariant of the client and the server together.                      *)

LEMMA ClientInduction ==
  ServerInv /\ CountInv /\ ClientInv /\ [ClientNext]_cvars
    => ServerInv' /\ CountInv' /\ ClientInv'
<1> SUFFICES ASSUME ServerInv, CountInv, ClientInv, [ClientNext]_cvars
             PROVE  ServerInv' /\ CountInv' /\ ClientInv'
  OBVIOUS
<1>1. [Next]_vars
  BY ClientStep DEF ClientInv
<1>2. ServerInv' /\ CountInv'
  BY <1>1, Step, CountStep
<1>3. ClientInv'
  <2>1. CASE ConnectControl \/ ConnectSink
    BY <2>1, ConnectSeen
  <2>2. CASE SendReset
    BY <2>2, SendResetSeen
  <2>3. CASE ReadReset
    BY <2>3, ReadResetSeen
  <2>4. CASE SendData
    BY <2>4, SendDataSeen
  <2>5. CASE Sigterm
    BY <2>5, SigtermSeen
  <2>6. CASE ReadStdin \/ Exit
    BY <2>6, LeaveSeen
  <2>7. CASE SendReport
    BY <2>7, SendReportSeen
  <2>8. CASE ReadReport
    BY <2>8, ReadReportSeen
  <2>9. CASE CloseNext
    BY <2>9, CloseSeen
  <2>10. CASE NextRun
    BY <1>2, <2>10, NextRunSeen
  <2>11. CASE Server /\ UNCHANGED client
    BY <1>2, <2>11, ServerSeen
  <2>12. CASE UNCHANGED cvars
    BY <2>12, ClientIdle
  <2> QED BY <2>1, <2>2, <2>3, <2>4, <2>5, <2>6, <2>7, <2>8, <2>9, <2>10, <2>11, <2>12
         DEF ClientNext, Client
<1> QED BY <1>2, <1>3

(* The client and the server together: each connection is held once, the     *)
(* tables are in step, and at most one reset and one report are on their way, *)
(* with no data that the reset could take away.                              *)
THEOREM ClientInvariance == ClientSpec => [](ServerInv /\ CountInv /\ ClientInv)
<1>1. ClientInit => ServerInv /\ CountInv /\ ClientInv
  BY Start, CountStart, ClientStart DEF ClientInit
<1> QED BY <1>1, ClientInduction, PTL DEF ClientSpec

(* Whatever the interrupts and the other runs, a run's bytes that the server *)
(* has read are in recv_size: no reset takes them away.                      *)
THEOREM OwnBytesHold == ClientSpec => []OwnBytesCounted
<1>1. ClientInv => OwnBytesCounted
  BY DEF ClientInv
<1> QED BY <1>1, ClientInvariance, PTL

(* What leave prints is the one answer to its own /report, and recv_size is  *)
(* not below it while the client closes its connections, unless the wait for *)
(* the answer to /reset was interrupted.                                     *)
THEOREM ReportHolds == ClientSpec => []ReportIsAnswer
<1>1. ClientInv => ReportIsAnswer
  BY DEF ClientInv
<1> QED BY <1>1, ClientInvariance, PTL
=============================================================================
