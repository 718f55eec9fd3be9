---------------------------- MODULE TypePoolProofs ----------------------------
(***************************************************************************)
(* The type pool is well formed, no type contains itself, what unify has   *)
(* found equal is equal and stays so (Unified), and nothing else is        *)
(* decided about a variable (MostGeneral), for every initial pool, every   *)
(* type made and every question asked.                                     *)
(***************************************************************************)
EXTENDS TypePoolMeaning, IntervalRecursion, SequenceTheorems, TLAPS

\* The initial pools are as assumed, and a pool that may be taken back is
\* grounded as well.
IInv ==
    /\ TypeOK
    /\ Acyclic
    /\ trying => Grounded(saved)
-----------------------------------------------------------------------------
\* A change of the pool keeps it grounded if every set of nodes that has no
\* bottom afterwards leads to one that had none before.
LEMMA GroundedIf ==
    ASSUME NEW p, NEW q, Grounded(p),
           \A S \in SUBSET DOMAIN q :
               S # {} /\ (\A i \in S : Visited(q, i) \cap S # {}) =>
                   \E R \in SUBSET DOMAIN p : R # {} /\ \A i \in R : Visited(p, i) \cap R # {}
    PROVE  Grounded(q)
  BY DEF Grounded

\* What is visited below a node depends on the node alone and is in the pool.
LEMMA VisitedSame ==
    ASSUME NEW p, NEW q, NEW j, p[j] = q[j]
    PROVE  Visited(p, j) = Visited(q, j)
  BY DEF Visited

LEMMA VisitedInPool ==
    ASSUME NEW p, NEW j, Refers(p, j)
    PROVE  Visited(p, j) \subseteq DOMAIN p
  BY DEF Visited, Refers

\* Path compression keeps the pool well formed.
LEMMA CompressWellFormed ==
    ASSUME NEW p, NEW S, WellFormed(p)
    PROVE  /\ WellFormed(Compress(p, S))
           /\ DOMAIN Compress(p, S) = DOMAIN p
           /\ \A j \in DOMAIN p : Compress(p, S)[j] = [p[j] EXCEPT !.parent = Compress(p, S)[j].parent]
  <1> DEFINE path == Path(p, S)
             q == [j \in DOMAIN p |-> IF j \in path /\ j \notin Roots(p)
                                      THEN [p[j] EXCEPT !.parent = Root(p, j)] ELSE p[j]]
  <1>0. \A j \in DOMAIN p : p[j] \in Node /\ Refers(p, j)
    BY DEF WellFormed
  <1>1. CASE ~Followed(p, path)
    <2>1. Compress(p, S) = p
      BY <1>1 DEF Compress
    <2>2. \A j \in DOMAIN p : p[j] = [p[j] EXCEPT !.parent = p[j].parent]
      BY <1>0 DEF Node
    <2> QED BY <2>1, <2>2
  <1>2. CASE Followed(p, path)
    <2>1. Compress(p, S) = q
      BY <1>2 DEF Compress
    <2> HIDE DEF path
    <2>2. ASSUME NEW j \in DOMAIN p
          PROVE  /\ q[j] \in Node /\ q[j].parent \in DOMAIN p
                 /\ q[j] = [p[j] EXCEPT !.parent = q[j].parent]
                 /\ q[j].kind = p[j].kind /\ q[j].args = p[j].args
                 /\ p[j].kind # "var" => q[j].parent = j
      <3>1. p[j] \in Node /\ Refers(p, j)
        BY <1>0
      <3>2. DOMAIN p \subseteq Nat
        BY DEF WellFormed
      <3>3. CASE j \in path /\ j \notin Roots(p)
        <4>1. q[j] = [p[j] EXCEPT !.parent = Root(p, j)] /\ Root(p, j) \in DOMAIN p
          BY <1>2, <3>3 DEF Followed
        <4>2. p[j].kind = "var"
          BY <3>1, <3>3 DEF Refers, Roots
        <4> QED BY <3>1, <3>2, <4>1, <4>2 DEF Node
      <3>4. CASE ~(j \in path /\ j \notin Roots(p))
        <4>1. q[j] = p[j]
          BY <3>4
        <4> QED BY <3>1, <4>1 DEF Node, Refers
      <3> QED BY <3>3, <3>4
    <2>3. q \in Seq(Node) /\ DOMAIN q = DOMAIN p
      <3>1. p \in Seq(Node)
        BY DEF WellFormed
      <3>2. DOMAIN q = 1..Len(p)
        BY <3>1
      <3> QED BY <2>2, <3>1, <3>2
    <2> HIDE DEF q
    <2>4. \A j \in DOMAIN q : Refers(q, j)
      <3> SUFFICES ASSUME NEW j \in DOMAIN p PROVE Refers(q, j)
        BY <2>3
      <3> QED BY <1>0, <2>2, <2>3 DEF Refers
    <2> QED BY <2>1, <2>2, <2>3, <2>4 DEF WellFormed
  <1> QED BY <1>1, <1>2

\* Path compression puts no node below itself: a set without a bottom leads,
\* with the nodes compressed into it, to such a set before.
LEMMA CompressGrounded ==
    ASSUME NEW p, NEW S, WellFormed(p), Grounded(p)
    PROVE  Grounded(Compress(p, S))
  <1> DEFINE path == Path(p, S)
             q == Compress(p, S)
             moved == {j \in path : j \in DOMAIN p /\ j \notin Roots(p)}
  <1>0. DOMAIN q = DOMAIN p /\ \A j \in DOMAIN p : p[j] \in Node /\ Refers(p, j)
    BY CompressWellFormed DEF WellFormed
  <1>1. CASE ~Followed(p, path)
    BY <1>1 DEF Compress
  <1>2. CASE Followed(p, path)
    <2> SUFFICES ASSUME NEW R \in SUBSET DOMAIN p, R # {}, \A i \in R : Visited(q, i) \cap R # {}
                 PROVE  \E Q \in SUBSET DOMAIN p : Q # {} /\ \A i \in Q : Visited(p, i) \cap Q # {}
      BY <1>0, GroundedIf
    <2>1. q = [j \in DOMAIN p |-> IF j \in path /\ j \notin Roots(p)
                                  THEN [p[j] EXCEPT !.parent = Root(p, j)] ELSE p[j]]
      BY <1>2 DEF Compress
    <2> HIDE DEF path, q
    <2> DEFINE Q == R \cup {j \in moved : Root(p, j) \in R}
    <2>2. ASSUME NEW j \in moved
          PROVE  Visited(p, j) = {p[j].parent} /\ p[j].parent \in path /\ p[j].parent \in DOMAIN p
      <3>1. p[j].parent # j /\ p[j].parent \in path
        BY <1>2 DEF Followed, Roots
      <3> QED BY <1>0, <3>1 DEF Visited, Refers
    <2>3. ASSUME NEW j \in moved, Root(p, j) \in R
          PROVE  p[j].parent \in Q
      <3>1. Root(p, j) = Root(p, p[j].parent)
        BY <1>2 DEF Followed, Roots
      <3>2. CASE p[j].parent \in Roots(p)
        BY <1>2, <2>2, <2>3, <3>1, <3>2 DEF Followed, Roots
      <3>3. CASE p[j].parent \notin Roots(p)
        BY <2>2, <2>3, <3>1, <3>3
      <3> QED BY <3>2, <3>3
    <2>4. ASSUME NEW j \in R \cap moved
          PROVE  Root(p, j) \in R
      <3>1. q[j] = [p[j] EXCEPT !.parent = Root(p, j)] /\ p[j] \in Node /\ p[j].args = <<>>
        BY <1>0, <2>1 DEF Refers, Roots
      <3>2. q[j].parent = Root(p, j) /\ q[j].args = <<>>
        BY <3>1 DEF Node
      <3>3. Visited(q, j) \subseteq {Root(p, j)}
        BY <3>2 DEF Visited
      <3> QED BY <3>3
    <2>5. ASSUME NEW j \in R, j \notin moved
          PROVE  Visited(p, j) = Visited(q, j)
      BY <2>1, <2>5, VisitedSame
    <2>6. \A j \in Q : Visited(p, j) \cap Q # {}
      <3> SUFFICES ASSUME NEW j \in Q PROVE Visited(p, j) \cap Q # {}
        OBVIOUS
      <3>1. CASE j \in moved
        BY <2>2, <2>3, <2>4, <3>1
      <3>2. CASE j \notin moved
        BY <2>5, <3>2
      <3> QED BY <3>1, <3>2
    <2>7. Q \in SUBSET DOMAIN p /\ Q # {}
      OBVIOUS
    <2> QED BY <2>6, <2>7
  <1> QED BY <1>1, <1>2
-----------------------------------------------------------------------------
\* A new node is above the others: nothing refers to it yet.
LEMMA PushedGrounded ==
    ASSUME NEW p, NEW node \in Node, WellFormed(p), Grounded(p),
           node.parent = Len(p) + 1,
           \A k \in DOMAIN node.args : node.args[k] \in DOMAIN p,
           node.kind # "con" => node.args = <<>>
    PROVE  WellFormed(Pushed(p, node)) /\ Grounded(Pushed(p, node)) /\ DOMAIN p \subseteq DOMAIN Pushed(p, node)
  <1> DEFINE q == Pushed(p, node)
             new == Len(p) + 1
  <1>1. p \in Seq(Node) /\ \A j \in DOMAIN p : Refers(p, j)
    BY DEF WellFormed
  <1>2. /\ q \in Seq(Node) /\ DOMAIN p = 1..Len(p) /\ DOMAIN q = 1..new /\ new \in Nat
        /\ q[new] = node /\ \A j \in DOMAIN p : q[j] = p[j]
    BY <1>1 DEF Pushed
  <1>3. DOMAIN q = DOMAIN p \cup {new} /\ new \notin DOMAIN p
    BY <1>1, <1>2
  <1>a. node.parent = new
    OBVIOUS
  <1> HIDE DEF q, new
  <1>4. \A j \in DOMAIN q : Refers(q, j)
    <2> SUFFICES ASSUME NEW j \in DOMAIN q PROVE Refers(q, j)
      OBVIOUS
    <2>1. CASE j = new
      <3>1. q[j].parent \in DOMAIN q
        BY <1>2, <1>3, <1>a, <2>1
      <3>2. \A k \in DOMAIN q[j].args : q[j].args[k] \in DOMAIN q
        BY <1>2, <1>3, <2>1
      <3>3. q[j] = node /\ q[j].parent = j
        BY <1>2, <1>a, <2>1
      <3> QED BY <3>1, <3>2, <3>3 DEF Refers
    <2>2. CASE j # new
      <3>1. q[j] = p[j] /\ j \in DOMAIN p /\ DOMAIN p \subseteq DOMAIN q
        BY <1>2, <1>3, <2>2
      <3>2. Refers(p, j)
        BY <1>1, <3>1
      <3> QED BY <3>1, <3>2 DEF Refers
    <2> QED BY <2>1, <2>2
  <1>5. \A j \in DOMAIN p : Visited(q, j) = Visited(p, j) /\ new \notin Visited(p, j)
    BY <1>1, <1>2, <1>3, VisitedSame, VisitedInPool
  <1>6. new \notin Visited(q, new)
    BY <1>2, <1>3 DEF Visited, new
  <1>7. Grounded(q)
    <2> SUFFICES ASSUME NEW S \in SUBSET DOMAIN q, S # {}, \A i \in S : Visited(q, i) \cap S # {}
                 PROVE  \E R \in SUBSET DOMAIN p : R # {} /\ \A i \in R : Visited(p, i) \cap R # {}
      BY GroundedIf
    <2> DEFINE R == S \ {new}
    <2>1. R \in SUBSET DOMAIN p
      BY <1>3
    <2>2. R # {}
      BY <1>6
    <2>3. \A i \in R : Visited(p, i) \cap R # {}
      BY <1>5, <2>1
    <2> QED BY <2>1, <2>2, <2>3
  <1> QED BY <1>2, <1>3, <1>4, <1>7 DEF WellFormed, q

\* Binding a root to a node keeps the pool well formed if the root is a variable.
LEMMA BoundWellFormed ==
    ASSUME NEW p, WellFormed(p), NEW v \in Roots(p), NEW t \in DOMAIN p, IsVar(p, v)
    PROVE  LET q == Bound(p, {<<v, t>>})
           IN /\ WellFormed(q) /\ DOMAIN q = DOMAIN p
              /\ q[v] = [p[v] EXCEPT !.parent = t]
              /\ \A j \in DOMAIN p \ {v} : q[j] = p[j]
  <1> DEFINE q == Bound(p, {<<v, t>>})
  <1>1. p \in Seq(Node) /\ v \in DOMAIN p /\ \A j \in DOMAIN p : p[j] \in Node /\ Refers(p, j)
    BY DEF WellFormed, Roots
  <1>2. DOMAIN q = DOMAIN p
    BY DEF Bound
  <1>3. q[v] = [p[v] EXCEPT !.parent = t]
    <2>1. \A s \in DOMAIN p : <<v, s>> \in {<<v, t>>} <=> s = t
      OBVIOUS
    <2>2. (CHOOSE s \in DOMAIN p : <<v, s>> \in {<<v, t>>}) = t
      BY <2>1
    <2> QED BY <1>1, <2>1, <2>2 DEF Bound
  <1>4. \A j \in DOMAIN p \ {v} : q[j] = p[j]
    BY DEF Bound
  <1>5. q[v] \in Node /\ q[v].parent = t /\ q[v].args = <<>> /\ q[v].kind = "var"
    <2>1. t \in Nat
      BY <1>1
    <2>2. p[v].args = <<>>
      BY <1>1 DEF Refers, IsVar
    <2> QED BY <1>1, <1>3, <2>1, <2>2 DEF Node, IsVar
  <1>7. q \in [DOMAIN p -> Node]
    BY <1>1, <1>2, <1>4, <1>5 DEF Bound
  <1> HIDE DEF q
  <1>8. q \in Seq(Node)
    BY <1>1, <1>7
  <1>9. \A j \in DOMAIN q : Refers(q, j)
    <2> SUFFICES ASSUME NEW j \in DOMAIN q PROVE Refers(q, j)
      OBVIOUS
    <2>1. CASE j = v
      BY <1>1, <1>2, <1>5, <2>1 DEF Refers
    <2>2. CASE j # v
      BY <1>1, <1>2, <1>4, <2>2 DEF Refers
    <2> QED BY <2>1, <2>2
  <1> QED BY <1>2, <1>3, <1>4, <1>8, <1>9 DEF WellFormed, q

\* The occurs check: a variable may be bound to a type that it is not in.
LEMMA BindTypeGrounded ==
    ASSUME NEW p, WellFormed(p), Grounded(p), NEW v \in Roots(p), NEW t \in DOMAIN p, IsVar(p, v),
           Avoids(p, v, t)
    PROVE  Grounded(Bound(p, {<<v, t>>}))
  <1> DEFINE q == Bound(p, {<<v, t>>})
             B == Below(p, t)
  <1>1. /\ DOMAIN q = DOMAIN p /\ q[v] = [p[v] EXCEPT !.parent = t]
        /\ \A j \in DOMAIN p \ {v} : q[j] = p[j]
    BY BoundWellFormed
  <1>2. v \in DOMAIN p /\ p[v] \in Node /\ v # t
    BY DEF WellFormed, Roots, Avoids
  <1>3. t \in B /\ v \notin B /\ \A j \in B : Visited(p, j) \subseteq B
    BY DEF Avoids, Complete
  <1> HIDE DEF q, B
  <1>4. Visited(q, v) = {t}
    BY <1>1, <1>2 DEF Visited, Node
  <1>5. \A j \in DOMAIN p \ {v} : Visited(q, j) = Visited(p, j)
    BY <1>1, VisitedSame
  <1> SUFFICES ASSUME NEW S \in SUBSET DOMAIN p, S # {}, \A i \in S : Visited(q, i) \cap S # {}
               PROVE  \E R \in SUBSET DOMAIN p : R # {} /\ \A i \in R : Visited(p, i) \cap R # {}
    BY <1>1, GroundedIf DEF q
  <1>6. CASE v \notin S
    BY <1>5, <1>6
  <1>7. CASE v \in S
    <2> DEFINE R == S \cap B
    <2>1. t \in R
      BY <1>3, <1>4, <1>7
    <2>2. \A i \in R : Visited(p, i) \cap R # {}
      BY <1>3, <1>5
    <2> QED BY <2>1, <2>2
  <1> QED BY <1>6, <1>7

\* Of two variables one may always be bound to the other.
LEMMA BindVarGrounded ==
    ASSUME NEW p, WellFormed(p), Grounded(p), NEW v \in Roots(p), NEW t \in Roots(p),
           IsVar(p, v), p[t].args = <<>>, v # t
    PROVE  Grounded(Bound(p, {<<v, t>>}))
  <1> DEFINE q == Bound(p, {<<v, t>>})
  <1>1. /\ DOMAIN q = DOMAIN p /\ q[v] = [p[v] EXCEPT !.parent = t]
        /\ \A j \in DOMAIN p \ {v} : q[j] = p[j]
    BY BoundWellFormed DEF Roots
  <1>2. v \in DOMAIN p /\ p[v] \in Node /\ t \in DOMAIN p /\ p[t].parent = t
    BY DEF WellFormed, Roots
  <1> HIDE DEF q
  <1>3. Visited(q, v) = {t}
    BY <1>1, <1>2 DEF Visited, Node
  <1>4. \A j \in DOMAIN p \ {v} : Visited(q, j) = Visited(p, j)
    BY <1>1, VisitedSame
  <1>5. Visited(p, t) = {}
    BY <1>2 DEF Visited
  <1> SUFFICES ASSUME NEW S \in SUBSET DOMAIN p, S # {}, \A i \in S : Visited(q, i) \cap S # {}
               PROVE  \E R \in SUBSET DOMAIN p : R # {} /\ \A i \in R : Visited(p, i) \cap R # {}
    BY <1>1, GroundedIf DEF q
  <1>6. v \notin S
    BY <1>2, <1>3, <1>4, <1>5
  <1> QED BY <1>4, <1>6

\* A function on the positions of a sequence is a sequence.
LEMMA OnPositions ==
    ASSUME NEW s \in Seq(Nat), NEW T, NEW f \in [DOMAIN s -> T]
    PROVE  f \in Seq(T)
  <1>1. DOMAIN s = 1..Len(s) /\ Len(s) \in Nat
    OBVIOUS
  <1>2. f \in [1..Len(s) -> T]
    BY <1>1
  <1> QED BY <1>1, <1>2

\* What a successful comparison binds is a variable, to the other root, and only
\* if the variable is not in it; what it leaves to compare is in the pool.
LEMMA ComparedBinds ==
    ASSUME NEW p, WellFormed(p), NEW r \in Roots(p), NEW s \in Roots(p), Compared(p, r, s).ok
    PROVE  \/ /\ Compared(p, r, s).bind = {}
              /\ Compared(p, r, s).more \in Seq((DOMAIN p) \X (DOMAIN p))
           \/ /\ Compared(p, r, s).more = <<>>
              /\ \E v \in {r, s}, t \in {r, s} :
                    /\ Compared(p, r, s).bind = {<<v, t>>} /\ IsVar(p, v) /\ v # t
                    /\ p[t].args = <<>> \/ Avoids(p, v, t)
  <1> DEFINE Nothing(c) == c.bind = {} /\ c.more \in Seq((DOMAIN p) \X (DOMAIN p))
             Binding(c) == /\ c.more = <<>>
                           /\ \E v \in {r, s}, t \in {r, s} :
                                 /\ c.bind = {<<v, t>>} /\ IsVar(p, v) /\ v # t
                                 /\ p[t].args = <<>> \/ Avoids(p, v, t)
             c == Compared(p, r, s)
  <1>0. r \in DOMAIN p /\ s \in DOMAIN p /\ Refers(p, r) /\ Refers(p, s) /\ p[r] \in Node /\ p[s] \in Node
    BY DEF WellFormed, Roots
  <1>1. CASE r = s \/ IsNever(p, r)
    <2>1. c = Equal
      BY <1>1 DEF Compared, IsRigid, IsVar, IsNever
    <2> QED BY <2>1 DEF Equal
  <1>2. CASE IsRigid(p, r) /\ IsVar(p, s)
    <2>1. c = BindRigid(p, s, r)
      BY <1>2 DEF Compared, IsRigid, IsVar, IsNever
    <2> QED BY <1>2, <2>1 DEF BindRigid, Bind, Unequal, IsRigid, IsVar
  <1>3. CASE IsVar(p, r) /\ IsRigid(p, s)
    <2>1. c = BindRigid(p, r, s)
      BY <1>3 DEF Compared, IsRigid, IsVar, IsNever
    <2> QED BY <1>3, <2>1 DEF BindRigid, Bind, Unequal, IsRigid, IsVar
  <1>4. CASE r # s /\ IsVar(p, r) /\ IsVar(p, s)
    <2>1. c = BindVars(p, r, s)
      BY <1>4 DEF Compared, IsRigid, IsVar, IsNever
    <2>2. p[r].args = <<>> /\ p[s].args = <<>>
      BY <1>0, <1>4 DEF Refers, IsVar
    <2> QED BY <1>4, <2>1, <2>2 DEF BindVars, Bind
  <1>5. CASE IsVar(p, r) /\ p[s].kind = "con"
    <2>1. c = BindType(p, r, s)
      BY <1>5 DEF Compared, IsRigid, IsVar, IsNever
    <2> QED BY <1>5, <2>1 DEF BindType, Bind, Unequal, IsVar
  <1>6. CASE ~IsNever(p, r) /\ p[r].kind = "con" /\ IsVar(p, s)
    <2>1. c = BindType(p, s, r)
      BY <1>6 DEF Compared, IsRigid, IsVar, IsNever
    <2> QED BY <1>6, <2>1 DEF BindType, Bind, Unequal, IsVar
  <1>7. CASE /\ r # s /\ ~IsNever(p, r) /\ p[r].kind = "con" /\ p[s].kind = "con"
             /\ p[r].head = p[s].head /\ Len(p[r].args) = Len(p[s].args)
    <2>1. c = Parts(p[r].args, p[s].args)
      BY <1>7 DEF Compared, IsRigid, IsVar, IsNever
    <2>2. /\ p[r].args \in Seq(Nat) /\ p[s].args \in Seq(Nat)
          /\ \A k \in DOMAIN p[r].args : p[r].args[k] \in DOMAIN p
          /\ \A k \in DOMAIN p[s].args : p[s].args[k] \in DOMAIN p
      BY <1>0 DEF Node, Refers
    <2> DEFINE pairs == [k \in DOMAIN p[r].args |-> <<p[r].args[k], p[s].args[k]>>]
    <2>3. DOMAIN p[r].args = DOMAIN p[s].args
      BY <1>7, <2>2
    <2>4. pairs \in [DOMAIN p[r].args -> (DOMAIN p) \X (DOMAIN p)]
      BY <2>2, <2>3
    <2> HIDE DEF pairs
    <2>5. pairs \in Seq((DOMAIN p) \X (DOMAIN p))
      BY <2>2, <2>4, OnPositions
    <2> QED BY <2>1, <2>5 DEF Parts, pairs
  <1>8. CASE ~(\/ r = s \/ IsNever(p, r)
               \/ IsRigid(p, r) /\ IsVar(p, s)
               \/ IsVar(p, r) /\ IsRigid(p, s)
               \/ r # s /\ IsVar(p, r) /\ IsVar(p, s)
               \/ IsVar(p, r) /\ p[s].kind = "con"
               \/ ~IsNever(p, r) /\ p[r].kind = "con" /\ IsVar(p, s)
               \/ /\ r # s /\ ~IsNever(p, r) /\ p[r].kind = "con" /\ p[s].kind = "con"
                  /\ p[r].head = p[s].head /\ Len(p[r].args) = Len(p[s].args))
    <2>1. c = Unequal
      BY <1>8 DEF Compared
    <2> QED BY <2>1 DEF Unequal
  <1> QED BY <1>1, <1>2, <1>3, <1>4, <1>5, <1>6, <1>7, <1>8

\* intern_type keeps the pool and its table in order.
LEMMA InternSafe ==
    ASSUME NEW p, WellFormed(p), Grounded(p), NEW head \in Heads, NEW args \in Seq(Nat),
           \A k \in DOMAIN args : args[k] \in DOMAIN p /\ Root(p, args[k]) \in Roots(p),
           NEW table, DOMAIN table \subseteq Heads \X Seq(Nat), \A key \in DOMAIN table : table[key] \in DOMAIN p
    PROVE  LET made == Intern(p, table, head, args)
           IN /\ WellFormed(made.pool) /\ Grounded(made.pool) /\ DOMAIN p \subseteq DOMAIN made.pool
              /\ DOMAIN made.intern \subseteq Heads \X Seq(Nat)
              /\ \A key \in DOMAIN made.intern : made.intern[key] \in DOMAIN made.pool
  <1> DEFINE q == Compress(p, {args[k] : k \in DOMAIN args})
             roots == [k \in DOMAIN args |-> Root(p, args[k])]
             key == <<head, roots>>
             new == Len(p) + 1
             node == Con(new, head, roots)
             HasVar == \E k \in DOMAIN roots : IsVar(p, roots[k])
             made == Intern(p, table, head, args)
  <1>1. WellFormed(q) /\ Grounded(q) /\ DOMAIN q = DOMAIN p
    BY CompressWellFormed, CompressGrounded
  <1>2. Len(q) = Len(p) /\ p \in Seq(Node) /\ q \in Seq(Node)
    BY <1>1 DEF WellFormed
  <1>3. roots \in Seq(Nat) /\ \A k \in DOMAIN roots : roots[k] \in DOMAIN q
    <2>1. \A k \in DOMAIN args : Root(p, args[k]) \in DOMAIN p /\ Root(p, args[k]) \in Nat
      BY <1>2 DEF Roots
    <2>2. roots \in [DOMAIN args -> Nat] /\ \A k \in DOMAIN roots : roots[k] \in DOMAIN q
      BY <1>1, <2>1
    <2> HIDE DEF roots
    <2> QED BY <2>2, OnPositions
  <1> HIDE DEF q, roots
  <1>4. /\ node \in Node /\ node.parent = Len(q) + 1 /\ node.kind = "con" /\ node.args = roots
    <2>1. new \in Nat /\ new = Len(q) + 1
      BY <1>2
    <2> HIDE DEF new
    <2> QED BY <1>3, <2>1 DEF Con, Node
  <1> HIDE DEF node
  <1>5. /\ WellFormed(Pushed(q, node)) /\ Grounded(Pushed(q, node)) /\ DOMAIN p \subseteq DOMAIN Pushed(q, node)
    BY <1>1, <1>3, <1>4, PushedGrounded
  <1>6. new \in DOMAIN Pushed(q, node)
    BY <1>2, <1>4 DEF Pushed
  <1>7. CASE HasVar
    <2>1. made = [pool |-> Pushed(q, node), intern |-> table, id |-> new]
      BY <1>7 DEF Intern, q, roots, node
    <2> QED BY <1>5, <2>1
  <1>8. CASE ~HasVar /\ key \in DOMAIN table
    <2>1. made = [pool |-> q, intern |-> table, id |-> table[key]]
      BY <1>8 DEF Intern, q, roots, node
    <2> QED BY <1>1, <2>1
  <1>9. CASE ~HasVar /\ key \notin DOMAIN table
    <2>1. made = [pool |-> Pushed(q, node), id |-> new,
                  intern |-> [k \in DOMAIN table \cup {key} |-> IF k = key THEN new ELSE table[k]]]
      BY <1>9 DEF Intern, q, roots, node
    <2>2. key \in Heads \X Seq(Nat)
      BY <1>3
    <2> HIDE DEF key, new
    <2> QED BY <1>5, <1>6, <2>1, <2>2
  <1> QED BY <1>7, <1>8, <1>9
-----------------------------------------------------------------------------
LEMMA InitInv == Init => IInv
  <1> SUFFICES ASSUME Init PROVE IInv
    OBVIOUS
  <1>1. WellFormed(pool) /\ Grounded(pool)
    BY PoolsAssumption DEF Init
  <1>2. agenda = <<>> /\ trying = FALSE /\ failed = FALSE /\ intern = <<>>
    BY DEF Init
  <1>4. DOMAIN intern = {}
    BY <1>2
  <1>3. agenda \in Seq((DOMAIN pool) \X (DOMAIN pool))
    BY <1>2
  <1> QED BY <1>1, <1>2, <1>3, <1>4 DEF IInv, TypeOK, Acyclic

\* With nothing left to compare, there is no pool to take back.
NothingKept == agenda = <<>> => ~trying

LEMMA NewVariableInv ==
    ASSUME IInv, NothingKept, NEW kind \in {"var", "rigid"}, NEW level \in Levels, NewVariable(kind, level)
    PROVE  IInv'
  <1> DEFINE node == Variable(kind, Len(pool) + 1, level)
  <1>1. WellFormed(pool) /\ Grounded(pool) /\ pool \in Seq(Node)
    BY DEF IInv, TypeOK, Acyclic, WellFormed
  <1>2. node \in Node /\ node.parent = Len(pool) + 1 /\ node.args = <<>>
    <2>1. Len(pool) + 1 \in Nat /\ level \in Nat
      BY <1>1, LevelsAssumption
    <2> QED BY <2>1 DEF Variable, Node
  <1>3. pool' = Pushed(pool, node) /\ agenda = <<>> /\ ~trying
    BY DEF NewVariable, Idle, NothingKept
  <1> HIDE DEF node
  <1>4. WellFormed(pool') /\ Grounded(pool') /\ DOMAIN pool \subseteq DOMAIN pool'
    BY <1>1, <1>2, <1>3, PushedGrounded
  <1>5. UNCHANGED <<intern, agenda, trying, failed>>
    BY DEF NewVariable
  <1>6. agenda' \in Seq((DOMAIN pool') \X (DOMAIN pool'))
    BY <1>3, <1>5
  <1> QED BY <1>3, <1>4, <1>5, <1>6 DEF IInv, TypeOK, Acyclic

LEMMA NewTypeInv ==
    ASSUME IInv, NothingKept, NEW shape \in Shapes, NewType(shape[1], shape[2])
    PROVE  IInv'
  <1> DEFINE made == Intern(pool, intern, shape[1], shape[2])
  <1>1. /\ WellFormed(pool) /\ Grounded(pool)
        /\ DOMAIN intern \subseteq Heads \X Seq(Nat) /\ \A key \in DOMAIN intern : intern[key] \in DOMAIN pool
    BY DEF IInv, TypeOK, Acyclic
  <1>2. shape[1] \in Heads /\ shape[2] \in Seq(Nat)
    BY ShapesAssumption
  <1>3. /\ pool' = made.pool /\ intern' = made.intern /\ agenda = <<>> /\ ~trying
        /\ \A k \in DOMAIN shape[2] : shape[2][k] \in DOMAIN pool /\ Root(pool, shape[2][k]) \in Roots(pool)
    BY DEF NewType, Idle, NothingKept
  <1>4. /\ WellFormed(made.pool) /\ Grounded(made.pool)
        /\ DOMAIN made.intern \subseteq Heads \X Seq(Nat)
        /\ \A key \in DOMAIN made.intern : made.intern[key] \in DOMAIN made.pool
    BY <1>1, <1>2, <1>3, InternSafe
  <1>5. UNCHANGED <<agenda, trying, failed>>
    BY DEF NewType
  <1> HIDE DEF made
  <1>6. agenda' \in Seq((DOMAIN pool') \X (DOMAIN pool'))
    BY <1>3, <1>5
  <1> QED BY <1>3, <1>4, <1>5, <1>6 DEF IInv, TypeOK, Acyclic

LEMMA AskInv ==
    ASSUME IInv, NEW q \in Questions, NEW try \in BOOLEAN, Ask(q[1], q[2], try)
    PROVE  IInv'
  <1>1. agenda' = <<<<q[1], q[2]>>>> /\ q[1] \in DOMAIN pool /\ q[2] \in DOMAIN pool
    BY DEF Ask
  <1>2. UNCHANGED <<pool, intern, failed>> /\ trying' = try /\ (try => saved' = pool)
    BY DEF Ask
  <1>3. agenda' \in Seq((DOMAIN pool) \X (DOMAIN pool))
    BY <1>1
  <1> QED BY <1>2, <1>3 DEF IInv, TypeOK, Acyclic

\* The pool that a comparison leaves, before anything is bound.
LEMMA ShortenedSafe ==
    ASSUME IInv
    PROVE  WellFormed(Shortened) /\ Grounded(Shortened) /\ DOMAIN Shortened = DOMAIN pool
  BY CompressWellFormed, CompressGrounded DEF IInv, TypeOK, Acyclic, Shortened

\* Binding what a successful comparison says keeps the pool in order.
LEMMA AgreeInv ==
    ASSUME IInv, Agree
    PROVE  IInv'
  <1> DEFINE p == Shortened
             rest == Found.more \o Tail(agenda)
             Pairs == (DOMAIN pool) \X (DOMAIN pool)
  <1>1. WellFormed(p) /\ Grounded(p) /\ DOMAIN p = DOMAIN pool
    BY ShortenedSafe
  <1>2. /\ Left \in Roots(p) /\ Right \in Roots(p) /\ Compared(p, Left, Right).ok
        /\ pool' = Bound(p, Found.bind) /\ agenda' = rest /\ agenda # <<>>
        /\ trying' = (trying /\ rest # <<>>) /\ saved' = IF rest # <<>> THEN saved ELSE <<>>
        /\ UNCHANGED <<intern, failed>>
    BY DEF Agree, Comparing, Found
  <1>3. agenda \in Seq(Pairs) /\ Tail(agenda) \in Seq(Pairs)
    BY <1>2 DEF IInv, TypeOK
  <1>4. WellFormed(pool') /\ Grounded(pool') /\ DOMAIN pool' = DOMAIN pool /\ Found.more \in Seq(Pairs)
    <2>1. CASE Found.bind = {} /\ Found.more \in Seq(Pairs)
      <3>1. p = [j \in DOMAIN p |-> p[j]]
        BY <1>1 DEF WellFormed
      <3>2. pool' = [j \in DOMAIN p |-> p[j]]
        BY <1>2, <2>1 DEF Bound
      <3> QED BY <1>1, <2>1, <3>1, <3>2
    <2>2. ASSUME NEW v \in {Left, Right}, NEW t \in {Left, Right},
                 Found.bind = {<<v, t>>}, Found.more = <<>>, IsVar(p, v), v # t,
                 p[t].args = <<>> \/ Avoids(p, v, t)
          PROVE  WellFormed(pool') /\ Grounded(pool') /\ DOMAIN pool' = DOMAIN pool /\ Found.more \in Seq(Pairs)
      <3>1. v \in Roots(p) /\ t \in Roots(p) /\ t \in DOMAIN p
        BY <1>2, <2>2 DEF Roots
      <3>2. pool' = Bound(p, {<<v, t>>})
        BY <1>2, <2>2
      <3>3. WellFormed(Bound(p, {<<v, t>>})) /\ DOMAIN Bound(p, {<<v, t>>}) = DOMAIN p
        BY <1>1, <2>2, <3>1, BoundWellFormed
      <3>4. Grounded(Bound(p, {<<v, t>>}))
        BY <1>1, <2>2, <3>1, BindTypeGrounded, BindVarGrounded
      <3> QED BY <1>1, <2>2, <3>2, <3>3, <3>4
    <2>3. \/ Found.bind = {} /\ Found.more \in Seq(Pairs)
          \/ Found.more = <<>> /\ \E v \in {Left, Right}, t \in {Left, Right} :
                /\ Found.bind = {<<v, t>>} /\ IsVar(p, v) /\ v # t
                /\ p[t].args = <<>> \/ Avoids(p, v, t)
      <3> HIDE DEF p
      <3>1. \/ /\ Compared(p, Left, Right).bind = {}
               /\ Compared(p, Left, Right).more \in Seq((DOMAIN p) \X (DOMAIN p))
            \/ /\ Compared(p, Left, Right).more = <<>>
               /\ \E v \in {Left, Right}, t \in {Left, Right} :
                     /\ Compared(p, Left, Right).bind = {<<v, t>>} /\ IsVar(p, v) /\ v # t
                     /\ p[t].args = <<>> \/ Avoids(p, v, t)
        BY <1>1, <1>2, ComparedBinds
      <3> QED BY <1>1, <3>1 DEF Found, p
    <2> QED
      BY <2>1, <2>2, <2>3
  <1>5. agenda' \in Seq((DOMAIN pool') \X (DOMAIN pool'))
    BY <1>2, <1>3, <1>4
  <1>6. trying' => trying /\ saved' = saved
    BY <1>2
  <1> QED BY <1>2, <1>4, <1>5, <1>6 DEF IInv, TypeOK, Acyclic

LEMMA FailInv ==
    ASSUME IInv, Fail
    PROVE  IInv'
  <1>1. WellFormed(Shortened) /\ Grounded(Shortened) /\ DOMAIN Shortened = DOMAIN pool
    BY ShortenedSafe
  <1>2. pool' = Shortened /\ agenda' = <<>> /\ failed' = TRUE /\ ~trying' /\ trying' = trying /\ intern' = intern
    BY DEF Fail
  <1>3. agenda' \in Seq((DOMAIN pool') \X (DOMAIN pool'))
    BY <1>2
  <1> QED BY <1>1, <1>2, <1>3 DEF IInv, TypeOK, Acyclic

LEMMA TakeBackInv ==
    ASSUME IInv, TakeBack
    PROVE  IInv'
  <1>1. pool' = saved /\ agenda' = <<>> /\ trying' = FALSE /\ UNCHANGED <<intern, failed>> /\ trying
    BY DEF TakeBack
  <1>2. WellFormed(saved) /\ Grounded(saved) /\ DOMAIN saved = DOMAIN pool
    BY <1>1 DEF IInv, TypeOK
  <1>3. agenda' \in Seq((DOMAIN pool') \X (DOMAIN pool'))
    BY <1>1
  <1> QED BY <1>1, <1>2, <1>3 DEF IInv, TypeOK, Acyclic

LEMMA KeptStep ==
    ASSUME NothingKept, [Next]_vars, agenda \in Seq((DOMAIN pool) \X (DOMAIN pool))
    PROVE  NothingKept'
  <1>1. CASE UNCHANGED vars
    BY <1>1 DEF NothingKept, vars
  <1>2. CASE \E kind \in {"var", "rigid"}, level \in Levels : NewVariable(kind, level)
    BY <1>2 DEF NothingKept, NewVariable
  <1>3. CASE \E shape \in Shapes : NewType(shape[1], shape[2])
    BY <1>3 DEF NothingKept, NewType
  <1>4. CASE \E q \in Questions, try \in BOOLEAN : Ask(q[1], q[2], try)
    BY <1>4 DEF NothingKept, Ask
  <1>5. CASE Agree
    BY <1>5 DEF NothingKept, Agree
  <1>6. CASE Fail
    BY <1>6 DEF NothingKept, Fail
  <1>7. CASE TakeBack
    BY <1>7 DEF NothingKept, TakeBack
  <1> QED BY <1>1, <1>2, <1>3, <1>4, <1>5, <1>6, <1>7 DEF Next

LEMMA NextInv == IInv /\ NothingKept /\ [Next]_vars => IInv'
  <1> SUFFICES ASSUME IInv, NothingKept, [Next]_vars PROVE IInv'
    OBVIOUS
  <1>1. CASE UNCHANGED vars
    BY <1>1 DEF IInv, TypeOK, Acyclic, vars
  <1>2. CASE \E kind \in {"var", "rigid"}, level \in Levels : NewVariable(kind, level)
    BY <1>2, NewVariableInv
  <1>3. CASE \E shape \in Shapes : NewType(shape[1], shape[2])
    BY <1>3, NewTypeInv
  <1>4. CASE \E q \in Questions, try \in BOOLEAN : Ask(q[1], q[2], try)
    BY <1>4, AskInv
  <1>5. CASE Agree
    BY <1>5, AgreeInv
  <1>6. CASE Fail
    BY <1>6, FailInv
  <1>7. CASE TakeBack
    BY <1>7, TakeBackInv
  <1> QED BY <1>1, <1>2, <1>3, <1>4, <1>5, <1>6, <1>7 DEF Next

\* The invariant with what makes it inductive.
THEOREM PoolInvariance == Spec => [](IInv /\ NothingKept)
  <1>1. Init => IInv /\ NothingKept
    BY InitInv DEF Init, NothingKept
  <1>2. (IInv /\ NothingKept) /\ [Next]_vars => (IInv /\ NothingKept)'
    BY NextInv, KeptStep DEF IInv, TypeOK
  <1> QED BY <1>1, <1>2, PTL DEF Spec

\* The references of the pool, of the table of interned types and of what unify
\* still has to compare are to nodes of the pool, whatever was taken back.
THEOREM PoolTypeCorrect == Spec => []TypeOK
  <1>1. IInv => TypeOK
    BY DEF IInv
  <1> QED BY <1>1, PoolInvariance, PTL

\* The occurs check suffices: no type ever contains itself, so representative,
\* copies and printing end.
THEOREM PoolAcyclic == Spec => []Acyclic
  <1>1. IInv => Acyclic
    BY DEF IInv
  <1> QED BY <1>1, PoolInvariance, PTL

-----------------------------------------------------------------------------
(***************************************************************************)
(* What unify has found equal.  The pairs compared so far are a set R that *)
(* contains the questions: each pair of R has the same representative, or  *)
(* the same head and parts that are pairs of R, or is still on the agenda  *)
(* (Settled).  Once the agenda is empty, R is a relation under which types *)
(* are the same to every depth.  Every change of the pool keeps what R     *)
(* says, since it only merges representatives and only a variable is       *)
(* merged into another node; and the pool kept for taking back has a       *)
(* relation of its own.                                                    *)
(***************************************************************************)
-----------------------------------------------------------------------------
(* Representatives.  Root is defined by recursion along the parents, which *)
(* ends because the pool has no cycle.                                     *)

\* The sets with the parents of their nodes, and what all those around j share.
Closed(p, S) == \A j \in S : p[j].parent \in S
Up(p, j) == {k \in DOMAIN p : \A S \in SUBSET DOMAIN p : Closed(p, S) /\ j \in S => k \in S}

LEMMA UpStep ==
    ASSUME NEW p, WellFormed(p), NEW j \in DOMAIN p
    PROVE  Up(p, j) = {j} \cup Up(p, p[j].parent)
<1> DEFINE m == p[j].parent
<1>1. m \in DOMAIN p
    BY DEF WellFormed, Refers
<1>2. Up(p, m) \subseteq Up(p, j)
    BY DEF Up, Closed
<1>3. j \in Up(p, j)
    BY DEF Up
<1>4. ASSUME NEW k \in Up(p, j), k # j
      PROVE  k \in Up(p, m)
    <2> SUFFICES ASSUME NEW S \in SUBSET DOMAIN p, Closed(p, S), m \in S
                 PROVE  k \in S
        BY <1>4 DEF Up
    <2>1. Closed(p, S \cup {j}) /\ S \cup {j} \in SUBSET DOMAIN p
        BY DEF Closed
    <2> QED BY <1>4, <2>1 DEF Up
<1> QED BY <1>2, <1>3, <1>4

\* Above every node there is exactly one root.
LEMMA OneRoot ==
    ASSUME NEW p, WellFormed(p), Grounded(p), NEW j \in DOMAIN p
    PROVE  \E r : Up(p, j) \cap Roots(p) = {r}
<1> DEFINE S == {k \in DOMAIN p : ~\E r : Up(p, k) \cap Roots(p) = {r}}
<1> SUFFICES ASSUME S # {} PROVE FALSE
    OBVIOUS
<1>1. PICK i \in S : Visited(p, i) \cap S = {}
    BY DEF Grounded
<1>2. Up(p, i) = {i} \cup Up(p, p[i].parent) /\ p[i].parent \in DOMAIN p
    BY UpStep DEF WellFormed, Refers
<1>3. CASE p[i].parent = i
    <2>1. Up(p, i) = {i}
        <3>1. Closed(p, {i}) /\ {i} \in SUBSET DOMAIN p
            BY <1>3 DEF Closed
        <3>2. Up(p, i) \subseteq {i}
            BY <3>1 DEF Up
        <3> QED BY <1>2, <3>2
    <2>2. i \in Roots(p)
        BY <1>3 DEF Roots
    <2>3. Up(p, i) \cap Roots(p) = {i}
        BY <2>1, <2>2
    <2> QED BY <2>3
<1>4. CASE p[i].parent # i
    <2>1. p[i].parent \notin S
        BY <1>1, <1>4 DEF Visited
    <2>2. i \notin Roots(p)
        BY <1>4 DEF Roots
    <2>3. Up(p, i) \cap Roots(p) = Up(p, p[i].parent) \cap Roots(p)
        BY <1>2, <2>2
    <2> QED BY <1>2, <2>1, <2>3
<1> QED BY <1>3, <1>4

\* The representative of a node is a root, its own or that of its parent.
HasRoot(p, j) ==
    /\ Root(p, j) \in Roots(p)
    /\ p[j].parent = j => Root(p, j) = j
    /\ p[j].parent # j => Root(p, j) = Root(p, p[j].parent)

LEMMA RootFound ==
    ASSUME NEW p, WellFormed(p), Grounded(p), NEW i \in DOMAIN p
    PROVE  HasRoot(p, i)
<1> DEFINE Def(f) == f = [j \in DOMAIN p |-> IF p[j].parent = j THEN j ELSE f[p[j].parent]]
           top == [j \in DOMAIN p |-> CHOOSE r : Up(p, j) \cap Roots(p) = {r}]
<1>1. \A j \in DOMAIN p : Up(p, j) \cap Roots(p) = {top[j]}
    BY OneRoot
<1>2. ASSUME NEW j \in DOMAIN p
      PROVE  /\ top[j] \in Roots(p) /\ p[j].parent \in DOMAIN p
             /\ p[j].parent = j => top[j] = j
             /\ p[j].parent # j => top[j] = top[p[j].parent]
    <2>1. p[j].parent \in DOMAIN p /\ Up(p, j) = {j} \cup Up(p, p[j].parent)
        BY UpStep DEF WellFormed, Refers
    <2>2. CASE p[j].parent = j
        <3>1. j \in Up(p, j) \cap Roots(p)
            BY <2>1, <2>2 DEF Roots
        <3> QED BY <1>1, <2>1, <2>2, <3>1
    <2>3. CASE p[j].parent # j
        <3>1. j \notin Roots(p)
            BY <2>3 DEF Roots
        <3>2. {top[j]} = {top[p[j].parent]}
            BY <1>1, <2>1, <3>1
        <3>3. top[j] \in Roots(p)
            BY <1>1
        <3> HIDE DEF top
        <3> QED BY <2>1, <2>3, <3>2, <3>3
    <2> QED BY <2>2, <2>3
<1> HIDE DEF top
<1>3. Def(top)
    <2>1. top = [j \in DOMAIN p |-> top[j]]
        BY DEF top
    <2> QED BY <1>2, <2>1
<1> DEFINE root == CHOOSE f : Def(f)
<1>4. Def(root) /\ \A j : Root(p, j) = root[j]
    BY <1>3, Zenon DEF Root
<1> HIDE DEF root
<1>5. \A j \in DOMAIN p : root[j] = IF p[j].parent = j THEN j ELSE root[p[j].parent]
    BY <1>4, Zenon
<1>6. \A j \in DOMAIN p : root[j] = top[j]
    <2> DEFINE S == {j \in DOMAIN p : root[j] # top[j]}
    <2> SUFFICES ASSUME S # {} PROVE FALSE
        OBVIOUS
    <2>1. PICK j \in S : Visited(p, j) \cap S = {}
        BY DEF Grounded
    <2>2. CASE p[j].parent = j
        BY <1>2, <1>5, <2>2
    <2>3. CASE p[j].parent # j
        <3>1. p[j].parent \notin S
            BY <2>1, <2>3 DEF Visited
        <3> QED BY <1>2, <1>5, <2>3, <3>1
    <2> QED BY <2>2, <2>3
<1>7. \A j \in DOMAIN p : Root(p, j) = top[j]
    <2> TAKE j \in DOMAIN p
    <2>1. Root(p, j) = root[j] /\ root[j] = top[j]
        BY <1>4, <1>6
    <2> QED BY <2>1
<1>8. i \in DOMAIN p /\ p[i].parent \in DOMAIN p
    BY <1>2
<1> HIDE DEF Def
<1>9. Root(p, i) = top[i] /\ Root(p, p[i].parent) = top[p[i].parent]
    BY <1>7, <1>8
<1> QED BY <1>2, <1>8, <1>9 DEF HasRoot

\* Representatives are roots, and the representative of a root is the root.
LEMMA RootFacts ==
    ASSUME NEW p, WellFormed(p), Grounded(p)
    PROVE  /\ \A j \in DOMAIN p : Root(p, j) \in Roots(p)
           /\ \A r \in Roots(p) : Root(p, r) = r
           /\ Roots(p) \subseteq DOMAIN p
<1>1. \A j \in DOMAIN p : Root(p, j) \in Roots(p)
    BY RootFound DEF HasRoot
<1>2. \A r \in Roots(p) : Root(p, r) = r
    BY RootFound DEF HasRoot, Roots
<1> QED BY <1>1, <1>2 DEF Roots

\* What answers for every node as for its parent is the representative.
AsParent(p, f) == \A j \in DOMAIN p : f[j] = IF p[j].parent = j THEN j ELSE f[p[j].parent]

LEMMA RootUnique ==
    ASSUME NEW p, WellFormed(p), Grounded(p), NEW f, AsParent(p, f)
    PROVE  \A j \in DOMAIN p : Root(p, j) = f[j]
<1> USE DEF AsParent
<1> DEFINE S == {j \in DOMAIN p : Root(p, j) # f[j]}
<1> SUFFICES ASSUME S # {} PROVE FALSE
    OBVIOUS
<1>1. PICK j \in S : Visited(p, j) \cap S = {}
    BY DEF Grounded
<1>2. HasRoot(p, j) /\ p[j].parent \in DOMAIN p
    BY RootFound DEF WellFormed, Refers
<1>3. CASE p[j].parent = j
    BY <1>2, <1>3 DEF HasRoot
<1>4. CASE p[j].parent # j
    <2>1. p[j].parent \notin S
        BY <1>1, <1>4 DEF Visited
    <2> QED BY <1>2, <1>4, <2>1 DEF HasRoot
<1> QED BY <1>3, <1>4

\* Compression changes a parent to the representative or not at all.
LEMMA CompressParents ==
    ASSUME NEW p, WellFormed(p), NEW S, NEW j \in DOMAIN p
    PROVE  LET q == Compress(p, S) IN
           q[j].parent = p[j].parent \/ (q[j].parent = Root(p, j) /\ j \notin Roots(p))
<1> DEFINE q == Compress(p, S)
<1>1. CASE ~Followed(p, Path(p, S))
    <2>1. q = p
        BY <1>1 DEF Compress
    <2> QED BY <2>1
<1>2. CASE Followed(p, Path(p, S))
    <2>1. q[j] = IF j \in Path(p, S) /\ j \notin Roots(p)
                 THEN [p[j] EXCEPT !.parent = Root(p, j)] ELSE p[j]
        BY <1>2 DEF Compress
    <2>2. p[j] \in Node
        BY DEF WellFormed
    <2> HIDE DEF q
    <2>3. CASE j \in Path(p, S) /\ j \notin Roots(p)
        <3>1. q[j].parent = Root(p, j)
            BY <2>1, <2>2, <2>3 DEF Node
        <3> QED BY <2>3, <3>1 DEF q
    <2>4. CASE ~(j \in Path(p, S) /\ j \notin Roots(p))
        BY <2>1, <2>4 DEF q
    <2> QED BY <2>3, <2>4 DEF q
<1> QED BY <1>1, <1>2

\* Path compression changes no representative.
LEMMA CompressRoots ==
    ASSUME NEW p, WellFormed(p), Grounded(p), NEW S, NEW i \in DOMAIN p
    PROVE  Root(Compress(p, S), i) = Root(p, i)
<1> DEFINE q == Compress(p, S)
           f == [j \in DOMAIN p |-> Root(p, j)]
<1>1. WellFormed(q) /\ Grounded(q) /\ DOMAIN q = DOMAIN p
    BY CompressWellFormed, CompressGrounded
<1>2. \A j \in DOMAIN p : q[j].parent = p[j].parent \/ (q[j].parent = Root(p, j) /\ j \notin Roots(p))
    BY CompressParents
<1> HIDE DEF q
<1>3. ASSUME NEW j \in DOMAIN q
      PROVE  f[j] = IF q[j].parent = j THEN j ELSE f[q[j].parent]
    <2>1. HasRoot(p, j) /\ j \in DOMAIN p /\ p[j].parent \in DOMAIN p /\ q[j].parent \in DOMAIN p
        BY <1>1, RootFound DEF WellFormed, Refers
    <2>2. Root(p, j) \in Roots(p) /\ Root(p, Root(p, j)) = Root(p, j)
        BY <2>1, RootFacts
    <2>3. CASE q[j].parent = p[j].parent
        BY <2>1, <2>3 DEF HasRoot
    <2>4. CASE q[j].parent = Root(p, j) /\ j \notin Roots(p)
        BY <2>1, <2>2, <2>4
    <2> QED BY <1>1, <1>2, <2>3, <2>4
<1> HIDE DEF f
<1>4. Root(q, i) = f[i]
    BY <1>1, <1>3, RootUnique DEF AsParent
<1> QED BY <1>4 DEF q, f

\* A new node is the representative of no other.
LEMMA PushedRoots ==
    ASSUME NEW p, NEW q, WellFormed(p), Grounded(p), WellFormed(q), Grounded(q),
           DOMAIN p \subseteq DOMAIN q, \A j \in DOMAIN p : q[j] = p[j], NEW i \in DOMAIN p
    PROVE  Root(q, i) = Root(p, i)
<1> DEFINE f == [j \in DOMAIN p |-> Root(q, j)]
<1>1. ASSUME NEW j \in DOMAIN p
      PROVE  f[j] = IF p[j].parent = j THEN j ELSE f[p[j].parent]
    <2>1. HasRoot(q, j) /\ q[j] = p[j] /\ p[j].parent \in DOMAIN p
        BY RootFound DEF WellFormed, Refers
    <2> QED BY <2>1 DEF HasRoot
<1> HIDE DEF f
<1>2. Root(p, i) = f[i]
    BY <1>1, RootUnique DEF AsParent
<1> QED BY <1>2 DEF f

\* Binding a variable merges its nodes with those of what it is bound to.
LEMMA BoundRoots ==
    ASSUME NEW p, WellFormed(p), Grounded(p), NEW v \in Roots(p), NEW t \in Roots(p),
           IsVar(p, v), v # t, NEW q, q = Bound(p, {<<v, t>>}), Grounded(q), NEW i \in DOMAIN p
    PROVE  Root(q, i) = IF Root(p, i) = v THEN t ELSE Root(p, i)
<1> DEFINE f == [j \in DOMAIN p |-> IF Root(p, j) = v THEN t ELSE Root(p, j)]
<1>0. v \in DOMAIN p /\ t \in DOMAIN p /\ p[v].parent = v /\ p[t].parent = t
    BY DEF Roots
<1>1. /\ WellFormed(q) /\ DOMAIN q = DOMAIN p
      /\ q[v] = [p[v] EXCEPT !.parent = t] /\ \A j \in DOMAIN p \ {v} : q[j] = p[j]
    BY <1>0, BoundWellFormed
<1>2. q[v].parent = t
    <2>1. p[v] \in Node
        BY <1>0 DEF WellFormed
    <2> QED BY <1>1, <2>1 DEF Node
<1>3. ASSUME NEW j \in DOMAIN q
      PROVE  f[j] = IF q[j].parent = j THEN j ELSE f[q[j].parent]
    <2>1. HasRoot(p, j) /\ j \in DOMAIN p /\ p[j].parent \in DOMAIN p
        BY <1>1, RootFound DEF WellFormed, Refers
    <2>2. Root(p, v) = v /\ Root(p, t) = t
        BY RootFacts
    <2>3. CASE j = v
        <3>1. f[j] = t /\ f[t] = t
            BY <1>0, <2>2, <2>3
        <3> HIDE DEF f
        <3> QED BY <1>2, <2>3, <3>1
    <2>4. CASE j # v
        <3>1. q[j].parent = p[j].parent
            BY <1>1, <2>1, <2>4
        <3> QED BY <2>1, <2>4, <3>1 DEF HasRoot
    <2> QED BY <2>3, <2>4
<1> HIDE DEF f
<1>4. Root(q, i) = f[i]
    <2>1. i \in DOMAIN q /\ AsParent(q, f)
        BY <1>1, <1>3 DEF AsParent
    <2> QED BY <1>1, <2>1, RootUnique
<1> QED BY <1>4 DEF f

-----------------------------------------------------------------------------
(* What has been compared. *)

\* The representatives of a and b are the same on top, with parts that are pairs
\* of R.
SameIn(p, R, a, b) ==
    LET r == Root(p, a)
        s == Root(p, b)
    IN \/ r = s \/ IsNever(p, r)
       \/ /\ p[r].kind = "con" /\ p[s].kind = "con" /\ p[r].head = p[s].head
          /\ Len(p[r].args) = Len(p[s].args)
          /\ \A k \in DOMAIN p[r].args : <<p[r].args[k], p[s].args[k]>> \in R

\* They are still to be compared.
Pending(p, todo, a, b) ==
    \E n \in DOMAIN todo : Root(p, todo[n][1]) = Root(p, a) /\ Root(p, todo[n][2]) = Root(p, b)

Pairs(p) == (DOMAIN p) \X (DOMAIN p)

NodesOnly(p, todo) == \A n \in DOMAIN todo : todo[n] \in Pairs(p)

Settled(p, todo, R) ==
    /\ R \subseteq Pairs(p)
    /\ \A x \in R : SameIn(p, R, x[1], x[2]) \/ Pending(p, todo, x[1], x[2])

Holds(p, todo, asked) ==
    \E R : (\A n \in DOMAIN asked : asked[n] \in R) /\ Settled(p, todo, R)

\* q has the nodes of p and perhaps more, only variables have another
\* representative than in p, and what had the same one still has.
Extends(p, q) ==
    /\ DOMAIN p \subseteq DOMAIN q
    /\ \A j \in DOMAIN p : q[j].kind = p[j].kind /\ q[j].head = p[j].head /\ q[j].args = p[j].args
    /\ \A i \in DOMAIN p : p[Root(p, i)].kind = "con" => Root(q, i) = Root(p, i)
    /\ \A i, j \in DOMAIN p : Root(p, i) = Root(p, j) => Root(q, i) = Root(q, j)

LEMMA SameInKept ==
    ASSUME NEW p, NEW q, WellFormed(p), Grounded(p), Extends(p, q), NEW R, NEW T, R \subseteq T,
           NEW a \in DOMAIN p, NEW b \in DOMAIN p, SameIn(p, R, a, b)
    PROVE  SameIn(q, T, a, b)
<1> DEFINE r == Root(p, a)
           s == Root(p, b)
<1>1. r \in DOMAIN p /\ s \in DOMAIN p
    BY RootFacts DEF Roots
<1>2. CASE r = s
    <2>1. Root(q, a) = Root(q, b)
        BY <1>2 DEF Extends
    <2> QED BY <2>1 DEF SameIn
<1>3. CASE IsNever(p, r)
    <2>1. Root(q, a) = r /\ q[r].kind = p[r].kind /\ q[r].head = p[r].head
        BY <1>1, <1>3 DEF Extends, IsNever
    <2>2. IsNever(q, Root(q, a))
        BY <1>3, <2>1 DEF IsNever
    <2> QED BY <2>2 DEF SameIn
<1>4. CASE /\ p[r].kind = "con" /\ p[s].kind = "con" /\ p[r].head = p[s].head
           /\ Len(p[r].args) = Len(p[s].args)
           /\ \A k \in DOMAIN p[r].args : <<p[r].args[k], p[s].args[k]>> \in R
    <2>1. Root(q, a) = r /\ Root(q, b) = s
        BY <1>4 DEF Extends
    <2>2. /\ q[r].kind = p[r].kind /\ q[r].head = p[r].head /\ q[r].args = p[r].args
          /\ q[s].kind = p[s].kind /\ q[s].head = p[s].head /\ q[s].args = p[s].args
        BY <1>1 DEF Extends
    <2> HIDE DEF r, s
    <2>3. /\ q[r].kind = "con" /\ q[s].kind = "con" /\ q[r].head = q[s].head
          /\ Len(q[r].args) = Len(q[s].args)
          /\ \A k \in DOMAIN q[r].args : <<q[r].args[k], q[s].args[k]>> \in T
        BY <1>4, <2>2
    <2> QED BY <2>1, <2>3 DEF SameIn
<1> QED BY <1>2, <1>3, <1>4 DEF SameIn

\* A pool that extends another has settled as much.
LEMMA SettledKept ==
    ASSUME NEW p, NEW q, WellFormed(p), Grounded(p), Extends(p, q),
           NEW todo, NodesOnly(p, todo), NEW R, Settled(p, todo, R)
    PROVE  Settled(q, todo, R)
<1> USE DEF NodesOnly
<1>1. R \subseteq Pairs(q)
    BY DEF Settled, Pairs, Extends
<1>2. ASSUME NEW x \in R
      PROVE  SameIn(q, R, x[1], x[2]) \/ Pending(q, todo, x[1], x[2])
    <2>1. x[1] \in DOMAIN p /\ x[2] \in DOMAIN p
        BY DEF Settled, Pairs
    <2>2. CASE SameIn(p, R, x[1], x[2])
        BY <2>1, <2>2, SameInKept
    <2>3. CASE Pending(p, todo, x[1], x[2])
        <3>1. PICK n \in DOMAIN todo :
                    Root(p, todo[n][1]) = Root(p, x[1]) /\ Root(p, todo[n][2]) = Root(p, x[2])
            BY <2>3 DEF Pending
        <3>2. todo[n][1] \in DOMAIN p /\ todo[n][2] \in DOMAIN p
            BY DEF Pairs
        <3>3. Root(q, todo[n][1]) = Root(q, x[1]) /\ Root(q, todo[n][2]) = Root(q, x[2])
            BY <2>1, <3>1, <3>2 DEF Extends
        <3> QED BY <3>3 DEF Pending
    <2> QED BY <2>2, <2>3 DEF Settled
<1> QED BY <1>1, <1>2 DEF Settled

LEMMA ExtendsTransitive ==
    ASSUME NEW p, NEW q, NEW t, WellFormed(p), Grounded(p), Extends(p, q), Extends(q, t)
    PROVE  Extends(p, t)
<1>1. DOMAIN p \subseteq DOMAIN t
    BY DEF Extends
<1>2. \A j \in DOMAIN p : t[j].kind = p[j].kind /\ t[j].head = p[j].head /\ t[j].args = p[j].args
    BY DEF Extends
<1>3. ASSUME NEW i \in DOMAIN p, p[Root(p, i)].kind = "con"
      PROVE  Root(t, i) = Root(p, i)
    <2>1. Root(q, i) = Root(p, i) /\ Root(p, i) \in DOMAIN p /\ i \in DOMAIN q
        BY <1>3, RootFacts DEF Extends
    <2>2. q[Root(q, i)].kind = "con"
        BY <1>3, <2>1 DEF Extends
    <2> QED BY <2>1, <2>2 DEF Extends
<1>4. \A i, j \in DOMAIN p : Root(p, i) = Root(p, j) => Root(t, i) = Root(t, j)
    BY DEF Extends
<1> QED BY <1>1, <1>2, <1>3, <1>4 DEF Extends

LEMMA HoldsKept ==
    ASSUME NEW p, NEW q, WellFormed(p), Grounded(p), Extends(p, q),
           NEW todo, NodesOnly(p, todo), NEW asked, Holds(p, todo, asked)
    PROVE  Holds(q, todo, asked)
<1>1. PICK R : (\A n \in DOMAIN asked : asked[n] \in R) /\ Settled(p, todo, R)
    BY DEF Holds
<1>2. Settled(q, todo, R)
    BY <1>1, SettledKept
<1> QED BY <1>1, <1>2 DEF Holds

\* Path compression, a new node and the binding of a variable extend the pool.
LEMMA CompressExtends ==
    ASSUME NEW p, WellFormed(p), Grounded(p), NEW S
    PROVE  Extends(p, Compress(p, S))
<1> DEFINE q == Compress(p, S)
<1>1. /\ DOMAIN q = DOMAIN p
      /\ \A j \in DOMAIN p : q[j] = [p[j] EXCEPT !.parent = q[j].parent]
    BY CompressWellFormed
<1>2. \A i \in DOMAIN p : Root(q, i) = Root(p, i)
    BY CompressRoots
<1> HIDE DEF q
<1>3. ASSUME NEW j \in DOMAIN p
      PROVE  q[j].kind = p[j].kind /\ q[j].head = p[j].head /\ q[j].args = p[j].args
    <2>1. p[j] \in Node
        BY DEF WellFormed
    <2> QED BY <1>1, <2>1 DEF Node
<1>4. Extends(p, q)
    BY <1>1, <1>2, <1>3 DEF Extends
<1> QED BY <1>4 DEF q

LEMMA PushedExtends ==
    ASSUME NEW p, NEW q, WellFormed(p), Grounded(p), WellFormed(q), Grounded(q),
           DOMAIN p \subseteq DOMAIN q, \A j \in DOMAIN p : q[j] = p[j]
    PROVE  Extends(p, q)
<1>1. \A i \in DOMAIN p : Root(q, i) = Root(p, i)
    BY PushedRoots
<1> QED BY <1>1 DEF Extends

LEMMA BoundExtends ==
    ASSUME NEW p, WellFormed(p), Grounded(p), NEW v \in Roots(p), NEW t \in Roots(p),
           IsVar(p, v), v # t, NEW q, q = Bound(p, {<<v, t>>}), Grounded(q)
    PROVE  Extends(p, q)
<1>0. v \in DOMAIN p /\ t \in DOMAIN p
    BY DEF Roots
<1>1. /\ DOMAIN q = DOMAIN p
      /\ q[v] = [p[v] EXCEPT !.parent = t] /\ \A j \in DOMAIN p \ {v} : q[j] = p[j]
    BY <1>0, BoundWellFormed
<1>2. \A i \in DOMAIN p : Root(q, i) = IF Root(p, i) = v THEN t ELSE Root(p, i)
    BY BoundRoots
<1>3. q[v].kind = p[v].kind /\ q[v].head = p[v].head /\ q[v].args = p[v].args
    <2>1. p[v] \in Node
        BY <1>0 DEF WellFormed
    <2> QED BY <1>1, <2>1 DEF Node
<1>4. \A j \in DOMAIN p : q[j].kind = p[j].kind /\ q[j].head = p[j].head /\ q[j].args = p[j].args
    BY <1>1, <1>3
<1>5. p[v].kind # "con"
    BY DEF IsVar
<1> QED BY <1>1, <1>2, <1>4, <1>5 DEF Extends

-----------------------------------------------------------------------------
(* Settled pairs are the same to every depth. *)

LEMMA SettledSame ==
    ASSUME NEW p, WellFormed(p), Grounded(p), NEW R, Settled(p, <<>>, R), NEW a, NEW b, <<a, b>> \in R
    PROVE  SameType(p, a, b)
<1> DEFINE N == Len(p)
           P == Pairs(p)
           V == [P -> BOOLEAN]
           Step(v) == [x \in P |-> SameTop(p, v, x[1], x[2])]
           G == [d \in 1..N |-> [v \in V |-> Step(v)]]
           all == [x \in P |-> TRUE]
           Def(f) == f = [d \in 0..N |-> [x \in P |-> d = 0 \/ SameTop(p, f[d - 1], x[1], x[2])]]
<1>1. N \in Nat
    BY DEF WellFormed
<1>2. all \in V
    OBVIOUS
<1>3. ASSUME NEW v \in V
      PROVE  Step(v) \in V
    <2>1. \A x \in P : SameTop(p, v, x[1], x[2]) \in BOOLEAN
        BY DEF SameTop
    <2> QED BY <2>1
<1>4. PICK f : IsIterate(f, V, N, all, G)
    <2>1. StaysIn(V, N, G)
        <3> HIDE DEF Step, V
        <3> QED BY <1>3 DEF StaysIn
    <2> HIDE DEF N, G, V, all
    <2> QED BY <1>1, <1>2, <2>1, IntervalRecursion
<1>5. \A d \in 1..N : f[d] = Step(f[d - 1])
    <2> HIDE DEF Step, V
    <2> TAKE d \in 1..N
    <2> HIDE DEF N
    <2>1. f[d - 1] \in V
        BY <1>1, <1>4 DEF IsIterate
    <2> QED BY <1>4, <2>1 DEF IsIterate
<1>6. Def(f)
    <2> DEFINE at(d) == [x \in P |-> d = 0 \/ SameTop(p, f[d - 1], x[1], x[2])]
    <2>1. f = [d \in 0..N |-> f[d]]
        BY <1>4 DEF IsIterate
    <2>2. f[0] = at(0)
        <3>1. f[0] = all
            BY <1>4 DEF IsIterate
        <3>2. at(0) = all
            OBVIOUS
        <3> QED BY <3>1, <3>2
    <2>3. ASSUME NEW d \in 1..N
          PROVE  f[d] = at(d)
        <3>1. d # 0
            BY <1>1
        <3>2. \A x \in P : (d = 0 \/ SameTop(p, f[d - 1], x[1], x[2])) = SameTop(p, f[d - 1], x[1], x[2])
            <4>1. \A x \in P : SameTop(p, f[d - 1], x[1], x[2]) \in BOOLEAN
                BY DEF SameTop
            <4> QED BY <3>1, <4>1
        <3>3. at(d) = Step(f[d - 1])
            <4> HIDE DEF P
            <4> QED BY <3>2
        <3> QED BY <1>5, <3>3
    <2>4. \A d \in 0..N : f[d] = at(d)
        <3> HIDE DEF at
        <3>1. \A d \in 0..N : d = 0 \/ d \in 1..N
            BY <1>1
        <3> QED BY <2>2, <2>3, <3>1
    <2> QED BY <2>1, <2>4, Zenon
<1> DEFINE same == CHOOSE g : Def(g)
<1>7. Def(same) /\ (SameType(p, a, b) <=> same[N][<<a, b>>])
    BY <1>6, Zenon DEF SameType, Pairs
<1> HIDE DEF same
<1>8. \A d \in 0..N : \A x \in P : same[d][x] <=> (d = 0 \/ SameTop(p, same[d - 1], x[1], x[2]))
    BY <1>7, Zenon
<1> DEFINE S == {d \in 0..N : \A x \in R : same[d][x]}
<1>9. R \subseteq P /\ \A x \in R : SameIn(p, R, x[1], x[2])
    BY DEF Settled, Pending
<1>10. 0 \in S
    <2>1. 0 \in 0..N
        BY <1>1
    <2> QED BY <1>8, <1>9, <2>1
<1>11. ASSUME NEW d \in 1..N, d - 1 \in S
       PROVE  d \in S
    <2>1. d \in 0..N
        BY <1>1
    <2>2. ASSUME NEW x \in R
          PROVE  SameTop(p, same[d - 1], x[1], x[2])
        <3>1. \A y \in R : same[d - 1][y]
            BY <1>11
        <3>2. SameIn(p, R, x[1], x[2])
            BY <1>9
        <3> HIDE DEF S
        <3> QED BY <3>1, <3>2 DEF SameIn, SameTop
    <2> QED BY <1>8, <1>9, <2>1, <2>2
<1>12. N \in S
    <2>1. \A d \in 0..N : d \in S
        <3> HIDE DEF S, N
        <3> QED BY <1>1, <1>10, <1>11, IntervalInduction
    <2> QED BY <1>1, <2>1
<1> QED BY <1>7, <1>12

-----------------------------------------------------------------------------
(* One comparison. *)

LEMMA BindBinds ==
    ~Unequal.ok /\ \A v, t : Bind(v, t).bind # {}
BY DEF Unequal, Bind

\* A comparison that binds nothing found the two the same on top.
LEMMA ComparedParts ==
    ASSUME NEW p, NEW r, NEW s, Compared(p, r, s).ok, Compared(p, r, s).bind = {}
    PROVE  \/ /\ Compared(p, r, s).more = <<>>
              /\ r = s \/ IsNever(p, r)
           \/ /\ Compared(p, r, s).more = [k \in DOMAIN p[r].args |-> <<p[r].args[k], p[s].args[k]>>]
              /\ p[r].kind = "con" /\ p[s].kind = "con"
              /\ p[r].head = p[s].head /\ Len(p[r].args) = Len(p[s].args)
<1> DEFINE c == Compared(p, r, s)
<1>1. CASE r = s \/ IsNever(p, r)
    <2>1. c = Equal
        BY <1>1 DEF Compared, IsRigid, IsVar, IsNever
    <2> QED BY <1>1, <2>1 DEF Equal
<1>2. CASE IsRigid(p, r) /\ IsVar(p, s)
    <2>1. c = BindRigid(p, s, r)
        BY <1>2 DEF Compared, IsRigid, IsVar, IsNever
    <2>2. c = Unequal \/ \E v, t : c = Bind(v, t)
        BY <2>1 DEF BindRigid
    <2> QED BY <2>2, BindBinds
<1>3. CASE IsVar(p, r) /\ IsRigid(p, s)
    <2>1. c = BindRigid(p, r, s)
        BY <1>3 DEF Compared, IsRigid, IsVar, IsNever
    <2>2. c = Unequal \/ \E v, t : c = Bind(v, t)
        BY <2>1 DEF BindRigid
    <2> QED BY <2>2, BindBinds
<1>4. CASE r # s /\ IsVar(p, r) /\ IsVar(p, s)
    <2>1. c = BindVars(p, r, s)
        BY <1>4 DEF Compared, IsRigid, IsVar, IsNever
    <2>2. c = Unequal \/ \E v, t : c = Bind(v, t)
        BY <2>1 DEF BindVars
    <2> QED BY <2>2, BindBinds
<1>5. CASE IsVar(p, r) /\ p[s].kind = "con"
    <2>1. c = BindType(p, r, s)
        BY <1>5 DEF Compared, IsRigid, IsVar, IsNever
    <2>2. c = Unequal \/ \E v, t : c = Bind(v, t)
        BY <2>1 DEF BindType
    <2> QED BY <2>2, BindBinds
<1>6. CASE ~IsNever(p, r) /\ p[r].kind = "con" /\ IsVar(p, s)
    <2>1. c = BindType(p, s, r)
        BY <1>6 DEF Compared, IsRigid, IsVar, IsNever
    <2>2. c = Unequal \/ \E v, t : c = Bind(v, t)
        BY <2>1 DEF BindType
    <2> QED BY <2>2, BindBinds
<1>7. CASE /\ r # s /\ ~IsNever(p, r) /\ p[r].kind = "con" /\ p[s].kind = "con"
           /\ p[r].head = p[s].head /\ Len(p[r].args) = Len(p[s].args)
    <2>1. c = Parts(p[r].args, p[s].args)
        BY <1>7 DEF Compared, IsRigid, IsVar, IsNever
    <2> QED BY <1>7, <2>1 DEF Parts
<1>8. CASE ~(\/ r = s \/ IsNever(p, r)
             \/ IsRigid(p, r) /\ IsVar(p, s)
             \/ IsVar(p, r) /\ IsRigid(p, s)
             \/ r # s /\ IsVar(p, r) /\ IsVar(p, s)
             \/ IsVar(p, r) /\ p[s].kind = "con"
             \/ ~IsNever(p, r) /\ p[r].kind = "con" /\ IsVar(p, s)
             \/ /\ r # s /\ ~IsNever(p, r) /\ p[r].kind = "con" /\ p[s].kind = "con"
                /\ p[r].head = p[s].head /\ Len(p[r].args) = Len(p[s].args))
    <2>1. c = Unequal
        BY <1>8 DEF Compared
    <2> QED BY <2>1, BindBinds
<1> QED BY <1>1, <1>2, <1>3, <1>4, <1>5, <1>6, <1>7, <1>8

\* In q, what r and s represent in p is the same, but for the pairs in `more`.
Answers(p, q, r, s, more) ==
    \A R, a, b : /\ a \in DOMAIN p /\ b \in DOMAIN p /\ Root(p, a) = r /\ Root(p, b) = s
                 /\ \A n \in DOMAIN more : more[n] \in R
                 => SameIn(q, R, a, b)

LEMMA ComparedAnswers ==
    ASSUME NEW p, WellFormed(p), Grounded(p), NEW r \in Roots(p), NEW s \in Roots(p),
           Compared(p, r, s).ok,
           NEW q, q = Bound(p, Compared(p, r, s).bind), Grounded(q)
    PROVE  Extends(p, q) /\ Answers(p, q, r, s, Compared(p, r, s).more)
<1> DEFINE c == Compared(p, r, s)
<1>1. CASE c.bind = {}
    <2>1. q = p
        <3>1. p = [j \in DOMAIN p |-> p[j]]
            BY DEF WellFormed
        <3> QED BY <1>1, <3>1 DEF Bound
    <2>2. Extends(p, q)
        BY <2>1 DEF Extends
    <2>3. ASSUME NEW R, NEW a \in DOMAIN p, NEW b \in DOMAIN p, Root(p, a) = r, Root(p, b) = s,
                 \A n \in DOMAIN c.more : c.more[n] \in R
          PROVE  SameIn(p, R, a, b)
        <3>1. CASE r = s \/ IsNever(p, r)
            BY <2>3, <3>1 DEF SameIn
        <3>2. CASE /\ c.more = [k \in DOMAIN p[r].args |-> <<p[r].args[k], p[s].args[k]>>]
                   /\ p[r].kind = "con" /\ p[s].kind = "con"
                   /\ p[r].head = p[s].head /\ Len(p[r].args) = Len(p[s].args)
            <4>1. \A k \in DOMAIN p[r].args : <<p[r].args[k], p[s].args[k]>> \in R
                BY <2>3, <3>2
            <4> QED BY <2>3, <3>2, <4>1 DEF SameIn
        <3> QED BY <1>1, <3>1, <3>2, ComparedParts
    <2> QED BY <2>1, <2>2, <2>3 DEF Answers
<1>2. ASSUME NEW v \in {r, s}, NEW t \in {r, s}, c.bind = {<<v, t>>}, IsVar(p, v), v # t
      PROVE  Extends(p, q) /\ Answers(p, q, r, s, c.more)
    <2>1. q = Bound(p, {<<v, t>>}) /\ v \in Roots(p) /\ t \in Roots(p)
        BY <1>2
    <2>2. Extends(p, q)
        BY <1>2, <2>1, BoundExtends
    <2>3. \A i \in DOMAIN p : Root(q, i) = IF Root(p, i) = v THEN t ELSE Root(p, i)
        BY <1>2, <2>1, BoundRoots
    <2>4. ASSUME NEW a \in DOMAIN p, NEW b \in DOMAIN p, Root(p, a) = r, Root(p, b) = s
          PROVE  Root(q, a) = Root(q, b)
        BY <1>2, <2>3, <2>4
    <2> HIDE DEF c
    <2> QED BY <2>2, <2>4 DEF Answers, SameIn
<1>3. \/ c.bind = {}
      \/ \E v \in {r, s}, t \in {r, s} : c.bind = {<<v, t>>} /\ IsVar(p, v) /\ v # t
    <2> HIDE DEF c
    <2>1. \/ c.bind = {} /\ c.more \in Seq((DOMAIN p) \X (DOMAIN p))
          \/ /\ c.more = <<>>
             /\ \E v \in {r, s}, t \in {r, s} :
                   /\ c.bind = {<<v, t>>} /\ IsVar(p, v) /\ v # t
                   /\ p[t].args = <<>> \/ Avoids(p, v, t)
        BY ComparedBinds DEF c
    <2> QED BY <2>1
<1> HIDE DEF c
<1> DEFINE Answered == Extends(p, q) /\ Answers(p, q, r, s, c.more)
<1>4. CASE c.bind # {}
    <2>1. PICK v \in {r, s}, t \in {r, s} : c.bind = {<<v, t>>} /\ IsVar(p, v) /\ v # t
        BY <1>3, <1>4
    <2>2. Answered
        BY <1>2, <2>1
    <2> QED BY <2>2 DEF c
<1> QED BY <1>1, <1>4 DEF c

\* The pair at the head of the agenda makes way for what has to be compared next.
LEMMA HeadDone ==
    ASSUME NEW p, NEW q, WellFormed(p), Grounded(p), Extends(p, q),
           NEW todo \in Seq(Pairs(p)), todo # <<>>, NEW more \in Seq(Pairs(p)),
           Answers(p, q, Root(p, Head(todo)[1]), Root(p, Head(todo)[2]), more),
           NEW asked, Holds(p, todo, asked)
    PROVE  Holds(q, more \o Tail(todo), asked)
<1> DEFINE rest == more \o Tail(todo)
<1>1. PICK R : (\A n \in DOMAIN asked : asked[n] \in R) /\ Settled(p, todo, R)
    BY DEF Holds
<1> DEFINE T == R \cup {more[n] : n \in DOMAIN more}
<1>2. T \subseteq Pairs(p) /\ Pairs(p) \subseteq Pairs(q)
    BY <1>1 DEF Settled, Pairs, Extends
<1>3. /\ \A n \in DOMAIN more : n \in DOMAIN rest /\ rest[n] = more[n]
      /\ \A n \in DOMAIN todo : n = 1 \/ \E m \in DOMAIN rest : rest[m] = todo[n]
    <2>1. Tail(todo) \in Seq(Pairs(p)) /\ Len(Tail(todo)) = Len(todo) - 1
        OBVIOUS
    <2>2. \A n \in DOMAIN more : n \in DOMAIN rest /\ rest[n] = more[n]
        BY <2>1
    <2>3. ASSUME NEW n \in DOMAIN todo, n # 1
          PROVE  \E m \in DOMAIN rest : rest[m] = todo[n]
        <3> DEFINE m == Len(more) + n - 1
        <3>1. m \in DOMAIN rest /\ rest[m] = Tail(todo)[n - 1] /\ Tail(todo)[n - 1] = todo[n]
            BY <2>1, <2>3
        <3> QED BY <3>1
    <2> QED BY <2>2, <2>3
<1> HIDE DEF rest
<1>4. ASSUME NEW x \in T
      PROVE  SameIn(q, T, x[1], x[2]) \/ Pending(q, rest, x[1], x[2])
    <2>1. CASE x \in R /\ SameIn(p, R, x[1], x[2])
        <3>1. x[1] \in DOMAIN p /\ x[2] \in DOMAIN p
            BY <1>2 DEF Pairs
        <3> QED BY <2>1, <3>1, SameInKept
    <2>2. CASE x \in R /\ Pending(p, todo, x[1], x[2])
        <3>1. x[1] \in DOMAIN p /\ x[2] \in DOMAIN p
            BY <1>2 DEF Pairs
        <3>2. PICK n \in DOMAIN todo :
                    Root(p, todo[n][1]) = Root(p, x[1]) /\ Root(p, todo[n][2]) = Root(p, x[2])
            BY <2>2 DEF Pending
        <3>3. CASE n = 1
            <4>1. Head(todo) = todo[1] /\ \A m \in DOMAIN more : more[m] \in T
                OBVIOUS
            <4> HIDE DEF T
            <4>2. SameIn(q, T, x[1], x[2])
                BY <3>1, <3>2, <3>3, <4>1 DEF Answers
            <4> QED BY <4>2
        <3>4. CASE n # 1
            <4>1. PICK m \in DOMAIN rest : rest[m] = todo[n]
                BY <1>3, <3>4
            <4>2. todo[n][1] \in DOMAIN p /\ todo[n][2] \in DOMAIN p
                BY DEF Pairs
            <4>3. Root(q, todo[n][1]) = Root(q, x[1]) /\ Root(q, todo[n][2]) = Root(q, x[2])
                BY <3>1, <3>2, <4>2 DEF Extends
            <4> QED BY <4>1, <4>3 DEF Pending
        <3> QED BY <3>3, <3>4
    <2>3. CASE \E n \in DOMAIN more : x = more[n]
        BY <1>3, <2>3 DEF Pending
    <2> QED BY <1>1, <2>1, <2>2, <2>3 DEF Settled
<1>5. Settled(q, rest, T)
    <2> HIDE DEF T
    <2> QED BY <1>2, <1>4 DEF Settled
<1>6. \A n \in DOMAIN asked : asked[n] \in T
    BY <1>1
<1> HIDE DEF T
<1> QED BY <1>5, <1>6 DEF Holds, rest

-----------------------------------------------------------------------------
(* The machine. *)

\* What is left when the last question is taken back.
Earlier == SubSeq(goals, 1, Len(goals) - 1)

\* The questions are settled but for what is on the agenda, and in the pool kept
\* for taking back all but the last one are.
Settlement ==
    /\ goals \in Seq(Nat \X Nat)
    /\ ~failed => Holds(pool, agenda, goals)
    /\ trying => goals # <<>> /\ Holds(saved, <<>>, Earlier)

LEMMA InitSettlement == Init => Settlement
<1> SUFFICES ASSUME Init PROVE Settlement
    OBVIOUS
<1>1. goals = <<>> /\ agenda = <<>> /\ ~trying
    BY DEF Init
<1>2. Settled(pool, agenda, {})
    BY DEF Settled
<1>3. Holds(pool, agenda, goals)
    BY <1>1, <1>2 DEF Holds
<1> QED BY <1>1, <1>3 DEF Settlement

\* The pool grows and nothing is asked.
LEMMA GrowSettlement ==
    ASSUME IInv, NothingKept, Settlement, IInv', agenda = <<>>, agenda' = <<>>, Extends(pool, pool'),
           UNCHANGED <<saved, trying, goals, failed>>
    PROVE  Settlement'
<1>1. WellFormed(pool) /\ Grounded(pool)
    BY DEF IInv, TypeOK, Acyclic
<1>2. ~failed => Holds(pool', <<>>, goals)
    <2>1. NodesOnly(pool, <<>>)
        BY DEF NodesOnly
    <2> QED BY <1>1, <2>1, HoldsKept DEF Settlement
<1> QED BY <1>2 DEF Settlement, NothingKept

LEMMA NewVariableSettlement ==
    ASSUME IInv, NothingKept, Settlement, IInv',
           NEW kind \in {"var", "rigid"}, NEW level \in Levels, NewVariable(kind, level)
    PROVE  Settlement'
<1> DEFINE node == Variable(kind, Len(pool) + 1, level)
<1>1. WellFormed(pool) /\ Grounded(pool) /\ WellFormed(pool') /\ Grounded(pool')
    BY DEF IInv, TypeOK, Acyclic
<1>2. /\ pool' = Append(pool, node) /\ agenda = <<>>
      /\ UNCHANGED <<agenda, saved, trying, goals, failed>>
    BY DEF NewVariable, Pushed, Idle
<1>3. DOMAIN pool \subseteq DOMAIN pool' /\ \A j \in DOMAIN pool : pool'[j] = pool[j]
    <2>1. pool \in Seq(Node)
        BY <1>1 DEF WellFormed
    <2> HIDE DEF node
    <2> QED BY <1>2, <2>1
<1>4. Extends(pool, pool')
    BY <1>1, <1>3, PushedExtends
<1> QED BY <1>2, <1>4, GrowSettlement

\* A type that is made extends the pool: first paths are shortened, then a node
\* is added, or none if the type is shared.
LEMMA InternExtends ==
    ASSUME NEW p, WellFormed(p), Grounded(p), NEW table, NEW head, NEW args,
           WellFormed(Intern(p, table, head, args).pool), Grounded(Intern(p, table, head, args).pool)
    PROVE  Extends(p, Intern(p, table, head, args).pool)
<1> DEFINE made == Intern(p, table, head, args)
           q == Compress(p, {args[k] : k \in DOMAIN args})
<1>1. WellFormed(q) /\ Grounded(q) /\ Extends(p, q)
    BY CompressWellFormed, CompressGrounded, CompressExtends
<1>2. made.pool = q \/ \E node : made.pool = Append(q, node)
    <2> HIDE DEF q
    <2> QED BY DEF Intern, Pushed, q
<1> HIDE DEF q, made
<1>3. CASE made.pool = q
    BY <1>1, <1>3 DEF made
<1>4. ASSUME NEW node, made.pool = Append(q, node)
      PROVE  Extends(p, made.pool)
    <2>1. DOMAIN q \subseteq DOMAIN made.pool /\ \A j \in DOMAIN q : made.pool[j] = q[j]
        <3>1. q \in Seq(Node)
            BY <1>1 DEF WellFormed
        <3> QED BY <1>4, <3>1
    <2>2. Extends(q, made.pool)
        BY <1>1, <2>1, PushedExtends DEF made
    <2> QED BY <1>1, <2>2, ExtendsTransitive
<1> QED BY <1>2, <1>3, <1>4 DEF made

LEMMA NewTypeSettlement ==
    ASSUME IInv, NothingKept, Settlement, IInv', NEW shape \in Shapes, NewType(shape[1], shape[2])
    PROVE  Settlement'
<1>1. WellFormed(pool) /\ Grounded(pool) /\ WellFormed(pool') /\ Grounded(pool')
    BY DEF IInv, TypeOK, Acyclic
<1>2. /\ pool' = Intern(pool, intern, shape[1], shape[2]).pool /\ agenda = <<>>
      /\ UNCHANGED <<agenda, saved, trying, goals, failed>>
    BY DEF NewType, Idle
<1>3. Extends(pool, pool')
    BY <1>1, <1>2, InternExtends
<1> QED BY <1>2, <1>3, GrowSettlement

LEMMA AskSettlement ==
    ASSUME IInv, NothingKept, Settlement, NEW q \in Questions, NEW try \in BOOLEAN, Ask(q[1], q[2], try)
    PROVE  Settlement'
<1> DEFINE pair == <<q[1], q[2]>>
<1>1. /\ agenda = <<>> /\ ~failed /\ ~trying /\ pair \in Pairs(pool) /\ agenda' = <<pair>>
      /\ goals' = Append(goals, pair) /\ pool' = pool /\ failed' = failed
      /\ trying' = try /\ (try => saved' = pool)
    BY DEF Ask, Idle, NothingKept, Pairs
<1> HIDE DEF pair
<1>2. pair \in Nat \X Nat /\ goals \in Seq(Nat \X Nat)
    <2>1. DOMAIN pool \subseteq Nat
        BY DEF IInv, TypeOK, WellFormed
    <2> QED BY <1>1, <2>1 DEF Pairs, Settlement
<1>3. /\ goals' \in Seq(Nat \X Nat) /\ goals' # <<>>
      /\ SubSeq(goals', 1, Len(goals') - 1) = goals
      /\ \A n \in DOMAIN goals' : (n \in DOMAIN goals /\ goals'[n] = goals[n]) \/ goals'[n] = pair
    <2>1. Len(goals') = Len(goals) + 1
        BY <1>1, <1>2
    <2>2. SubSeq(goals', 1, Len(goals') - 1) = goals
        BY <1>1, <1>2, <2>1, AppendProperties
    <2> QED BY <1>1, <1>2, <2>2
<1>4. PICK R : (\A n \in DOMAIN goals : goals[n] \in R) /\ Settled(pool, <<>>, R)
    BY <1>1 DEF Settlement, Holds
<1> DEFINE T == R \cup {pair}
<1>5. Settled(pool, <<pair>>, T)
    <2>1. ASSUME NEW x \in R
          PROVE  SameIn(pool, T, x[1], x[2])
        <3>1. SameIn(pool, R, x[1], x[2])
            BY <1>4 DEF Settled, Pending
        <3> QED BY <3>1 DEF SameIn
    <2>2. Pending(pool, <<pair>>, pair[1], pair[2])
        <3>1. 1 \in DOMAIN <<pair>> /\ <<pair>>[1] = pair
            OBVIOUS
        <3> QED BY <3>1 DEF Pending
    <2> QED BY <1>1, <1>4, <2>1, <2>2 DEF Settled
<1>6. \A n \in DOMAIN goals' : goals'[n] \in T
    BY <1>3, <1>4
<1>7. Holds(pool', agenda', goals')
    <2> HIDE DEF T
    <2> QED BY <1>1, <1>5, <1>6 DEF Holds
<1>8. try => Holds(saved', <<>>, SubSeq(goals', 1, Len(goals') - 1))
    BY <1>1, <1>3 DEF Settlement
<1> QED BY <1>1, <1>3, <1>7, <1>8 DEF Settlement, Earlier

LEMMA AgreeSettlement ==
    ASSUME IInv, NothingKept, Settlement, IInv', Agree
    PROVE  Settlement'
<1> DEFINE p == Shortened
<1>1. WellFormed(p) /\ Grounded(p) /\ DOMAIN p = DOMAIN pool /\ Extends(pool, p)
    BY ShortenedSafe, CompressExtends DEF Shortened, IInv, TypeOK, Acyclic
<1>2. WellFormed(pool) /\ Grounded(pool) /\ Grounded(pool') /\ agenda \in Seq(Pairs(pool))
    BY DEF IInv, TypeOK, Acyclic, Pairs
<1>3. /\ Left \in Roots(p) /\ Right \in Roots(p) /\ Compared(p, Left, Right).ok
      /\ pool' = Bound(p, Compared(p, Left, Right).bind)
      /\ agenda' = Compared(p, Left, Right).more \o Tail(agenda) /\ agenda # <<>>
      /\ UNCHANGED <<goals, failed>> /\ (trying' => trying /\ saved' = saved)
    BY DEF Agree, Comparing, Found
<1>4. Left = Root(p, Head(agenda)[1]) /\ Right = Root(p, Head(agenda)[2])
    <2>1. Head(agenda) \in Pairs(pool)
        BY <1>2, <1>3
    <2>2. Head(agenda)[1] \in DOMAIN pool /\ Head(agenda)[2] \in DOMAIN pool
        BY <2>1 DEF Pairs
    <2> QED BY <1>2, <2>2, CompressRoots DEF Left, Right, Shortened
<1> HIDE DEF p
<1>5. Extends(p, pool') /\ Answers(p, pool', Left, Right, Compared(p, Left, Right).more)
    BY <1>1, <1>2, <1>3, ComparedAnswers
<1>6. Compared(p, Left, Right).more \in Seq(Pairs(p))
    <2>1. <<>> \in Seq(Pairs(p))
        OBVIOUS
    <2> QED BY <1>1, <1>3, <2>1, ComparedBinds DEF Pairs
<1>7. agenda \in Seq(Pairs(p))
    BY <1>1, <1>2 DEF Pairs
<1>8. ~failed => Holds(pool', agenda', goals)
    <2> SUFFICES ASSUME ~failed PROVE Holds(pool', agenda', goals)
        OBVIOUS
    <2>1. NodesOnly(pool, agenda)
        BY <1>2 DEF NodesOnly
    <2>2. Holds(p, agenda, goals)
        BY <1>1, <1>2, <2>1, HoldsKept DEF Settlement
    <2> QED BY <1>1, <1>3, <1>4, <1>5, <1>6, <1>7, <2>2, HeadDone
<1> QED BY <1>3, <1>8 DEF Settlement, Earlier

LEMMA FailSettlement ==
    ASSUME Settlement, Fail
    PROVE  Settlement'
BY DEF Fail, Settlement

LEMMA TakeBackSettlement ==
    ASSUME Settlement, TakeBack
    PROVE  Settlement'
<1>1. /\ trying /\ pool' = saved /\ agenda' = <<>> /\ trying' = FALSE /\ failed' = failed
      /\ goals' = Earlier
    BY DEF TakeBack, Earlier
<1>2. goals \in Seq(Nat \X Nat) /\ goals # <<>> /\ Holds(saved, <<>>, Earlier)
    BY <1>1 DEF Settlement
<1>3. Earlier \in Seq(Nat \X Nat)
    BY <1>2 DEF Earlier
<1> QED BY <1>1, <1>2, <1>3 DEF Settlement

LEMMA NextSettlement ==
    ASSUME IInv, NothingKept, Settlement, IInv', [Next]_vars
    PROVE  Settlement'
<1>1. CASE UNCHANGED vars
    BY <1>1 DEF Settlement, Earlier, vars
<1>2. CASE \E kind \in {"var", "rigid"}, level \in Levels : NewVariable(kind, level)
    BY <1>2, NewVariableSettlement
<1>3. CASE \E shape \in Shapes : NewType(shape[1], shape[2])
    BY <1>3, NewTypeSettlement
<1>4. CASE \E q \in Questions, try \in BOOLEAN : Ask(q[1], q[2], try)
    BY <1>4, AskSettlement
<1>5. CASE Agree
    BY <1>5, AgreeSettlement
<1>6. CASE Fail
    BY <1>6, FailSettlement
<1>7. CASE TakeBack
    BY <1>7, TakeBackSettlement
<1> QED BY <1>1, <1>2, <1>3, <1>4, <1>5, <1>6, <1>7 DEF Next

\* There is always a relation that holds the questions answered so far and all they
\* led to, and one for the pool that may be taken back.
THEOREM SettledInvariance == Spec => []Settlement
<1>1. Init => Settlement
    BY InitSettlement
<1>2. (IInv /\ NothingKept) /\ (IInv /\ NothingKept)' /\ Settlement /\ [Next]_vars => Settlement'
    BY NextSettlement
<1> QED BY <1>1, <1>2, PoolInvariance, PTL DEF Spec

\* When unify has succeeded, the types it was asked to make equal are the same, and
\* nothing that is made, unified, tried or taken back afterwards undoes that.
THEOREM UnifiedStays == Spec => []Unified
<1>1. IInv /\ Settlement => Unified
    <2> SUFFICES ASSUME IInv, Settlement, Idle, NEW n \in DOMAIN goals
                 PROVE  SameType(pool, goals[n][1], goals[n][2])
        BY DEF Unified
    <2>1. WellFormed(pool) /\ Grounded(pool)
        BY DEF IInv, TypeOK, Acyclic
    <2>2. PICK R : (\A m \in DOMAIN goals : goals[m] \in R) /\ Settled(pool, <<>>, R)
        BY DEF Idle, Settlement, Holds
    <2>3. goals[n] \in R /\ goals[n] = <<goals[n][1], goals[n][2]>>
        <3>1. goals[n] \in Nat \X Nat
            BY DEF Settlement
        <3> QED BY <2>2, <3>1
    <2> QED BY <2>1, <2>2, <2>3, SettledSame
<1> QED BY <1>1, SettledInvariance, PoolInvariance, PTL

-----------------------------------------------------------------------------
(***************************************************************************)
(* Unification is most general.  What the types of the pool may stand for  *)
(* is a function on its nodes (Reads); whenever it solves the questions    *)
(* asked, it gives a variable and what it was bound to the same type, and  *)
(* so the two sides of what is still to be compared (General).             *)
(***************************************************************************)
\* A ground type for every node: any for a variable, and for a type what its parts
\* make of it.
Reads(p, types) ==
    \A i \in DOMAIN p :
        /\ p[i].kind = "var" => types[i] \in Ground
        /\ p[i].kind = "rigid" => types[i] = rigidTerm(i)
        /\ p[i].kind = "con" =>
              types[i] = term(p[i].head, [k \in DOMAIN p[i].args |-> types[p[i].args[k]]])

Admits(p, asked, types) == Reads(p, types) /\ InScope(p, types) /\ Solves(asked, types)

\* q has the nodes of p and perhaps more, with other parents.
Alike(p, q) ==
    /\ DOMAIN p \subseteq DOMAIN q
    /\ \A j \in DOMAIN p : q[j].kind = p[j].kind /\ q[j].head = p[j].head
                           /\ q[j].args = p[j].args /\ q[j].level = p[j].level

LEMMA AdmitsAlike ==
    ASSUME NEW p, NEW q, Alike(p, q), NEW asked, NEW types
    PROVE  /\ Admits(q, asked, types) => Admits(p, asked, types)
           /\ NeverFree(q) => NeverFree(p)
<1>1. Reads(q, types) => Reads(p, types)
    BY DEF Alike, Reads
<1>2. InScope(q, types) => InScope(p, types)
    BY DEF Alike, InScope, Variables, IsVar, IsRigid
<1>3. NeverFree(q) => NeverFree(p)
    BY DEF Alike, NeverFree, IsNever
<1> QED BY <1>1, <1>2, <1>3 DEF Admits

LEMMA AlikeTransitive ==
    ASSUME NEW p, NEW q, NEW r, Alike(p, q), Alike(q, r)
    PROVE  Alike(p, r)
BY DEF Alike

LEMMA CompressAlike ==
    ASSUME NEW p, NEW S, WellFormed(p)
    PROVE  Alike(p, Compress(p, S))
<1> DEFINE q == Compress(p, S)
<1>1. DOMAIN q = DOMAIN p /\ \A j \in DOMAIN p : q[j] = [p[j] EXCEPT !.parent = q[j].parent]
    BY CompressWellFormed
<1>2. \A j \in DOMAIN p : p[j] \in Node
    BY DEF WellFormed
<1> HIDE DEF q
<1>3. ASSUME NEW j \in DOMAIN p
      PROVE  q[j].kind = p[j].kind /\ q[j].head = p[j].head
             /\ q[j].args = p[j].args /\ q[j].level = p[j].level
    <2> DEFINE m == q[j].parent
    <2>1. q[j] = [p[j] EXCEPT !.parent = m] /\ p[j] \in Node
        BY <1>1, <1>2
    <2> HIDE DEF m
    <2> QED BY <2>1 DEF Node
<1> QED BY <1>1, <1>3 DEF Alike, q

-----------------------------------------------------------------------------
(* Representatives stand for the same. *)

LEMMA RootReads ==
    ASSUME NEW p, WellFormed(p), Grounded(p), NEW types, Respects(p, types), NEW i \in DOMAIN p
    PROVE  types[Root(p, i)] = types[i]
<1> DEFINE S == {j \in DOMAIN p : types[Root(p, j)] # types[j]}
<1> SUFFICES ASSUME S # {} PROVE FALSE
    OBVIOUS
<1>1. PICK j \in S : Visited(p, j) \cap S = {}
    BY DEF Grounded
<1>2. HasRoot(p, j) /\ p[j].parent \in DOMAIN p
    BY RootFound DEF WellFormed, Refers
<1>3. CASE p[j].parent = j
    BY <1>2, <1>3 DEF HasRoot
<1>4. CASE p[j].parent # j
    <2>1. p[j].parent \notin S
        BY <1>1, <1>4 DEF Visited
    <2> QED BY <1>2, <1>4, <2>1 DEF HasRoot, Respects
<1> QED BY <1>3, <1>4

LEMMA CompressRespects ==
    ASSUME NEW p, WellFormed(p), Grounded(p), NEW types, Respects(p, types), NEW S
    PROVE  Respects(Compress(p, S), types)
<1> DEFINE q == Compress(p, S)
<1>1. DOMAIN q = DOMAIN p
    BY CompressWellFormed
<1> HIDE DEF q
<1> SUFFICES ASSUME NEW j \in DOMAIN p, q[j].parent # j
             PROVE  types[j] = types[q[j].parent]
    BY <1>1 DEF Respects, q
<1>2. q[j].parent = p[j].parent \/ q[j].parent = Root(p, j)
    BY CompressParents DEF q
<1>3. types[Root(p, j)] = types[j]
    BY RootReads
<1> QED BY <1>2, <1>3 DEF Respects

-----------------------------------------------------------------------------
(* The occurs check: what it visits, and why it may refuse. *)

\* What is below i: what all complete sets around it share.
Reach(p, i) == {k \in DOMAIN p : \A S \in SUBSET DOMAIN p : Complete(p, S) /\ i \in S => k \in S}

LEMMA ReachComplete ==
    ASSUME NEW p, WellFormed(p), NEW i \in DOMAIN p
    PROVE  i \in Reach(p, i) /\ Complete(p, Reach(p, i)) /\ Reach(p, i) \subseteq DOMAIN p
<1>1. \A j \in DOMAIN p : Visited(p, j) \subseteq DOMAIN p
    BY VisitedInPool DEF WellFormed
<1> QED BY <1>1 DEF Reach, Complete

LEMMA ReachLeast ==
    ASSUME NEW p, NEW S \in SUBSET DOMAIN p, Complete(p, S), NEW i \in S
    PROVE  Reach(p, i) \subseteq S
BY DEF Reach

LEMMA ReachStep ==
    ASSUME NEW p, WellFormed(p), NEW j \in DOMAIN p
    PROVE  Reach(p, j) = {j} \cup UNION {Reach(p, k) : k \in Visited(p, j)}
<1> DEFINE T == {j} \cup UNION {Reach(p, k) : k \in Visited(p, j)}
<1>1. Visited(p, j) \subseteq DOMAIN p
    BY VisitedInPool DEF WellFormed
<1>2. \A k \in Visited(p, j) : k \in Reach(p, k) /\ Complete(p, Reach(p, k)) /\ Reach(p, k) \subseteq DOMAIN p
    BY <1>1, ReachComplete
<1>3. T \in SUBSET DOMAIN p /\ Complete(p, T) /\ j \in T
    BY <1>2 DEF Complete
<1>4. Reach(p, j) \subseteq T
    <2> HIDE DEF T
    <2> QED BY <1>3, ReachLeast
<1>5. j \in Reach(p, j) /\ Complete(p, Reach(p, j)) /\ Reach(p, j) \subseteq DOMAIN p
    BY ReachComplete
<1>6. ASSUME NEW k \in Visited(p, j)
      PROVE  Reach(p, k) \subseteq Reach(p, j)
    <2>1. k \in Reach(p, j)
        BY <1>5 DEF Complete
    <2> QED BY <1>5, <2>1, ReachLeast
<1> QED BY <1>4, <1>5, <1>6

\* What check_occurs visits is all there is below.
LEMMA BelowIsReach ==
    ASSUME NEW p, WellFormed(p), Grounded(p), NEW i \in DOMAIN p
    PROVE  Below(p, i) = Reach(p, i)
<1> DEFINE Def(f) == f = [j \in DOMAIN p |-> {j} \cup UNION {f[k] : k \in Visited(p, j)}]
           reach == [j \in DOMAIN p |-> Reach(p, j)]
<1>1. \A j \in DOMAIN p : Visited(p, j) \subseteq DOMAIN p
    BY VisitedInPool DEF WellFormed
<1>2. Def(reach)
    <2>1. ASSUME NEW j \in DOMAIN p
          PROVE  reach[j] = {j} \cup UNION {reach[k] : k \in Visited(p, j)}
        <3>1. UNION {reach[k] : k \in Visited(p, j)} = UNION {Reach(p, k) : k \in Visited(p, j)}
            BY <1>1
        <3> QED BY <3>1, ReachStep
    <2> QED BY <2>1
<1> DEFINE below == CHOOSE f : Def(f)
<1>3. Def(below) /\ Below(p, i) = below[i]
    BY <1>2, Zenon DEF Below
<1> HIDE DEF below
<1>4. \A j \in DOMAIN p : below[j] = {j} \cup UNION {below[k] : k \in Visited(p, j)}
    BY <1>3, Zenon
<1>5. \A j \in DOMAIN p : below[j] = Reach(p, j)
    <2> DEFINE S == {j \in DOMAIN p : below[j] # Reach(p, j)}
    <2> SUFFICES ASSUME S # {} PROVE FALSE
        OBVIOUS
    <2>1. PICK j \in S : Visited(p, j) \cap S = {}
        BY DEF Grounded
    <2>2. \A k \in Visited(p, j) : below[k] = Reach(p, k)
        BY <1>1, <2>1
    <2>3. UNION {below[k] : k \in Visited(p, j)} = UNION {Reach(p, k) : k \in Visited(p, j)}
        BY <2>2
    <2> QED BY <1>4, <2>3, ReachStep
<1> QED BY <1>3, <1>5

LEMMA AvoidsExact ==
    ASSUME NEW p, WellFormed(p), Grounded(p), NEW t \in DOMAIN p, NEW v, ~Avoids(p, v, t)
    PROVE  v \in Reach(p, t)
BY BelowIsReach, ReachComplete DEF Avoids

\* What is visited below a type that represents itself stands for a part of it.
LEMMA VisitedPart ==
    ASSUME NEW p, WellFormed(p), NEW types, Reads(p, types), NEW j \in DOMAIN p, p[j].parent = j,
           NEW k \in Visited(p, j)
    PROVE  \E m \in DOMAIN types[j].args : types[j].args[m] = types[k]
<1>1. Refers(p, j)
    BY DEF WellFormed
<1>2. PICK m \in DOMAIN p[j].args : k = p[j].args[m]
    BY DEF Visited
<1>3. p[j].kind = "con"
    <2>1. p[j].args # <<>>
        BY <1>2
    <2> QED BY <1>1, <2>1 DEF Refers
<1> DEFINE parts == [n \in DOMAIN p[j].args |-> types[p[j].args[n]]]
<1>4. types[j] = term(p[j].head, parts)
    BY <1>3 DEF Reads
<1>5. types[j].args = parts
    BY <1>4 DEF term
<1> QED BY <1>2, <1>5

\* A variable that is in a type stands for a part of it, and so not for the type.
LEMMA OccursNever ==
    ASSUME NEW p, WellFormed(p), Grounded(p), NEW types, Reads(p, types), Respects(p, types),
           NEW t \in DOMAIN p, p[t].parent = t, NEW v \in Reach(p, t), v # t, types[v] = types[t],
           IsVar(p, v)
    PROVE  FALSE
<1> DEFINE G == {j \in DOMAIN p : types[j] \in Ground}
           C == {j \in Reach(p, t) : v \in Reach(p, j)}
           T == {types[j] : j \in C}
<1>1. Reach(p, t) \subseteq DOMAIN p /\ t \in Reach(p, t) /\ Complete(p, Reach(p, t))
    BY ReachComplete
<1>2. Complete(p, G)
    <2> SUFFICES ASSUME NEW j \in G, NEW k \in Visited(p, j) PROVE k \in G
        BY DEF Complete
    <2>1. k \in DOMAIN p
        BY VisitedInPool DEF WellFormed
    <2>2. CASE p[j].parent # j
        BY <2>1, <2>2 DEF Visited, Respects
    <2>3. CASE p[j].parent = j
        <3>1. PICK m \in DOMAIN types[j].args : types[j].args[m] = types[k]
            BY <2>3, VisitedPart
        <3>2. types[j] \in Ground
            OBVIOUS
        <3> QED BY <2>1, <3>1, <3>2, GroundAssumption
    <2> QED BY <2>2, <2>3
<1>3. Reach(p, t) \subseteq G
    <2>1. types[v] \in Ground
        BY <1>1 DEF Reads, IsVar
    <2>2. t \in G
        BY <2>1
    <2>3. G \in SUBSET DOMAIN p
        OBVIOUS
    <2> HIDE DEF G
    <2> QED BY <1>2, <2>2, <2>3, ReachLeast
<1>4. T \in SUBSET Ground /\ t \in C
    BY <1>1, <1>3
<1>5. PICK x \in T : \A k \in DOMAIN x.args : x.args[k] \notin T
    <2>1. T # {}
        BY <1>4
    <2> HIDE DEF T
    <2> QED BY <1>4, <2>1, GroundAssumption
\* Below every node of C but v there is one of C.
<1>6. ASSUME NEW j \in C, j # v
      PROVE  \E k \in Visited(p, j) : k \in C
    <2>1. Reach(p, j) = {j} \cup UNION {Reach(p, k) : k \in Visited(p, j)}
        BY <1>1, ReachStep
    <2>2. PICK k \in Visited(p, j) : v \in Reach(p, k)
        BY <1>6, <2>1
    <2>3. k \in Reach(p, t)
        BY <1>1 DEF Complete
    <2> QED BY <2>2, <2>3
<1>7. ASSUME NEW j \in C, types[j] = x, p[j].parent = j, j # v
      PROVE  FALSE
    <2>1. PICK k \in Visited(p, j) : k \in C
        BY <1>6, <1>7
    <2>2. j \in DOMAIN p
        BY <1>1
    <2>3. \E m \in DOMAIN types[j].args : types[j].args[m] = types[k]
        BY <1>7, <2>2, VisitedPart
    <2> QED BY <1>5, <1>7, <2>1, <2>3
<1> DEFINE N == {j \in C : types[j] = x}
<1>8. N # {} /\ N \in SUBSET DOMAIN p
    BY <1>1
<1>9. PICK j \in N : Visited(p, j) \cap N = {}
    <2> HIDE DEF N
    <2> QED BY <1>8 DEF Grounded
<1>10. CASE j = v
    BY <1>4, <1>7, <1>9, <1>10
<1>11. CASE j # v
    <2>1. PICK k \in Visited(p, j) : k \in C
        BY <1>6, <1>9, <1>11
    <2>2. p[j].parent # j
        BY <1>7, <1>9, <1>11
    <2>3. types[k] = types[j]
        BY <1>1, <1>9, <2>1, <2>2 DEF Visited, Respects
    <2> QED BY <1>9, <2>1, <2>3
<1> QED BY <1>10, <1>11

-----------------------------------------------------------------------------
(* One comparison. *)

\* What is bound together stands for the same, and so do the pairs left to compare.
Means(c, types) ==
    /\ c.ok
    /\ \A b \in c.bind : types[b[1]] = types[b[2]]
    /\ \A n \in DOMAIN c.more : types[c.more[n][1]] = types[c.more[n][2]]

LEMMA BindMeans ==
    ASSUME NEW v, NEW t, NEW types, types[v] = types[t]
    PROVE  Means(Bind(v, t), types)
BY DEF Means, Bind

\* A variable is not in a type it stands for.
LEMMA BindTypeMeans ==
    ASSUME NEW p, WellFormed(p), Grounded(p), NEW types, Reads(p, types), Respects(p, types),
           NEW v \in Roots(p), NEW t \in Roots(p), v # t, IsVar(p, v), types[v] = types[t]
    PROVE  Avoids(p, v, t)
<1> SUFFICES ASSUME ~Avoids(p, v, t) PROVE FALSE
    OBVIOUS
<1>1. t \in DOMAIN p /\ p[t].parent = t
    BY DEF Roots
<1>2. v \in Reach(p, t)
    BY <1>1, AvoidsExact
<1> QED BY <1>1, <1>2, OccursNever

LEMMA ConReads ==
    ASSUME NEW p, NEW types, Reads(p, types), NEW j \in DOMAIN p, p[j].kind = "con"
    PROVE  /\ types[j].head = p[j].head /\ types[j].id = 0
           /\ DOMAIN types[j].args = DOMAIN p[j].args
           /\ \A k \in DOMAIN p[j].args : types[j].args[k] = types[p[j].args[k]]
<1> DEFINE f == [k \in DOMAIN p[j].args |-> types[p[j].args[k]]]
<1>1. types[j] = term(p[j].head, f)
    BY DEF Reads
<1>2. types[j].head = p[j].head /\ types[j].id = 0 /\ types[j].args = f
    <2> HIDE DEF f
    <2> QED BY <1>1 DEF term
<1> QED BY <1>2

LEMMA RigidReads ==
    ASSUME NEW p, NEW types, Reads(p, types), NEW j \in DOMAIN p, IsRigid(p, j)
    PROVE  types[j].id = j
<1>1. types[j] = rigidTerm(j)
    BY DEF Reads, IsRigid
<1> QED BY <1>1 DEF rigidTerm

LEMMA SameLength ==
    ASSUME NEW as \in Seq(Nat), NEW bs \in Seq(Nat), DOMAIN as = DOMAIN bs
    PROVE  Len(as) = Len(bs)
<1>1. DOMAIN as = 1..Len(as) /\ Len(as) \in Nat /\ DOMAIN bs = 1..Len(bs) /\ Len(bs) \in Nat
    BY LenProperties
<1>2. 1..Len(as) = 1..Len(bs)
    BY <1>1
<1> DEFINE m == Len(as)
           n == Len(bs)
<1> HIDE DEF m, n
<1>3. m \in Nat /\ n \in Nat /\ 1..m = 1..n
    BY <1>1, <1>2 DEF m, n
<1>4. m = n
    <2>1. m = 0 \/ m \in 1..n
        BY <1>3
    <2>2. n = 0 \/ n \in 1..m
        BY <1>3
    <2> QED BY <1>3, <2>1, <2>2
<1> QED BY <1>4 DEF m, n

PartsEqual(as, bs, types) == DOMAIN as = DOMAIN bs /\ \A k \in DOMAIN as : types[as[k]] = types[bs[k]]

LEMMA PartsMean ==
    ASSUME NEW as, NEW bs, NEW types, PartsEqual(as, bs, types)
    PROVE  Means(Parts(as, bs), types)
<1> DEFINE more == [k \in DOMAIN as |-> <<as[k], bs[k]>>]
<1>1. \A n \in DOMAIN more : types[more[n][1]] = types[more[n][2]]
    BY DEF PartsEqual
<1>2. Parts(as, bs) = [ok |-> TRUE, bind |-> {}, more |-> more]
    BY DEF Parts
<1> HIDE DEF more
<1> QED BY <1>1, <1>2 DEF Means

LEMMA ComparedMeans ==
    ASSUME NEW p, WellFormed(p), Grounded(p), NeverFree(p), NEW types, Reads(p, types), InScope(p, types),
           Respects(p, types), NEW r \in Roots(p), NEW s \in Roots(p), types[r] = types[s]
    PROVE  Means(Compared(p, r, s), types)
<1> DEFINE c == Compared(p, r, s)
<1>0. /\ r \in DOMAIN p /\ s \in DOMAIN p /\ Refers(p, r) /\ Refers(p, s)
      /\ ~IsNever(p, r) /\ p[r] \in Node /\ p[s] \in Node /\ r \in Nat \ {0} /\ s \in Nat \ {0}
    BY DEF WellFormed, Roots, NeverFree
<1>10. p[r].kind \in {"var", "rigid", "con"} /\ p[s].kind \in {"var", "rigid", "con"}
    BY <1>0 DEF Node
<1>1. CASE r = s
    <2>1. c = Equal
        BY <1>1 DEF Compared, IsRigid, IsVar, IsNever
    <2> QED BY <2>1 DEF Equal, Means
<1>2. CASE IsRigid(p, r) /\ IsVar(p, s)
    <2>1. c = BindRigid(p, s, r)
        BY <1>2 DEF Compared, IsRigid, IsVar, IsNever
    <2>2. types[s] = rigidTerm(r) /\ s # r
        BY <1>0, <1>2 DEF Reads, IsRigid, IsVar
    <2>3. p[s].level > p[r].level
        BY <1>0, <1>2, <2>2 DEF InScope, Variables
    <2>4. Avoids(p, s, r)
        BY <1>2, <2>2, BindTypeMeans
    <2>5. c = Bind(s, r)
        BY <2>1, <2>3, <2>4 DEF BindRigid
    <2> QED BY <2>5, BindMeans
<1>3. CASE IsVar(p, r) /\ IsRigid(p, s)
    <2>1. c = BindRigid(p, r, s)
        BY <1>3 DEF Compared, IsRigid, IsVar, IsNever
    <2>2. types[r] = rigidTerm(s) /\ r # s
        BY <1>0, <1>3 DEF Reads, IsRigid, IsVar
    <2>3. p[r].level > p[s].level
        BY <1>0, <1>3, <2>2 DEF InScope, Variables
    <2>4. Avoids(p, r, s)
        BY <1>3, <2>2, BindTypeMeans
    <2>5. c = Bind(r, s)
        BY <2>1, <2>3, <2>4 DEF BindRigid
    <2> QED BY <2>5, BindMeans
<1>4. CASE r # s /\ IsVar(p, r) /\ IsVar(p, s)
    <2>1. c = BindVars(p, r, s)
        BY <1>4 DEF Compared, IsRigid, IsVar, IsNever
    <2>2. c = Bind(s, r) \/ c = Bind(r, s)
        BY <2>1 DEF BindVars
    <2> QED BY <2>2, BindMeans
<1>5. CASE IsVar(p, r) /\ p[s].kind = "con"
    <2>1. c = BindType(p, r, s)
        BY <1>5 DEF Compared, IsRigid, IsVar, IsNever
    <2>2. Avoids(p, r, s)
        BY <1>5, BindTypeMeans DEF IsVar
    <2>3. c = Bind(r, s)
        BY <2>1, <2>2 DEF BindType
    <2> QED BY <2>3, BindMeans
<1>6. CASE p[r].kind = "con" /\ IsVar(p, s)
    <2>1. c = BindType(p, s, r)
        BY <1>0, <1>6 DEF Compared, IsRigid, IsVar, IsNever
    <2>2. Avoids(p, s, r)
        BY <1>6, BindTypeMeans DEF IsVar
    <2>3. c = Bind(s, r)
        BY <2>1, <2>2 DEF BindType
    <2> QED BY <2>3, BindMeans
<1>7. CASE r # s /\ p[r].kind = "con" /\ p[s].kind = "con"
    <2> DEFINE as == p[r].args
               bs == p[s].args
    <2>1. /\ types[r].head = p[r].head /\ DOMAIN types[r].args = DOMAIN as
          /\ \A k \in DOMAIN as : types[r].args[k] = types[as[k]]
        BY <1>0, <1>7, ConReads
    <2>2. /\ types[s].head = p[s].head /\ DOMAIN types[s].args = DOMAIN bs
          /\ \A k \in DOMAIN bs : types[s].args[k] = types[bs[k]]
        BY <1>0, <1>7, ConReads
    <2>3. DOMAIN as = DOMAIN bs /\ \A k \in DOMAIN as : types[as[k]] = types[bs[k]]
        BY <2>1, <2>2
    <2>4. as \in Seq(Nat) /\ bs \in Seq(Nat)
        BY <1>0 DEF Node
    <2>5. Len(as) = Len(bs)
        <3> HIDE DEF as, bs
        <3> QED BY <2>3, <2>4, SameLength
    <2>6. c = Parts(as, bs)
        BY <1>0, <1>7, <2>1, <2>2, <2>5 DEF Compared, IsRigid, IsVar, IsNever
    <2> HIDE DEF as, bs
    <2>7. PartsEqual(as, bs, types)
        BY <2>3 DEF PartsEqual
    <2>8. Means(Parts(as, bs), types)
        BY <2>7, PartsMean
    <2> QED BY <2>6, <2>8
<1>8. CASE IsRigid(p, r) /\ r # s /\ ~IsVar(p, s)
    <2>1. types[r].id = r
        BY <1>0, <1>8, RigidReads
    <2>2. IsRigid(p, s) \/ p[s].kind = "con"
        BY <1>8, <1>10 DEF IsVar, IsRigid
    <2>3. types[s].id = s \/ types[s].id = 0
        BY <1>0, <2>2, RigidReads, ConReads
    <2> QED BY <1>0, <1>8, <2>1, <2>3
<1>9. CASE p[r].kind = "con" /\ IsRigid(p, s)
    <2>1. types[r].id = 0
        BY <1>0, <1>9, ConReads
    <2>2. types[s].id = s
        BY <1>0, <1>9, RigidReads
    <2> QED BY <1>0, <2>1, <2>2
<1> QED BY <1>1, <1>2, <1>3, <1>4, <1>5, <1>6, <1>7, <1>8, <1>9, <1>10 DEF IsVar, IsRigid

\* Binding keeps what the nodes are but for their parents.
LEMMA BoundAt ==
    ASSUME NEW p, WellFormed(p), NEW bind, NEW j \in DOMAIN p
    PROVE  LET q == Bound(p, bind) IN
           /\ q[j].kind = p[j].kind /\ q[j].head = p[j].head
           /\ q[j].args = p[j].args /\ q[j].level = p[j].level
           /\ q[j].parent = p[j].parent \/ <<j, q[j].parent>> \in bind
<1> DEFINE q == Bound(p, bind)
           m == CHOOSE t \in DOMAIN p : <<j, t>> \in bind
<1>1. CASE \E t \in DOMAIN p : <<j, t>> \in bind
    <2>1. <<j, m>> \in bind
        BY <1>1
    <2>2. q[j] = [p[j] EXCEPT !.parent = m]
        BY <1>1 DEF Bound
    <2>3. p[j] \in Node
        BY DEF WellFormed
    <2> HIDE DEF m, q
    <2>4. /\ q[j].kind = p[j].kind /\ q[j].head = p[j].head /\ q[j].args = p[j].args
          /\ q[j].level = p[j].level /\ q[j].parent = m
        BY <2>2, <2>3 DEF Node
    <2> QED BY <2>1, <2>4 DEF q
<1>2. CASE ~\E t \in DOMAIN p : <<j, t>> \in bind
    <2>1. q[j] = p[j]
        BY <1>2 DEF Bound
    <2> QED BY <2>1
<1> QED BY <1>1, <1>2

LEMMA BoundAlike ==
    ASSUME NEW p, WellFormed(p), NEW bind
    PROVE  Alike(p, Bound(p, bind)) /\ DOMAIN Bound(p, bind) = DOMAIN p
<1> DEFINE q == Bound(p, bind)
<1>1. DOMAIN q = DOMAIN p
    BY DEF Bound
<1>2. ASSUME NEW j \in DOMAIN p
      PROVE  /\ q[j].kind = p[j].kind /\ q[j].head = p[j].head
             /\ q[j].args = p[j].args /\ q[j].level = p[j].level
    BY BoundAt
<1> HIDE DEF q
<1>3. Alike(p, q)
    BY <1>1, <1>2 DEF Alike
<1> QED BY <1>1, <1>3 DEF q

\* If both sides of what is bound stand for the same, so do a variable and its parent.
LEMMA BoundRespects ==
    ASSUME NEW p, WellFormed(p), NEW c, NEW types, Respects(p, types), Means(c, types)
    PROVE  Respects(Bound(p, c.bind), types)
<1> DEFINE bind == c.bind
           q == Bound(p, bind)
<1>1. DOMAIN q = DOMAIN p
    BY BoundAlike
<1>2. ASSUME NEW j \in DOMAIN p, q[j].parent # j
      PROVE  types[j] = types[q[j].parent]
    <2> DEFINE m == q[j].parent
               b == <<j, m>>
    <2>1. m = p[j].parent \/ b \in bind
        BY BoundAt
    <2>2. b \in bind => types[b[1]] = types[b[2]]
        <3> HIDE DEF b
        <3> QED BY DEF Means
    <2> HIDE DEF m
    <2>3. b \in bind => types[j] = types[m]
        BY <2>2
    <2>4. p[j].parent # j => types[j] = types[p[j].parent]
        BY DEF Respects
    <2> QED BY <1>2, <2>1, <2>3, <2>4 DEF m
<1> HIDE DEF q
<1> QED BY <1>1, <1>2 DEF Respects, q

-----------------------------------------------------------------------------
(* The machine: most general. *)

\* Whatever makes what was asked for equal, makes a variable equal to what it is bound
\* to, and the pairs still to be compared to each other.
Forced(p, asked, todo) ==
    NeverFree(p) => \A types : Admits(p, asked, types) => Respects(p, types) /\ Solves(todo, types)

Impossible(p, asked) == NeverFree(p) => \A types : ~Admits(p, asked, types)

General ==
    /\ ~failed => Forced(pool, goals, agenda)
    /\ failed => Impossible(pool, goals)
    /\ agenda # <<>> => ~failed
    /\ trying => Forced(saved, Earlier, <<>>)

Follows(p, q) == \A types : Respects(p, types) => Respects(q, types)

LEMMA ForcedKept ==
    ASSUME NEW p, NEW q, Alike(p, q), Follows(p, q), NEW asked, NEW todo, Forced(p, asked, todo)
    PROVE  Forced(q, asked, todo)
BY AdmitsAlike DEF Forced, Follows

LEMMA CompressFollows ==
    ASSUME NEW p, WellFormed(p), Grounded(p), NEW S
    PROVE  Alike(p, Compress(p, S)) /\ Follows(p, Compress(p, S))
<1>1. Alike(p, Compress(p, S))
    BY CompressAlike
<1> QED BY <1>1, CompressRespects DEF Follows

LEMMA PushedFollows ==
    ASSUME NEW p, WellFormed(p), NEW node, node.parent = Len(p) + 1
    PROVE  Alike(p, Append(p, node)) /\ Follows(p, Append(p, node))
<1> DEFINE q == Append(p, node)
           new == Len(p) + 1
<1>1. p \in Seq(Node)
    BY DEF WellFormed
<1>2. /\ DOMAIN q = DOMAIN p \cup {new} /\ q[new] = node
      /\ \A j \in DOMAIN p : q[j] = p[j]
    BY <1>1
<1>3. q[new].parent = new
    BY <1>2
<1> HIDE DEF q, new
<1>4. Alike(p, q)
    BY <1>2 DEF Alike
<1>5. Follows(p, q)
    BY <1>2, <1>3 DEF Follows, Respects
<1> QED BY <1>4, <1>5 DEF q

LEMMA FollowsTransitive ==
    ASSUME NEW p, NEW q, NEW r, Follows(p, q), Follows(q, r)
    PROVE  Follows(p, r)
BY DEF Follows

LEMMA InitGeneral == Init => General
<1> SUFFICES ASSUME Init PROVE General
    OBVIOUS
<1>1. goals = <<>> /\ agenda = <<>> /\ ~trying /\ ~failed /\ pool \in Pools
    BY DEF Init
<1>2. Forced(pool, goals, agenda)
    <2>1. \A i \in DOMAIN pool : pool[i].parent = i
        BY <1>1, BuiltinsAssumption DEF Roots
    <2> QED BY <1>1, <2>1 DEF Forced, Respects, Solves
<1> QED BY <1>1, <1>2 DEF General

\* The pool grows and nothing is asked.
LEMMA GrowGeneral ==
    ASSUME General, NothingKept, Alike(pool, pool'), Follows(pool, pool'), agenda = <<>>, ~failed,
           UNCHANGED <<agenda, trying, goals, failed>>
    PROVE  General'
BY ForcedKept DEF General, NothingKept

LEMMA NewVariableGeneral ==
    ASSUME IInv, NothingKept, General, NEW kind \in {"var", "rigid"}, NEW level \in Levels,
           NewVariable(kind, level)
    PROVE  General'
<1> DEFINE node == Variable(kind, Len(pool) + 1, level)
<1>1. /\ WellFormed(pool) /\ pool' = Append(pool, node) /\ agenda = <<>> /\ ~failed
      /\ UNCHANGED <<agenda, trying, goals, failed>>
    BY DEF IInv, TypeOK, NewVariable, Pushed, Idle
<1>2. node.parent = Len(pool) + 1
    BY DEF Variable
<1> HIDE DEF node
<1>3. Alike(pool, pool') /\ Follows(pool, pool')
    BY <1>1, <1>2, PushedFollows
<1> QED BY <1>1, <1>3, GrowGeneral

\* Paths are shortened, and then a node of its own may be added.
LEMMA InternMakes ==
    ASSUME NEW p, NEW table, NEW head, NEW args
    PROVE  LET made == Intern(p, table, head, args)
               q == Compress(p, {args[k] : k \in DOMAIN args})
               roots == [k \in DOMAIN args |-> Root(p, args[k])]
           IN made.pool = q \/ made.pool = Append(q, Con(Len(p) + 1, head, roots))
<1> DEFINE q == Compress(p, {args[k] : k \in DOMAIN args})
           node == Con(Len(p) + 1, head, [k \in DOMAIN args |-> Root(p, args[k])])
<1> SUFFICES Intern(p, table, head, args).pool = q \/ Intern(p, table, head, args).pool = Append(q, node)
    OBVIOUS
<1> HIDE DEF q, node
<1> QED BY DEF Intern, Pushed, q, node

LEMMA InternFollows ==
    ASSUME NEW p, WellFormed(p), Grounded(p), NEW table, NEW head, NEW args
    PROVE  LET made == Intern(p, table, head, args) IN Alike(p, made.pool) /\ Follows(p, made.pool)
<1> DEFINE made == Intern(p, table, head, args)
           q == Compress(p, {args[k] : k \in DOMAIN args})
           node == Con(Len(p) + 1, head, [k \in DOMAIN args |-> Root(p, args[k])])
<1>1. made.pool = q \/ made.pool = Append(q, node)
    BY InternMakes
<1>2. WellFormed(q) /\ DOMAIN q = DOMAIN p /\ Alike(p, q) /\ Follows(p, q)
    BY CompressWellFormed, CompressFollows
<1>3. node.parent = Len(p) + 1
    BY DEF Con
<1> HIDE DEF q, node, made
<1>4. Len(q) = Len(p)
    BY <1>2, LenProperties DEF WellFormed
<1>5. Alike(q, Append(q, node)) /\ Follows(q, Append(q, node))
    BY <1>2, <1>3, <1>4, PushedFollows
<1>6. Alike(p, Append(q, node)) /\ Follows(p, Append(q, node))
    BY <1>2, <1>5, AlikeTransitive, FollowsTransitive
<1> QED BY <1>1, <1>2, <1>6 DEF made

LEMMA NewTypeGeneral ==
    ASSUME IInv, NothingKept, General, NEW shape \in Shapes, NewType(shape[1], shape[2])
    PROVE  General'
<1>1. /\ WellFormed(pool) /\ Grounded(pool) /\ agenda = <<>> /\ ~failed
      /\ pool' = Intern(pool, intern, shape[1], shape[2]).pool
      /\ UNCHANGED <<agenda, trying, goals, failed>>
    BY DEF IInv, TypeOK, Acyclic, NewType, Idle
<1>2. Alike(pool, pool') /\ Follows(pool, pool')
    BY <1>1, InternFollows
<1> QED BY <1>1, <1>2, GrowGeneral

LEMMA AskGeneral ==
    ASSUME IInv, NothingKept, Settlement, General, NEW q \in Questions, NEW try \in BOOLEAN,
           Ask(q[1], q[2], try)
    PROVE  General'
<1> DEFINE pair == <<q[1], q[2]>>
<1>1. /\ agenda = <<>> /\ ~failed /\ ~trying /\ agenda' = <<pair>>
      /\ goals' = Append(goals, pair) /\ pool' = pool /\ failed' = failed
      /\ trying' = try /\ (try => saved' = pool)
    BY DEF Ask, Idle, NothingKept
<1>2. pair \in Nat \X Nat
    <2>1. DOMAIN pool \subseteq Nat
        BY DEF IInv, TypeOK, WellFormed
    <2>2. q[1] \in DOMAIN pool /\ q[2] \in DOMAIN pool
        BY DEF Ask
    <2> QED BY <2>1, <2>2
<1> HIDE DEF pair
<1>3. goals \in Seq(Nat \X Nat)
    BY DEF Settlement
<1>4. SubSeq(goals', 1, Len(goals') - 1) = goals
    <2>1. Len(goals') = Len(goals) + 1
        BY <1>1, <1>2, <1>3
    <2> QED BY <1>1, <1>2, <1>3, <2>1, AppendProperties
<1>5. /\ \A n \in DOMAIN goals : n \in DOMAIN goals' /\ goals'[n] = goals[n]
      /\ Len(goals) + 1 \in DOMAIN goals' /\ goals'[Len(goals) + 1] = pair
    BY <1>1, <1>2, <1>3
<1>6. ASSUME NEW types, Admits(pool, goals', types)
      PROVE  Admits(pool, goals, types) /\ Solves(<<pair>>, types)
    <2>1. Solves(goals', types)
        BY <1>6 DEF Admits
    <2>2. Solves(goals, types)
        BY <1>5, <2>1 DEF Solves
    <2>3. types[pair[1]] = types[pair[2]]
        BY <1>5, <2>1 DEF Solves
    <2> QED BY <1>6, <2>2, <2>3 DEF Admits, Solves
<1>7. Forced(pool, goals, <<>>)
    BY <1>1 DEF General
<1>8. Forced(pool', goals', agenda')
    BY <1>1, <1>6, <1>7 DEF Forced
<1>9. Earlier' = goals
    BY <1>4 DEF Earlier
<1>10. try => Forced(saved', Earlier', <<>>)
    BY <1>1, <1>7, <1>9
<1> QED BY <1>1, <1>8, <1>10 DEF General

\* The pair at the head of the agenda: what it forces decides the comparison.
LEMMA HeadMeans ==
    ASSUME IInv, General, Comparing
    PROVE  /\ Forced(Shortened, goals, agenda)
           /\ NeverFree(Shortened) => \A types : Admits(Shortened, goals, types) => Means(Found, types)
<1> DEFINE p == Shortened
<1>1. /\ WellFormed(pool) /\ Grounded(pool) /\ WellFormed(p) /\ Grounded(p) /\ DOMAIN p = DOMAIN pool
      /\ Alike(pool, p) /\ Follows(pool, p)
    BY ShortenedSafe, CompressFollows DEF IInv, TypeOK, Acyclic, Shortened
<1>2. Head(agenda) \in (DOMAIN pool) \X (DOMAIN pool) /\ agenda # <<>> /\ ~failed
      /\ Left \in Roots(p) /\ Right \in Roots(p) /\ 1 \in DOMAIN agenda /\ agenda[1] = Head(agenda)
    <2>1. agenda \in Seq((DOMAIN pool) \X (DOMAIN pool)) /\ agenda # <<>>
        BY DEF IInv, TypeOK, Comparing
    <2> QED BY <2>1 DEF General, Comparing
<1> DEFINE a == Head(agenda)[1]
           b == Head(agenda)[2]
<1>3. a \in DOMAIN p /\ b \in DOMAIN p
    BY <1>1, <1>2
<1>4. Left = Root(p, a) /\ Right = Root(p, b)
    BY <1>1, <1>3, CompressRoots DEF Left, Right, Shortened
<1> HIDE DEF p
<1>5. Forced(p, goals, agenda)
    BY <1>1, <1>2, ForcedKept DEF General
<1>6. ASSUME NeverFree(p), NEW types, Admits(p, goals, types)
      PROVE  Means(Found, types)
    <2>1. Respects(p, types) /\ Solves(agenda, types)
        BY <1>5, <1>6 DEF Forced
    <2>2. types[a] = types[b]
        BY <1>2, <2>1 DEF Solves
    <2> HIDE DEF a, b
    <2>3. types[Left] = types[Right]
        BY <1>1, <1>3, <1>4, <2>1, <2>2, RootReads
    <2>4. Reads(p, types) /\ InScope(p, types)
        BY <1>6 DEF Admits
    <2> QED BY <1>1, <1>2, <1>6, <2>1, <2>3, <2>4, ComparedMeans DEF Found, p
<1> QED BY <1>5, <1>6 DEF p

LEMMA SolvesJoined ==
    ASSUME NEW T, NEW more \in Seq(T), NEW todo \in Seq(T), todo # <<>>, NEW types,
           Solves(more, types), Solves(todo, types)
    PROVE  Solves(more \o Tail(todo), types)
<1> DEFINE rest == more \o Tail(todo)
<1>1. ASSUME NEW n \in DOMAIN rest
      PROVE  (\E k \in DOMAIN more : rest[n] = more[k]) \/ \E k \in DOMAIN todo : rest[n] = todo[k]
    <2>1. Tail(todo) \in Seq(T) /\ Len(Tail(todo)) = Len(todo) - 1 /\ Len(more) \in Nat /\ Len(todo) \in Nat
        OBVIOUS
    <2>2. CASE n <= Len(more)
        <3>1. n \in DOMAIN more /\ rest[n] = more[n]
            BY <2>1, <2>2
        <3> QED BY <3>1
    <2>3. CASE ~(n <= Len(more))
        <3> DEFINE k == n - Len(more) + 1
        <3>1. k \in DOMAIN todo /\ rest[n] = Tail(todo)[n - Len(more)] /\ Tail(todo)[n - Len(more)] = todo[k]
            BY <2>1, <2>3
        <3> HIDE DEF k
        <3> QED BY <3>1
    <2> QED BY <2>2, <2>3
<1> HIDE DEF rest
<1> QED BY <1>1 DEF Solves, rest

LEMMA AgreeGeneral ==
    ASSUME IInv, General, Agree
    PROVE  General'
<1> DEFINE p == Shortened
           c == Found
<1>1. /\ c.ok /\ pool' = Bound(p, c.bind) /\ agenda' = c.more \o Tail(agenda)
      /\ goals' = goals /\ failed' = failed /\ (trying' => trying /\ saved' = saved)
      /\ Comparing /\ agenda # <<>> /\ ~failed
    BY DEF Agree, Comparing, General
<1>2. WellFormed(p) /\ DOMAIN p = DOMAIN pool
    BY ShortenedSafe
<1>3. Left \in Roots(p) /\ Right \in Roots(p) /\ c = Compared(p, Left, Right)
    BY <1>1 DEF Comparing, Found
<1> DEFINE T == (DOMAIN p) \X (DOMAIN p)
<1>4. c.more \in Seq(T) /\ agenda \in Seq(T)
    <2>1. agenda \in Seq(T)
        BY <1>2 DEF IInv, TypeOK
    <2>2. <<>> \in Seq(T)
        OBVIOUS
    <2> HIDE DEF c, p
    <2> QED BY <1>1, <1>2, <1>3, <2>1, <2>2, ComparedBinds
<1> HIDE DEF p, T
<1>5. Forced(p, goals, agenda)
    BY <1>1, HeadMeans DEF p
<1>6. NeverFree(p) => \A types : Admits(p, goals, types) => Means(c, types)
    BY <1>1, HeadMeans DEF p
<1> HIDE DEF c
<1>7. Alike(p, pool')
    BY <1>1, <1>2, BoundAlike
<1>8. ASSUME NeverFree(pool'), NEW types, Admits(pool', goals, types)
      PROVE  Respects(pool', types) /\ Solves(agenda', types)
    <2>1. NeverFree(p) /\ Admits(p, goals, types)
        BY <1>7, <1>8, AdmitsAlike
    <2>2. Respects(p, types) /\ Solves(agenda, types) /\ Means(c, types)
        BY <1>5, <1>6, <2>1 DEF Forced
    <2>3. Respects(pool', types)
        BY <1>1, <1>2, <2>2, BoundRespects
    <2>4. Solves(c.more, types)
        BY <2>2 DEF Means, Solves
    <2>5. Solves(agenda', types)
        <3> DEFINE more == c.more
        <3>1. more \in Seq(T) /\ Solves(more, types) /\ agenda' = more \o Tail(agenda)
            BY <1>1, <1>4, <2>4
        <3> HIDE DEF more
        <3> QED BY <1>1, <1>4, <2>2, <3>1, SolvesJoined
    <2> QED BY <2>3, <2>5
<1>9. Forced(pool', goals', agenda')
    BY <1>1, <1>8 DEF Forced
<1>10. trying' => Forced(saved', Earlier', <<>>)
    BY <1>1 DEF General, Earlier
<1> QED BY <1>1, <1>9, <1>10 DEF General

\* The error of unify: nothing makes equal what was asked for.
LEMMA FailGeneral ==
    ASSUME IInv, General, Fail
    PROVE  General'
<1>1. /\ Comparing /\ ~Found.ok /\ pool' = Shortened /\ agenda' = <<>> /\ goals' = goals
      /\ failed' = TRUE /\ ~trying' 
    BY DEF Fail
<1>2. NeverFree(Shortened) => \A types : Admits(Shortened, goals, types) => Means(Found, types)
    BY <1>1, HeadMeans
<1>3. Impossible(pool', goals')
    BY <1>1, <1>2 DEF Impossible, Means
<1> QED BY <1>1, <1>3 DEF General

LEMMA TakeBackGeneral ==
    ASSUME General, TakeBack
    PROVE  General'
<1>1. /\ trying /\ pool' = saved /\ agenda' = <<>> /\ ~trying' /\ failed' = failed
      /\ goals' = Earlier /\ agenda # <<>>
    BY DEF TakeBack, Earlier, Comparing
<1> QED BY <1>1 DEF General

LEMMA NextGeneral ==
    ASSUME IInv, NothingKept, Settlement, General, [Next]_vars
    PROVE  General'
<1>1. CASE UNCHANGED vars
    BY <1>1 DEF General, Earlier, vars
<1>2. CASE \E kind \in {"var", "rigid"}, level \in Levels : NewVariable(kind, level)
    BY <1>2, NewVariableGeneral
<1>3. CASE \E shape \in Shapes : NewType(shape[1], shape[2])
    BY <1>3, NewTypeGeneral
<1>4. CASE \E q \in Questions, try \in BOOLEAN : Ask(q[1], q[2], try)
    BY <1>4, AskGeneral
<1>5. CASE Agree
    BY <1>5, AgreeGeneral
<1>6. CASE Fail
    BY <1>6, FailGeneral
<1>7. CASE TakeBack
    BY <1>7, TakeBackGeneral
<1> QED BY <1>1, <1>2, <1>3, <1>4, <1>5, <1>6, <1>7 DEF Next

\* Whatever makes the types asked for equal respects every binding, in the pool as it is
\* and in the one that may be taken back.
THEOREM GeneralInvariance == Spec => []General
<1>1. Init => General
    BY InitGeneral
<1>2. (IInv /\ NothingKept) /\ Settlement /\ General /\ [Next]_vars => General'
    BY NextGeneral
<1> QED BY <1>1, <1>2, PoolInvariance, SettledInvariance, PTL DEF Spec

-----------------------------------------------------------------------------
(* Types are made of older types, and so what their variables stand for    *)
(* says what they stand for.                                               *)

LEMMA OlderKept ==
    ASSUME NEW p, NEW q, Alike(p, q), DOMAIN q = DOMAIN p, MadeOfOlder(p)
    PROVE  MadeOfOlder(q)
BY DEF Alike, MadeOfOlder

LEMMA OlderPushed ==
    ASSUME NEW p, WellFormed(p), MadeOfOlder(p), NEW node,
           \A k \in DOMAIN node.args : node.args[k] \in DOMAIN p
    PROVE  MadeOfOlder(Append(p, node))
<1> DEFINE q == Append(p, node)
           new == Len(p) + 1
<1>1. p \in Seq(Node)
    BY DEF WellFormed
<1>2. /\ DOMAIN q = DOMAIN p \cup {new} /\ q[new] = node
      /\ \A j \in DOMAIN p : q[j] = p[j] /\ j < new
    BY <1>1
<1> HIDE DEF q, new
<1> QED BY <1>2 DEF MadeOfOlder, q

Older == MadeOfOlder(pool) /\ (trying => MadeOfOlder(saved))

LEMMA NewVariableOlder ==
    ASSUME IInv, Older, NEW kind \in {"var", "rigid"}, NEW level \in Levels, NewVariable(kind, level)
    PROVE  Older'
<1> DEFINE node == Variable(kind, Len(pool) + 1, level)
<1>1. WellFormed(pool) /\ pool' = Append(pool, node) /\ UNCHANGED <<saved, trying>>
    BY DEF IInv, TypeOK, NewVariable, Pushed
<1>2. node.args = <<>>
    BY DEF Variable
<1> HIDE DEF node
<1> QED BY <1>1, <1>2, OlderPushed DEF Older

LEMMA NewTypeOlder ==
    ASSUME IInv, Older, NEW shape \in Shapes, NewType(shape[1], shape[2])
    PROVE  Older'
<1> DEFINE head == shape[1]
           args == shape[2]
           q == Compress(pool, {args[k] : k \in DOMAIN args})
           roots == [k \in DOMAIN args |-> Root(pool, args[k])]
           node == Con(Len(pool) + 1, head, roots)
<1>1. /\ WellFormed(pool) /\ Grounded(pool) /\ pool' = Intern(pool, intern, head, args).pool
      /\ \A k \in DOMAIN args : Root(pool, args[k]) \in Roots(pool)
      /\ UNCHANGED <<saved, trying>>
    BY DEF IInv, TypeOK, Acyclic, NewType
<1> HIDE DEF head, args
<1>2. pool' = q \/ pool' = Append(q, node)
    BY <1>1, InternMakes
<1>3. WellFormed(q) /\ DOMAIN q = DOMAIN pool /\ Alike(pool, q)
    BY <1>1, CompressWellFormed, CompressAlike
<1>4. \A k \in DOMAIN node.args : node.args[k] \in DOMAIN q
    <2>1. node.args = roots
        BY DEF Con
    <2> QED BY <1>1, <1>3, <2>1 DEF Roots
<1> HIDE DEF q, node
<1>5. MadeOfOlder(q)
    BY <1>3, OlderKept DEF Older
<1>6. MadeOfOlder(Append(q, node))
    BY <1>3, <1>4, <1>5, OlderPushed
<1> QED BY <1>1, <1>2, <1>5, <1>6 DEF Older

LEMMA ShortenedOlder ==
    ASSUME IInv, Older
    PROVE  WellFormed(Shortened) /\ MadeOfOlder(Shortened)
<1>1. WellFormed(pool)
    BY DEF IInv, TypeOK
<1>2. Alike(pool, Shortened) /\ DOMAIN Shortened = DOMAIN pool /\ WellFormed(Shortened)
    BY <1>1, CompressAlike, ShortenedSafe DEF Shortened
<1> HIDE DEF Shortened
<1> QED BY <1>2, OlderKept DEF Older

LEMMA NextOlder ==
    ASSUME IInv, Older, [Next]_vars
    PROVE  Older'
<1>1. CASE UNCHANGED vars
    BY <1>1 DEF Older, vars
<1>2. CASE \E kind \in {"var", "rigid"}, level \in Levels : NewVariable(kind, level)
    BY <1>2, NewVariableOlder
<1>3. CASE \E shape \in Shapes : NewType(shape[1], shape[2])
    BY <1>3, NewTypeOlder
<1>4. CASE \E q \in Questions, try \in BOOLEAN : Ask(q[1], q[2], try)
    BY <1>4 DEF Ask, Older
<1>5. CASE Agree
    <2>1. /\ pool' = Bound(Shortened, Found.bind)
          /\ trying' => trying /\ saved' = saved
        BY <1>5 DEF Agree
    <2>2. Alike(Shortened, pool') /\ DOMAIN pool' = DOMAIN Shortened
        BY <2>1, ShortenedOlder, BoundAlike
    <2>3. MadeOfOlder(pool')
        BY <2>2, ShortenedOlder, OlderKept
    <2> QED BY <2>1, <2>3 DEF Older
<1>6. CASE Fail
    BY <1>6, ShortenedOlder DEF Fail, Older
<1>7. CASE TakeBack
    BY <1>7 DEF TakeBack, Older
<1> QED BY <1>1, <1>2, <1>3, <1>4, <1>5, <1>6, <1>7 DEF Next

THEOREM OlderInvariance == Spec => []Older
<1>1. Init => Older
    BY BuiltinsAssumption DEF Init, Older
<1>2. (IInv /\ NothingKept) /\ Older /\ [Next]_vars => Older'
    BY NextOlder
<1> QED BY <1>1, <1>2, PoolInvariance, PTL DEF Spec

\* What node i becomes if the nodes before it become what types says.
NodeBecomes(p, sigma, types, i) ==
    CASE p[i].kind = "var" -> sigma[i]
      [] p[i].kind = "rigid" -> rigidTerm(i)
      [] OTHER -> term(p[i].head, [k \in DOMAIN p[i].args |-> types[p[i].args[k]]])

SameBefore(p, f, g, i) == \A j \in DOMAIN p : j < i => f[j] = g[j]

LEMMA BecomesByOlder ==
    ASSUME NEW p, WellFormed(p), MadeOfOlder(p), NEW sigma, NEW f, NEW g, NEW i \in DOMAIN p,
           SameBefore(p, f, g, i)
    PROVE  NodeBecomes(p, sigma, f, i) = NodeBecomes(p, sigma, g, i)
<1> DEFINE args == p[i].args
<1>1. \A k \in DOMAIN args : f[args[k]] = g[args[k]]
    BY DEF WellFormed, Refers, MadeOfOlder, SameBefore
<1>2. [k \in DOMAIN args |-> f[args[k]]] = [k \in DOMAIN args |-> g[args[k]]]
    BY <1>1
<1> QED BY <1>2 DEF NodeBecomes

\* f says what the first k nodes become.
BecomesUpTo(p, sigma, k, f) == f = [i \in 1..k |-> NodeBecomes(p, sigma, f, i)]

LEMMA BecomesFound ==
    ASSUME NEW p, WellFormed(p), MadeOfOlder(p), NEW sigma
    PROVE  LET types == Becomes(p, sigma) IN
           types = [i \in DOMAIN p |-> NodeBecomes(p, sigma, types, i)]
<1> DEFINE n == Len(p)
           S == {k \in Nat : k <= n => \E f : BecomesUpTo(p, sigma, k, f)}
<1>0. n \in Nat /\ DOMAIN p = 1..n
    BY LenProperties DEF WellFormed
<1> HIDE DEF n
<1>1. 0 \in S
    <2> DEFINE f == [i \in 1..0 |-> 0]
    <2>1. BecomesUpTo(p, sigma, 0, f)
        BY ShortIntervals DEF BecomesUpTo
    <2> HIDE DEF f
    <2> QED BY <2>1
<1>2. ASSUME NEW k \in Nat, k \in S
      PROVE  k + 1 \in S
    <2> SUFFICES ASSUME k + 1 <= n PROVE \E f : BecomesUpTo(p, sigma, k + 1, f)
        OBVIOUS
    <2>1. PICK f : BecomesUpTo(p, sigma, k, f)
        BY <1>0, <1>2
    <2> DEFINE h == [i \in 1..(k + 1) |-> NodeBecomes(p, sigma, f, i)]
    <2>2. ASSUME NEW i \in 1..(k + 1)
          PROVE  NodeBecomes(p, sigma, f, i) = NodeBecomes(p, sigma, h, i)
        <3>1. \A j \in 1..k : f[j] = NodeBecomes(p, sigma, f, j) /\ h[j] = NodeBecomes(p, sigma, f, j)
            BY <2>1 DEF BecomesUpTo
        <3> HIDE DEF h
        <3>2. SameBefore(p, f, h, i)
            BY <1>0, <3>1 DEF SameBefore
        <3>3. i \in DOMAIN p
            BY <1>0
        <3> QED BY <3>2, <3>3, BecomesByOlder
    <2>3. BecomesUpTo(p, sigma, k + 1, h)
        BY <2>2 DEF BecomesUpTo
    <2> HIDE DEF h
    <2> QED BY <2>3
<1>3. n \in S
    <2> HIDE DEF S
    <2> QED BY <1>0, <1>1, <1>2, NatSetInduction
<1>4. PICK f : BecomesUpTo(p, sigma, n, f)
    BY <1>0, <1>3
<1> DEFINE Def(g) == g = [i \in DOMAIN p |->
                CASE p[i].kind = "var" -> sigma[i]
                  [] p[i].kind = "rigid" -> rigidTerm(i)
                  [] OTHER -> term(p[i].head, [k \in DOMAIN p[i].args |-> g[p[i].args[k]]])]
           types == CHOOSE g : Def(g)
<1>5. Def(f)
    BY <1>0, <1>4 DEF BecomesUpTo, NodeBecomes
<1>6. Def(types) /\ Becomes(p, sigma) = types
    BY <1>5, Zenon DEF Becomes
<1> HIDE DEF types
<1>7. types = [i \in DOMAIN p |-> NodeBecomes(p, sigma, types, i)]
    BY <1>6, Zenon DEF NodeBecomes
<1> QED BY <1>6, <1>7

LEMMA BecomesReads ==
    ASSUME NEW p, WellFormed(p), MadeOfOlder(p), NEW sigma \in [Variables(p) -> Ground]
    PROVE  /\ Reads(p, Becomes(p, sigma))
           /\ InScope(p, sigma) => InScope(p, Becomes(p, sigma))
<1> DEFINE types == Becomes(p, sigma)
<1>1. types = [i \in DOMAIN p |-> NodeBecomes(p, sigma, types, i)]
    BY BecomesFound
<1> HIDE DEF types
<1>2. \A i \in DOMAIN p : types[i] = NodeBecomes(p, sigma, types, i)
    BY <1>1
<1>3. ASSUME NEW i \in DOMAIN p, p[i].kind = "var"
      PROVE  types[i] = sigma[i] /\ sigma[i] \in Ground
    <2>1. i \in Variables(p)
        BY <1>3 DEF Variables, IsVar
    <2> QED BY <1>2, <1>3, <2>1 DEF NodeBecomes
<1>4. ASSUME NEW i \in DOMAIN p, p[i].kind = "rigid"
      PROVE  types[i] = rigidTerm(i)
    BY <1>2, <1>4 DEF NodeBecomes
<1>5. ASSUME NEW i \in DOMAIN p, p[i].kind = "con"
      PROVE  types[i] = term(p[i].head, [k \in DOMAIN p[i].args |-> types[p[i].args[k]]])
    BY <1>2, <1>5 DEF NodeBecomes
<1>6. Reads(p, types)
    BY <1>3, <1>4, <1>5 DEF Reads
<1>7. InScope(p, sigma) => InScope(p, types)
    BY <1>3 DEF InScope, Variables, IsVar
<1> QED BY <1>6, <1>7 DEF types

\* Unify is most general: whatever makes the types it was asked to make equal equal is
\* still possible, and if anything does, unify has not failed.
THEOREM UnifyIsMostGeneral == Spec => []MostGeneral
<1>1. IInv /\ General /\ Older => MostGeneral
    <2> SUFFICES ASSUME IInv, General, Older, agenda = <<>>, NeverFree(pool),
                        NEW sigma \in [Variables(pool) -> Ground],
                        Solves(goals, Becomes(pool, sigma)), InScope(pool, sigma)
                 PROVE  ~failed /\ Respects(pool, Becomes(pool, sigma))
        BY DEF MostGeneral
    <2>1. Admits(pool, goals, Becomes(pool, sigma))
        BY BecomesReads DEF Admits, IInv, TypeOK, Older
    <2> QED BY <2>1 DEF General, Forced, Impossible
<1> QED BY <1>1, PoolInvariance, GeneralInvariance, OlderInvariance, PTL
=============================================================================
