--------------------------- MODULE VuiLifeProofs ---------------------------
(***************************************************************************)
(* Proofs about the lists of list_head.h and of pipeline.c, for every set  *)
(* of nodes, and about the life of the voice interface that is built on    *)
(* them, for any number of failures and of starts.                         *)
(***************************************************************************)
EXTENDS VuiLife, SequenceTheorems, FiniteSetTheorems, FunctionTheorems, TLAPS

-----------------------------------------------------------------------------
(* list_head.h, for any memory m of cells C with pointers into Q.           *)

Memory(C, Q) == [next : [C -> Q], prev : [C -> Q]]

\* list_init makes a list of a cell that was none.
LEMMA InitKeeps ==
  ASSUME NEW C, NEW Q, NEW m \in Memory(C, Q), NEW R \in SUBSET C, R \subseteq Q,
         NEW e \in C, e \in Q, e \notin R, P!WellLinked(m, R)
  PROVE  /\ P!ListInit(m, e) \in Memory(C, Q)
         /\ P!WellLinked(P!ListInit(m, e), R \cup {e})
         /\ P!ListInit(m, e).next = [m.next EXCEPT ![e] = e]
  BY DEF Memory, P!ListInit, P!WellLinked

\* list_add of a cell that is alone.
LEMMA AddKeeps ==
  ASSUME NEW C, NEW Q, NEW m \in Memory(C, Q), NEW R \in SUBSET C, R \subseteq Q,
         NEW e \in R, NEW b \in R, e # b, m.next[e] = e, P!WellLinked(m, R)
  PROVE  /\ P!ListAdd(m, e, b) \in Memory(C, Q)
         /\ P!WellLinked(P!ListAdd(m, e, b), R)
         /\ P!ListAdd(m, e, b).next = [m.next EXCEPT ![e] = m.next[b], ![b] = e]
<1> DEFINE a == m.next[b]
           nx == [m.next EXCEPT ![e] = a, ![b] = e]
           pv == [m.prev EXCEPT ![a] = e, ![e] = b]
<1>1. m.next \in [C -> Q] /\ m.prev \in [C -> Q] /\ a \in R
  BY DEF Memory, P!WellLinked
<1>2. P!ListAdd(m, e, b) = [next |-> nx, prev |-> pv]
  BY DEF P!ListAdd, P!Splice
<1>3. m.prev[e] = e /\ a # e /\ m.prev[a] = b
  BY DEF P!WellLinked
<1>4. nx \in [C -> Q] /\ pv \in [C -> Q]
  BY <1>1
<1>5. ASSUME NEW c \in R
      PROVE  nx[c] \in R /\ pv[c] \in R /\ pv[nx[c]] = c /\ nx[pv[c]] = c
  <2>1. /\ m.next[c] \in R /\ m.prev[c] \in R
        /\ m.prev[m.next[c]] = c /\ m.next[m.prev[c]] = c
    BY DEF P!WellLinked
  <2>2. CASE c = e
    BY <1>1, <1>3, <2>2
  <2>3. CASE c = b
    BY <1>1, <1>3, <2>1, <2>3
  <2>4. CASE c # e /\ c # b
    BY <1>1, <1>3, <2>1, <2>4
  <2> QED BY <2>2, <2>3, <2>4
<1>6. P!ListAdd(m, e, b) \in Memory(C, Q)
  BY <1>2, <1>4 DEF Memory
<1>7. P!ListAdd(m, e, b).next = nx /\ P!ListAdd(m, e, b).prev = pv
  BY <1>2
<1>8. P!WellLinked(P!ListAdd(m, e, b), R)
  BY <1>5, <1>7 DEF P!WellLinked
<1> QED BY <1>6, <1>7, <1>8

\* list_del of any cell, also of one that is alone.
LEMMA DelKeeps ==
  ASSUME NEW C, NEW Q, NEW m \in Memory(C, Q), NEW R \in SUBSET C, R \subseteq Q,
         NEW e \in R, P!WellLinked(m, R)
  PROVE  /\ P!ListDel(m, e) \in Memory(C, Q)
         /\ P!WellLinked(P!ListDel(m, e), R)
         /\ P!ListDel(m, e).next
              = [m.next EXCEPT ![m.prev[e]] = m.next[e], ![e] = e]
<1> DEFINE a == m.next[e]  b == m.prev[e]
           nx == [m.next EXCEPT ![b] = a, ![e] = e]
           pv == [m.prev EXCEPT ![a] = b, ![e] = e]
<1>1. m.next \in [C -> Q] /\ m.prev \in [C -> Q]
  BY DEF Memory
<1>2. /\ a \in R /\ b \in R /\ m.prev[a] = e /\ m.next[b] = e
      /\ (a = e <=> b = e)
  BY DEF P!WellLinked
<1>3. P!ListDel(m, e) = [next |-> nx, prev |-> pv]
  BY DEF P!ListDel
<1>4. nx \in [C -> Q] /\ pv \in [C -> Q]
  BY <1>1, <1>2
<1>5. ASSUME NEW c \in R
      PROVE  nx[c] \in R /\ pv[c] \in R /\ pv[nx[c]] = c /\ nx[pv[c]] = c
  <2>1. /\ m.next[c] \in R /\ m.prev[c] \in R
        /\ m.prev[m.next[c]] = c /\ m.next[m.prev[c]] = c
    BY DEF P!WellLinked
  <2>2. CASE c = e
    BY <1>1, <1>2, <2>2
  <2>3. CASE c # e
    <3>1. nx[c] \in R /\ pv[nx[c]] = c
      BY <1>1, <1>2, <2>1, <2>3
    <3>2. pv[c] \in R /\ nx[pv[c]] = c
      BY <1>1, <1>2, <2>1, <2>3
    <3> QED BY <3>1, <3>2
  <2> QED BY <2>2, <2>3
<1>6. P!ListDel(m, e) \in Memory(C, Q)
  BY <1>3, <1>4 DEF Memory
<1>7. P!ListDel(m, e).next = nx /\ P!ListDel(m, e).prev = pv
  BY <1>3
<1>8. P!WellLinked(P!ListDel(m, e), R)
  BY <1>5, <1>7 DEF P!WellLinked
<1> QED BY <1>6, <1>7, <1>8

-----------------------------------------------------------------------------
(* pipeline.c, for any nodes N and a Z that is none of them.  The memory m   *)
(* and the connections p are as they should be: neighbours agree, and two    *)
(* lists stay apart.  Each needs the other: that lists stay apart depends on *)
(* neighbours agreeing, and that a cell may be put in on its being alone.    *)

Cells(N) == N \X {"link", "rear_list"}
Nil(Z) == P!Link(Z)
InUse(N, Z, m) == {c \in Cells(N) : m.next[c] # Nil(Z)}
ListIn(p, c) == IF c[2] = "rear_list" THEN c[1] ELSE p[c[1]]

Linked(N, Z, m, p) ==
  /\ Z \notin N
  /\ m \in Memory(Cells(N), Cells(N) \cup {Nil(Z)})
  /\ p \in [N -> N \cup {Z}]
  /\ P!WellLinked(m, InUse(N, Z, m))
  /\ \A c \in InUse(N, Z, m) :
       ListIn(p, m.next[c]) = ListIn(p, c) /\ (ListIn(p, c) = Z => m.next[c] = c)

\* Z says that null is the address of no cell.  A cell is of one kind of two and
\* belongs to one node.
LEMMA CellFacts ==
  ASSUME NEW N, NEW Z, Z \notin N
  PROVE  /\ Nil(Z) \notin Cells(N)
         /\ \A n \in N : P!Link(n) \in Cells(N) /\ P!Rear(n) \in Cells(N)
         /\ \A n, k \in N : P!Link(n) # P!Rear(k) /\ (P!Link(n) = P!Link(k) => n = k)
                                /\ (P!Rear(n) = P!Rear(k) => n = k)
         /\ \A c \in Cells(N) : c[1] \in N /\ (c = P!Link(c[1]) \/ c = P!Rear(c[1]))
         /\ \A n : P!Link(n)[1] = n /\ P!Link(n)[2] = "link"
                   /\ P!Rear(n)[1] = n /\ P!Rear(n)[2] = "rear_list"
  BY DEF Nil, Cells, P!Link, P!Rear

\* ListIn by the kind of cell.
LEMMA ListInCell ==
  ASSUME NEW N, NEW p, NEW n \in N
  PROVE  ListIn(p, P!Link(n)) = p[n] /\ ListIn(p, P!Rear(n)) = n
  BY DEF ListIn, P!Link, P!Rear

\* Taking a node out of its list, by PipelineDisConnect or PipelineClear.
LEMMA UnlinkKeeps ==
  ASSUME NEW N, NEW Z, NEW m, NEW p, Linked(N, Z, m, p),
         NEW r \in N, P!Link(r) \in InUse(N, Z, m)
  PROVE  /\ Linked(N, Z, P!ListDel(m, P!Link(r)), [p EXCEPT ![r] = Z])
         /\ InUse(N, Z, P!ListDel(m, P!Link(r))) = InUse(N, Z, m)
         /\ P!ListDel(m, P!Link(r)).next
              = [m.next EXCEPT ![m.prev[P!Link(r)]] = m.next[P!Link(r)],
                               ![P!Link(r)] = P!Link(r)]
<1> DEFINE e == P!Link(r)  a == m.next[e]  b == m.prev[e]  m2 == P!ListDel(m, e)
           p2 == [p EXCEPT ![r] = Z]  R == InUse(N, Z, m)  C == Cells(N)
<1> USE CellFacts
<1>1. /\ Z \notin N /\ m \in Memory(C, C \cup {Nil(Z)}) /\ e \in R /\ p \in [N -> N \cup {Z}]
      /\ R \in SUBSET C /\ P!WellLinked(m, R)
  BY DEF Linked, InUse
<1>2. /\ m2 \in Memory(C, C \cup {Nil(Z)}) /\ P!WellLinked(m2, R)
      /\ m2.next = [m.next EXCEPT ![b] = a, ![e] = e]
  <2>1. R \subseteq C \cup {Nil(Z)}
    BY <1>1
  <2> HIDE DEF R, C, e
  <2> QED BY ONLY <1>1, <2>1, DelKeeps
<1>3. /\ a \in R /\ b \in R /\ m.prev[a] = e /\ m.next[b] = e
      /\ (a = e <=> b = e) /\ m.next \in [C -> C \cup {Nil(Z)}]
  BY <1>1 DEF P!WellLinked, Memory
<1>4. InUse(N, Z, m2) = R
  BY <1>1, <1>2, <1>3 DEF InUse
<1>5. ASSUME NEW c \in R
      PROVE  /\ ListIn(p2, m2.next[c]) = ListIn(p2, c)
             /\ ListIn(p2, c) = Z => m2.next[c] = c
  <2> HIDE DEF m2
  <2>1. c \in C /\ m.next[c] \in R /\ m.prev[m.next[c]] = c
    BY <1>1 DEF P!WellLinked
  <2>2. \A x \in C : x # e => ListIn(p2, x) = ListIn(p, x)
    BY <1>1 DEF ListIn
  <2>3. CASE c = e
    BY <1>1, <1>2, <1>3, <2>1, <2>3 DEF ListIn
  <2>4. CASE c = b /\ c # e
    <3>1. m2.next[c] = a /\ a # e
      BY <1>2, <1>3, <2>1, <2>4
    <3>2. ListIn(p, c) = ListIn(p, e) /\ ListIn(p, a) = ListIn(p, e)
      BY <1>1, <1>3, <2>4 DEF Linked
    <3>3. ListIn(p, c) # Z
      BY <1>3, <2>1, <2>4 DEF Linked
    <3>4. a \in C /\ ListIn(p2, a) = ListIn(p, a) /\ ListIn(p2, c) = ListIn(p, c)
      BY ONLY <1>1, <1>3, <2>1, <2>2, <2>4, <3>1
    <3> QED BY ONLY <3>1, <3>2, <3>3, <3>4
  <2>5. CASE c # b /\ c # e
    <3>1. m2.next[c] = m.next[c] /\ m.next[c] # e
      BY <1>2, <1>3, <2>1, <2>5
    <3>2. ListIn(p, m.next[c]) = ListIn(p, c) /\ (ListIn(p, c) = Z => m.next[c] = c)
      BY DEF Linked
    <3> QED BY <1>1, <2>1, <2>2, <2>5, <3>1, <3>2
  <2> QED BY <2>3, <2>4, <2>5
<1>6. p2 \in [N -> N \cup {Z}]
  BY <1>1
<1> HIDE DEF m2, p2, R, C
<1> QED BY <1>1, <1>2, <1>4, <1>5, <1>6 DEF Linked, m2, p2, R, C

\* PipelineConnect of a node that is in no list.
LEMMA ConnectKeeps ==
  ASSUME NEW N, NEW Z, NEW m, NEW p, Linked(N, Z, m, p), NEW n \in N, NEW r \in N,
         P!Rear(n) \in InUse(N, Z, m), P!Link(r) \in InUse(N, Z, m), p[r] = Z
  PROVE  /\ Linked(N, Z, P!ListAdd(m, P!Link(r), P!Rear(n)), [p EXCEPT ![r] = n])
         /\ InUse(N, Z, P!ListAdd(m, P!Link(r), P!Rear(n))) = InUse(N, Z, m)
         /\ P!ListAdd(m, P!Link(r), P!Rear(n)).next
              = [m.next EXCEPT ![P!Link(r)] = m.next[P!Rear(n)],
                               ![P!Rear(n)] = P!Link(r)]
<1> DEFINE e == P!Link(r)  base == P!Rear(n)  a == m.next[base]  m2 == P!ListAdd(m, e, base)
           p2 == [p EXCEPT ![r] = n]  R == InUse(N, Z, m)  C == Cells(N)
<1> USE CellFacts
<1>1. /\ Z \notin N /\ m \in Memory(C, C \cup {Nil(Z)}) /\ e \in R /\ base \in R
      /\ p \in [N -> N \cup {Z}] /\ R \in SUBSET C /\ P!WellLinked(m, R)
  BY DEF Linked, InUse
<1>2. e # base /\ m.next[e] = e
  BY <1>1, ListInCell DEF Linked
<1>3. /\ m2 \in Memory(C, C \cup {Nil(Z)}) /\ P!WellLinked(m2, R)
      /\ m2.next = [m.next EXCEPT ![e] = a, ![base] = e]
  <2>1. R \subseteq C \cup {Nil(Z)}
    BY <1>1
  <2> HIDE DEF R, C, e, base
  <2> QED BY ONLY <1>1, <1>2, <2>1, AddKeeps
<1>4. /\ a \in R /\ a # e /\ m.prev[e] = e /\ m.next \in [C -> C \cup {Nil(Z)}]
  BY <1>1, <1>2 DEF P!WellLinked, Memory
<1>5. InUse(N, Z, m2) = R
  BY <1>1, <1>3, <1>4 DEF InUse
<1>6. ASSUME NEW c \in R
      PROVE  /\ ListIn(p2, m2.next[c]) = ListIn(p2, c)
             /\ ListIn(p2, c) = Z => m2.next[c] = c
  <2> HIDE DEF m2
  <2>1. c \in C /\ m.next[c] \in R /\ m.prev[m.next[c]] = c
    BY <1>1 DEF P!WellLinked
  <2>2. /\ \A x \in C : x # e => ListIn(p2, x) = ListIn(p, x)
        /\ ListIn(p2, e) = n /\ n # Z
    <3>1. \A x \in C : x # e => x[2] = "rear_list" \/ (x[1] \in N /\ x[1] # r)
      BY ONLY CellFacts, <1>1 DEF P!Rear
    <3>2. \A x \in C : x # e => ListIn(p2, x) = ListIn(p, x)
      BY <1>1, <3>1 DEF ListIn
    <3>3. ListIn(p2, e) = n
      BY <1>1 DEF ListIn
    <3> QED BY <1>1, <3>2, <3>3
  <2>3. ListIn(p, base) = n /\ ListIn(p, a) = n
    <3>1. ListIn(p, base) = n
      BY DEF ListIn, P!Rear
    <3> QED BY <1>1, <3>1 DEF Linked
  <2>4. a \in C /\ base \in C
    BY <1>1, <1>4
  <2>5. CASE c = e
    BY ONLY <1>1, <1>2, <1>3, <1>4, <2>1, <2>2, <2>3, <2>4, <2>5
  <2>6. CASE c = base
    BY ONLY <1>1, <1>2, <1>3, <1>4, <2>1, <2>2, <2>3, <2>4, <2>6
  <2>7. CASE c # base /\ c # e
    <3>1. m2.next[c] = m.next[c] /\ m.next[c] # e
      BY <1>3, <1>4, <2>1, <2>7
    <3>2. ListIn(p, m.next[c]) = ListIn(p, c) /\ (ListIn(p, c) = Z => m.next[c] = c)
      BY DEF Linked
    <3> QED BY ONLY <1>1, <2>1, <2>2, <2>7, <3>1, <3>2
  <2> QED BY <2>5, <2>6, <2>7
<1>7. p2 \in [N -> N \cup {Z}]
  BY <1>1
<1> HIDE DEF m2, p2, R, C
<1> QED BY <1>1, <1>3, <1>5, <1>6, <1>7 DEF Linked, m2, p2, R, C

\* PipelineNodeInit of fresh memory.
LEMMA NodeInitKeeps ==
  ASSUME NEW N, NEW Z, NEW m, NEW p, Linked(N, Z, m, p), NEW n \in N,
         P!Link(n) \notin InUse(N, Z, m), P!Rear(n) \notin InUse(N, Z, m)
  PROVE  LET m2 == P!ListInit(P!ListInit(m, P!Link(n)), P!Rear(n))
         IN  /\ Linked(N, Z, m2, p)
             /\ InUse(N, Z, m2) = InUse(N, Z, m) \cup {P!Link(n), P!Rear(n)}
             /\ m2.next = [m.next EXCEPT ![P!Link(n)] = P!Link(n),
                                         ![P!Rear(n)] = P!Rear(n)]
<1> DEFINE e == P!Link(n)  f == P!Rear(n)  C == Cells(N)  R == InUse(N, Z, m)
           m1 == P!ListInit(m, e)  m2 == P!ListInit(m1, f)  R1 == R \cup {e}
<1> USE CellFacts
<1>1. /\ Z \notin N /\ m \in Memory(C, C \cup {Nil(Z)}) /\ P!WellLinked(m, R)
      /\ p \in [N -> N \cup {Z}]
      /\ R \in SUBSET C /\ R \subseteq C \cup {Nil(Z)}
      /\ e \notin R /\ f \notin R1 /\ R1 \in SUBSET C
      /\ R1 \subseteq C \cup {Nil(Z)} /\ e \in C /\ f \in C
      /\ e \in C \cup {Nil(Z)} /\ f \in C \cup {Nil(Z)}
  BY DEF Linked, InUse
<1>2. /\ m1 \in Memory(C, C \cup {Nil(Z)}) /\ P!WellLinked(m1, R1)
      /\ m1.next = [m.next EXCEPT ![e] = e]
  <2> HIDE DEF R, C, e, f
  <2> QED BY ONLY <1>1, InitKeeps
<1>3. /\ m2 \in Memory(C, C \cup {Nil(Z)}) /\ P!WellLinked(m2, R1 \cup {f})
      /\ m2.next = [m1.next EXCEPT ![f] = f]
  <2>1. m1 \in Memory(C, C \cup {Nil(Z)}) /\ P!WellLinked(m1, R1)
        /\ R1 \in SUBSET C /\ R1 \subseteq C \cup {Nil(Z)}
        /\ f \in C /\ f \in C \cup {Nil(Z)} /\ f \notin R1
    BY <1>1, <1>2
  <2> HIDE DEF R1, C, m1, f
  <2> QED BY ONLY <2>1, InitKeeps
<1> HIDE DEF m1, m2
<1>4. /\ m.next \in [C -> C \cup {Nil(Z)}]
      /\ m2.next = [m.next EXCEPT ![e] = e, ![f] = f]
  BY <1>1, <1>2, <1>3 DEF Memory
<1>5. InUse(N, Z, m2) = R1 \cup {f}
  BY <1>1, <1>4 DEF InUse
<1>6. ASSUME NEW c \in R1 \cup {f}
      PROVE  /\ ListIn(p, m2.next[c]) = ListIn(p, c)
             /\ ListIn(p, c) = Z => m2.next[c] = c
  <2>1. CASE c \in {e, f}
    BY <1>1, <1>4, <2>1
  <2>2. CASE c \in R
    <3>1. m2.next[c] = m.next[c] /\ c \in C
      BY <1>1, <1>4, <2>2
    <3> QED BY <2>2, <3>1 DEF Linked
  <2> QED BY <2>1, <2>2
<1> HIDE DEF R
<1>7. Linked(N, Z, m2, p)
  BY <1>1, <1>3, <1>5, <1>6 DEF Linked
<1>8. InUse(N, Z, m2) = R \cup {e, f}
  BY <1>5
<1> QED BY <1>4, <1>7, <1>8 DEF m2, m1, R

-----------------------------------------------------------------------------
(* So it is through any sequence of calls of pipeline.c.                    *)

Lists(N, Z) == INSTANCE Pipeline WITH Node <- N, NoNode <- Z

\* What Linked says is what Pipeline says of its lists.
LEMMA LinkedLists ==
  ASSUME NEW N, NEW Z, Linked(N, Z, mem, pre)
  PROVE  Lists(N, Z)!ListsSound /\ Lists(N, Z)!ListsApart
  BY DEF Linked, InUse, Cells, Nil, ListIn, P!Link, P!WellLinked, Lists!ListsSound,
         Lists!ListsApart, Lists!ReadyCells, Lists!Ready, Lists!Cell, Lists!Null,
         Lists!Link, Lists!ListOf, Lists!WellLinked

\* No cell is in use at first.
LEMMA ListsInitially ==
  ASSUME NEW N, NEW Z, Lists(N, Z)!NoNodeApart, Lists(N, Z)!Init
  PROVE  Linked(N, Z, mem, pre)
<1>1. InUse(N, Z, mem) = {} /\ Z \notin N
  BY DEF Lists!Init, Lists!Null, Lists!Link, Lists!Cell, Lists!NoNodeApart, InUse, Cells, Nil,
         P!Link
<1>2. mem \in Memory(Cells(N), Cells(N) \cup {Nil(Z)}) /\ pre \in [N -> N \cup {Z}]
  BY DEF Lists!Init, Lists!Null, Lists!Link, Lists!Cell, Memory, Cells, Nil, P!Link
<1> QED BY <1>1, <1>2 DEF Linked, P!WellLinked

\* The cells of a node that has been initialised.
LEMMA CellsInUse ==
  ASSUME NEW N, NEW Z, NEW n \in N
  PROVE  /\ Lists(N, Z)!Ready(Lists(N, Z)!Link(n)) <=> P!Link(n) \in InUse(N, Z, mem)
         /\ Lists(N, Z)!Ready(Lists(N, Z)!Rear(n)) <=> P!Rear(n) \in InUse(N, Z, mem)
  BY DEF Lists!Ready, Lists!Null, Lists!Link, Lists!Rear, P!Link, P!Rear, InUse, Cells, Nil

\* PipelineClear takes out the first node of a list, which is in no other.
LEMMA FirstOf ==
  ASSUME NEW N, NEW Z, NEW m, NEW p, Linked(N, Z, m, p), NEW n \in N,
         P!Rear(n) \in InUse(N, Z, m), m.next[P!Rear(n)] # P!Rear(n)
  PROVE  LET e == m.next[P!Rear(n)]
         IN  /\ e[1] \in N /\ e = P!Link(e[1]) /\ e \in InUse(N, Z, m)
             /\ p[e[1]] = n /\ m.prev[e] = P!Rear(n)
<1> DEFINE b == P!Rear(n)  e == m.next[b]
<1>1. e \in InUse(N, Z, m) /\ m.prev[e] = b /\ ListIn(p, e) = ListIn(p, b)
  BY DEF Linked, P!WellLinked
<1>2. ListIn(p, b) = n
  BY DEF ListIn, P!Rear
<1>3. e \in Cells(N) /\ e # b
  BY <1>1 DEF InUse
<1>4. e[1] \in N /\ (e = P!Link(e[1]) \/ e = P!Rear(e[1]))
  BY <1>3 DEF Cells, P!Link, P!Rear
<1>5. e # P!Rear(e[1])
  BY <1>1, <1>2, <1>3, <1>4 DEF ListIn, P!Rear
<1> QED BY <1>1, <1>2, <1>4, <1>5 DEF ListIn, P!Link

\* Every operation of pipeline.c keeps the lists as they should be.
LEMMA ListsInductive ==
  ASSUME NEW N, NEW Z, Linked(N, Z, mem, pre), [Lists(N, Z)!Next]_(Lists(N, Z)!vars)
  PROVE  Linked(N, Z, mem, pre)'
<1>1. ASSUME NEW n \in N, Lists(N, Z)!NodeInit(n) PROVE Linked(N, Z, mem, pre)'
  <2>1. P!Link(n) \notin InUse(N, Z, mem) /\ P!Rear(n) \notin InUse(N, Z, mem)
    BY <1>1, CellsInUse DEF Lists!NodeInit
  <2>2. mem' = P!ListInit(P!ListInit(mem, P!Link(n)), P!Rear(n)) /\ pre' = pre
    BY <1>1 DEF Lists!NodeInit, Lists!ListInit, P!ListInit, Lists!Link, Lists!Rear, P!Link,
                P!Rear
  <2> QED BY <2>1, <2>2, NodeInitKeeps
<1>2. ASSUME NEW n \in N, NEW r \in N, Lists(N, Z)!Ready(Lists(N, Z)!Rear(n)),
             Lists(N, Z)!Ready(Lists(N, Z)!Link(r)), pre[r] = Z, Lists(N, Z)!Connect(n, r)
      PROVE  Linked(N, Z, mem, pre)'
  <2>1. P!Link(r) \in InUse(N, Z, mem) /\ P!Rear(n) \in InUse(N, Z, mem)
    BY <1>2, CellsInUse
  <2>2. mem' = P!ListAdd(mem, P!Link(r), P!Rear(n)) /\ pre' = [pre EXCEPT ![r] = n]
    BY <1>2 DEF Lists!Connect, Lists!ListAdd, P!ListAdd, Lists!Splice, P!Splice, Lists!Link,
                Lists!Rear, P!Link, P!Rear
  <2> QED BY <1>2, <2>1, <2>2, ConnectKeeps
<1>3. ASSUME NEW r \in N, P!Link(r) \in InUse(N, Z, mem),
             mem' = P!ListDel(mem, P!Link(r)), pre' = [pre EXCEPT ![r] = Z]
      PROVE  Linked(N, Z, mem, pre)'
  BY <1>3, UnlinkKeeps
<1>4. ASSUME NEW n \in N, NEW r \in N, Lists(N, Z)!Ready(Lists(N, Z)!Link(r)),
             Lists(N, Z)!DisConnect(n, r)
      PROVE  Linked(N, Z, mem, pre)'
  <2>1. P!Link(r) \in InUse(N, Z, mem)
    BY <1>4, CellsInUse
  <2>2. mem' = P!ListDel(mem, P!Link(r)) /\ pre' = [pre EXCEPT ![r] = Z]
    BY <1>4 DEF Lists!DisConnect, Lists!ListDel, P!ListDel, Lists!Link, P!Link
  <2> QED BY <1>3, <2>1, <2>2
<1>5. ASSUME NEW n \in N, Lists(N, Z)!Ready(Lists(N, Z)!Rear(n)), Lists(N, Z)!ClearFirst(n)
      PROVE  Linked(N, Z, mem, pre)'
  <2> DEFINE e == mem.next[P!Rear(n)]
  <2>1. P!Rear(n) \in InUse(N, Z, mem)
    BY <1>5, CellsInUse
  <2>2. /\ mem.next[P!Rear(n)] # P!Rear(n)
        /\ mem' = P!ListDel(mem, e) /\ pre' = [pre EXCEPT ![e[1]] = Z]
    BY <1>5 DEF Lists!ClearFirst, Lists!ListEmpty, Lists!ListDel, P!ListDel, Lists!Rear, P!Rear
  <2>3. e[1] \in N /\ e = P!Link(e[1]) /\ e \in InUse(N, Z, mem)
    BY <2>1, <2>2, FirstOf
  <2> QED BY <1>3, <2>2, <2>3
<1>6. CASE UNCHANGED Lists(N, Z)!vars
  BY <1>6 DEF Lists!vars
<1> QED BY <1>1, <1>2, <1>4, <1>5, <1>6 DEF Lists!Next

\* Through any sequence of calls that connects only nodes in no list, whatever the
\* nodes are, the two pointers of neighbours agree.
THEOREM ListsStaySound ==
  ASSUME NEW CONSTANT N, NEW CONSTANT Z, Lists(N, Z)!NoNodeApart
  PROVE  Lists(N, Z)!Spec => []Lists(N, Z)!ListsSound
<1>1. Lists(N, Z)!Init => Linked(N, Z, mem, pre)
  BY ListsInitially
<1>2. Linked(N, Z, mem, pre) /\ [Lists(N, Z)!Next]_(Lists(N, Z)!vars)
        => Linked(N, Z, mem, pre)'
  BY ListsInductive
<1>3. Linked(N, Z, mem, pre) => Lists(N, Z)!ListsSound
  BY LinkedLists
<1> QED BY <1>1, <1>2, <1>3, PTL DEF Lists!Spec

\* A walk of one node's list, as PipelinePushCmd and PipelinePushData make it,
\* never gets into the list of another.
THEOREM ListsStayApart ==
  ASSUME NEW CONSTANT N, NEW CONSTANT Z, Lists(N, Z)!NoNodeApart
  PROVE  Lists(N, Z)!Spec => []Lists(N, Z)!ListsApart
<1>1. Lists(N, Z)!Init => Linked(N, Z, mem, pre)
  BY ListsInitially
<1>2. Linked(N, Z, mem, pre) /\ [Lists(N, Z)!Next]_(Lists(N, Z)!vars)
        => Linked(N, Z, mem, pre)'
  BY ListsInductive
<1>3. Linked(N, Z, mem, pre) => Lists(N, Z)!ListsApart
  BY LinkedLists
<1> QED BY <1>1, <1>2, <1>3, PTL DEF Lists!Spec

-----------------------------------------------------------------------------
(* A walk of a list, for any list: induction on the steps of the walk.       *)

\* A set of numbers that is not empty has a least one.
LEMMA Least ==
  ASSUME NEW T \in SUBSET Nat, T # {}
  PROVE  \E x \in T : \A y \in T : ~ (y < x)
<1>1. IsWellFoundedOn(OpToRel(<, Nat), Nat)
  BY NatLessThanWellFounded
<1>2. \E x \in T : \A y \in T : ~ (<<y, x>> \in OpToRel(<, Nat))
  BY <1>1, WFMin
<1> QED BY <1>2 DEF OpToRel

\* Induction, for a set of numbers.
LEMMA Induct ==
  ASSUME NEW S, 0 \in S, \A n \in Nat : n \in S => n + 1 \in S
  PROVE  \A n \in Nat : n \in S
<1> SUFFICES ASSUME Nat \ S # {} PROVE FALSE
  OBVIOUS
<1>1. PICK x \in Nat \ S : \A y \in Nat \ S : ~(y < x)
  <2>1. Nat \ S \in SUBSET Nat
    OBVIOUS
  <2> QED BY <2>1, Least
<1>2. x # 0
  OBVIOUS
<1>3. x - 1 \in Nat /\ x - 1 < x /\ (x - 1) + 1 = x
  BY <1>2
<1>4. x - 1 \in S
  BY <1>1, <1>3
<1> QED BY <1>3, <1>4

\* f has the first k steps of a walk that begins at a and follows g.
IsWalk(g, a, k, f) == f = [i \in 0 .. k |-> IF i = 0 THEN a ELSE g[f[i - 1]]]

WalkOf(g, a, k) == CHOOSE f : IsWalk(g, a, k, f)

\* There is such a function,
LEMMA WalkExists ==
  ASSUME NEW g, NEW a, NEW k \in Nat
  PROVE  \E f : IsWalk(g, a, k, f)
<1> DEFINE S == {n \in Nat : \E f : IsWalk(g, a, n, f)}
<1>1. 0 \in S
  <2>1. IsWalk(g, a, 0, [i \in 0 .. 0 |-> a])
    BY DEF IsWalk
  <2> QED BY <2>1
<1>2. ASSUME NEW n \in Nat, n \in S PROVE n + 1 \in S
  <2>1. PICK f : IsWalk(g, a, n, f)
    BY <1>2
  <2> DEFINE h == [i \in 0 .. n + 1 |-> IF i \in 0 .. n THEN f[i] ELSE g[f[n]]]
  <2>2. ASSUME NEW i \in 0 .. n + 1 PROVE h[i] = IF i = 0 THEN a ELSE g[h[i - 1]]
    <3>1. CASE i = 0
      BY <2>1, <3>1 DEF IsWalk
    <3>2. CASE i \in 1 .. n
      <4>1. f[i] = g[f[i - 1]] /\ i - 1 \in 0 .. n
        BY <2>1, <3>2 DEF IsWalk
      <4> QED BY <3>2, <4>1
    <3>3. CASE i = n + 1
      <4>1. i - 1 = n /\ i \notin 0 .. n
        BY <3>3
      <4> QED BY <3>3, <4>1
    <3> QED BY <3>1, <3>2, <3>3
  <2>3. IsWalk(g, a, n + 1, h)
    BY <2>2 DEF IsWalk
  <2> HIDE DEF h
  <2> QED BY <2>3
<1> HIDE DEF S
<1>3. k \in S
  BY <1>1, <1>2, Induct
<1> QED BY <1>3 DEF S

\* so a recursive function that is defined so is one.
LEMMA WalkSteps ==
  ASSUME NEW g, NEW a, NEW k \in Nat, NEW f, f = WalkOf(g, a, k)
  PROVE  f[0] = a /\ \A i \in 0 .. k - 1 : f[i + 1] = g[f[i]]
<1>1. IsWalk(g, a, k, f)
  BY WalkExists DEF WalkOf
<1>2. f[0] = a
  <2>1. 0 \in 0 .. k
    OBVIOUS
  <2> QED BY <1>1, <2>1 DEF IsWalk
<1>3. ASSUME NEW i \in 0 .. k - 1 PROVE f[i + 1] = g[f[i]]
  <2>1. i + 1 \in 0 .. k /\ i + 1 # 0 /\ (i + 1) - 1 = i
    OBVIOUS
  <2> HIDE DEF IsWalk
  <2> QED BY <1>1, <2>1 DEF IsWalk
<1> QED BY <1>2, <1>3

\* Cardinality is the same wherever it is taken from.
LEMMA SameCardinality ==
  ASSUME NEW S
  PROVE  P!Cardinality(S) = Cardinality(S)
  BY DEF P!Cardinality, Cardinality

\* The cells s are those from head back to head.
Circuit(m, head, k, s) ==
  /\ k \in Nat /\ s \in [0 .. k -> DOMAIN m.next]
  /\ s[0] = head /\ m.next[s[k]] = head
  /\ \A i \in 1 .. k : s[i] = m.next[s[i - 1]] /\ s[i] # head

\* If so, a walk visits them in turn, provided that it may visit so many.
LEMMA VisitedIs ==
  ASSUME NEW m, NEW head, NEW k, NEW s, Circuit(m, head, k, s),
         IsFiniteSet(DOMAIN m.next), k < Cardinality(DOMAIN m.next)
  PROVE  P!Visited(m, head) = [i \in 1 .. k |-> s[i]]
<1> DEFINE cells == P!Cardinality(DOMAIN m.next)
           at[i \in 0 .. cells] == IF i = 0 THEN head ELSE m.next[at[i - 1]]
           turns == {i \in 1 .. cells : \A j \in 1 .. i : at[j] # head}
<1> USE DEF Circuit
<1>1. cells \in Nat
  BY FS_CardinalityType, SameCardinality
<1>2. at = WalkOf(m.next, head, cells)
  BY DEF IsWalk, WalkOf
<1>7. P!Visited(m, head) = [i \in 1 .. P!Cardinality(turns) |-> at[i]]
  BY DEF P!Visited, at
<1> HIDE DEF at, cells, turns
<1>a. at[0] = head /\ \A i \in 0 .. cells - 1 : at[i + 1] = m.next[at[i]]
  BY ONLY <1>1, <1>2, WalkSteps
<1>b. k < cells
  BY SameCardinality DEF cells
<1>3. \A i \in 0 .. k : at[i] = s[i]
  <2> DEFINE S == {i \in Nat : i <= k => at[i] = s[i]}
  <2>1. 0 \in S
    BY <1>a
  <2>2. ASSUME NEW i \in Nat, i \in S PROVE i + 1 \in S
    <3>1. CASE i + 1 <= k
      <4>1. at[i + 1] = m.next[at[i]] /\ at[i] = s[i]
        BY <1>1, <1>a, <1>b, <2>2, <3>1
      <4>2. i + 1 \in 1 .. k /\ (i + 1) - 1 = i
        BY <3>1
      <4>3. s[i + 1] = m.next[s[i]]
        BY <4>2
      <4> QED BY <4>1, <4>3
    <3> QED BY <3>1
  <2> HIDE DEF S
  <2>3. \A i \in Nat : i \in S
    BY <2>1, <2>2, Induct
  <2> QED BY <2>3 DEF S
<1>4. at[k + 1] = head
  BY <1>1, <1>a, <1>b, <1>3
<1>5. turns = 1 .. k
  <2>1. \A i \in 1 .. k : at[i] # head
    BY <1>3
  <2> QED BY <1>1, <1>b, <1>4, <2>1 DEF turns
<1>6. P!Cardinality(turns) = k
  <2>1. P!Cardinality(1 .. k) = k
    BY FS_Interval, SameCardinality
  <2> HIDE DEF turns
  <2> QED BY <1>5, <2>1
<1> HIDE DEF turns
<1> QED BY <1>3, <1>6, <1>7
-----------------------------------------------------------------------------
(* The nodes that a list stands for, in their order.                        *)

\* The cells of a list of node n with the nodes s, from its head and back to it.
Place(n, s, i) == IF i \in 1 .. Len(s) THEN P!Link(s[i]) ELSE P!Rear(n)

\* The list of n has the nodes s.
Chain(N, m, p, n, s) ==
  /\ s \in Seq(N)
  /\ \A i \in 1 .. Len(s) : p[s[i]] = n
  /\ \A i, j \in 1 .. Len(s) : s[i] = s[j] => i = j
  /\ \A i \in 0 .. Len(s) : m.next[Place(n, s, i)] = Place(n, s, i + 1)

\* The list of every initialised node has some nodes.
Chained(N, Z, m, p) ==
  \A n \in N : P!Rear(n) \in InUse(N, Z, m) => \E s : Chain(N, m, p, n, s)

\* The places of a list are cells of it, and no two are one.
Places(N, p, n, s) ==
  /\ Len(s) \in Nat
  /\ \A i \in 1 .. Len(s) : s[i] \in N
  /\ \A i \in Int : Place(n, s, i) \in Cells(N) /\ ListIn(p, Place(n, s, i)) = n
  /\ \A i, j \in 0 .. Len(s) : Place(n, s, i) = Place(n, s, j) => i = j

\* The cells of a Chain are such places.
LEMMA PlaceFacts ==
  ASSUME NEW N, NEW m, NEW p, NEW n \in N, NEW s, Chain(N, m, p, n, s)
  PROVE  Places(N, p, n, s)
<1>1. Len(s) \in Nat /\ \A i \in 1 .. Len(s) : s[i] \in N
  BY DEF Chain
<1>2. \A x \in N : P!Link(x) \in Cells(N) /\ P!Rear(x) \in Cells(N)
  BY DEF P!Link, P!Rear, Cells
<1>3. ListIn(p, P!Rear(n)) = n /\ \A x \in N : ListIn(p, P!Link(x)) = p[x]
  BY DEF P!Link, P!Rear, ListIn
<1>4. ASSUME NEW i \in Int
      PROVE  Place(n, s, i) \in Cells(N) /\ ListIn(p, Place(n, s, i)) = n
  BY <1>1, <1>2, <1>3 DEF Place, Chain
<1>5. \A x, y \in N : P!Link(x) # P!Rear(y) /\ (P!Link(x) = P!Link(y) => x = y)
  BY DEF P!Link, P!Rear
<1>6. ASSUME NEW i \in 0 .. Len(s), NEW j \in 0 .. Len(s), Place(n, s, i) = Place(n, s, j)
      PROVE  i = j
  <2>1. CASE i = 0 \/ j = 0
    BY <1>1, <1>5, <1>6, <2>1 DEF Place
  <2>2. CASE i # 0 /\ j # 0
    <3>1. i \in 1 .. Len(s) /\ j \in 1 .. Len(s)
      BY <1>1, <2>2
    <3>2. s[i] = s[j]
      BY <1>1, <1>5, <1>6, <3>1 DEF Place
    <3> QED BY <3>1, <3>2 DEF Chain
  <2> QED BY <2>1, <2>2
<1> QED BY <1>1, <1>4, <1>6 DEF Places

\* A walk of the list visits the cells of the nodes, and ends.
LEMMA ChainVisited ==
  ASSUME NEW N, IsFiniteSet(N), NEW Z, NEW m, NEW p, Linked(N, Z, m, p), NEW n \in N,
         NEW s, Chain(N, m, p, n, s)
  PROVE  P!Visited(m, P!Rear(n)) = [i \in 1 .. Len(s) |-> P!Link(s[i])]
<1> DEFINE f == [i \in 0 .. Len(s) |-> Place(n, s, i)]
<1>p. Places(N, p, n, s)
  BY PlaceFacts
<1>1. /\ Len(s) \in Nat
      /\ \A i \in 1 .. Len(s) : s[i] \in N
      /\ \A i \in Int : Place(n, s, i) \in Cells(N) /\ ListIn(p, Place(n, s, i)) = n
      /\ \A i, j \in 0 .. Len(s) : Place(n, s, i) = Place(n, s, j) => i = j
  BY ONLY <1>p DEF Places
<1>2. DOMAIN m.next = Cells(N)
  BY DEF Linked, Memory
<1>3. /\ f \in [0 .. Len(s) -> Cells(N)] /\ f[0] = P!Rear(n)
      /\ \A i \in 1 .. Len(s) : f[i] = P!Link(s[i]) /\ f[i] # P!Rear(n)
  BY <1>1 DEF Place, P!Link, P!Rear
<1>4. \A i \in 0 .. Len(s) : m.next[Place(n, s, i)] = Place(n, s, i + 1)
  BY DEF Chain
<1>5. /\ \A i \in 1 .. Len(s) : f[i] = m.next[f[i - 1]]
      /\ m.next[f[Len(s)]] = P!Rear(n)
  <2>1. ASSUME NEW i \in 1 .. Len(s) PROVE f[i] = m.next[f[i - 1]]
    <3>1. i - 1 \in 0 .. Len(s) /\ (i - 1) + 1 = i /\ i \in 0 .. Len(s)
      BY <1>1
    <3>2. m.next[Place(n, s, i - 1)] = Place(n, s, i)
      BY <1>4, <3>1
    <3> QED BY <3>1, <3>2
  <2>2. Len(s) \in 0 .. Len(s) /\ Place(n, s, Len(s) + 1) = P!Rear(n)
    BY <1>1 DEF Place
  <2> QED BY <1>4, <2>1, <2>2
<1>6. IsFiniteSet(Cells(N))
  <2>1. IsFiniteSet({"link"} \cup {"rear_list"})
    BY FS_Singleton, FS_AddElement
  <2>2. {"link"} \cup {"rear_list"} = {"link", "rear_list"}
    OBVIOUS
  <2> QED BY <2>1, <2>2, FS_Product DEF Cells
<1>7. Len(s) < Cardinality(Cells(N))
  <2>1. f \in Injection(0 .. Len(s), Cells(N))
    BY <1>1, <1>3, Fun_IsInj
  <2>2. Cardinality(0 .. Len(s)) <= Cardinality(Cells(N)) /\ Cardinality(Cells(N)) \in Nat
    BY <1>6, <2>1, FS_Injection, FS_CardinalityType
  <2>3. Cardinality(0 .. Len(s)) = Len(s) + 1
    BY <1>1, FS_Interval
  <2> QED BY <1>1, <2>2, <2>3
<1> HIDE DEF f
<1>8. P!Visited(m, P!Rear(n)) = [i \in 1 .. Len(s) |-> f[i]]
  <2> DEFINE k == Len(s)  head == P!Rear(n)
  <2>1. Circuit(m, head, k, f)
    BY <1>1, <1>2, <1>3, <1>4, <1>5 DEF Circuit
  <2>3. IsFiniteSet(DOMAIN m.next) /\ k < Cardinality(DOMAIN m.next)
    BY <1>1, <1>2, <1>6, <1>7
  <2> HIDE DEF k, head
  <2>2. P!Visited(m, head) = [i \in 1 .. k |-> f[i]]
    BY ONLY <2>1, <2>3, VisitedIs
  <2> QED BY <2>2 DEF k, head
<1> QED BY <1>3, <1>8

\* What After says, of any memory.
AfterIn(N, Z, m, n) ==
  IF P!Rear(n) \notin InUse(N, Z, m) THEN <<>>
  ELSE LET cells == P!Visited(m, P!Rear(n)) IN [i \in DOMAIN cells |-> cells[i][1]]

\* It is the nodes of the list.
LEMMA AfterChain ==
  ASSUME NEW N, IsFiniteSet(N), NEW Z, NEW m, NEW p, Linked(N, Z, m, p), NEW n \in N,
         P!Rear(n) \in InUse(N, Z, m), NEW s, Chain(N, m, p, n, s)
  PROVE  AfterIn(N, Z, m, n) = s
<1>1. P!Visited(m, P!Rear(n)) = [i \in 1 .. Len(s) |-> P!Link(s[i])]
  BY ChainVisited
<1>2. s = [i \in 1 .. Len(s) |-> s[i]]
  BY DEF Chain
<1>3. \A x : P!Link(x)[1] = x
  BY DEF P!Link
<1>4. AfterIn(N, Z, m, n) = [i \in 1 .. Len(s) |-> P!Link(s[i])[1]]
  BY <1>1 DEF AfterIn
<1> QED BY <1>2, <1>3, <1>4

\* Each instance of Pipeline walks the same memory the same way,
LEMMA SameVisited ==
  ASSUME NEW N, NEW Z, NEW m, NEW c
  PROVE  Lists(N, Z)!Visited(m, c) = P!Visited(m, c)
  BY DEF Lists!Visited, P!Visited, Lists!Cardinality, P!Cardinality

\* so After is AfterIn, before a step and after it.
LEMMA AfterIs ==
  ASSUME NEW N, NEW Z, NEW n \in N
  PROVE  /\ Lists(N, Z)!After(n) = AfterIn(N, Z, mem, n)
         /\ Lists(N, Z)!After(n)' = AfterIn(N, Z, mem', n)
<1>1. Lists(N, Z)!Ready(Lists(N, Z)!Rear(n)) <=> P!Rear(n) \in InUse(N, Z, mem)
  BY DEF Lists!Ready, Lists!Null, Lists!Link, Lists!Rear, P!Link, P!Rear, InUse, Cells, Nil
<1>2. Lists(N, Z)!Ready(Lists(N, Z)!Rear(n))' <=> P!Rear(n) \in InUse(N, Z, mem')
  BY DEF Lists!Ready, Lists!Null, Lists!Link, Lists!Rear, P!Link, P!Rear, InUse, Cells, Nil
<1>3. Lists(N, Z)!Rear(n) = P!Rear(n)
  BY DEF Lists!Rear, P!Rear
<1>4. Lists(N, Z)!Visited(mem, P!Rear(n)) = P!Visited(mem, P!Rear(n))
  BY SameVisited
<1>5. Lists(N, Z)!Visited(mem', P!Rear(n)) = P!Visited(mem', P!Rear(n))
  BY SameVisited
<1>6. Lists(N, Z)!After(n) = AfterIn(N, Z, mem, n)
  BY <1>1, <1>3, <1>4 DEF Lists!After, AfterIn
<1>7. Lists(N, Z)!After(n)' = AfterIn(N, Z, mem', n)
  BY <1>2, <1>3, <1>5 DEF Lists!After, AfterIn
<1> QED BY <1>6, <1>7

\* A list of which no cell and no node changes stays what it is.
LEMMA ChainKept ==
  ASSUME NEW N, NEW m, NEW p, NEW n \in N, NEW s, Chain(N, m, p, n, s), NEW m2, NEW p2,
         \A c \in Cells(N) : ListIn(p, c) = n => m2.next[c] = m.next[c],
         \A x \in N : p[x] = n => p2[x] = n
  PROVE  Chain(N, m2, p2, n, s)
<1>p. Places(N, p, n, s)
  BY PlaceFacts
<1>1. /\ Len(s) \in Nat
      /\ \A i \in 1 .. Len(s) : s[i] \in N
      /\ \A i \in Int : Place(n, s, i) \in Cells(N) /\ ListIn(p, Place(n, s, i)) = n
  BY ONLY <1>p DEF Places
<1>2. \A i \in 0 .. Len(s) : m2.next[Place(n, s, i)] = m.next[Place(n, s, i)]
  BY <1>1
<1> QED BY <1>1, <1>2 DEF Chain

\* PipelineNodeInit: an empty list more.
LEMMA ChainInit ==
  ASSUME NEW N, NEW Z, NEW m, NEW p, Linked(N, Z, m, p), NEW n \in N,
         P!Link(n) \notin InUse(N, Z, m), P!Rear(n) \notin InUse(N, Z, m), NEW m2,
         m2.next = [m.next EXCEPT ![P!Link(n)] = P!Link(n), ![P!Rear(n)] = P!Rear(n)]
  PROVE  /\ Chain(N, m2, p, n, <<>>)
         /\ \A q \in N \ {n} : \A s : Chain(N, m, p, q, s) => Chain(N, m2, p, q, s)
<1>1. /\ P!Link(n) \in Cells(N) /\ P!Rear(n) \in Cells(N) /\ P!Link(n) # P!Rear(n)
      /\ m.next \in [Cells(N) -> Cells(N) \cup {Nil(Z)}] /\ Nil(Z) \notin Cells(N)
  BY CellFacts DEF Linked, Memory
<1>2. Chain(N, m2, p, n, <<>>)
  <2>1. Place(n, <<>>, 0) = P!Rear(n) /\ Place(n, <<>>, 1) = P!Rear(n)
    BY DEF Place
  <2> QED BY <1>1, <2>1 DEF Chain
<1>3. ASSUME NEW q \in N \ {n}, NEW s, Chain(N, m, p, q, s)
      PROVE  Chain(N, m2, p, q, s)
  <2>p. Places(N, p, q, s)
    BY <1>3, PlaceFacts
  <2>1. /\ Len(s) \in Nat
        /\ \A i \in 1 .. Len(s) : s[i] \in N
        /\ \A i \in Int : Place(q, s, i) \in Cells(N) /\ ListIn(p, Place(q, s, i)) = q
    BY ONLY <2>p DEF Places
  <2>2. \A i \in 0 .. Len(s) : Place(q, s, i) \in InUse(N, Z, m)
    BY <1>1, <1>3, <2>1 DEF Chain, InUse
  <2>3. \A i \in 0 .. Len(s) : m2.next[Place(q, s, i)] = m.next[Place(q, s, i)]
    BY <1>1, <2>1, <2>2
  <2> QED BY <1>3, <2>1, <2>3 DEF Chain
<1> QED BY <1>2, <1>3

\* PipelineConnect: the node comes first in one list, and the others stay.
LEMMA ChainConnect ==
  ASSUME NEW N, NEW Z, NEW m, NEW p, Linked(N, Z, m, p), NEW n \in N, NEW r \in N,
         p[r] = Z, NEW m2,
         m2.next = [m.next EXCEPT ![P!Link(r)] = m.next[P!Rear(n)],
                                  ![P!Rear(n)] = P!Link(r)]
  PROVE  LET p2 == [p EXCEPT ![r] = n]
         IN  /\ \A s : Chain(N, m, p, n, s) => Chain(N, m2, p2, n, <<r>> \o s)
             /\ \A q \in N \ {n} : \A s : Chain(N, m, p, q, s) => Chain(N, m2, p2, q, s)
<1> DEFINE p2 == [p EXCEPT ![r] = n]  e == P!Link(r)  b == P!Rear(n)
<1>1. /\ e \in Cells(N) /\ b \in Cells(N) /\ e # b /\ p \in [N -> N \cup {Z}]
      /\ m.next \in [Cells(N) -> Cells(N) \cup {Nil(Z)}] /\ Z \notin N
      /\ ListIn(p, e) = Z /\ ListIn(p, b) = n
  <2>1. Z \notin N /\ p \in [N -> N \cup {Z}] /\ m.next \in [Cells(N) -> Cells(N) \cup {Nil(Z)}]
    BY DEF Linked, Memory
  <2>2. e \in Cells(N) /\ b \in Cells(N) /\ e # b
    BY <2>1, CellFacts
  <2> QED BY <2>1, <2>2, ListInCell
<1>2. ASSUME NEW s, Chain(N, m, p, n, s)
      PROVE  Chain(N, m2, p2, n, <<r>> \o s)
  <2> DEFINE t == <<r>> \o s
  <2>p. Places(N, p, n, s)
    BY <1>2, PlaceFacts
  <2>1. /\ Len(s) \in Nat
        /\ \A i \in 1 .. Len(s) : s[i] \in N
        /\ \A i \in Int : Place(n, s, i) \in Cells(N) /\ ListIn(p, Place(n, s, i)) = n
        /\ \A i, j \in 0 .. Len(s) : Place(n, s, i) = Place(n, s, j) => i = j
    BY ONLY <2>p DEF Places
  <2>2. /\ s \in Seq(N)
        /\ \A i \in 1 .. Len(s) : p[s[i]] = n
        /\ \A i, j \in 1 .. Len(s) : s[i] = s[j] => i = j
        /\ \A i \in 0 .. Len(s) : m.next[Place(n, s, i)] = Place(n, s, i + 1)
    BY <1>2 DEF Chain
  <2>3. /\ t \in Seq(N) /\ Len(t) = Len(s) + 1 /\ t[1] = r
        /\ \A i \in 2 .. Len(s) + 1 : t[i] = s[i - 1]
    BY <2>2
  <2> HIDE DEF t
  <2>4. \A i \in 1 .. Len(s) : s[i] # r
    BY <1>1, <2>1, <2>2
  <2>5. \A i \in 1 .. Len(t) : p2[t[i]] = n
    BY <1>1, <2>1, <2>2, <2>3, <2>4
  <2>6. \A i, j \in 1 .. Len(t) : t[i] = t[j] => i = j
    <3> SUFFICES ASSUME NEW i \in 1 .. Len(t), NEW j \in 1 .. Len(t), t[i] = t[j]
                 PROVE  i = j
      OBVIOUS
    <3>1. \A k \in 2 .. Len(s) + 1 : k - 1 \in 1 .. Len(s) /\ t[k] = s[k - 1] /\ t[k] # r
      BY <2>1, <2>3, <2>4
    <3>2. CASE i = 1 \/ j = 1
      BY <2>1, <2>3, <3>1, <3>2
    <3>3. CASE i # 1 /\ j # 1
      <4>1. i \in 2 .. Len(s) + 1 /\ j \in 2 .. Len(s) + 1
        BY <2>1, <2>3, <3>3
      <4>2. i - 1 = j - 1
        BY ONLY <2>2, <3>1, <4>1, t[i] = t[j]
      <4> QED BY <4>1, <4>2
    <3> QED BY <3>2, <3>3
  <2>7. Place(n, t, 0) = b /\ Place(n, t, 1) = e
    BY <2>1, <2>3 DEF Place
  <2>8. \A i \in 2 .. Len(t) + 1 : Place(n, t, i) = Place(n, s, i - 1)
    BY <2>1, <2>3 DEF Place
  <2>9. Place(n, s, 0) = b
    BY DEF Place
  <2>10. ASSUME NEW i \in 0 .. Len(t)
         PROVE  m2.next[Place(n, t, i)] = Place(n, t, i + 1)
    <3>1. CASE i = 0
      BY <1>1, <2>7, <3>1
    <3>2. CASE i = 1
      <4>1. m2.next[e] = m.next[b] /\ m.next[b] = Place(n, s, 1)
        BY <1>1, <2>1, <2>2, <2>9
      <4>2. Place(n, t, 2) = Place(n, s, 1)
        BY <2>1, <2>3, <2>8
      <4> QED BY <2>7, <3>2, <4>1, <4>2
    <3>3. CASE i \in 2 .. Len(t)
      <4>1. /\ Place(n, t, i) = Place(n, s, i - 1) /\ Place(n, t, i + 1) = Place(n, s, i)
            /\ i - 1 \in 1 .. Len(s)
        BY <2>1, <2>3, <2>8, <3>3
      <4>2. Place(n, s, i - 1) # b
        BY <2>1, <2>9, <4>1
      <4>3. Place(n, s, i - 1) # e
        BY <1>1, <2>1, <4>1
      <4>4. m.next[Place(n, s, i - 1)] = Place(n, s, i)
        BY <2>2, <4>1
      <4> QED BY <1>1, <2>1, <4>1, <4>2, <4>3, <4>4
    <3> QED BY <3>1, <3>2, <3>3
  <2>11. Chain(N, m2, p2, n, t)
    BY <2>3, <2>5, <2>6, <2>10 DEF Chain
  <2> QED BY <2>11 DEF t
<1>3. ASSUME NEW q \in N \ {n}, NEW s, Chain(N, m, p, q, s)
      PROVE  Chain(N, m2, p2, q, s)
  <2>1. \A c \in Cells(N) : ListIn(p, c) = q => m2.next[c] = m.next[c]
    BY <1>1
  <2>2. \A x \in N : p[x] = q => p2[x] = q
    BY <1>1
  <2> HIDE DEF p2
  <2> QED BY ONLY q \in N \ {n}, <1>3, <2>1, <2>2, ChainKept
<1> QED BY <1>2, <1>3

\* A sequence without what is at place j.
LEMMA Without1 ==
  ASSUME NEW S, NEW s \in Seq(S), NEW j \in 1 .. Len(s)
  PROVE  /\ RemoveAt(s, j) \in Seq(S) /\ Len(RemoveAt(s, j)) = Len(s) - 1
         /\ \A i \in 1 .. Len(s) - 1 : RemoveAt(s, j)[i] = IF i < j THEN s[i] ELSE s[i + 1]
<1> DEFINE a == SubSeq(s, 1, j - 1)  b == SubSeq(s, j + 1, Len(s))
<1>1. a \in Seq(S) /\ Len(a) = j - 1 /\ \A i \in 1 .. j - 1 : a[i] = s[i]
  BY SubSeqProperties
<1>2. b \in Seq(S) /\ Len(b) = Len(s) - j /\ \A i \in 1 .. Len(s) - j : b[i] = s[j + i]
  BY SubSeqProperties
<1>3. RemoveAt(s, j) = a \o b
  BY DEF RemoveAt
<1> HIDE DEF a, b
<1>4. RemoveAt(s, j) \in Seq(S) /\ Len(RemoveAt(s, j)) = Len(s) - 1
  BY <1>1, <1>2, <1>3
<1>5. ASSUME NEW i \in 1 .. Len(s) - 1
      PROVE  RemoveAt(s, j)[i] = IF i < j THEN s[i] ELSE s[i + 1]
  <2>1. CASE i < j
    BY <1>1, <1>2, <1>3, <2>1
  <2>2. CASE ~(i < j)
    <3>1. i - (j - 1) \in 1 .. Len(s) - j /\ j + (i - (j - 1)) = i + 1
      BY <2>2
    <3>2. b[i - (j - 1)] = s[i + 1]
      BY <1>2, <3>1
    <3>3. (a \o b)[i] = b[i - (j - 1)]
      BY <1>1, <1>2, <2>2
    <3> QED BY <1>3, <2>2, <3>2, <3>3
  <2> QED BY <2>1, <2>2
<1> QED BY <1>4, <1>5

\* Taking out a node: its list goes on behind it, and the others stay.
LEMMA ChainUnlink ==
  ASSUME NEW N, NEW Z, NEW m, NEW p, Linked(N, Z, m, p), NEW n \in N, NEW r \in N,
         P!Link(r) \in InUse(N, Z, m), p[r] = n, NEW m2,
         m2.next = [m.next EXCEPT ![m.prev[P!Link(r)]] = m.next[P!Link(r)],
                                  ![P!Link(r)] = P!Link(r)]
  PROVE  LET p2 == [p EXCEPT ![r] = Z]
         IN  /\ \A s : \A j \in 1 .. Len(s) :
                  Chain(N, m, p, n, s) /\ s[j] = r => Chain(N, m2, p2, n, RemoveAt(s, j))
             /\ \A q \in N \ {n} : \A s : Chain(N, m, p, q, s) => Chain(N, m2, p2, q, s)
<1> DEFINE p2 == [p EXCEPT ![r] = Z]  e == P!Link(r)  b == m.prev[e]
<1>1. /\ Z \notin N /\ p \in [N -> N \cup {Z}]
      /\ m.next \in [Cells(N) -> Cells(N) \cup {Nil(Z)}] /\ Nil(Z) \notin Cells(N)
  BY CellFacts DEF Linked, Memory
<1>2. e \in Cells(N) /\ b \in Cells(N) /\ m.next[b] = e /\ b \in InUse(N, Z, m)
  BY DEF Linked, P!WellLinked, InUse
<1>3. ListIn(p, e) = n /\ ListIn(p, b) = n
  <2>1. ListIn(p, e) = n
    BY <1>1, ListInCell
  <2> QED BY <1>2, <2>1 DEF Linked
<1>4. ASSUME NEW s, NEW j \in 1 .. Len(s), Chain(N, m, p, n, s), s[j] = r
      PROVE  Chain(N, m2, p2, n, RemoveAt(s, j))
  <2> DEFINE t == RemoveAt(s, j)
  <2>p. Places(N, p, n, s)
    BY <1>4, PlaceFacts
  <2>1. /\ Len(s) \in Nat
        /\ \A i \in 1 .. Len(s) : s[i] \in N
        /\ \A i \in Int : Place(n, s, i) \in Cells(N) /\ ListIn(p, Place(n, s, i)) = n
        /\ \A i, k \in 0 .. Len(s) : Place(n, s, i) = Place(n, s, k) => i = k
    BY ONLY <2>p DEF Places
  <2>2. /\ s \in Seq(N)
        /\ \A i \in 1 .. Len(s) : p[s[i]] = n
        /\ \A i, k \in 1 .. Len(s) : s[i] = s[k] => i = k
        /\ \A i \in 0 .. Len(s) : m.next[Place(n, s, i)] = Place(n, s, i + 1)
    BY <1>4 DEF Chain
  <2>3. /\ t \in Seq(N) /\ Len(t) = Len(s) - 1
        /\ \A i \in 1 .. Len(s) - 1 : t[i] = IF i < j THEN s[i] ELSE s[i + 1]
    BY <2>2, Without1
  <2> HIDE DEF t
  <2>4. /\ j \in 1 .. Len(s) /\ j - 1 \in 0 .. Len(s) /\ j \in Int /\ j + 1 \in Int
        /\ (j - 1) + 1 = j
    BY <2>1
  <2>5. Place(n, s, j) = e
    BY <1>4 DEF Place
  <2>6. Place(n, s, j - 1) = b
    <3>1. m.next[Place(n, s, j - 1)] = e
      BY <2>2, <2>4, <2>5
    <3>2. Place(n, s, j - 1) \in InUse(N, Z, m)
      <4>1. Place(n, s, j - 1) \in Cells(N)
        BY <2>1, <2>4
      <4> QED BY <1>1, <1>2, <3>1, <4>1 DEF InUse
    <3> QED BY <3>1, <3>2 DEF Linked, P!WellLinked
  <2>7. \A i \in 0 .. Len(s) : Place(n, t, i) = Place(n, s, IF i < j THEN i ELSE i + 1)
    <3> SUFFICES ASSUME NEW i \in 0 .. Len(s)
                 PROVE  Place(n, t, i) = Place(n, s, IF i < j THEN i ELSE i + 1)
      OBVIOUS
    <3>1. CASE i \in 1 .. Len(s) - 1
      <4>1. i < j => i \in 1 .. Len(s)
        BY <2>1, <3>1
      <4>2. ~(i < j) => i + 1 \in 1 .. Len(s)
        BY <2>1, <3>1
      <4> QED BY <2>1, <2>3, <3>1, <4>1, <4>2 DEF Place
    <3>2. CASE i = 0
      BY <2>1, <2>4, <3>2 DEF Place
    <3>3. CASE i = Len(s)
      BY <2>1, <2>3, <2>4, <3>3 DEF Place
    <3> QED BY <2>1, <3>1, <3>2, <3>3
  <2>8. \A i \in 1 .. Len(t) : p2[t[i]] = n
    <3>1. \A i \in 1 .. Len(s) : i # j => s[i] # r
      BY <1>4, <2>2
    <3>2. ASSUME NEW i \in 1 .. Len(t) PROVE p2[t[i]] = n
      <4> DEFINE k == IF i < j THEN i ELSE i + 1
      <4>1. k \in 1 .. Len(s) /\ k # j /\ t[i] = s[k]
        BY <2>1, <2>3, <2>4
      <4> HIDE DEF k
      <4>2. s[k] \in N /\ p[s[k]] = n /\ s[k] # r
        BY <2>1, <2>2, <3>1, <4>1
      <4> QED BY <1>1, <4>1, <4>2
    <3> QED BY <3>2
  <2>9. \A i, k \in 1 .. Len(t) : t[i] = t[k] => i = k
    <3> SUFFICES ASSUME NEW i \in 1 .. Len(t), NEW k \in 1 .. Len(t), t[i] = t[k]
                 PROVE  i = k
      OBVIOUS
    <3> DEFINE i2 == IF i < j THEN i ELSE i + 1
               k2 == IF k < j THEN k ELSE k + 1
    <3>1. i2 \in 1 .. Len(s) /\ k2 \in 1 .. Len(s) /\ t[i] = s[i2] /\ t[k] = s[k2]
      BY <2>1, <2>3
    <3>2. i2 = k2
      BY ONLY <2>2, <3>1, t[i] = t[k]
    <3> QED BY <2>1, <2>3, <2>4, <3>2
  <2>10. ASSUME NEW i \in 0 .. Len(t)
         PROVE  m2.next[Place(n, t, i)] = Place(n, t, i + 1)
    <3>1. i \in 0 .. Len(s) /\ i + 1 \in 0 .. Len(s) /\ i \in Int /\ i + 1 \in Int
      BY <2>1, <2>3
    <3>2. CASE i + 1 < j
      <4>1. Place(n, t, i) = Place(n, s, i) /\ Place(n, t, i + 1) = Place(n, s, i + 1)
        BY <2>4, <2>7, <3>1, <3>2
      <4>2. Place(n, s, i) # b /\ Place(n, s, i) # e
        BY ONLY <2>1, <2>4, <2>5, <2>6, <3>1, <3>2
      <4> QED BY <1>1, <2>1, <2>2, <3>1, <4>1, <4>2
    <3>3. CASE i + 1 = j
      <4>1. Place(n, t, i) = b /\ Place(n, t, i + 1) = Place(n, s, j + 1)
        <5>1. i < j /\ ~(i + 1 < j) /\ i = j - 1 /\ (i + 1) + 1 = j + 1
          BY <2>4, <3>1, <3>3
        <5> QED BY <2>6, <2>7, <3>1, <5>1
      <4>2. b # e
        <5>1. j \in 0 .. Len(s) /\ j - 1 # j
          BY <2>1, <2>4
        <5> QED BY ONLY <2>1, <2>4, <2>5, <2>6, <5>1
      <4>3. m.next[e] = Place(n, s, j + 1)
        BY <2>2, <2>4, <2>5
      <4> QED BY <1>1, <1>2, <4>1, <4>2, <4>3
    <3>4. CASE i >= j
      <4>1. /\ Place(n, t, i) = Place(n, s, i + 1)
            /\ Place(n, t, i + 1) = Place(n, s, (i + 1) + 1)
        <5>1. ~(i < j) /\ ~(i + 1 < j)
          BY <2>4, <3>1, <3>4
        <5> QED BY <2>7, <3>1, <5>1
      <4>2. Place(n, s, i + 1) # b /\ Place(n, s, i + 1) # e
        BY ONLY <2>1, <2>4, <2>5, <2>6, <3>1, <3>4
      <4> QED BY <1>1, <2>1, <2>2, <3>1, <4>1, <4>2
    <3> QED BY <2>4, <3>1, <3>2, <3>3, <3>4
  <2>11. Chain(N, m2, p2, n, t)
    BY <2>3, <2>8, <2>9, <2>10 DEF Chain
  <2> QED BY <2>11 DEF t
<1>5. ASSUME NEW q \in N \ {n}, NEW s, Chain(N, m, p, q, s)
      PROVE  Chain(N, m2, p2, q, s)
  <2>1. \A c \in Cells(N) : ListIn(p, c) = q => m2.next[c] = m.next[c]
    BY <1>1, <1>2, <1>3
  <2>2. \A x \in N : p[x] = q => p2[x] = q
    BY <1>1
  <2> HIDE DEF p2
  <2> QED BY ONLY q \in N \ {n}, <1>5, <2>1, <2>2, ChainKept
<1> QED BY <1>4, <1>5

\* PipelineNodeInit changes nothing of what is called after what.
LEMMA AfterInit ==
  ASSUME NEW N, IsFiniteSet(N), NEW Z, NEW m, NEW p, Linked(N, Z, m, p),
         Chained(N, Z, m, p), NEW n \in N,
         P!Link(n) \notin InUse(N, Z, m), P!Rear(n) \notin InUse(N, Z, m),
         NEW m2, m2 = P!ListInit(P!ListInit(m, P!Link(n)), P!Rear(n))
  PROVE  /\ Chained(N, Z, m2, p)
         /\ \A q \in N : AfterIn(N, Z, m2, q) = AfterIn(N, Z, m, q)
<1>1. /\ Linked(N, Z, m2, p)
      /\ InUse(N, Z, m2) = InUse(N, Z, m) \cup {P!Link(n), P!Rear(n)}
      /\ m2.next = [m.next EXCEPT ![P!Link(n)] = P!Link(n), ![P!Rear(n)] = P!Rear(n)]
  BY NodeInitKeeps
<1>2. /\ Chain(N, m2, p, n, <<>>)
      /\ \A q \in N \ {n} : \A s : Chain(N, m, p, q, s) => Chain(N, m2, p, q, s)
  BY <1>1, ChainInit
<1>3. ASSUME NEW q \in N
      PROVE  /\ P!Rear(q) \in InUse(N, Z, m2) => \E s : Chain(N, m2, p, q, s)
             /\ AfterIn(N, Z, m2, q) = AfterIn(N, Z, m, q)
  <2>1. CASE q = n
    <3>1. AfterIn(N, Z, m2, q) = <<>>
      BY <1>1, <1>2, <2>1, AfterChain
    <3> QED BY <1>2, <2>1, <3>1 DEF AfterIn
  <2>2. CASE q # n /\ P!Rear(q) \in InUse(N, Z, m)
    <3>1. PICK s : Chain(N, m, p, q, s)
      BY <2>2 DEF Chained
    <3>2. Chain(N, m2, p, q, s) /\ P!Rear(q) \in InUse(N, Z, m2)
      BY <1>1, <1>2, <2>2, <3>1
    <3>3. AfterIn(N, Z, m2, q) = s
      BY <1>1, <3>2, AfterChain
    <3>4. AfterIn(N, Z, m, q) = s
      BY <2>2, <3>1, AfterChain
    <3> QED BY <3>2, <3>3, <3>4
  <2>3. CASE q # n /\ P!Rear(q) \notin InUse(N, Z, m)
    <3>1. P!Rear(q) \notin InUse(N, Z, m2)
      BY <1>1, <2>3 DEF P!Rear, P!Link
    <3> QED BY <2>3, <3>1 DEF AfterIn
  <2> QED BY <2>1, <2>2, <2>3
<1> QED BY <1>3 DEF Chained

\* A step that keeps what is in use, and all lists but that of n.
LEMMA AfterOthers ==
  ASSUME NEW N, IsFiniteSet(N), NEW Z, NEW m, NEW p, Linked(N, Z, m, p),
         Chained(N, Z, m, p), NEW n \in N, NEW m2, NEW p2, Linked(N, Z, m2, p2),
         InUse(N, Z, m2) = InUse(N, Z, m), P!Rear(n) \in InUse(N, Z, m),
         \A q \in N \ {n} : \A s : Chain(N, m, p, q, s) => Chain(N, m2, p2, q, s),
         NEW t, Chain(N, m2, p2, n, t)
  PROVE  /\ Chained(N, Z, m2, p2) /\ AfterIn(N, Z, m2, n) = t
         /\ \A q \in N \ {n} : AfterIn(N, Z, m2, q) = AfterIn(N, Z, m, q)
<1>1. AfterIn(N, Z, m2, n) = t
  BY AfterChain
<1>2. ASSUME NEW q \in N \ {n}
      PROVE  /\ P!Rear(q) \in InUse(N, Z, m2) => \E s : Chain(N, m2, p2, q, s)
             /\ AfterIn(N, Z, m2, q) = AfterIn(N, Z, m, q)
  <2>1. CASE P!Rear(q) \in InUse(N, Z, m)
    <3>1. PICK s : Chain(N, m, p, q, s)
      BY <2>1 DEF Chained
    <3>2. Chain(N, m2, p2, q, s)
      BY <3>1
    <3>3. AfterIn(N, Z, m2, q) = s
      BY <2>1, <3>2, AfterChain
    <3>4. AfterIn(N, Z, m, q) = s
      BY <2>1, <3>1, AfterChain
    <3> QED BY <3>2, <3>3, <3>4
  <2>2. CASE P!Rear(q) \notin InUse(N, Z, m)
    BY <2>2 DEF AfterIn
  <2> QED BY <2>1, <2>2
<1> QED BY <1>1, <1>2 DEF Chained

\* What is called after a node is connected to it.
LEMMA AfterConnected ==
  ASSUME NEW N, IsFiniteSet(N), NEW Z, NEW m, NEW p, Linked(N, Z, m, p),
         Chained(N, Z, m, p), NEW n \in N
  PROVE  /\ AfterIn(N, Z, m, n) \in Seq(N)
         /\ \A i \in 1 .. Len(AfterIn(N, Z, m, n)) : p[AfterIn(N, Z, m, n)[i]] = n
<1>1. CASE P!Rear(n) \in InUse(N, Z, m)
  <2>1. PICK s : Chain(N, m, p, n, s)
    BY <1>1 DEF Chained
  <2>2. AfterIn(N, Z, m, n) = s
    BY <1>1, <2>1, AfterChain
  <2> QED BY <2>1, <2>2 DEF Chain
<1>2. CASE P!Rear(n) \notin InUse(N, Z, m)
  BY <1>2 DEF AfterIn
<1> QED BY <1>1, <1>2

\* A node that is after no other is in no sequence.
LEMMA FreeInNone ==
  ASSUME NEW N, IsFiniteSet(N), NEW Z, NEW m, NEW p, Linked(N, Z, m, p),
         Chained(N, Z, m, p), NEW r \in N, p[r] = Z
  PROVE  \A q \in N : r \notin Range(AfterIn(N, Z, m, q))
<1> SUFFICES ASSUME NEW q \in N, NEW i \in DOMAIN AfterIn(N, Z, m, q)
             PROVE  AfterIn(N, Z, m, q)[i] # r
  BY DEF Range
<1>1. /\ AfterIn(N, Z, m, q) \in Seq(N)
      /\ \A k \in 1 .. Len(AfterIn(N, Z, m, q)) : p[AfterIn(N, Z, m, q)[k]] = q
  BY AfterConnected
<1>2. p[AfterIn(N, Z, m, q)[i]] = q
  BY <1>1
<1> QED BY <1>2 DEF Linked

\* What a connection changes in the connections p.
Put(p, r, n) == [p EXCEPT ![r] = n]

\* PipelineConnect of a node that is after no other.
LEMMA AfterConnect ==
  ASSUME NEW N, NEW Z, NEW m, NEW p, NEW m2, NEW p2, NEW n \in N, NEW r \in N,
         IsFiniteSet(N), Linked(N, Z, m, p), Chained(N, Z, m, p),
         P!Rear(n) \in InUse(N, Z, m), P!Link(r) \in InUse(N, Z, m),
         ListIn(p, P!Link(r)) = Z, m2 = P!ListAdd(m, P!Link(r), P!Rear(n)), p2 = Put(p, r, n)
  PROVE  /\ Chained(N, Z, m2, p2)
         /\ AfterIn(N, Z, m2, n) = Cons(r, AfterIn(N, Z, m, n))
         /\ \A q \in N \ {n} : AfterIn(N, Z, m2, q) = AfterIn(N, Z, m, q)
<1>0. p[r] = Z
  BY ListInCell
<1>1. /\ Linked(N, Z, m2, p2) /\ InUse(N, Z, m2) = InUse(N, Z, m)
      /\ m2.next = [m.next EXCEPT ![P!Link(r)] = m.next[P!Rear(n)],
                                  ![P!Rear(n)] = P!Link(r)]
  <2>1. /\ Linked(N, Z, P!ListAdd(m, P!Link(r), P!Rear(n)), [p EXCEPT ![r] = n])
        /\ InUse(N, Z, P!ListAdd(m, P!Link(r), P!Rear(n))) = InUse(N, Z, m)
        /\ P!ListAdd(m, P!Link(r), P!Rear(n)).next
             = [m.next EXCEPT ![P!Link(r)] = m.next[P!Rear(n)], ![P!Rear(n)] = P!Link(r)]
    BY ONLY Linked(N, Z, m, p), n \in N, r \in N, P!Rear(n) \in InUse(N, Z, m),
            P!Link(r) \in InUse(N, Z, m), <1>0, ConnectKeeps
  <2> QED BY <2>1 DEF Put
<1>2. /\ \A s : Chain(N, m, p, n, s) => Chain(N, m2, p2, n, <<r>> \o s)
      /\ \A q \in N \ {n} : \A s : Chain(N, m, p, q, s) => Chain(N, m2, p2, q, s)
  BY <1>0, <1>1, ChainConnect DEF Put
<1>3. PICK s : Chain(N, m, p, n, s)
  BY DEF Chained
<1>4. AfterIn(N, Z, m, n) = s
  BY <1>3, AfterChain
<1>5. Chain(N, m2, p2, n, <<r>> \o s)
  BY <1>2, <1>3
<1>6. /\ Chained(N, Z, m2, p2) /\ AfterIn(N, Z, m2, n) = <<r>> \o s
      /\ \A q \in N \ {n} : AfterIn(N, Z, m2, q) = AfterIn(N, Z, m, q)
  <2> DEFINE t == <<r>> \o s
  <2> HIDE DEF t
  <2>1. Chain(N, m2, p2, n, t)
    BY <1>5 DEF t
  <2>2. /\ Chained(N, Z, m2, p2) /\ AfterIn(N, Z, m2, n) = t
        /\ \A q \in N \ {n} : AfterIn(N, Z, m2, q) = AfterIn(N, Z, m, q)
    BY ONLY IsFiniteSet(N), Linked(N, Z, m, p), Chained(N, Z, m, p), n \in N,
            P!Rear(n) \in InUse(N, Z, m), <1>1, <1>2, <2>1, AfterOthers
  <2> QED BY <2>2 DEF t
<1> QED BY <1>4, <1>6 DEF Cons

\* Taking a node out of the list it is in.
LEMMA AfterUnlink ==
  ASSUME NEW N, NEW Z, NEW m, NEW p, NEW m2, NEW p2, NEW n \in N, NEW r \in N,
         NEW j \in 1 .. Len(AfterIn(N, Z, m, n)),
         IsFiniteSet(N), Linked(N, Z, m, p), Chained(N, Z, m, p),
         P!Rear(n) \in InUse(N, Z, m), P!Link(r) \in InUse(N, Z, m),
         AfterIn(N, Z, m, n)[j] = r,
         m2 = P!ListDel(m, P!Link(r)), p2 = Put(p, r, Z)
  PROVE  /\ Chained(N, Z, m2, p2)
         /\ AfterIn(N, Z, m2, n) = RemoveAt(AfterIn(N, Z, m, n), j)
         /\ \A q \in N \ {n} : AfterIn(N, Z, m2, q) = AfterIn(N, Z, m, q)
<1>1. /\ Linked(N, Z, m2, p2) /\ InUse(N, Z, m2) = InUse(N, Z, m)
      /\ m2.next = [m.next EXCEPT ![m.prev[P!Link(r)]] = m.next[P!Link(r)],
                                  ![P!Link(r)] = P!Link(r)]
  <2>1. /\ Linked(N, Z, P!ListDel(m, P!Link(r)), [p EXCEPT ![r] = Z])
        /\ InUse(N, Z, P!ListDel(m, P!Link(r))) = InUse(N, Z, m)
        /\ P!ListDel(m, P!Link(r)).next
             = [m.next EXCEPT ![m.prev[P!Link(r)]] = m.next[P!Link(r)],
                              ![P!Link(r)] = P!Link(r)]
    BY ONLY Linked(N, Z, m, p), r \in N, P!Link(r) \in InUse(N, Z, m), UnlinkKeeps
  <2> QED BY <2>1 DEF Put
<1>2. PICK s : Chain(N, m, p, n, s)
  BY DEF Chained
<1>3. AfterIn(N, Z, m, n) = s
  BY <1>2, AfterChain
<1>4. p[r] = n
  BY <1>2, <1>3 DEF Chain
<1>5. /\ \A t : \A k \in 1 .. Len(t) :
           Chain(N, m, p, n, t) /\ t[k] = r => Chain(N, m2, p2, n, RemoveAt(t, k))
      /\ \A q \in N \ {n} : \A t : Chain(N, m, p, q, t) => Chain(N, m2, p2, q, t)
  BY <1>1, <1>4, ChainUnlink DEF Put
<1>6. Chain(N, m2, p2, n, RemoveAt(s, j))
  BY <1>2, <1>3, <1>5
<1>7. /\ Chained(N, Z, m2, p2) /\ AfterIn(N, Z, m2, n) = RemoveAt(s, j)
      /\ \A q \in N \ {n} : AfterIn(N, Z, m2, q) = AfterIn(N, Z, m, q)
  <2> DEFINE t == RemoveAt(s, j)
  <2> HIDE DEF t
  <2>1. Chain(N, m2, p2, n, t)
    BY <1>6 DEF t
  <2>2. /\ Chained(N, Z, m2, p2) /\ AfterIn(N, Z, m2, n) = t
        /\ \A q \in N \ {n} : AfterIn(N, Z, m2, q) = AfterIn(N, Z, m, q)
    BY ONLY IsFiniteSet(N), Linked(N, Z, m, p), Chained(N, Z, m, p), n \in N,
            P!Rear(n) \in InUse(N, Z, m), <1>1, <1>5, <2>1, AfterOthers
  <2> QED BY <2>2 DEF t
<1> QED BY <1>3, <1>7

-----------------------------------------------------------------------------
(* So the pointers implement PipelineTree.                                  *)

\* The promise of PipelineTree, of the sequences that the pointers make.
TreeOf(N, Z) ==
  INSTANCE PipelineTree WITH Node <- N, after <- [n \in N |-> Lists(N, Z)!After(n)]

\* A step of the tree, by what AfterIn says of the two memories.
LEMMA TreeConnects ==
  ASSUME NEW N, NEW Z, NEW n \in N, NEW r \in N,
         AfterIn(N, Z, mem', n) = <<r>> \o AfterIn(N, Z, mem, n),
         \A q \in N \ {n} : AfterIn(N, Z, mem', q) = AfterIn(N, Z, mem, q),
         \A q \in N : r \notin Range(AfterIn(N, Z, mem, q))
  PROVE  TreeOf(N, Z)!Connect(n, r)
<1> DEFINE A == [q \in N |-> Lists(N, Z)!After(q)]
<1>1. A = [q \in N |-> AfterIn(N, Z, mem, q)]
  BY AfterIs
<1>2. A' = [q \in N |-> AfterIn(N, Z, mem', q)]
  BY AfterIs
<1>3. A' = [A EXCEPT ![n] = <<r>> \o @]
  BY <1>1, <1>2
<1>4. \A q \in N : r \notin TreeOf(N, Z)!Range(A[q])
  BY <1>1 DEF TreeOf!Range, Range
<1> HIDE DEF A
<1> QED BY <1>3, <1>4 DEF TreeOf!Connect, TreeOf!Free, A

\* The same of taking out the node at j.
LEMMA TreeUnlinks ==
  ASSUME NEW N, NEW Z, NEW n \in N, NEW j \in 1 .. Len(AfterIn(N, Z, mem, n)),
         AfterIn(N, Z, mem', n) = RemoveAt(AfterIn(N, Z, mem, n), j),
         \A q \in N \ {n} : AfterIn(N, Z, mem', q) = AfterIn(N, Z, mem, q)
  PROVE  LET A == [q \in N |-> Lists(N, Z)!After(q)]
         IN  A' = [A EXCEPT ![n] = RemoveAt(@, j)] /\ A[n] = AfterIn(N, Z, mem, n)
<1> DEFINE A == [q \in N |-> Lists(N, Z)!After(q)]
<1>1. A = [q \in N |-> AfterIn(N, Z, mem, q)]
  BY AfterIs
<1>2. A' = [q \in N |-> AfterIn(N, Z, mem', q)]
  BY AfterIs
<1>3. A' = [A EXCEPT ![n] = RemoveAt(@, j)]
  <2> DEFINE u == RemoveAt(AfterIn(N, Z, mem, n), j)
  <2>1. AfterIn(N, Z, mem', n) = u
    OBVIOUS
  <2>2. A[n] = AfterIn(N, Z, mem, n)
    BY <1>1
  <2>3. RemoveAt(A[n], j) = u
    BY <2>2
  <2> HIDE DEF u, A
  <2>4. A' = [A EXCEPT ![n] = u]
    BY <1>1, <1>2, <2>1
  <2> QED BY ONLY <2>3, <2>4
<1>4. A[n] = AfterIn(N, Z, mem, n)
  BY <1>1
<1> HIDE DEF A
<1> QED BY <1>3, <1>4 DEF A

\* PipelineDisConnect and PipelineClear find the node in the list.
LEMMA FoundInList ==
  ASSUME NEW N, IsFiniteSet(N), NEW Z, NEW m, NEW p, Linked(N, Z, m, p),
         Chained(N, Z, m, p), NEW n \in N, P!Rear(n) \in InUse(N, Z, m)
  PROVE  /\ \A c \in Range(P!Visited(m, P!Rear(n))) :
              \E j \in 1 .. Len(AfterIn(N, Z, m, n)) :
                c = P!Link(AfterIn(N, Z, m, n)[j])
         /\ m.next[P!Rear(n)] # P!Rear(n) =>
              /\ AfterIn(N, Z, m, n) \in Seq(N) /\ AfterIn(N, Z, m, n) # <<>>
              /\ m.next[P!Rear(n)] = P!Link(AfterIn(N, Z, m, n)[1])
<1>1. PICK s : Chain(N, m, p, n, s)
  BY DEF Chained
<1>2. AfterIn(N, Z, m, n) = s /\ s \in Seq(N)
  BY <1>1, AfterChain DEF Chain
<1>3. P!Visited(m, P!Rear(n)) = [i \in 1 .. Len(s) |-> P!Link(s[i])]
  BY <1>1, ChainVisited
<1>4. m.next[P!Rear(n)] = Place(n, s, 1)
  <2>1. Place(n, s, 0) = P!Rear(n)
    BY DEF Place
  <2> QED BY <1>1, <2>1 DEF Chain
<1> QED BY <1>2, <1>3, <1>4 DEF Place, Range

\* Every operation is one of the tree's, or none.
LEMMA TreeStepped ==
  ASSUME NEW N, IsFiniteSet(N), NEW Z, Linked(N, Z, mem, pre), Chained(N, Z, mem, pre),
         Lists(N, Z)!Next
  PROVE  /\ Chained(N, Z, mem', pre')
         /\ \/ \A n \in N : Lists(N, Z)!After(n)' = Lists(N, Z)!After(n)
            \/ TreeOf(N, Z)!Next
<1>1. ASSUME NEW n \in N, Lists(N, Z)!NodeInit(n)
      PROVE  /\ Chained(N, Z, mem', pre')
             /\ \A q \in N : Lists(N, Z)!After(q)' = Lists(N, Z)!After(q)
  <2>1. P!Link(n) \notin InUse(N, Z, mem) /\ P!Rear(n) \notin InUse(N, Z, mem)
    BY <1>1, CellsInUse DEF Lists!NodeInit
  <2>2. mem' = P!ListInit(P!ListInit(mem, P!Link(n)), P!Rear(n)) /\ pre' = pre
    BY <1>1 DEF Lists!NodeInit, Lists!ListInit, P!ListInit, Lists!Link, Lists!Rear, P!Link,
                P!Rear
  <2>3. /\ Chained(N, Z, mem', pre)
        /\ \A q \in N : AfterIn(N, Z, mem', q) = AfterIn(N, Z, mem, q)
    BY <2>1, <2>2, AfterInit
  <2> QED BY <2>2, <2>3, AfterIs
<1>2. ASSUME NEW n \in N, NEW r \in N, Lists(N, Z)!Ready(Lists(N, Z)!Rear(n)),
             Lists(N, Z)!Ready(Lists(N, Z)!Link(r)), pre[r] = Z, Lists(N, Z)!Connect(n, r)
      PROVE  Chained(N, Z, mem', pre') /\ TreeOf(N, Z)!Connect(n, r)
  <2>1. P!Link(r) \in InUse(N, Z, mem) /\ P!Rear(n) \in InUse(N, Z, mem)
    BY <1>2, CellsInUse
  <2>2. mem' = P!ListAdd(mem, P!Link(r), P!Rear(n)) /\ pre' = Put(pre, r, n)
    BY <1>2 DEF Lists!Connect, Lists!ListAdd, P!ListAdd, Lists!Splice, P!Splice, Lists!Link,
                Lists!Rear, P!Link, P!Rear, Put
  <2>3. /\ Chained(N, Z, mem', pre')
        /\ AfterIn(N, Z, mem', n) = Cons(r, AfterIn(N, Z, mem, n))
        /\ \A q \in N \ {n} : AfterIn(N, Z, mem', q) = AfterIn(N, Z, mem, q)
    <3>1. /\ IsFiniteSet(N) /\ Linked(N, Z, mem, pre) /\ Chained(N, Z, mem, pre)
          /\ n \in N /\ r \in N /\ ListIn(pre, P!Link(r)) = Z
      BY <1>2, ListInCell
    <3> QED BY ONLY <2>1, <2>2, <3>1, AfterConnect
  <2>4. \A q \in N : r \notin Range(AfterIn(N, Z, mem, q))
    BY <1>2, FreeInNone
  <2> QED BY <2>3, <2>4, TreeConnects DEF Cons
<1>3. ASSUME NEW n \in N, NEW r \in N, P!Rear(n) \in InUse(N, Z, mem),
             P!Link(r) \in InUse(N, Z, mem),
             NEW j \in 1 .. Len(AfterIn(N, Z, mem, n)), AfterIn(N, Z, mem, n)[j] = r,
             mem' = P!ListDel(mem, P!Link(r)), pre' = Put(pre, r, Z)
      PROVE  LET A == [q \in N |-> Lists(N, Z)!After(q)]
             IN  /\ Chained(N, Z, mem', pre')
                 /\ A' = [A EXCEPT ![n] = RemoveAt(@, j)] /\ A[n] = AfterIn(N, Z, mem, n)
  <2>1. /\ Chained(N, Z, mem', pre')
        /\ AfterIn(N, Z, mem', n) = RemoveAt(AfterIn(N, Z, mem, n), j)
        /\ \A q \in N \ {n} : AfterIn(N, Z, mem', q) = AfterIn(N, Z, mem, q)
    <3>1. /\ IsFiniteSet(N) /\ Linked(N, Z, mem, pre) /\ Chained(N, Z, mem, pre)
          /\ n \in N /\ r \in N /\ j \in 1 .. Len(AfterIn(N, Z, mem, n))
      OBVIOUS
    <3> QED BY ONLY <1>3, <3>1, AfterUnlink
  <2> QED BY <2>1, TreeUnlinks
<1>4. ASSUME NEW n \in N, NEW r \in N, Lists(N, Z)!Ready(Lists(N, Z)!Rear(n)),
             Lists(N, Z)!Ready(Lists(N, Z)!Link(r)), Lists(N, Z)!DisConnect(n, r)
      PROVE  Chained(N, Z, mem', pre') /\ TreeOf(N, Z)!DisConnect(n, r)
  <2> DEFINE A == [q \in N |-> Lists(N, Z)!After(q)]
  <2>1. P!Link(r) \in InUse(N, Z, mem) /\ P!Rear(n) \in InUse(N, Z, mem)
    BY <1>4, CellsInUse
  <2>2. mem' = P!ListDel(mem, P!Link(r)) /\ pre' = Put(pre, r, Z)
    BY <1>4 DEF Lists!DisConnect, Lists!ListDel, P!ListDel, Lists!Link, P!Link, Put
  <2>3. P!Link(r) \in Range(P!Visited(mem, P!Rear(n)))
    <3>1. Lists(N, Z)!Visited(mem, P!Rear(n)) = P!Visited(mem, P!Rear(n))
      BY SameVisited
    <3> QED BY <1>4, <3>1 DEF Lists!DisConnect, Lists!Range, Range, Lists!Link, Lists!Rear,
                              P!Link, P!Rear
  <2>4. PICK j \in 1 .. Len(AfterIn(N, Z, mem, n)) : P!Link(r) = P!Link(AfterIn(N, Z, mem, n)[j])
    BY <2>1, <2>3, FoundInList
  <2>5. AfterIn(N, Z, mem, n)[j] = r
    BY <2>4 DEF P!Link
  <2>6. /\ Chained(N, Z, mem', pre')
        /\ A' = [A EXCEPT ![n] = RemoveAt(@, j)] /\ A[n] = AfterIn(N, Z, mem, n)
    BY <1>3, <2>1, <2>2, <2>5
  <2>7. j \in DOMAIN A[n] /\ A[n][j] = r
    <3>1. AfterIn(N, Z, mem, n) \in Seq(N)
      BY AfterConnected
    <3> QED BY <2>5, <2>6, <3>1
  <2> HIDE DEF A
  <2> QED BY <2>6, <2>7 DEF TreeOf!DisConnect, TreeOf!Without, RemoveAt, A
<1>5. ASSUME NEW n \in N, Lists(N, Z)!Ready(Lists(N, Z)!Rear(n)), Lists(N, Z)!ClearFirst(n)
      PROVE  Chained(N, Z, mem', pre') /\ TreeOf(N, Z)!ClearFirst(n)
  <2> DEFINE A == [q \in N |-> Lists(N, Z)!After(q)]
             s == AfterIn(N, Z, mem, n)
             e == mem.next[P!Rear(n)]
  <2>1. P!Rear(n) \in InUse(N, Z, mem)
    BY <1>5, CellsInUse
  <2>2. /\ e # P!Rear(n)
        /\ mem' = P!ListDel(mem, e) /\ pre' = Put(pre, e[1], Z)
    BY <1>5 DEF Lists!ClearFirst, Lists!ListEmpty, Lists!ListDel, P!ListDel, Lists!Rear, P!Rear, Put
  <2>3. s \in Seq(N) /\ s # <<>> /\ e = P!Link(s[1])
    BY <2>1, <2>2, FoundInList
  <2>4. 1 \in 1 .. Len(s) /\ s[1] \in N /\ e[1] = s[1]
    BY <2>3 DEF P!Link
  <2>5. P!Link(s[1]) \in InUse(N, Z, mem)
    BY <2>1, <2>3 DEF Linked, P!WellLinked
  <2>6. /\ Chained(N, Z, mem', pre')
        /\ A' = [A EXCEPT ![n] = RemoveAt(@, 1)] /\ A[n] = s
    BY <1>3, <2>1, <2>2, <2>3, <2>4, <2>5
  <2>7. RemoveAt(s, 1) = Tail(s)
    <3>1. /\ RemoveAt(s, 1) \in Seq(N) /\ Len(RemoveAt(s, 1)) = Len(s) - 1
          /\ \A i \in 1 .. Len(s) - 1 : RemoveAt(s, 1)[i] = IF i < 1 THEN s[i] ELSE s[i + 1]
      BY <2>3, <2>4, Without1
    <3> HIDE DEF s
    <3> QED BY <2>3, <3>1
  <2>8. A' = [A EXCEPT ![n] = Tail(@)]
    BY <2>6, <2>7
  <2> HIDE DEF A
  <2> QED BY <2>3, <2>6, <2>8 DEF TreeOf!ClearFirst, A
<1> QED BY <1>1, <1>2, <1>4, <1>5 DEF Lists!Next, TreeOf!Next

\* The pointers of the lists implement the sequences that PipelineTree promises,
\* whatever finite number of nodes is connected, disconnected and cleared: what is
\* connected last is called first, and nothing else changes its place.
THEOREM PointersAsTree ==
  ASSUME NEW CONSTANT N, IsFiniteSet(N), NEW CONSTANT Z, Lists(N, Z)!NoNodeApart
  PROVE  Lists(N, Z)!Spec => TreeOf(N, Z)!Spec
<1> DEFINE Inv == Linked(N, Z, mem, pre) /\ Chained(N, Z, mem, pre)
<1>1. Lists(N, Z)!Init => Inv /\ TreeOf(N, Z)!Init
  <2> SUFFICES ASSUME Lists(N, Z)!Init PROVE Inv /\ TreeOf(N, Z)!Init
    OBVIOUS
  <2>1. Linked(N, Z, mem, pre)
    BY ListsInitially
  <2>2. \A n \in N : P!Rear(n) \notin InUse(N, Z, mem)
    BY DEF Lists!Init, Lists!Null, Lists!Link, Lists!Cell, InUse, Cells, Nil, P!Link, P!Rear
  <2>3. [n \in N |-> Lists(N, Z)!After(n)] = [n \in N |-> <<>>]
    BY <2>2, AfterIs DEF AfterIn
  <2> QED BY <2>1, <2>2, <2>3 DEF Chained, TreeOf!Init
<1>2. Inv /\ [Lists(N, Z)!Next]_(Lists(N, Z)!vars)
        => Inv' /\ [TreeOf(N, Z)!Next]_([n \in N |-> Lists(N, Z)!After(n)])
  <2> SUFFICES ASSUME Inv, [Lists(N, Z)!Next]_(Lists(N, Z)!vars)
               PROVE  Inv' /\ [TreeOf(N, Z)!Next]_([n \in N |-> Lists(N, Z)!After(n)])
    OBVIOUS
  <2>1. Linked(N, Z, mem, pre)'
    BY ListsInductive
  <2>2. CASE Lists(N, Z)!Next
    <3>1. /\ Chained(N, Z, mem', pre')
          /\ \/ \A n \in N : Lists(N, Z)!After(n)' = Lists(N, Z)!After(n)
             \/ TreeOf(N, Z)!Next
      BY <2>2, TreeStepped
    <3>2. (\A n \in N : Lists(N, Z)!After(n)' = Lists(N, Z)!After(n))
            => UNCHANGED [n \in N |-> Lists(N, Z)!After(n)]
      OBVIOUS
    <3> QED BY <2>1, <3>1, <3>2
  <2>3. CASE UNCHANGED Lists(N, Z)!vars
    <3>1. mem' = mem /\ pre' = pre
      BY <2>3 DEF Lists!vars
    <3>2. \A n \in N : Lists(N, Z)!After(n)' = Lists(N, Z)!After(n)
      BY <3>1, AfterIs
    <3> QED BY <2>1, <3>1, <3>2
  <2> QED BY <2>2, <2>3
<1> QED BY <1>1, <1>2, PTL DEF Lists!Spec, TreeOf!Spec

-----------------------------------------------------------------------------
(* The calls of VuiCreate and VuiDestroy, and what their order is good for.   *)

\* VuiDestroy, call by call.
LEMMA UndoAt ==
  /\ Len(VuiUndo) = 36
  /\ VuiUndo[1] = <<"audioin", "stop_stream">> /\ VuiUndo[2] = <<"audioin", "stream">>
  /\ VuiUndo[3] = <<"audioin", "portaudio">> /\ VuiUndo[4] = <<"audioin", "wrapper">>
  /\ VuiUndo[5] = <<"audioin", "quit">> /\ VuiUndo[6] = <<"audioin", "join">>
  /\ VuiUndo[7] = <<"audioin", "sem_worker_thread">>
  /\ VuiUndo[8] = <<"audioin", "sem_stopped">>
  /\ VuiUndo[9] = <<"audioin", "sem_starting">> /\ VuiUndo[10] = <<"audioin", "bytes">>
  /\ VuiUndo[11] = <<"audioin", "ring">> /\ VuiUndo[12] = <<"audioin", "handle">>
  /\ VuiUndo[13] = <<"aec", "handle">> /\ VuiUndo[14] = <<"lasr", "quit">>
  /\ VuiUndo[15] = <<"lasr", "join">> /\ VuiUndo[16] = <<"lasr", "sem_worker_thread">>
  /\ VuiUndo[17] = <<"lasr", "sem_starting">> /\ VuiUndo[18] = <<"lasr", "sem_started">>
  /\ VuiUndo[19] = <<"lasr", "sem_stopping">> /\ VuiUndo[20] = <<"lasr", "sem_stopped">>
  /\ VuiUndo[21] = <<"lasr", "sem_retrive_audio_data">>
  /\ VuiUndo[22] = <<"lasr", "bytes">> /\ VuiUndo[23] = <<"lasr", "ring">>
  /\ VuiUndo[24] = <<"lasr", "handle">> /\ VuiUndo[25] = <<"rasr", "quit">>
  /\ VuiUndo[26] = <<"rasr", "join">> /\ VuiUndo[27] = <<"rasr", "sem_worker_thread">>
  /\ VuiUndo[28] = <<"rasr", "sem_starting">> /\ VuiUndo[29] = <<"rasr", "sem_started">>
  /\ VuiUndo[30] = <<"rasr", "sem_stopping">> /\ VuiUndo[31] = <<"rasr", "sem_stopped">>
  /\ VuiUndo[32] = <<"rasr", "sem_retrive_audio_data">>
  /\ VuiUndo[33] = <<"rasr", "bytes">> /\ VuiUndo[34] = <<"rasr", "ring">>
  /\ VuiUndo[35] = <<"rasr", "handle">> /\ VuiUndo[36] = <<"vui", "handle">>
  BY DEF VuiUndo, AudioInUndo, AecUndo, RecogniserUndo, RingUndo, WrapperUndo, Of

\* VuiCreate, call by call.
LEMMA BuildAt ==
  /\ Len(VuiBuild) = 28
  /\ VuiBuild[1] = <<"vui", "handle">> /\ VuiBuild[2] = <<"audioin", "handle">>
  /\ VuiBuild[3] = <<"audioin", "wrapper">> /\ VuiBuild[4] = <<"audioin", "portaudio">>
  /\ VuiBuild[5] = <<"audioin", "stream">> /\ VuiBuild[6] = <<"audioin", "ring">>
  /\ VuiBuild[7] = <<"audioin", "bytes">>
  /\ VuiBuild[8] = <<"audioin", "sem_worker_thread">>
  /\ VuiBuild[9] = <<"audioin", "sem_starting">>
  /\ VuiBuild[10] = <<"audioin", "sem_stopped">>
  /\ VuiBuild[11] = <<"audioin", "thread">> /\ VuiBuild[12] = <<"aec", "handle">>
  /\ VuiBuild[13] = <<"lasr", "handle">> /\ VuiBuild[14] = <<"lasr", "ring">>
  /\ VuiBuild[15] = <<"lasr", "bytes">>
  /\ VuiBuild[16] = <<"lasr", "sem_worker_thread">>
  /\ VuiBuild[17] = <<"lasr", "sem_retrive_audio_data">>
  /\ VuiBuild[18] = <<"lasr", "sem_starting">>
  /\ VuiBuild[19] = <<"lasr", "sem_started">>
  /\ VuiBuild[20] = <<"lasr", "sem_stopping">>
  /\ VuiBuild[21] = <<"lasr", "sem_stopped">> /\ VuiBuild[22] = <<"lasr", "thread">>
  /\ VuiBuild[23] = <<"rasr", "handle">> /\ VuiBuild[24] = <<"rasr", "ring">>
  /\ VuiBuild[25] = <<"rasr", "bytes">>
  /\ VuiBuild[26] = <<"rasr", "sem_worker_thread">>
  /\ VuiBuild[27] = <<"rasr", "sem_retrive_audio_data">>
  /\ VuiBuild[28] = <<"rasr", "thread">>
  BY DEF VuiBuild, AudioInBuild, AecBuild, LasrBuild, RasrBuild, RingBuild, WrapperBuild, Of

\* What the calls are made on.
Name == {"handle", "wrapper", "portaudio", "stream", "ring", "bytes", "thread",
         "sem_worker_thread", "sem_starting", "sem_started", "sem_stopping", "sem_stopped",
         "sem_retrive_audio_data", "stop_stream", "quit", "join"}
Item == Node \X Name

\* The lists of calls are sequences of pairs,
LEMMA OfItems ==
  ASSUME NEW n \in Node, NEW items \in Seq(Name)
  PROVE  Of(n, items) \in Seq(Item)
  BY DEF Of, Item

\* So that the theorems about sequences apply.
LEMMA UndoSeq ==
  VuiUndo \in Seq(Item)
<1>1. /\ AudioInUndo \in Seq(Name) /\ AecUndo \in Seq(Name)
      /\ RecogniserUndo \in Seq(Name) /\ <<"handle">> \in Seq(Name)
  BY DEF AudioInUndo, AecUndo, RecogniserUndo, RingUndo, WrapperUndo, Name
<1>2. /\ Of("audioin", AudioInUndo) \in Seq(Item) /\ Of("aec", AecUndo) \in Seq(Item)
      /\ Of("lasr", RecogniserUndo) \in Seq(Item) /\ Of("rasr", RecogniserUndo) \in Seq(Item)
      /\ Of("vui", <<"handle">>) \in Seq(Item)
  BY <1>1, OfItems DEF Node
<1> QED BY <1>2, ConcatProperties DEF VuiUndo

\* That of VuiCreate too.
LEMMA BuildSeq ==
  VuiBuild \in Seq(Item)
<1>1. /\ AudioInBuild \in Seq(Name) /\ AecBuild \in Seq(Name)
      /\ LasrBuild \in Seq(Name) /\ RasrBuild \in Seq(Name) /\ <<"handle">> \in Seq(Name)
  BY DEF AudioInBuild, AecBuild, LasrBuild, RasrBuild, RingBuild, WrapperBuild, Name
<1>2. /\ Of("audioin", AudioInBuild) \in Seq(Item) /\ Of("aec", AecBuild) \in Seq(Item)
      /\ Of("lasr", LasrBuild) \in Seq(Item) /\ Of("rasr", RasrBuild) \in Seq(Item)
      /\ Of("vui", <<"handle">>) \in Seq(Item)
  BY <1>1, OfItems DEF Node
<1> QED BY <1>2, ConcatProperties DEF VuiBuild

\* The numbers of the calls, one by one.
LEMMA Upto36 ==
  \A i \in 1 .. 36 :
    i \in {1, 2, 3, 4, 5, 6, 7, 8, 9, 10, 11, 12, 13, 14, 15, 16, 17, 18, 19, 20,
           21, 22, 23, 24, 25, 26, 27, 28, 29, 30, 31, 32, 33, 34, 35, 36}
  OBVIOUS

\* What VuiDestroy waits for when it waits for worker n, and whether it could be had.
Farewell(n) == <<n, "sem_worker_thread">>
Awaited(n) == Farewell(n) \notin failed

\* The worker is waited for before its semaphore, its ring and its handle go.
LEMMA UndoJoinsFirst ==
  ASSUME NEW i \in 1 .. 36, NEW n \in Worker,
         VuiUndo[i] \in {<<n, "ring">>, <<n, "handle">>, Farewell(n)}
  PROVE  \E j \in 1 .. i - 1 : VuiUndo[j] = <<n, "join">>
  BY UndoAt, Upto36 DEF Worker, Recogniser, Farewell

\* The stream is stopped before what its callback uses goes.
LEMMA UndoStopsFirst ==
  ASSUME NEW i \in 1 .. 36,
         VuiUndo[i] \in {<<"audioin", "ring">>, <<"audioin", "handle">>, <<"audioin", "wrapper">>}
  PROVE  \E j \in 1 .. i - 1 : VuiUndo[j] = <<"audioin", "stop_stream">>
  BY UndoAt, Upto36

\* A handle is the last that goes of its module, and audioin's worker, which pushes
\* frames to all of them, has been waited for before the first goes.
LEMMA UndoHandlesLast ==
  ASSUME NEW i \in 1 .. 36, VuiUndo[i][2] = "handle"
  PROVE  /\ \A j \in i + 1 .. 36 : VuiUndo[j][1] # VuiUndo[i][1]
         /\ \E j \in 1 .. i - 1 : VuiUndo[j] = <<"audioin", "join">>
  BY UndoAt, Upto36

\* What a call of VuiDestroy is about.
LEMMA UndoCalls ==
  ASSUME NEW i \in 1 .. 36
  PROVE  /\ VuiUndo[i] = <<VuiUndo[i][1], VuiUndo[i][2]>>
         /\ VuiUndo[i][1] \in Node
         /\ VuiUndo[i][2] = "join" => VuiUndo[i][1] \in Worker
         /\ VuiUndo[i][2] = "quit" => VuiUndo[i][1] \in Worker
  BY UndoAt, Upto36 DEF Worker, Recogniser, Node

\* Those of one module follow one another, up to the call e of the next.
LEMMA UndoBlocks ==
  ASSUME NEW i \in 1 .. 36
  PROVE  \E e \in i + 1 .. 37 :
           /\ \A j \in i .. e - 1 : VuiUndo[j][1] = VuiUndo[i][1]
           /\ e <= 36 => VuiUndo[e][1] # VuiUndo[i][1]
<1>1. PICK e \in {13, 14, 25, 36, 37} :
        i < e /\ (e = 13 \/ (e = 14 /\ i = 13) \/ (e = 25 /\ i > 13) \/ (e = 36 /\ i > 24)
                  \/ (e = 37 /\ i > 35))
  OBVIOUS
<1>2. \A j \in i .. e - 1 : VuiUndo[j][1] = VuiUndo[i][1]
  BY <1>1, UndoAt, Upto36
<1>3. e <= 36 => VuiUndo[e][1] # VuiUndo[i][1]
  BY <1>1, UndoAt, Upto36
<1> QED BY <1>1, <1>2, <1>3

\* A thread is created after the ring and the semaphore that its worker is waited
\* for by.
LEMMA BuildThreadsLast ==
  ASSUME NEW i \in 1 .. 28, VuiBuild[i][2] = "thread"
  PROVE  /\ VuiBuild[i][1] \in Worker
         /\ \E j \in 1 .. i - 1 : VuiBuild[j] = <<VuiBuild[i][1], "ring">>
         /\ \E j \in 1 .. i - 1 : VuiBuild[j] = Farewell(VuiBuild[i][1])
<1>1. i \in {11, 22, 28}
  BY BuildAt, Upto36
<1>2. CASE i = 11
  <2>1. 6 \in 1 .. i - 1 /\ 8 \in 1 .. i - 1
    BY <1>2
  <2> QED BY <1>2, <2>1, BuildAt DEF Worker, Recogniser, Farewell
<1>3. CASE i = 22
  <2>1. 14 \in 1 .. i - 1 /\ 16 \in 1 .. i - 1
    BY <1>3
  <2> QED BY <1>3, <2>1, BuildAt DEF Worker, Recogniser, Farewell
<1>4. CASE i = 28
  <2>1. 24 \in 1 .. i - 1 /\ 26 \in 1 .. i - 1
    BY <1>4
  <2> QED BY <1>4, <2>1, BuildAt DEF Worker, Recogniser, Farewell
<1> QED BY <1>1, <1>2, <1>3, <1>4

\* A handle comes once, before all else of its module.
LEMMA BuildHandlesFirst ==
  ASSUME NEW i \in 1 .. 28
  PROVE  /\ VuiBuild[i][2] = "handle" =>
              /\ \A j \in 1 .. i - 1 : VuiBuild[j][1] # VuiBuild[i][1]
              /\ \A j \in i + 1 .. 28 : VuiBuild[j] # VuiBuild[i]
         /\ VuiBuild[i][2] # "handle" =>
              \E j \in 1 .. i - 1 : VuiBuild[j] = <<VuiBuild[i][1], "handle">>
         /\ VuiBuild[i] = <<"vui", "handle">> => i = 1
<1>1. VuiBuild[i][2] = "handle" <=> i \in {1, 2, 12, 13, 23}
  BY BuildAt, Upto36
<1>2. ASSUME i \in {1, 2, 12, 13, 23}, NEW j \in 1 .. i - 1
      PROVE  VuiBuild[j][1] # VuiBuild[i][1]
  BY <1>2, BuildAt, Upto36
<1>3. ASSUME i \in {1, 2, 12, 13, 23}, NEW j \in i + 1 .. 28
      PROVE  VuiBuild[j] # VuiBuild[i]
  BY <1>3, BuildAt, Upto36
<1>4. ASSUME i \notin {1, 2, 12, 13, 23}
      PROVE  \E j \in 1 .. i - 1 : VuiBuild[j] = <<VuiBuild[i][1], "handle">>
  <2>1. i \in 3 .. 11 => 2 \in 1 .. i - 1 /\ VuiBuild[2] = <<VuiBuild[i][1], "handle">>
    BY BuildAt, Upto36
  <2>2. i \in 14 .. 22 => 13 \in 1 .. i - 1 /\ VuiBuild[13] = <<VuiBuild[i][1], "handle">>
    BY BuildAt, Upto36
  <2>3. i \in 24 .. 28 => 23 \in 1 .. i - 1 /\ VuiBuild[23] = <<VuiBuild[i][1], "handle">>
    BY BuildAt, Upto36
  <2> QED BY <1>4, <2>1, <2>2, <2>3
<1>5. VuiBuild[i] = <<"vui", "handle">> => i = 1
  BY BuildAt, Upto36
<1> QED BY <1>1, <1>2, <1>3, <1>4, <1>5

\* What a call of VuiCreate is about.
LEMMA BuildCalls ==
  ASSUME NEW i \in 1 .. 28
  PROVE  /\ VuiBuild[i] = <<VuiBuild[i][1], VuiBuild[i][2]>>
         /\ VuiBuild[i][1] \in Node
  BY BuildAt, Upto36 DEF Node

\* The calls of one constructor follow one another.
LEMMA BuildBlocks ==
  ASSUME NEW i \in 1 .. 28
  PROVE  \E e \in i + 1 .. 29 :
           /\ \A j \in i .. e - 1 : VuiBuild[j][1] = VuiBuild[i][1]
           /\ \A j \in e .. 28 : VuiBuild[j][1] # VuiBuild[i][1]
<1>1. PICK e \in {2, 12, 13, 23, 29} :
        i < e /\ (e = 2 \/ (e = 12 /\ i > 1) \/ (e = 13 /\ i > 11) \/ (e = 23 /\ i > 12)
                  \/ (e = 29 /\ i > 22))
  OBVIOUS
<1>2. \A j \in i .. e - 1 : VuiBuild[j][1] = VuiBuild[i][1]
  BY <1>1, BuildAt, Upto36
<1>3. \A j \in e .. 28 : VuiBuild[j][1] # VuiBuild[i][1]
  BY <1>1, BuildAt, Upto36
<1> QED BY <1>1, <1>2, <1>3

\* What is allocated is freed, and every call of the one list has its place in it.
LEMMA BuildUndone ==
  /\ \A i \in 1 .. 36 : VuiUndo[i] \in Range(VuiUndo)
  /\ \A i \in 1 .. 28 : VuiBuild[i] \in Range(VuiBuild)
  /\ \A r \in Range(VuiUndo) : \E i \in 1 .. 36 : r = VuiUndo[i]
  /\ \A r \in Range(VuiBuild) : \E i \in 1 .. 28 : r = VuiBuild[i]
  /\ \A r \in Range(VuiBuild) : r[2] # "thread" => r \in Range(VuiUndo)
  /\ \A n \in Worker : Farewell(n) \in SemId
<1>1. DOMAIN VuiUndo = 1 .. 36 /\ DOMAIN VuiBuild = 1 .. 28
  BY UndoSeq, BuildSeq, UndoAt, BuildAt
<1>2. \A i \in 1 .. 28 :
        VuiBuild[i][2] # "thread" => \E j \in 1 .. 36 : VuiBuild[i] = VuiUndo[j]
  <2>1. /\ VuiBuild[1] = VuiUndo[36] /\ VuiBuild[2] = VuiUndo[12]
        /\ VuiBuild[3] = VuiUndo[4] /\ VuiBuild[4] = VuiUndo[3]
        /\ VuiBuild[5] = VuiUndo[2] /\ VuiBuild[6] = VuiUndo[11]
        /\ VuiBuild[7] = VuiUndo[10] /\ VuiBuild[8] = VuiUndo[7]
        /\ VuiBuild[9] = VuiUndo[9] /\ VuiBuild[10] = VuiUndo[8]
        /\ VuiBuild[12] = VuiUndo[13] /\ VuiBuild[13] = VuiUndo[24]
        /\ VuiBuild[14] = VuiUndo[23] /\ VuiBuild[15] = VuiUndo[22]
        /\ VuiBuild[16] = VuiUndo[16] /\ VuiBuild[17] = VuiUndo[21]
        /\ VuiBuild[18] = VuiUndo[17] /\ VuiBuild[19] = VuiUndo[18]
        /\ VuiBuild[20] = VuiUndo[19] /\ VuiBuild[21] = VuiUndo[20]
        /\ VuiBuild[23] = VuiUndo[35] /\ VuiBuild[24] = VuiUndo[34]
        /\ VuiBuild[25] = VuiUndo[33] /\ VuiBuild[26] = VuiUndo[27]
        /\ VuiBuild[27] = VuiUndo[32]
    BY UndoAt, BuildAt
  <2>2. VuiBuild[11][2] = "thread" /\ VuiBuild[22][2] = "thread" /\ VuiBuild[28][2] = "thread"
    BY BuildAt
  <2> QED BY <2>1, <2>2, Upto36
<1>3. \A n \in Worker : \E j \in 1 .. 36 : Farewell(n) = VuiUndo[j]
  BY UndoAt DEF Worker, Recogniser, Farewell
<1> QED BY <1>1, <1>2, <1>3 DEF Range, SemId, SemName, Farewell

\* The next of the calls that are left.
LEMMA Rest ==
  ASSUME NEW S, NEW all \in Seq(S), NEW L \in Nat, Len(all) = L, NEW at \in 1 .. L + 1,
         todo = SubSeq(all, at, L)
  PROVE  /\ todo # <<>> <=> at <= L
         /\ at <= L => Head(todo) = all[at] /\ Tail(todo) = SubSeq(all, at + 1, L)
<1>1. CASE at <= L
  <2>1. Head(todo) = all[at] /\ Tail(todo) = SubSeq(all, at + 1, L)
    BY <1>1, HeadTailOfSubSeq
  <2>2. Len(todo) = L - at + 1
    BY <1>1, SubSeqProperties
  <2> QED BY <1>1, <2>1, <2>2
<1>2. CASE at = L + 1
  BY <1>2, SubSeqEmpty
<1> QED BY <1>1, <1>2

\* What is left when those of module n are passed over, up to e.
LEMMA RestWithout ==
  ASSUME NEW all \in Seq(Item), NEW L \in Nat, Len(all) = L, NEW at \in 1 .. L,
         todo = SubSeq(all, at, L), NEW n, NEW e \in at + 1 .. L + 1,
         \A j \in at .. e - 1 : all[j][1] = n, e <= L => all[e][1] # n
  PROVE  Without(n) = SubSeq(all, e, L)
<1> DEFINE others == {i \in DOMAIN todo : todo[i][1] # n}
<1>1. /\ todo \in Seq(Item) /\ Len(todo) = L - at + 1
      /\ \A i \in 1 .. L - at + 1 : todo[i] = all[at + i - 1]
  <2>1. \A i \in at .. L : all[i] \in Item
    OBVIOUS
  <2> QED BY <2>1, SubSeqProperties
<1>2. CASE e = L + 1
  <2>1. others = {}
    BY <1>1, <1>2
  <2>2. SubSeq(all, e, L) = <<>>
    BY <1>2, SubSeqEmpty
  <2> QED BY <2>1, <2>2 DEF Without
<1>3. CASE e <= L
  <2>1. e - at + 1 \in others /\ \A i \in others : e - at + 1 <= i
    <3>1. todo[e - at + 1] = all[e] /\ e - at + 1 \in DOMAIN todo
      BY <1>1, <1>3
    <3>2. ASSUME NEW i \in others PROVE e - at + 1 <= i
      <4>1. i \in 1 .. L - at + 1 /\ all[at + i - 1][1] # n
        BY <1>1
      <4> QED BY <4>1
    <3> QED BY <1>3, <3>1, <3>2
  <2>2. others \subseteq Int
    BY <1>1
  <2> HIDE DEF others
  <2>3. Min(others) = e - at + 1
    BY <2>1, <2>2 DEF Min
  <2>4. Without(n) = SubSeq(todo, e - at + 1, L - at + 1)
    BY <1>1, <2>1, <2>3 DEF Without, others
  <2>5. SubSeq(todo, e - at + 1, L - at + 1) = SubSeq(all, e, L)
    <3>1. /\ at \in 1 .. Len(all) /\ L \in 1 .. Len(all)
          /\ e - at + 1 \in 1 .. L - at + 1 /\ L - at + 1 \in 1 .. L - at + 1
          /\ at + (e - at + 1) - 1 = e /\ at + (L - at + 1) - 1 = L
      BY <1>3
    <3>2. SubSeq(SubSeq(all, at, L), e - at + 1, L - at + 1)
            = SubSeq(all, at + (e - at + 1) - 1, at + (L - at + 1) - 1)
      BY ONLY <3>1, all \in Seq(Item), SubSeqOfSubSeq
    <3> QED BY <3>1, <3>2
  <2> QED BY <2>4, <2>5
<1> QED BY <1>2, <1>3

-----------------------------------------------------------------------------
(* What is held at each stage of the interface's life: the invariant.       *)

Whole == {"idle", "link", "push", "unlink"}

AtWork(n) == worker[n] \notin {"none", "gone"}
AllHeld == \A n \in Node : Holds(n, "handle")
NothingHeld == held = {} /\ \A s \in SemId : sem[s] = NoHandle

Types ==
  /\ pc \in Whole \cup {"create", "destroy", "gone", "aborted"}
  /\ sem \in [SemId -> Int] /\ \A s \in SemId : sem[s] >= NoHandle
  /\ worker \in [Worker -> {"none", "top", "wait", "look", "push", "session", "gone"}]
  /\ running \in [Worker -> BOOLEAN]
  /\ DOMAIN stack = {"caller", "audioin"}

\* A resource that has been obtained, and a call of VuiCreate that is over.
Had(r) ==
  CASE r[2] = "thread" -> worker[r[1]] # "none"
    [] r[2] \in SemName -> sem[r] # NoHandle
    [] OTHER -> r \in held
Done(r) == r \in failed \/ ~Holds(r[1], "handle") \/ Had(r)

\* The module of call i is there by the time of that call.
Housed(at, i) ==
  \/ Holds(VuiBuild[i][1], "handle")
  \/ \E j \in at .. i : VuiBuild[j] = <<VuiBuild[i][1], "handle">>

\* VuiCreate has come to its call number at.
BuiltTo(at) ==
  /\ todo = SubSeq(VuiBuild, at, 28)
  /\ \A i \in 1 .. at - 1 : Done(VuiBuild[i])
  /\ \A i \in at .. 28 : VuiBuild[i][2] = "handle" => VuiBuild[i] \notin held
  /\ \A i \in at .. 28 : VuiBuild[i][2] # "handle" => Housed(at, i)
  /\ at = 1 => NothingHeld

Building ==
  pc = "create" =>
    /\ stream = "stopped" /\ pipe = "stop" /\ ~audio /\ status = "stopped"
    /\ \E at \in 1 .. 29 : BuiltTo(at)

Built == pc \in Whole => AllHeld /\ \A i \in 1 .. 28 : Done(VuiBuild[i])

\* What call number i of VuiDestroy is for.
Undone(i) ==
  /\ VuiUndo[i] \notin held
  /\ VuiUndo[i][2] \in SemName => sem[VuiUndo[i]] = NoHandle
  /\ VuiUndo[i][2] = "join" => ~AtWork(VuiUndo[i][1]) \/ ~Awaited(VuiUndo[i][1])
  /\ VuiUndo[i] = <<"audioin", "stop_stream">> => stream # "started"

\* VuiDestroy, or VuiCreate that takes back, has come to its call number at.
UndoneTo(at) == todo = SubSeq(VuiUndo, at, 36) /\ \A i \in 1 .. at - 1 : Undone(i)

Undoing == pc = "destroy" => \E at \in 1 .. 37 : UndoneTo(at)

\* What is held will be freed, and belongs to a module that is there.
Owned ==
  /\ \A r \in held : Holds(r[1], "handle") /\ r \in Range(VuiUndo)
  /\ \A s \in SemId : sem[s] # NoHandle => Holds(s[1], "handle")

\* A worker that is waited for has what it uses, and the token that is waited for is
\* its last act.
Workers ==
  \A n \in Worker :
    /\ worker[n] = "gone" => ~running[n]
    /\ pc \in Whole \cup {"create"} /\ worker[n] # "none" => running[n]
    /\ AtWork(n) /\ Awaited(n) =>
         Holds(n, "handle") /\ Holds(n, "ring") /\ sem[Farewell(n)] # NoHandle
    /\ sem[Farewell(n)] > 0 => worker[n] = "gone"

\* So has the callback, and audioin's worker when it may push a frame.
Streams ==
  /\ stream = "started" =>
       Holds("audioin", "wrapper") /\ Holds("audioin", "handle") /\ Holds("audioin", "ring")
  /\ AtWork("audioin") /\ Awaited("audioin")
       /\ (pipe = "start" \/ worker["audioin"] = "push") => AllHeld
  /\ pc \notin {"push", "aborted"} => stack["caller"] = <<>>

Failures == pc # "aborted" => \A r \in failed : r[2] \notin Fatal

Gone == pc = "gone" => NothingHeld

LifeInv ==
  /\ Types /\ Building /\ Built /\ Undoing /\ Owned /\ Workers /\ Streams /\ Failures
  /\ Gone

\* Had, by the kind of resource.
LEMMA HadCases ==
  ASSUME NEW q
  PROVE  /\ q[2] = "thread" => /\ Had(q) <=> worker[q[1]] # "none"
                               /\ Had(q)' <=> worker'[q[1]] # "none"
         /\ q[2] \in SemName => /\ Had(q) <=> sem[q] # NoHandle
                                /\ Had(q)' <=> sem'[q] # NoHandle
         /\ q[2] \notin SemName /\ q[2] # "thread" => /\ Had(q) <=> q \in held
                                                      /\ Had(q)' <=> q \in held'
  BY DEF Had, SemName
-----------------------------------------------------------------------------
(* Semaphores.                                                              *)

SemsTyped(s) == s \in [SemId -> Int] /\ \A x \in SemId : s[x] >= NoHandle

\* A signal or a wait makes no semaphore and loses none.
LEMMA SignalKeeps ==
  ASSUME NEW s, SemsTyped(s), NEW x \in SemId
  PROVE  /\ SemsTyped(SemSignal(s, x))
         /\ \A y \in SemId : /\ SemSignal(s, x)[y] = NoHandle <=> s[y] = NoHandle
                             /\ y # x => SemSignal(s, x)[y] = s[y]
<1>1. \A y \in SemId :
        SemSignal(s, x)[y] = IF y = x /\ s[y] # NoHandle THEN s[y] + 1 ELSE s[y]
  BY DEF SemsTyped, SemSignal
<1>2. SemSignal(s, x) \in [SemId -> Int]
  BY DEF SemsTyped, SemSignal
<1> QED BY <1>1, <1>2 DEF SemsTyped, NoHandle

\* A wait takes a token if there is one.
LEMMA TakenKeeps ==
  ASSUME NEW s, SemsTyped(s), NEW x \in SemId
  PROVE  /\ SemsTyped(SemTaken(s, x))
         /\ \A y \in SemId : /\ SemTaken(s, x)[y] = NoHandle <=> s[y] = NoHandle
                             /\ SemTaken(s, x)[y] <= s[y]
<1>1. \A y \in SemId : SemTaken(s, x)[y] = IF y = x /\ s[y] > 0 THEN s[y] - 1 ELSE s[y]
  BY DEF SemsTyped, SemTaken
<1>2. SemTaken(s, x) \in [SemId -> Int]
  BY DEF SemsTyped, SemTaken
<1> QED BY <1>1, <1>2 DEF SemsTyped, NoHandle

-----------------------------------------------------------------------------
(* Steps in which nothing is obtained or freed.                             *)

\* No semaphore comes or goes, and no worker has come to its last act unless it has
\* left its loop.
SemsStay ==
  /\ SemsTyped(sem')
  /\ \A s \in SemId : sem'[s] = NoHandle <=> sem[s] = NoHandle
  /\ \A n \in Worker : sem'[Farewell(n)] > 0 => sem[Farewell(n)] > 0 \/ worker'[n] = "gone"

\* A worker stays at work until it is told to go.
WorkersStay ==
  /\ worker' \in [Worker -> {"none", "top", "wait", "look", "push", "session", "gone"}]
  /\ \A n \in Worker :
       /\ ~AtWork(n) => worker'[n] = worker[n]
       /\ AtWork(n) => worker'[n] # "none" /\ (worker'[n] = "gone" => ~running[n])

\* The interface is as far in its life as it was, or has failed.
StageStays ==
  \/ pc \in Whole /\ pc' \in Whole
  \/ pc' = "aborted"
  \/ pc' = pc /\ todo' = todo /\ (pc = "create" => audio' = audio /\ pipe' = pipe
                                                /\ status' = status)
              /\ (stream # "started" => stream' = stream)

\* What has been done stays done.
LEMMA DoneStays ==
  ASSUME UNCHANGED <<held, failed>>, SemsStay, WorkersStay, NEW i \in 1 .. 28,
         Done(VuiBuild[i])
  PROVE  Done(VuiBuild[i])'
<1> DEFINE r == VuiBuild[i]
<1>1. r[2] = "thread" => r[1] \in Worker
  BY BuildThreadsLast
<1>2. r[2] \in SemName /\ r[2] # "thread" => r \in SemId
  BY BuildUndone DEF SemId
<1> HIDE DEF r
<1>3. Done(r)
  BY DEF r
<1>4. Had(r) => Had(r)'
  BY <1>1, <1>2 DEF Had, SemsStay, WorkersStay, AtWork, SemName
<1>5. Done(r)'
  BY <1>3, <1>4 DEF Done, Holds
<1> QED BY <1>5 DEF r

\* Such a step keeps the invariant.
LEMMA Quiet ==
  ASSUME LifeInv, UNCHANGED <<held, failed, running>>, SemsStay, WorkersStay, StageStays,
         DOMAIN stack' = {"caller", "audioin"}, Streams'
  PROVE  LifeInv'
<1>1. Types'
  BY DEF LifeInv, Types, SemsStay, SemsTyped, WorkersStay, StageStays
<1>2. ASSUME NEW i \in 1 .. 28, Done(VuiBuild[i])
      PROVE  Done(VuiBuild[i])'
  BY <1>2, DoneStays
<1>3. Building'
  <2> SUFFICES ASSUME pc' = "create" PROVE Building'
    BY DEF Building
  <2>1. /\ pc = "create" /\ todo' = todo /\ audio' = audio /\ pipe' = pipe
        /\ status' = status /\ (stream # "started" => stream' = stream)
    BY DEF StageStays, Whole
  <2>2. PICK at \in 1 .. 29 : BuiltTo(at)
    BY <2>1 DEF LifeInv, Building
  <2>3. NothingHeld => NothingHeld'
    BY DEF NothingHeld, SemsStay
  <2>4. BuiltTo(at)'
    <3>1. ASSUME NEW i \in 1 .. at - 1 PROVE Done(VuiBuild[i])'
      <4>1. Done(VuiBuild[i])
        BY <2>2 DEF BuiltTo
      <4>2. i \in 1 .. 28
        BY <2>2
      <4> QED BY <1>2, <4>1, <4>2
    <3> QED BY <2>1, <2>2, <2>3, <3>1 DEF BuiltTo, Housed, Holds
  <2> QED BY <2>1, <2>4 DEF LifeInv, Building
<1>4. Built'
  <2> SUFFICES ASSUME pc' \in Whole PROVE AllHeld' /\ \A i \in 1 .. 28 : Done(VuiBuild[i])'
    BY DEF Built
  <2>1. pc \in Whole
    BY DEF StageStays, Whole
  <2> QED BY <1>2, <2>1 DEF LifeInv, Built, AllHeld, Holds
<1>5. Undoing'
  <2> SUFFICES ASSUME pc' = "destroy" PROVE Undoing'
    BY DEF Undoing
  <2>1. pc = "destroy" /\ todo' = todo /\ (stream # "started" => stream' = stream)
    BY DEF StageStays, Whole
  <2>2. PICK at \in 1 .. 37 : UndoneTo(at)
    BY <2>1 DEF LifeInv, Undoing
  <2>3. ASSUME NEW i \in 1 .. at - 1
        PROVE  /\ VuiUndo[i] \notin held'
               /\ VuiUndo[i][2] \in SemName => sem'[VuiUndo[i]] = NoHandle
               /\ VuiUndo[i][2] = "join" =>
                    ~AtWork(VuiUndo[i][1])' \/ ~Awaited(VuiUndo[i][1])'
               /\ VuiUndo[i] = <<"audioin", "stop_stream">> => stream' # "started"
    <3>1. i \in 1 .. 36
      OBVIOUS
    <3>2. VuiUndo[i][2] \in SemName => VuiUndo[i] \in SemId
      BY <3>1, BuildUndone DEF SemId
    <3>3. VuiUndo[i][2] = "join" => VuiUndo[i][1] \in Worker
      BY <3>1, UndoCalls
    <3> QED BY <2>1, <2>2, <3>2, <3>3 DEF UndoneTo, Undone, SemsStay, WorkersStay, AtWork, Awaited
  <2>4. UndoneTo(at)'
    BY <2>1, <2>2, <2>3 DEF UndoneTo, Undone
  <2> QED BY <2>4 DEF Undoing
<1>6. Owned'
  BY DEF LifeInv, Owned, Holds, SemsStay
<1>7. Workers'
  <2> SUFFICES ASSUME NEW n \in Worker
               PROVE  /\ worker'[n] = "gone" => ~running'[n]
                      /\ pc' \in Whole \cup {"create"} /\ worker'[n] # "none" => running'[n]
                      /\ AtWork(n)' /\ Awaited(n)' =>
                           /\ Holds(n, "handle")' /\ Holds(n, "ring")'
                           /\ sem'[Farewell(n)] # NoHandle
                      /\ sem'[Farewell(n)] > 0 => worker'[n] = "gone"
    BY DEF Workers
  <2>1. pc' \in Whole \cup {"create"} => pc \in Whole \cup {"create"}
    BY DEF StageStays, Whole
  <2>2. Farewell(n) \in SemId
    BY BuildUndone
  <2>3. /\ worker[n] = "gone" => ~running[n]
        /\ pc \in Whole \cup {"create"} /\ worker[n] # "none" => running[n]
        /\ AtWork(n) /\ Awaited(n) =>
             Holds(n, "handle") /\ Holds(n, "ring") /\ sem[Farewell(n)] # NoHandle
        /\ sem[Farewell(n)] > 0 => worker[n] = "gone"
    BY DEF LifeInv, Workers
  <2>4. /\ ~AtWork(n) => worker'[n] = worker[n]
        /\ AtWork(n) => worker'[n] # "none" /\ (worker'[n] = "gone" => ~running[n])
        /\ sem'[Farewell(n)] = NoHandle <=> sem[Farewell(n)] = NoHandle
        /\ sem'[Farewell(n)] > 0 => sem[Farewell(n)] > 0 \/ worker'[n] = "gone"
    BY <2>2 DEF WorkersStay, SemsStay
  <2> QED BY <2>1, <2>3, <2>4 DEF AtWork, Awaited, Holds
<1>8. Failures' /\ Gone'
  BY DEF LifeInv, Failures, Gone, NothingHeld, StageStays, Whole, SemsStay
<1> QED BY <1>1, <1>3, <1>4, <1>5, <1>6, <1>7, <1>8 DEF LifeInv

\* The semaphores that threads wait for and signal.
LEMMA SemIds ==
  /\ <<"audioin", "sem_starting">> \in SemId /\ <<"audioin", "sem_stopped">> \in SemId
  /\ \A n \in Recogniser :
       /\ <<n, "sem_starting">> \in SemId /\ <<n, "sem_started">> \in SemId
       /\ <<n, "sem_stopping">> \in SemId /\ <<n, "sem_stopped">> \in SemId
  /\ \A n \in Worker : Farewell(n) \in SemId
<1>1. /\ \A i \in 1 .. 36 : VuiUndo[i] \in Range(VuiUndo)
      /\ \A n \in Worker : Farewell(n) \in SemId
  BY BuildUndone
<1>2. /\ 8 \in 1 .. 36 /\ 9 \in 1 .. 36 /\ 17 \in 1 .. 36 /\ 18 \in 1 .. 36
      /\ 19 \in 1 .. 36 /\ 20 \in 1 .. 36 /\ 28 \in 1 .. 36 /\ 29 \in 1 .. 36
      /\ 30 \in 1 .. 36 /\ 31 \in 1 .. 36
  OBVIOUS
<1>3. /\ <<"audioin", "sem_starting">> \in Range(VuiUndo)
      /\ <<"audioin", "sem_stopped">> \in Range(VuiUndo)
      /\ <<"lasr", "sem_starting">> \in Range(VuiUndo)
      /\ <<"lasr", "sem_started">> \in Range(VuiUndo)
      /\ <<"lasr", "sem_stopping">> \in Range(VuiUndo)
      /\ <<"lasr", "sem_stopped">> \in Range(VuiUndo)
      /\ <<"rasr", "sem_starting">> \in Range(VuiUndo)
      /\ <<"rasr", "sem_started">> \in Range(VuiUndo)
      /\ <<"rasr", "sem_stopping">> \in Range(VuiUndo)
      /\ <<"rasr", "sem_stopped">> \in Range(VuiUndo)
  BY <1>1, <1>2, UndoAt
<1> QED BY <1>1, <1>3 DEF SemId, SemName, Recogniser

\* A signal that is not a worker's last keeps what is known of the semaphores.
LEMMA SignalQuiet ==
  ASSUME LifeInv, NEW x \in SemId, x[2] # "sem_worker_thread", sem' = SemSignal(sem, x)
  PROVE  SemsStay
<1>1. SemsTyped(sem)
  BY DEF LifeInv, Types, SemsTyped
<1>2. \A n \in Worker : Farewell(n) \in SemId /\ Farewell(n)[2] = "sem_worker_thread"
  BY SemIds DEF Farewell
<1> QED BY <1>1, <1>2, SignalKeeps DEF SemsStay

\* So does a wait.
LEMMA TakenQuiet ==
  ASSUME LifeInv, NEW x \in SemId, sem' = SemTaken(sem, x)
  PROVE  SemsStay
<1>1. SemsTyped(sem)
  BY DEF LifeInv, Types, SemsTyped
<1>2. SemsTyped(sem') /\ \A y \in SemId : (sem'[y] = NoHandle <=> sem[y] = NoHandle)
                                           /\ sem'[y] <= sem[y]
  BY <1>1, TakenKeeps
<1>3. \A n \in Worker : sem'[Farewell(n)] > 0 => sem[Farewell(n)] > 0
  <2> SUFFICES ASSUME NEW n \in Worker, sem'[Farewell(n)] > 0 PROVE sem[Farewell(n)] > 0
    OBVIOUS
  <2>1. /\ sem'[Farewell(n)] <= sem[Farewell(n)]
        /\ sem[Farewell(n)] \in Int /\ sem'[Farewell(n)] \in Int
    BY <1>1, <1>2, SemIds DEF SemsTyped
  <2> QED BY <2>1
<1> QED BY <1>2, <1>3 DEF SemsStay

\* And a step that touches no semaphore or no worker.
LEMMA SameQuiet ==
  /\ LifeInv /\ UNCHANGED sem => SemsStay
  /\ LifeInv /\ UNCHANGED worker => WorkersStay
<1>1. ASSUME LifeInv, UNCHANGED sem PROVE SemsStay
  BY <1>1 DEF LifeInv, Types, SemsStay, SemsTyped
<1>2. ASSUME LifeInv, UNCHANGED worker PROVE WorkersStay
  BY <1>2 DEF LifeInv, Types, WorkersStay, Workers, AtWork
<1> QED BY <1>1, <1>2

\* Worker n, at work, goes on.
LEMMA GoesQuiet ==
  ASSUME LifeInv, NEW n \in Worker, AtWork(n), NEW to, Goes(n, to),
         to \in {"top", "wait", "look", "push", "session", "gone"},
         to = "gone" => ~running[n]
  PROVE  WorkersStay
<1>1. worker \in [Worker -> {"none", "top", "wait", "look", "push", "session", "gone"}]
      /\ worker' = [worker EXCEPT ![n] = to]
  BY DEF LifeInv, Types, Goes
<1>2. \A m \in Worker : worker'[m] = IF m = n THEN to ELSE worker[m]
  BY <1>1
<1>3. \A m \in Worker : worker[m] = "gone" => ~running[m]
  BY DEF LifeInv, Workers
<1> QED BY <1>1, <1>2, <1>3 DEF WorkersStay, AtWork

\* The calls of the interface and of their own thread that neither obtain nor free.
LEMMA CallsQuiet ==
  ASSUME LifeInv,
         \/ \E mode \in Mode : VuiStart(mode)
         \/ VuiStop \/ LinkStep \/ Launch \/ Pushed \/ UnlinkStep \/ Unlinked
  PROVE  LifeInv'
<1>1. /\ pc \in Whole /\ pc' \in Whole
      /\ UNCHANGED <<held, sem, failed, stream, audio, pipe, running, worker>>
  BY DEF VuiStart, VuiStop, LinkStep, Launch, Pushed, UnlinkStep, Unlinked, Whole, resVars,
         audioVars, workerVars
<1>2. DOMAIN stack = {"caller", "audioin"}
  BY DEF LifeInv, Types
<1>3. DOMAIN stack' = {"caller", "audioin"}
  BY <1>2 DEF VuiStart, VuiStop, LinkStep, Launch, Pushed, UnlinkStep, Unlinked, walkVars
<1>4. pc' # "push" => stack'["caller"] = <<>>
  BY DEF VuiStart, VuiStop, LinkStep, Launch, Pushed, UnlinkStep, Unlinked, walkVars, LifeInv,
         Streams
<1>5. Streams'
  BY <1>1, <1>4 DEF LifeInv, Streams, AtWork, Awaited, AllHeld, Holds
<1>6. SemsStay /\ WorkersStay /\ StageStays
  BY <1>1, SameQuiet DEF StageStays
<1> QED BY <1>1, <1>3, <1>5, <1>6, Quiet

\* A whole interface has what its callback uses.
LEMMA WholeHeld ==
  ASSUME LifeInv, pc \in Whole
  PROVE  AllHeld /\ Holds("audioin", "wrapper") /\ Holds("audioin", "handle")
         /\ Holds("audioin", "ring")
<1>1. AllHeld /\ Done(VuiBuild[3]) /\ Done(VuiBuild[6])
  BY DEF LifeInv, Built
<1>2. Holds("audioin", "handle")
  BY <1>1 DEF AllHeld, Node
<1>3. VuiBuild[3] = <<"audioin", "wrapper">> /\ VuiBuild[6] = <<"audioin", "ring">>
  BY BuildAt
<1>4. <<"audioin", "wrapper">> \notin failed /\ <<"audioin", "ring">> \notin failed
  BY DEF LifeInv, Failures, Whole, Fatal
<1>5. Had(<<"audioin", "wrapper">>) /\ Had(<<"audioin", "ring">>)
  BY <1>1, <1>2, <1>3, <1>4 DEF Done
<1> QED BY <1>1, <1>2, <1>5 DEF Had, Holds, SemName

\* A step of a command's handler.
LEMMA CommandQuiet ==
  ASSUME LifeInv, Alive, Command
  PROVE  LifeInv'
<1>1. /\ stack["caller"] # <<>>
      /\ UNCHANGED <<pc, held, failed, running, worker>>
  BY DEF Command, RootEnd, AecCommand, AudioInStart, AudioInStarted, AudioInStop,
         AudioInStopped, AudioInStopEnd, RecogniserAsk, RecogniserAnswered, Calls, AtEnd,
         Walking, resVars, apiVars, workerVars
<1>2. pc = "push" /\ pc \in Whole /\ pc' \in Whole
  BY <1>1 DEF LifeInv, Streams, Alive, Whole
<1>3. DOMAIN stack' = {"caller", "audioin"}
  BY DEF LifeInv, Types, Command, RootEnd, AecCommand, AudioInStart, AudioInStarted,
         AudioInStop, AudioInStopped, AudioInStopEnd, RecogniserAsk, RecogniserAnswered,
         Enter, Return, Leave
<1>4. SemsStay
  <2>1. CASE UNCHANGED sem
    BY <2>1, SameQuiet
  <2>2. CASE AudioInStarted
    BY <2>2, SemIds, SignalQuiet DEF AudioInStarted
  <2>3. CASE AudioInStopped
    BY <2>3, SemIds, TakenQuiet DEF AudioInStopped
  <2>4. ASSUME NEW n \in Recogniser, RecogniserAsk(n) PROVE SemsStay
    BY <2>4, SemIds, SignalQuiet DEF RecogniserAsk
  <2>5. ASSUME NEW n \in Recogniser, RecogniserAnswered(n) PROVE SemsStay
    BY <2>5, SemIds, TakenQuiet DEF RecogniserAnswered
  <2> QED BY <2>1, <2>2, <2>3, <2>4, <2>5 DEF Command, RootEnd, AecCommand, AudioInStart,
                AudioInStop, AudioInStopEnd, resVars
<1>5. WorkersStay /\ StageStays
  BY <1>1, <1>2, SameQuiet DEF StageStays
<1>6. Streams'
  BY <1>1, <1>2, WholeHeld DEF Streams, AllHeld, Holds, AtWork, Awaited
<1> QED BY <1>1, <1>3, <1>4, <1>5, <1>6, Quiet

\* A frame from the stream.
LEMMA CallbackQuiet ==
  ASSUME LifeInv, Alive, Callback
  PROVE  LifeInv'
<1>1. /\ UNCHANGED <<held, sem, failed, stream, pipe, running, worker, stack, todo>>
      /\ pc' \in {pc, "aborted"} /\ stream = "started"
  BY DEF Callback, Writes, resVars, walkVars, workerVars
<1>2. pc # "create"
  BY <1>1 DEF LifeInv, Building
<1>3. StageStays
  BY <1>1, <1>2 DEF StageStays
<1>4. Streams'
  BY <1>1 DEF LifeInv, Streams, AllHeld, Holds, AtWork, Awaited, Alive
<1> QED BY <1>1, <1>3, <1>4, SameQuiet, Quiet DEF LifeInv, Types

\* A step of audioin's worker.
LEMMA AudioInQuiet ==
  ASSUME LifeInv, Alive, AudioInWorker
  PROVE  LifeInv'
<1> DEFINE n == "audioin"
<1>1. n \in Worker /\ Farewell(n) \in SemId /\ Farewell(n) = <<n, "sem_worker_thread">>
      /\ DOMAIN stack = {"caller", "audioin"}
      /\ worker \in [Worker -> {"none", "top", "wait", "look", "push", "session", "gone"}]
  BY SemIds DEF Worker, Farewell, LifeInv, Types
<1>2. /\ UNCHANGED <<held, failed, running, stream, pipe, todo, status>>
      /\ AtWork(n) /\ pc' \in {pc, "aborted"}
      /\ DOMAIN stack' = {"caller", "audioin"} /\ stack'["caller"] = stack["caller"]
  BY <1>1 DEF AudioInWorker, AudioInTop, AudioInWait, AudioInLook, AudioInPush, AecData,
         PushReturns, RecogniserData, Enter, Return, Leave, Writes, AtWork,
         resVars, audioVars, callVars, apiVars, walkVars
<1>3. SemsStay /\ WorkersStay /\ (worker'[n] = "push" => AllHeld \/ ~Awaited(n))
  <2>1. CASE AudioInTop
    <3>1. CASE ~running[n]
      <4>1. Goes(n, "gone") /\ sem' = SemSignal(sem, Farewell(n))
        BY <1>1, <2>1, <3>1 DEF AudioInTop
      <4>2. WorkersStay /\ worker'[n] = "gone"
        BY <1>1, <1>2, <3>1, <4>1, GoesQuiet DEF Goes
      <4>3. SemsTyped(sem)
        BY DEF LifeInv, Types, SemsTyped
      <4>4. \A m \in Worker : Farewell(m) \in SemId /\ (m # n => Farewell(m) # Farewell(n))
        BY SemIds DEF Farewell
      <4>5. SemsStay
        BY <1>1, <4>1, <4>2, <4>3, <4>4, SignalKeeps DEF SemsStay
      <4> QED BY <4>2, <4>5
    <3>2. CASE running[n]
      <4>1. PICK to \in {"look", "wait"} : Goes(n, to)
        BY <2>1, <3>2 DEF AudioInTop
      <4>2. sem' = sem \/ sem' = SemSignal(sem, <<"audioin", "sem_stopped">>)
        BY <2>1, <3>2 DEF AudioInTop
      <4>3. WorkersStay /\ worker'[n] = to
        BY <1>1, <1>2, <4>1, GoesQuiet DEF Goes
      <4> QED BY <4>2, <4>3, SameQuiet, SignalQuiet, SemIds
    <3> QED BY <3>1, <3>2
  <2>2. CASE AudioInWait
    <3>1. WorkersStay /\ worker'[n] = "look"
      BY <1>1, <1>2, <2>2, GoesQuiet DEF AudioInWait, Goes
    <3>2. SemsStay
      BY <2>2, SemIds, TakenQuiet DEF AudioInWait
    <3> QED BY <3>1, <3>2
  <2>3. CASE AudioInLook
    <3>1. PICK to \in {"push", "top"} : Goes(n, to) /\ (to = "push" => pipe = "start")
      BY <2>3 DEF AudioInLook
    <3>2. WorkersStay /\ worker'[n] = to
      BY <1>1, <1>2, <3>1, GoesQuiet DEF Goes
    <3>3. SemsStay
      BY <2>3, SameQuiet DEF AudioInLook, resVars
    <3> QED BY <1>2, <3>1, <3>2, <3>3 DEF LifeInv, Streams
  <2>4. CASE AudioInPush
    <3>1. UNCHANGED worker \/ Goes(n, "top")
      BY <2>4 DEF AudioInPush, AecData, PushReturns, RecogniserData
    <3>2. WorkersStay
      BY <1>1, <1>2, <3>1, SameQuiet, GoesQuiet
    <3>3. SemsStay
      BY <2>4, SameQuiet DEF AudioInPush, resVars
    <3>4. AllHeld \/ ~Awaited(n)
      BY <1>2, <2>4 DEF AudioInPush, LifeInv, Streams
    <3> QED BY <3>2, <3>3, <3>4
  <2> QED BY <2>1, <2>2, <2>3, <2>4 DEF AudioInWorker
<1>4. StageStays
  <2>1. pc = "create" => audio' = audio
    BY DEF LifeInv, Building, AudioInWorker, AudioInTop, AudioInWait, AudioInLook, AudioInPush,
           audioVars
  <2> QED BY <1>2, <2>1 DEF StageStays
<1>5. Streams'
  BY <1>2, <1>3 DEF LifeInv, Streams, AllHeld, Holds, AtWork, Awaited, Alive
<1> QED BY <1>2, <1>3, <1>4, <1>5, Quiet

\* A step of a recogniser's worker.
LEMMA RecogniserQuiet ==
  ASSUME LifeInv, Alive, NEW n \in Recogniser, RecogniserWorker(n)
  PROVE  LifeInv'
<1>1. n \in Worker /\ n # "audioin" /\ Farewell(n) \in SemId
      /\ Farewell(n) = <<n, "sem_worker_thread">>
      /\ worker \in [Worker -> {"none", "top", "wait", "look", "push", "session", "gone"}]
      /\ "audioin" \in Worker
  BY SemIds DEF Recogniser, Worker, Farewell, LifeInv, Types
<1>2. /\ UNCHANGED <<held, failed, running, stream, audio, pipe, pc, todo, status, stack>>
      /\ AtWork(n)
  BY DEF RecogniserWorker, RecogniserTop, RecogniserBegin, RecogniserEnd, AtWork,
         audioVars, callVars, apiVars, walkVars
<1>3. SemsTyped(sem)
  BY DEF LifeInv, Types, SemsTyped
<1>4. PICK to \in {"wait", "gone", "session", "top"} :
        Goes(n, to) /\ (to = "gone" => ~running[n])
  BY DEF RecogniserWorker, RecogniserTop, RecogniserBegin, RecogniserEnd
<1>5. WorkersStay /\ worker'[n] = to /\ worker'["audioin"] = worker["audioin"]
  BY <1>1, <1>2, <1>4, GoesQuiet DEF Goes
<1>6. SemsStay
  <2>1. ASSUME NEW x \in SemId, NEW y \in SemId, y[2] # "sem_worker_thread",
               sem' = SemSignal(SemTaken(sem, x), y)
        PROVE  SemsStay
    <3> DEFINE s == SemTaken(sem, x)
    <3>1. SemsTyped(s) /\ \A z \in SemId : (s[z] = NoHandle <=> sem[z] = NoHandle)
                                           /\ s[z] <= sem[z]
      BY <1>3, TakenKeeps
    <3>2. sem' = SemSignal(s, y)
      BY <2>1
    <3> HIDE DEF s
    <3>3. SemsTyped(sem') /\ \A z \in SemId : (sem'[z] = NoHandle <=> s[z] = NoHandle)
                                              /\ (z # y => sem'[z] = s[z])
      BY <3>1, <3>2, SignalKeeps
    <3>4. ASSUME NEW m \in Worker, sem'[Farewell(m)] > 0 PROVE sem[Farewell(m)] > 0
      <4>1. Farewell(m) \in SemId /\ Farewell(m) # y
        BY <2>1, SemIds DEF Farewell
      <4>2. /\ sem'[Farewell(m)] = s[Farewell(m)] /\ s[Farewell(m)] <= sem[Farewell(m)]
            /\ s[Farewell(m)] \in Int /\ sem[Farewell(m)] \in Int
        BY <1>3, <3>1, <3>3, <4>1 DEF SemsTyped
      <4> QED BY <3>4, <4>2
    <3> QED BY <3>1, <3>3, <3>4 DEF SemsStay
  <2>2. CASE RecogniserTop(n) /\ running[n]
    BY <2>2, SameQuiet DEF RecogniserTop
  <2>3. CASE RecogniserTop(n) /\ ~running[n]
    <3>1. sem' = SemSignal(sem, Farewell(n)) /\ Goes(n, "gone")
      BY <1>1, <2>3 DEF RecogniserTop
    <3>2. worker'[n] = "gone"
      BY <1>1, <3>1 DEF Goes
    <3>3. \A m \in Worker : Farewell(m) \in SemId /\ (m # n => Farewell(m) # Farewell(n))
      BY SemIds DEF Farewell
    <3> QED BY <1>1, <1>3, <3>1, <3>2, <3>3, SignalKeeps DEF SemsStay
  <2>4. CASE RecogniserBegin(n)
    BY <2>1, <2>4, SemIds DEF RecogniserBegin
  <2>5. CASE RecogniserEnd(n)
    BY <2>1, <2>5, SemIds DEF RecogniserEnd
  <2> QED BY <2>2, <2>3, <2>4, <2>5 DEF RecogniserWorker
<1>7. StageStays
  BY <1>2 DEF StageStays
<1>8. Streams'
  BY <1>2, <1>5 DEF LifeInv, Streams, AllHeld, Holds, AtWork, Awaited
<1> QED BY <1>2, <1>5, <1>6, <1>7, <1>8, Quiet DEF LifeInv, Types

-----------------------------------------------------------------------------
(* Steps of VuiCreate.                                                      *)

\* The call that VuiCreate makes next.
LEMMA BuildNext ==
  ASSUME NEW at \in 1 .. 29, todo = SubSeq(VuiBuild, at, 28)
  PROVE  /\ todo # <<>> <=> at <= 28
         /\ at <= 28 => Head(todo) = VuiBuild[at] /\ Tail(todo) = SubSeq(VuiBuild, at + 1, 28)
<1>1. Len(VuiBuild) = 28 /\ 28 \in Nat /\ at \in 1 .. 28 + 1
  BY BuildAt
<1> QED BY ONLY <1>1, BuildSeq, todo = SubSeq(VuiBuild, at, 28), Rest

\* The call that VuiDestroy makes next.
LEMMA UndoNext ==
  ASSUME NEW at \in 1 .. 37, todo = SubSeq(VuiUndo, at, 36)
  PROVE  /\ todo # <<>> <=> at <= 36
         /\ at <= 36 => Head(todo) = VuiUndo[at] /\ Tail(todo) = SubSeq(VuiUndo, at + 1, 36)
<1>1. Len(VuiUndo) = 36 /\ 36 \in Nat /\ at \in 1 .. 36 + 1
  BY UndoAt
<1> QED BY ONLY <1>1, UndoSeq, todo = SubSeq(VuiUndo, at, 36), Rest

\* The first of all the calls.
LEMMA FullSeqs ==
  VuiBuild = SubSeq(VuiBuild, 1, 28) /\ VuiUndo = SubSeq(VuiUndo, 1, 36)
<1>1. Len(VuiBuild) = 28 /\ Len(VuiUndo) = 36
  BY BuildAt, UndoAt
<1> QED BY <1>1, BuildSeq, UndoSeq, SubSeqFull

\* The stage of VuiCreate.
LEMMA AtBuild ==
  ASSUME LifeInv, pc = "create"
  PROVE  \E at \in 1 .. 29 :
           /\ BuiltTo(at)
           /\ todo # <<>> <=> at <= 28
           /\ at <= 28 => Head(todo) = VuiBuild[at]
                          /\ Tail(todo) = SubSeq(VuiBuild, at + 1, 28)
<1>1. PICK at \in 1 .. 29 : BuiltTo(at)
  BY DEF LifeInv, Building
<1>2. todo = SubSeq(VuiBuild, at, 28)
  BY <1>1 DEF BuiltTo
<1> QED BY <1>1, <1>2, BuildNext

\* An allocation that succeeds.
LEMMA ObtainKeeps ==
  ASSUME LifeInv, Obtain
  PROVE  LifeInv'
<1>1. PICK at \in 1 .. 28 :
        /\ BuiltTo(at) /\ Head(todo) = VuiBuild[at]
        /\ Tail(todo) = SubSeq(VuiBuild, at + 1, 28)
  <2>1. pc = "create" /\ todo # <<>>
    BY DEF Obtain
  <2>2. PICK at \in 1 .. 29 :
          /\ BuiltTo(at) /\ at <= 28
          /\ Head(todo) = VuiBuild[at] /\ Tail(todo) = SubSeq(VuiBuild, at + 1, 28)
    BY <2>1, AtBuild
  <2>3. at \in 1 .. 28
    BY <2>2
  <2> QED BY <2>2, <2>3
<1>3. PICK n, r : VuiBuild[at] = <<n, r>> /\ n \in Node
  BY <1>1, BuildCalls
<1>2. /\ pc = "create" /\ pc' = "create" /\ todo' = SubSeq(VuiBuild, at + 1, 28)
      /\ UNCHANGED <<stack, stream, audio, pipe, failed, status>>
  BY <1>1, <1>3 DEF Obtain, walkVars, audioVars
<1>20. /\ r \in SemName => sem' = [sem EXCEPT ![<<n, r>>] = 0] /\ held' = held
       /\ r \notin SemName => sem' = sem
       /\ r = "thread" => /\ running' = [running EXCEPT ![n] = TRUE] /\ held' = held
                          /\ worker' = [worker EXCEPT ![n] = "top"]
       /\ r # "thread" => running' = running /\ worker' = worker
       /\ r \notin SemName \cup {"thread"} => held' = held \cup {<<n, r>>}
  <2>1. Head(todo) = <<n, r>> /\ Head(todo)[1] = n /\ Head(todo)[2] = r
    BY <1>1, <1>3
  <2>2. /\ sem' = IF r \in SemName THEN SemNew(sem, <<n, r>>, 0) ELSE sem
        /\ held' = IF r \in SemName \cup {"thread"} THEN held ELSE held \cup {<<n, r>>}
        /\ IF r = "thread"
           THEN running' = [running EXCEPT ![n] = TRUE] /\ worker' = [worker EXCEPT ![n] = "top"]
           ELSE UNCHANGED <<running, worker>>
    BY <2>1 DEF Obtain
  <2> QED BY <2>2 DEF SemNew
<1>4. \A i \in 1 .. at - 1 : Done(VuiBuild[i])
  BY <1>1 DEF BuiltTo
<1>5. r # "handle" => Holds(n, "handle")
  <2> SUFFICES ASSUME r # "handle" PROVE Holds(n, "handle")
    OBVIOUS
  <2>1. Housed(at, at)
    BY <1>1, <1>3 DEF BuiltTo
  <2> QED BY <1>3, <2>1 DEF Housed
<1>6. r = "thread" =>
        /\ n \in Worker /\ <<n, "ring">> \in held
        /\ Awaited(n) => sem[Farewell(n)] # NoHandle
  <2> SUFFICES ASSUME r = "thread"
               PROVE  /\ n \in Worker /\ <<n, "ring">> \in held
                      /\ Awaited(n) => sem[Farewell(n)] # NoHandle
    OBVIOUS
  <2>1. at \in 1 .. 28 /\ VuiBuild[at][2] = "thread" /\ VuiBuild[at][1] = n
    BY <1>3
  <2>2. /\ n \in Worker
        /\ \E j \in 1 .. at - 1 : VuiBuild[j] = <<n, "ring">>
        /\ \E j \in 1 .. at - 1 : VuiBuild[j] = Farewell(n)
    BY <2>1, BuildThreadsLast
  <2>3. Done(<<n, "ring">>) /\ Done(Farewell(n))
    BY <1>4, <2>2
  <2>4. <<n, "ring">> \notin failed
    BY <1>2 DEF LifeInv, Failures, Fatal
  <2>5. Holds(n, "handle")
    BY <1>5
  <2>6. Had(<<n, "ring">>) /\ (Awaited(n) => Had(Farewell(n)))
    BY <2>3, <2>4, <2>5 DEF Done, Awaited, Farewell
  <2>7. /\ Had(<<n, "ring">>) <=> <<n, "ring">> \in held
        /\ Had(Farewell(n)) <=> sem[Farewell(n)] # NoHandle
    BY DEF Had, SemName, Farewell
  <2> QED BY <2>2, <2>6, <2>7
<1>7. r \in SemName => <<n, r>> \in SemId
  BY <1>3, BuildUndone DEF SemId, SemName
<1>8. /\ sem \in [SemId -> Int] /\ sem' \in [SemId -> Int]
      /\ \A s \in SemId : sem'[s] = IF s = <<n, r>> THEN 0 ELSE sem[s]
  <2>1. sem \in [SemId -> Int]
    BY DEF LifeInv, Types
  <2>2. CASE r \in SemName
    BY <1>20, <1>7, <2>1, <2>2
  <2>3. CASE r \notin SemName
    BY <1>20, <2>1, <2>3 DEF SemId
  <2> QED BY <2>1, <2>2, <2>3
<1>9. /\ running \in [Worker -> BOOLEAN] /\ running' \in [Worker -> BOOLEAN]
      /\ \A m \in Worker : worker'[m] = (IF m = n /\ r = "thread" THEN "top" ELSE worker[m])
                           /\ running'[m] = (IF m = n /\ r = "thread" THEN TRUE ELSE running[m])
  <2>1. /\ running \in [Worker -> BOOLEAN]
        /\ worker \in [Worker -> {"none", "top", "wait", "look", "push", "session", "gone"}]
    BY DEF LifeInv, Types
  <2>2. CASE r = "thread"
    BY <1>6, <1>20, <2>1, <2>2
  <2>3. CASE r # "thread"
    BY <1>20, <2>1, <2>3
  <2> QED BY <2>1, <2>2, <2>3
<1>10. held \subseteq held' /\ held' \subseteq held \cup {<<n, r>>}
  BY <1>20
<1>11. Types'
  <2>1. /\ pc \in Whole \cup {"create", "destroy", "gone", "aborted"}
        /\ \A s \in SemId : sem[s] >= NoHandle
        /\ worker \in [Worker -> {"none", "top", "wait", "look", "push", "session", "gone"}]
        /\ DOMAIN stack = {"caller", "audioin"}
    BY DEF LifeInv, Types
  <2>2. pc' \in Whole \cup {"create"} /\ stack' = stack
    BY <1>2
  <2>3. \A s \in SemId : sem'[s] >= NoHandle
    BY <1>8, <2>1 DEF NoHandle
  <2>4. worker' \in [Worker -> {"none", "top", "wait", "look", "push", "session", "gone"}]
    BY <1>20, <2>1
  <2> QED BY <1>8, <1>9, <2>1, <2>2, <2>3, <2>4 DEF Types
<1>12. ASSUME NEW q, Had(q), q[2] = "thread" => q[1] \in Worker,
              q[2] \in SemName => q \in SemId
       PROVE  Had(q)'
  <2>1. CASE q[2] = "thread"
    BY <1>9, <1>12, <2>1, HadCases
  <2>2. CASE q[2] \in SemName
    <3>1. sem'[q] # NoHandle
      BY <1>8, <1>12, <2>2, HadCases DEF NoHandle
    <3> QED BY <2>2, <3>1, HadCases
  <2>3. CASE q[2] \notin SemName /\ q[2] # "thread"
    <3>1. q \in held'
      <4>1. Had(q) <=> q \in held
        BY <2>3, HadCases
      <4>2. q \in held
        BY <1>12, <4>1
      <4> QED BY <1>10, <4>2
    <3> QED BY <2>3, <3>1, HadCases
  <2> QED BY <2>1, <2>2, <2>3
<1>13. ASSUME NEW i \in 1 .. at PROVE Done(VuiBuild[i])'
  <2>1. i \in 1 .. 28
    BY <1>1
  <2>2. /\ VuiBuild[i][2] = "thread" => VuiBuild[i][1] \in Worker
        /\ VuiBuild[i][2] \in SemName => VuiBuild[i] \in SemId
    BY <2>1, BuildThreadsLast, BuildUndone DEF SemId, SemName
  <2>3. CASE i = at
    <3> DEFINE q == VuiBuild[at]
    <3>1. q = <<n, r>> /\ q[1] = n /\ q[2] = r
      BY <1>3
    <3>2. CASE r = "thread"
      <4>1. worker'[q[1]] # "none"
        BY <1>6, <1>9, <3>1, <3>2
      <4> QED BY <2>3, <3>1, <3>2, <4>1, HadCases DEF Done
    <3>3. CASE r \in SemName
      <4>1. sem'[q] # NoHandle
        BY <1>7, <1>8, <3>1, <3>3 DEF NoHandle
      <4> QED BY <2>3, <3>1, <3>3, <4>1, HadCases DEF Done
    <3>4. CASE r \notin SemName \cup {"thread"}
      <4>1. q \in held'
        BY <1>20, <3>1, <3>4
      <4> QED BY <2>3, <3>1, <3>4, <4>1, HadCases DEF Done
    <3> QED BY <3>2, <3>3, <3>4
  <2>4. CASE i < at
    <3>1. Done(VuiBuild[i])
      BY <1>4, <2>4
    <3>2. CASE VuiBuild[i] \in failed
      BY <1>2, <3>2 DEF Done
    <3>3. CASE Had(VuiBuild[i])
      BY <1>12, <2>2, <3>3 DEF Done
    <3>4. CASE ~Holds(VuiBuild[i][1], "handle")
      <4>1. r = "handle" => n # VuiBuild[i][1]
        <5>1. VuiBuild[at][2] = "handle" => VuiBuild[i][1] # VuiBuild[at][1]
          <6>1. at \in 1 .. 28 /\ i \in 1 .. at - 1
            BY <1>1, <2>4
          <6> QED BY <6>1, BuildHandlesFirst
        <5> QED BY <1>3, <5>1
      <4>2. <<VuiBuild[i][1], "handle">> \notin held'
        BY <1>10, <3>4, <4>1 DEF Holds
      <4> QED BY <4>2 DEF Done, Holds
    <3> QED BY <3>1, <3>2, <3>3, <3>4 DEF Done
  <2> QED BY <2>3, <2>4
<1>14. BuiltTo(at + 1)'
  <2>1. ASSUME NEW i \in at + 1 .. 28, VuiBuild[i][2] = "handle"
        PROVE  VuiBuild[i] \notin held'
    <3>1. VuiBuild[i] \notin held
      BY <1>1, <2>1 DEF BuiltTo
    <3>2. VuiBuild[i] # VuiBuild[at]
      <4>1. VuiBuild[at][2] = "handle" => VuiBuild[i] # VuiBuild[at]
        BY <1>1, BuildHandlesFirst
      <4> QED BY <2>1, <4>1
    <3> QED BY <1>3, <1>10, <3>1, <3>2
  <2>2. ASSUME NEW i \in at + 1 .. 28, VuiBuild[i][2] # "handle"
        PROVE  \/ <<VuiBuild[i][1], "handle">> \in held'
               \/ \E j \in at + 1 .. i : VuiBuild[j] = <<VuiBuild[i][1], "handle">>
    <3>1. \/ Holds(VuiBuild[i][1], "handle")
          \/ \E j \in at .. i : VuiBuild[j] = <<VuiBuild[i][1], "handle">>
      <4>1. i \in at .. 28
        OBVIOUS
      <4> QED BY <1>1, <2>2, <4>1 DEF BuiltTo, Housed
    <3>2. VuiBuild[at] = <<VuiBuild[i][1], "handle">> => <<VuiBuild[i][1], "handle">> \in held'
      <4>1. r = "handle" => <<n, r>> \in held'
        BY <1>20 DEF SemName
      <4> QED BY <1>3, <4>1
    <3>3. CASE <<VuiBuild[i][1], "handle">> \in held'
      BY <3>3
    <3>4. CASE <<VuiBuild[i][1], "handle">> \notin held'
      <4>1. PICK j \in at .. i : VuiBuild[j] = <<VuiBuild[i][1], "handle">>
        BY <1>10, <3>1, <3>4 DEF Holds
      <4>2. j # at
        BY <3>2, <3>4, <4>1
      <4>3. j \in at + 1 .. i
        BY <4>2
      <4> QED BY <4>1, <4>3
    <3> QED BY <3>3, <3>4
  <2>3. at + 1 # 1 /\ at + 1 - 1 = at
    BY <1>1
  <2>4. todo' = SubSeq(VuiBuild, at + 1, 28)
    BY <1>2
  <2>5. \A i \in 1 .. at + 1 - 1 : Done(VuiBuild[i])'
    BY <1>13, <2>3
  <2>6. ASSUME NEW i \in at + 1 .. 28, VuiBuild[i][2] # "handle"
        PROVE  Housed(at + 1, i)'
    BY <2>2, <2>6 DEF Housed, Holds
  <2> QED BY <2>1, <2>3, <2>4, <2>5, <2>6 DEF BuiltTo
<1>15. Building'
  <2>1. stream' = "stopped" /\ pipe' = "stop" /\ ~audio' /\ status' = "stopped"
    BY <1>2 DEF LifeInv, Building
  <2>2. at + 1 \in 1 .. 29
    BY <1>1
  <2> QED BY <1>14, <2>1, <2>2 DEF Building
<1>16. Built' /\ Undoing' /\ Gone' /\ Failures'
  BY <1>2 DEF Built, Undoing, Gone, Whole, LifeInv, Failures
<1>17. Owned'
  <2>1. <<n, r>> \in held' => <<n, "handle">> \in held' /\ <<n, r>> \in Range(VuiUndo)
    <3>1. r # "thread" => <<n, r>> \in Range(VuiUndo)
      <4>1. VuiBuild[at] \in Range(VuiBuild) /\ VuiBuild[at][2] = r
        BY <1>3, BuildUndone
      <4> QED BY <1>3, <4>1, BuildUndone
    <3>2. r = "thread" => held' = held
      BY <1>20
    <3>3. r = "handle" => <<n, r>> \in held'
      BY <1>20 DEF SemName
    <3>4. <<n, r>> \in held => <<n, r>> \in Range(VuiUndo)
      BY DEF LifeInv, Owned
    <3>5. r # "handle" => <<n, "handle">> \in held
      BY <1>5 DEF Holds
    <3> QED BY <1>10, <3>1, <3>2, <3>3, <3>4, <3>5
  <2>2. ASSUME NEW q \in held' PROVE <<q[1], "handle">> \in held' /\ q \in Range(VuiUndo)
    <3>1. q = <<n, r>> \/ q \in held
      BY <1>10
    <3>2. q \in held => <<q[1], "handle">> \in held /\ q \in Range(VuiUndo)
      BY DEF LifeInv, Owned, Holds
    <3>3. CASE q = <<n, r>>
      BY <2>1, <3>3
    <3>4. CASE q \in held
      BY <1>10, <3>2, <3>4
    <3> QED BY <3>1, <3>3, <3>4
  <2>3. ASSUME NEW s \in SemId, sem'[s] # NoHandle PROVE <<s[1], "handle">> \in held'
    <3>1. sem[s] # NoHandle => <<s[1], "handle">> \in held
      BY DEF LifeInv, Owned, Holds
    <3>2. s = <<n, r>> => r # "handle" /\ s[1] = n
      BY DEF SemId, SemName
    <3> QED BY <1>5, <1>8, <1>10, <2>3, <3>1, <3>2 DEF Holds
  <2> QED BY <2>2, <2>3 DEF Owned, Holds
<1>18. Workers'
  <2> SUFFICES ASSUME NEW m \in Worker
               PROVE  /\ worker'[m] = "gone" => ~running'[m]
                      /\ pc' \in Whole \cup {"create"} /\ worker'[m] # "none" => running'[m]
                      /\ AtWork(m)' /\ Awaited(m)' =>
                           /\ Holds(m, "handle")' /\ Holds(m, "ring")'
                           /\ sem'[Farewell(m)] # NoHandle
                      /\ sem'[Farewell(m)] > 0 => worker'[m] = "gone"
    BY DEF Workers
  <2>1. Farewell(m) \in SemId
    BY SemIds
  <2>2. /\ worker[m] = "gone" => ~running[m]
        /\ worker[m] # "none" => running[m]
        /\ AtWork(m) /\ Awaited(m) =>
             Holds(m, "handle") /\ Holds(m, "ring") /\ sem[Farewell(m)] # NoHandle
        /\ sem[Farewell(m)] > 0 => worker[m] = "gone"
    BY <1>2 DEF LifeInv, Workers
  <2>3. /\ worker'[m] = (IF m = n /\ r = "thread" THEN "top" ELSE worker[m])
        /\ running'[m] = (IF m = n /\ r = "thread" THEN TRUE ELSE running[m])
        /\ sem'[Farewell(m)] = IF Farewell(m) = <<n, r>> THEN 0 ELSE sem[Farewell(m)]
        /\ Awaited(m)' <=> Awaited(m)
        /\ Holds(m, "handle") => Holds(m, "handle")'
        /\ Holds(m, "ring") => Holds(m, "ring")'
    BY <1>2, <1>8, <1>9, <1>10, <2>1 DEF Awaited, Holds
  <2>4. CASE m = n /\ r = "thread"
    BY <1>5, <1>6, <2>2, <2>3, <2>4 DEF AtWork, NoHandle, Farewell, Holds
  <2>5. CASE ~(m = n /\ r = "thread")
    BY <2>2, <2>3, <2>5 DEF AtWork, NoHandle
  <2> QED BY <2>4, <2>5
<1>19. Streams'
  <2>1. stream' = "stopped" /\ pipe' = "stop" /\ stack' = stack
    BY <1>2 DEF LifeInv, Building
  <2>2. AllHeld => AllHeld'
    BY <1>10 DEF AllHeld, Holds
  <2>3. worker'["audioin"] = "push" => worker["audioin"] = "push"
    BY <1>9 DEF Worker
  <2> QED BY <1>2, <2>1, <2>2, <2>3 DEF LifeInv, Streams, AtWork, Awaited
<1> QED BY <1>11, <1>15, <1>16, <1>17, <1>18, <1>19 DEF LifeInv

\* What has been done stays done when something else fails.
LEMMA FailedDone ==
  ASSUME NEW i \in 1 .. 28, Done(VuiBuild[i]), failed \subseteq failed',
         UNCHANGED <<held, sem, worker>>
  PROVE  Done(VuiBuild[i])'
  BY DEF Done, Had, Holds

\* One that does not.
LEMMA FailKeeps ==
  ASSUME LifeInv, Fail
  PROVE  LifeInv'
<1>1. PICK at \in 1 .. 28 :
        /\ BuiltTo(at) /\ Head(todo) = VuiBuild[at]
        /\ Tail(todo) = SubSeq(VuiBuild, at + 1, 28) /\ todo = SubSeq(VuiBuild, at, 28)
  <2>1. pc = "create" /\ todo # <<>>
    BY DEF Fail
  <2>2. PICK at \in 1 .. 29 :
          /\ BuiltTo(at) /\ at <= 28
          /\ Head(todo) = VuiBuild[at] /\ Tail(todo) = SubSeq(VuiBuild, at + 1, 28)
    BY <2>1, AtBuild
  <2>3. at \in 1 .. 28
    BY <2>2
  <2> QED BY <2>2, <2>3 DEF BuiltTo
<1>2. PICK n, r : VuiBuild[at] = <<n, r>> /\ n \in Node
  BY <1>1, BuildCalls
<1>3. /\ pc = "create" /\ failed' = failed \cup {<<n, r>>}
      /\ UNCHANGED <<held, sem, running, worker, stack, stream, audio, pipe, status>>
  BY <1>1, <1>2 DEF Fail, walkVars, audioVars, workerVars
<1>4. /\ r \in Fatal => pc' = "aborted"
      /\ r \notin Fatal /\ r = "handle" /\ n = "vui" => pc' = "gone"
      /\ r \notin Fatal /\ ~(r = "handle" /\ n = "vui") => pc' = "create"
      /\ r = "handle" => todo' = Without(n)
      /\ r # "handle" => todo' = Tail(todo)
  <2>1. Head(todo)[1] = n /\ Head(todo)[2] = r
    BY <1>1, <1>2
  <2>2. /\ pc' = IF r \in Fatal THEN "aborted"
                 ELSE IF r = "handle" /\ n = "vui" THEN "gone" ELSE pc
        /\ todo' = IF r = "handle" THEN Without(n) ELSE Tail(todo)
    BY <2>1 DEF Fail
  <2> QED BY <1>3, <2>2
<1>5. \A i \in 1 .. at - 1 : Done(VuiBuild[i])'
  <2> SUFFICES ASSUME NEW i \in 1 .. at - 1 PROVE Done(VuiBuild[i])'
    OBVIOUS
  <2>1. i \in 1 .. 28
    BY <1>1
  <2>2. Done(VuiBuild[i])
    BY <1>1 DEF BuiltTo
  <2> QED BY <1>3, <2>1, <2>2, FailedDone
<1>6. at = 1 => NothingHeld'
  BY <1>1, <1>3 DEF BuiltTo, NothingHeld
<1>7. ASSUME pc' = "create"
      PROVE  \E e \in 1 .. 29 : BuiltTo(e)'
  <2>1. CASE r # "handle"
    <3>1. todo' = SubSeq(VuiBuild, at + 1, 28)
      BY <1>1, <1>4, <2>1
    <3>2. ASSUME NEW i \in 1 .. at PROVE Done(VuiBuild[i])'
      <4>1. CASE i = at
        BY <1>2, <1>3, <4>1 DEF Done
      <4>2. CASE i < at
        BY <1>5, <4>2
      <4> QED BY <4>1, <4>2
    <3>3. ASSUME NEW i \in at + 1 .. 28, VuiBuild[i][2] = "handle"
          PROVE  VuiBuild[i] \notin held'
      BY <1>1, <1>3, <3>3 DEF BuiltTo
    <3>4. ASSUME NEW i \in at + 1 .. 28, VuiBuild[i][2] # "handle"
          PROVE  Housed(at + 1, i)'
      <4>1. Housed(at, i)
        <5>1. i \in at .. 28
          OBVIOUS
        <5> QED BY <1>1, <3>4, <5>1 DEF BuiltTo
      <4>2. CASE Holds(VuiBuild[i][1], "handle")
        BY <1>3, <4>2 DEF Housed, Holds
      <4>3. ASSUME NEW j \in at .. i, VuiBuild[j] = <<VuiBuild[i][1], "handle">>
            PROVE  Housed(at + 1, i)'
        <5>1. j # at
          BY <1>2, <2>1, <4>3
        <5>2. j \in at + 1 .. i
          BY <5>1
        <5> QED BY <4>3, <5>2 DEF Housed
      <4> QED BY <4>1, <4>2, <4>3 DEF Housed
    <3>5. at + 1 \in 1 .. 29 /\ at + 1 - 1 = at /\ at + 1 # 1
      BY <1>1
    <3>6. BuiltTo(at + 1)'
      BY <3>1, <3>2, <3>3, <3>4, <3>5 DEF BuiltTo
    <3> QED BY <3>5, <3>6
  <2>2. CASE r = "handle"
    <3>1. PICK e \in at + 1 .. 29 :
            /\ \A j \in at .. e - 1 : VuiBuild[j][1] = VuiBuild[at][1]
            /\ \A j \in e .. 28 : VuiBuild[j][1] # VuiBuild[at][1]
      BY BuildBlocks
    <3>2. /\ \A j \in at .. e - 1 : VuiBuild[j][1] = n
          /\ \A j \in e .. 28 : VuiBuild[j][1] # n
      BY <1>2, <3>1
    <3>3. Without(n) = SubSeq(VuiBuild, e, 28)
      <4>1. 28 \in Nat /\ Len(VuiBuild) = 28 /\ at \in 1 .. 28 /\ e \in at + 1 .. 28 + 1
        BY BuildAt
      <4>2. e <= 28 => VuiBuild[e][1] # n
        <5>1. e <= 28 => e \in e .. 28
          OBVIOUS
        <5> QED BY <3>2, <5>1
      <4>3. (\A j \in at .. e - 1 : VuiBuild[j][1] = n) /\ todo = SubSeq(VuiBuild, at, 28)
        BY <1>1, <3>2
      <4> QED BY ONLY <4>1, <4>2, <4>3, BuildSeq, RestWithout
    <3>4. todo' = SubSeq(VuiBuild, e, 28)
      BY <1>4, <2>2, <3>3
    <3>5. <<n, "handle">> \notin held
      BY <1>1, <1>2, <2>2 DEF BuiltTo
    <3>6. ASSUME NEW i \in 1 .. e - 1 PROVE Done(VuiBuild[i])'
      <4>1. CASE i < at
        BY <1>5, <4>1
      <4>2. CASE i >= at
        <5>1. i \in at .. e - 1
          BY <4>2
        <5>2. VuiBuild[i][1] = n
          BY <3>2, <5>1
        <5> QED BY <1>3, <3>5, <5>2 DEF Done, Holds
      <4> QED BY <4>1, <4>2
    <3>7. ASSUME NEW i \in e .. 28, VuiBuild[i][2] = "handle"
          PROVE  VuiBuild[i] \notin held'
      <4>1. i \in at .. 28
        BY <3>1
      <4> QED BY <1>1, <1>3, <3>7, <4>1 DEF BuiltTo
    <3>8. ASSUME NEW i \in e .. 28, VuiBuild[i][2] # "handle"
          PROVE  Housed(e, i)'
      <4>1. Housed(at, i)
        <5>1. i \in at .. 28
          BY <3>1
        <5> QED BY <1>1, <3>8, <5>1 DEF BuiltTo
      <4>2. CASE Holds(VuiBuild[i][1], "handle")
        BY <1>3, <4>2 DEF Housed, Holds
      <4>3. ASSUME NEW j \in at .. i, VuiBuild[j] = <<VuiBuild[i][1], "handle">>
            PROVE  Housed(e, i)'
        <5>1. VuiBuild[j][1] # n
          BY <3>2, <4>3
        <5>2. j \in e .. i
          BY <3>2, <5>1
        <5> QED BY <4>3, <5>2 DEF Housed
      <4> QED BY <4>1, <4>2, <4>3 DEF Housed
    <3>9. e \in 1 .. 29 /\ e # 1
      BY <3>1
    <3>10. BuiltTo(e)'
      BY <3>4, <3>6, <3>7, <3>8, <3>9 DEF BuiltTo
    <3> QED BY <3>9, <3>10
  <2> QED BY <2>1, <2>2
<1>8. Types'
  BY <1>3, <1>4 DEF LifeInv, Types
<1>9. Building'
  BY <1>3, <1>7 DEF LifeInv, Building
<1>10. pc' \in {"create", "gone", "aborted"}
  BY <1>4
<1>11. Built' /\ Undoing'
  BY <1>10 DEF Built, Undoing, Whole
<1>12. Owned'
  BY <1>3 DEF LifeInv, Owned, Holds
<1>13. Workers'
  <2>1. \A m \in Worker :
          /\ worker[m] = "gone" => ~running[m]
          /\ worker[m] # "none" => running[m]
          /\ AtWork(m) /\ Awaited(m) =>
               Holds(m, "handle") /\ Holds(m, "ring") /\ sem[Farewell(m)] # NoHandle
          /\ sem[Farewell(m)] > 0 => worker[m] = "gone"
    BY <1>3 DEF LifeInv, Workers
  <2>2. failed \subseteq failed'
    BY <1>3
  <2> QED BY <1>3, <2>1, <2>2 DEF Workers, AtWork, Awaited, Holds
<1>14. Streams'
  BY <1>3 DEF LifeInv, Streams, AtWork, Awaited, AllHeld, Holds
<1>15. Failures'
  BY <1>3, <1>4 DEF LifeInv, Failures
<1>16. Gone'
  <2>1. pc' = "gone" => VuiBuild[at] = <<"vui", "handle">>
    BY <1>2, <1>4
  <2>2. VuiBuild[at] = <<"vui", "handle">> => at = 1
    BY <1>1, BuildHandlesFirst
  <2> QED BY <1>6, <2>1, <2>2 DEF Gone
<1> QED BY <1>8, <1>9, <1>11, <1>12, <1>13, <1>14, <1>15, <1>16 DEF LifeInv

\* VuiDestroy begins, as does the end of a VuiCreate that fails.
LEMMA BeginUndo ==
  ASSUME LifeInv, pc \in {"create", "idle"}, pc' = "destroy", todo' = VuiUndo,
         UNCHANGED <<resVars, walkVars, audioVars, workerVars>>
  PROVE  LifeInv'
<1>1. UndoneTo(1)'
  BY FullSeqs DEF UndoneTo
<1>2. Undoing' /\ Building' /\ Built' /\ Gone'
  BY <1>1 DEF Undoing, Building, Built, Gone, Whole
<1>3. UNCHANGED <<held, sem, failed, stack, stream, audio, pipe, running, worker>>
  BY DEF resVars, walkVars, audioVars, workerVars
<1>4. Types' /\ Owned' /\ Failures'
  BY <1>3 DEF LifeInv, Types, Owned, Failures, Holds, Whole
<1>5. Workers'
  BY <1>3 DEF LifeInv, Workers, AtWork, Awaited, Holds, Whole
<1>6. Streams'
  BY <1>3 DEF LifeInv, Streams, AtWork, Awaited, AllHeld, Holds
<1> QED BY <1>2, <1>4, <1>5, <1>6 DEF LifeInv

-----------------------------------------------------------------------------
(* Steps of VuiDestroy.                                                     *)

\* The stage of VuiDestroy.
LEMMA AtUndo ==
  ASSUME LifeInv, pc = "destroy", todo # <<>>
  PROVE  \E at \in 1 .. 36 :
           /\ UndoneTo(at) /\ todo = SubSeq(VuiUndo, at, 36)
           /\ Head(todo) = VuiUndo[at] /\ Tail(todo) = SubSeq(VuiUndo, at + 1, 36)
<1>1. PICK at \in 1 .. 37 : UndoneTo(at)
  BY DEF LifeInv, Undoing
<1>2. todo = SubSeq(VuiUndo, at, 36)
  BY <1>1 DEF UndoneTo
<1>3. /\ at <= 36 /\ Head(todo) = VuiUndo[at] /\ Tail(todo) = SubSeq(VuiUndo, at + 1, 36)
  BY <1>2, UndoNext
<1>4. at \in 1 .. 36
  BY <1>3
<1> QED BY <1>1, <1>2, <1>3, <1>4

\* The destructor of a module that is not there does nothing, and there is nothing
\* to do.
LEMMA UndoAbsent ==
  ASSUME LifeInv, pc = "destroy", Undo, NEW at \in 1 .. 36, UndoneTo(at),
         todo = SubSeq(VuiUndo, at, 36), Head(todo) = VuiUndo[at],
         ~Holds(Head(todo)[1], "handle")
  PROVE  LifeInv'
<1>1. PICK n, r : VuiUndo[at] = <<n, r>> /\ n \in Node
  BY UndoCalls
<1>2. /\ todo' = Without(n) /\ <<n, "handle">> \notin held
      /\ UNCHANGED <<held, sem, running, stream, failed, pc, stack, audio, pipe, worker>>
  <2>1. Head(todo)[1] = n
    BY <1>1
  <2> QED BY <2>1 DEF Undo, walkVars, Holds
<1>3. PICK e \in at + 1 .. 37 :
        /\ \A j \in at .. e - 1 : VuiUndo[j][1] = VuiUndo[at][1]
        /\ e <= 36 => VuiUndo[e][1] # VuiUndo[at][1]
  BY UndoBlocks
<1>4. todo' = SubSeq(VuiUndo, e, 36)
  <2>1. 36 \in Nat /\ Len(VuiUndo) = 36 /\ at \in 1 .. 36 /\ e \in at + 1 .. 36 + 1
    BY UndoAt
  <2>2. (e <= 36 => VuiUndo[e][1] # n) /\ \A j \in at .. e - 1 : VuiUndo[j][1] = n
    BY <1>1, <1>3
  <2>3. todo = SubSeq(VuiUndo, at, 36)
    OBVIOUS
  <2>4. Without(n) = SubSeq(VuiUndo, e, 36)
    BY ONLY <2>1, <2>2, <2>3, UndoSeq, RestWithout
  <2> QED BY <1>2, <2>4
<1>5. ASSUME NEW i \in 1 .. e - 1 PROVE Undone(i)
  <2>1. CASE i < at
    BY <2>1 DEF UndoneTo
  <2>2. CASE i >= at
    <3>1. i \in at .. e - 1 /\ i \in 1 .. 36
      BY <2>2
    <3>2. VuiUndo[i][1] = n
      BY <1>1, <1>3, <3>1
    <3>3. VuiUndo[i] \notin held
      BY <1>2, <3>2 DEF LifeInv, Owned, Holds
    <3>4. VuiUndo[i][2] \in SemName => sem[VuiUndo[i]] = NoHandle
      <4> SUFFICES ASSUME VuiUndo[i][2] \in SemName PROVE sem[VuiUndo[i]] = NoHandle
        OBVIOUS
      <4>1. VuiUndo[i] \in SemId
        BY <3>1, BuildUndone DEF SemId
      <4> QED BY <1>2, <3>2, <4>1 DEF LifeInv, Owned, Holds
    <3>5. VuiUndo[i][2] = "join" => ~AtWork(VuiUndo[i][1]) \/ ~Awaited(VuiUndo[i][1])
      BY <1>2, <3>1, <3>2, UndoCalls DEF LifeInv, Workers, Holds
    <3>6. VuiUndo[i] = <<"audioin", "stop_stream">> => stream # "started"
      <4>1. VuiUndo[i] = <<"audioin", "stop_stream">> => n = "audioin"
        BY <3>2
      <4>2. stream = "started" => <<"audioin", "handle">> \in held
        BY DEF LifeInv, Streams, Holds
      <4> QED BY <1>2, <4>1, <4>2
    <3> QED BY <3>3, <3>4, <3>5, <3>6 DEF Undone
  <2> QED BY <2>1, <2>2
<1>6. UndoneTo(e)'
  BY <1>2, <1>4, <1>5 DEF UndoneTo, Undone, AtWork, Awaited
<1>7. Undoing' /\ Building' /\ Built' /\ Gone'
  <2>1. e \in 1 .. 37
    BY <1>3
  <2> QED BY <1>2, <1>6, <2>1 DEF Undoing, Building, Built, Gone, Whole
<1>8. Types' /\ Owned' /\ Failures'
  BY <1>2 DEF LifeInv, Types, Owned, Failures, Holds, Whole
<1>9. Workers' /\ Streams'
  BY <1>2 DEF LifeInv, Workers, Streams, AtWork, Awaited, AllHeld, Holds, Whole
<1> QED BY <1>7, <1>8, <1>9 DEF LifeInv

\* A call of the destructor of a module that is there.
LEMMA UndoPresent ==
  ASSUME LifeInv, pc = "destroy", Undo, NEW at \in 1 .. 36, UndoneTo(at),
         Head(todo) = VuiUndo[at], Tail(todo) = SubSeq(VuiUndo, at + 1, 36),
         Holds(Head(todo)[1], "handle")
  PROVE  LifeInv'
<1>1. PICK n, r : VuiUndo[at] = <<n, r>> /\ n \in Node
  BY UndoCalls
<1>2. /\ todo' = SubSeq(VuiUndo, at + 1, 36) /\ held' = held \ {<<n, r>>}
      /\ r = "join" => Joined(n)
      /\ sem' = IF r \in SemName THEN SemFree(sem, <<n, r>>)
                ELSE IF r = "join" THEN SemTaken(sem, Farewell(n)) ELSE sem
      /\ running' = [m \in Worker |-> running[m] /\ ~(m = n /\ r = "quit")]
      /\ stream' = IF r = "stop_stream" THEN "stopped" ELSE stream
      /\ UNCHANGED <<failed, pc, stack, audio, pipe, worker>>
  <2>1. Head(todo)[1] = n /\ Head(todo)[2] = r /\ Head(todo) = <<n, r>>
    BY <1>1
  <2> QED BY <2>1 DEF Undo, walkVars, Farewell
<1>3. \A i \in 1 .. at - 1 : Undone(i)
  BY DEF UndoneTo, Undone
<1>4. r = "join" => n \in Worker
  <2>1. VuiUndo[at][2] = r /\ VuiUndo[at][1] = n
    BY <1>1
  <2> QED BY <2>1, UndoCalls
<1>5. SemsTyped(sem)
  BY DEF LifeInv, Types, SemsTyped
<1>6. /\ SemsTyped(sem')
      /\ \A s \in SemId : sem[s] = NoHandle => sem'[s] = NoHandle
      /\ \A s \in SemId : sem'[s] = NoHandle => sem[s] = NoHandle \/ s = <<n, r>>
      /\ \A s \in SemId : sem'[s] > 0 => sem[s] > 0
      /\ r \in SemName => sem'[<<n, r>>] = NoHandle
  <2>1. CASE r \in SemName
    <3>1. <<n, r>> \in SemId
      BY <1>1, <2>1, BuildUndone DEF SemId
    <3>2. sem' = [sem EXCEPT ![<<n, r>>] = NoHandle]
      BY <1>2, <2>1 DEF SemFree
    <3> QED BY <1>5, <3>1, <3>2 DEF SemsTyped, NoHandle
  <2>2. CASE r = "join"
    <3>1. r \notin SemName /\ Farewell(n) \in SemId
      BY <1>4, <2>2, SemIds DEF SemName
    <3>2. sem' = SemTaken(sem, Farewell(n))
      BY <1>2, <2>2, <3>1
    <3>3. /\ SemsTyped(sem')
          /\ \A s \in SemId : (sem'[s] = NoHandle <=> sem[s] = NoHandle) /\ sem'[s] <= sem[s]
      BY <1>5, <3>1, <3>2, TakenKeeps
    <3>4. ASSUME NEW s \in SemId, sem'[s] > 0 PROVE sem[s] > 0
      <4>1. sem'[s] \in Int /\ sem[s] \in Int /\ sem'[s] <= sem[s]
        BY <1>5, <3>3 DEF SemsTyped
      <4> QED BY <3>4, <4>1
    <3> QED BY <3>1, <3>3, <3>4
  <2>3. CASE r \notin SemName /\ r # "join"
    BY <1>2, <1>5, <2>3
  <2> QED BY <2>1, <2>2, <2>3
<1>7. Undone(at)'
  <2>1. VuiUndo[at] \notin held' /\ (VuiUndo[at][2] \in SemName => sem'[VuiUndo[at]] = NoHandle)
    BY <1>1, <1>2, <1>6
  <2>2. r = "join" => ~AtWork(n) \/ ~Awaited(n)
    <3> SUFFICES ASSUME r = "join", Awaited(n) PROVE ~AtWork(n)
      OBVIOUS
    <3>1. n \in Worker /\ sem[Farewell(n)] # 0 /\ Farewell(n) \in SemId
      BY <1>2, <1>4, SemIds DEF Joined, SemReturns, Farewell
    <3>2. sem[Farewell(n)] \in Int /\ sem[Farewell(n)] >= NoHandle
      BY <1>5, <3>1 DEF SemsTyped
    <3>3. sem[Farewell(n)] = NoHandle \/ sem[Farewell(n)] > 0
      BY <3>1, <3>2 DEF NoHandle
    <3> QED BY <3>1, <3>3 DEF LifeInv, Workers, AtWork
  <2>3. VuiUndo[at] = <<"audioin", "stop_stream">> => stream' # "started"
    BY <1>1, <1>2
  <2>4. VuiUndo[at][1] = n /\ VuiUndo[at][2] = r
    BY <1>1
  <2> QED BY <1>2, <2>1, <2>2, <2>3, <2>4 DEF Undone, AtWork, Awaited
<1>8. ASSUME NEW i \in 1 .. at - 1 PROVE Undone(i)'
  <2>1. Undone(i) /\ i \in 1 .. 36
    BY <1>3
  <2>2. VuiUndo[i][2] \in SemName => VuiUndo[i] \in SemId
    BY <2>1, BuildUndone DEF SemId
  <2> QED BY <1>2, <1>6, <2>1, <2>2 DEF Undone, AtWork, Awaited
<1>9. UndoneTo(at + 1)'
  <2>1. ASSUME NEW i \in 1 .. at + 1 - 1 PROVE Undone(i)'
    <3>1. i = at \/ i \in 1 .. at - 1
      OBVIOUS
    <3> QED BY <1>7, <1>8, <3>1
  <2> QED BY <1>2, <2>1 DEF UndoneTo
<1>10. Undoing' /\ Building' /\ Built' /\ Gone'
  <2>1. at + 1 \in 1 .. 37
    OBVIOUS
  <2> QED BY <1>2, <1>9, <2>1 DEF Undoing, Building, Built, Gone, Whole
<1>11. \A m \in Worker : running'[m] = (running[m] /\ ~(m = n /\ r = "quit"))
  BY <1>2
<1>12. Types'
  <2>1. running' \in [Worker -> BOOLEAN]
    BY <1>2
  <2> QED BY <1>2, <1>6, <2>1 DEF LifeInv, Types, SemsTyped
<1>13. r = "handle" =>
         /\ \A q \in held : q[1] = n => q = <<n, r>>
         /\ \A s \in SemId : s[1] = n => sem[s] = NoHandle
  <2> SUFFICES ASSUME r = "handle"
               PROVE  /\ \A q \in held : q[1] = n => q = <<n, r>>
                      /\ \A s \in SemId : s[1] = n => sem[s] = NoHandle
    OBVIOUS
  <2>0. VuiUndo[at][2] = "handle" /\ VuiUndo[at][1] = n
    BY <1>1
  <2>1. \A j \in at + 1 .. 36 : VuiUndo[j][1] # n
    BY <2>0, UndoHandlesLast
  <2>2. ASSUME NEW q \in held, q[1] = n PROVE q = <<n, r>>
    <3>1. PICK i \in 1 .. 36 : q = VuiUndo[i]
      BY BuildUndone DEF LifeInv, Owned
    <3>2. i \notin at + 1 .. 36
      BY <2>1, <2>2, <3>1
    <3>3. i \notin 1 .. at - 1
      BY <1>3, <3>1 DEF Undone
    <3>4. i = at
      BY <3>2, <3>3
    <3> QED BY <1>1, <3>1, <3>4
  <2>3. ASSUME NEW s \in SemId, s[1] = n PROVE sem[s] = NoHandle
    <3>1. s \in Range(VuiUndo) /\ s[2] \in SemName
      BY DEF SemId
    <3>2. PICK i \in 1 .. 36 : s = VuiUndo[i]
      BY <3>1, BuildUndone
    <3>3. i \notin at + 1 .. 36
      BY <2>1, <2>3, <3>2
    <3>4. i # at
      BY <1>1, <3>1, <3>2 DEF SemName
    <3>5. i \in 1 .. at - 1
      BY <3>3, <3>4
    <3> QED BY <1>3, <3>1, <3>2, <3>5 DEF Undone
  <2> QED BY <2>2, <2>3
<1>14. Owned'
  <2>1. ASSUME NEW q \in held' PROVE <<q[1], "handle">> \in held' /\ q \in Range(VuiUndo)
    <3>1. q \in held /\ q # <<n, r>>
      BY <1>2
    <3>2. <<q[1], "handle">> \in held /\ q \in Range(VuiUndo)
      BY <3>1 DEF LifeInv, Owned, Holds
    <3>3. <<q[1], "handle">> # <<n, r>>
      BY <1>13, <3>1
    <3> QED BY <1>2, <3>2, <3>3
  <2>2. ASSUME NEW s \in SemId, sem'[s] # NoHandle PROVE <<s[1], "handle">> \in held'
    <3>1. sem[s] # NoHandle
      BY <1>6, <2>2
    <3>2. <<s[1], "handle">> \in held
      BY <3>1 DEF LifeInv, Owned, Holds
    <3>3. <<s[1], "handle">> # <<n, r>>
      BY <1>13, <3>1
    <3> QED BY <1>2, <3>2, <3>3
  <2> QED BY <2>1, <2>2 DEF Owned, Holds
<1>15. ASSUME NEW m \in Worker, AtWork(m), Awaited(m)
       PROVE  <<n, r>> \notin {<<m, "ring">>, <<m, "handle">>, Farewell(m)}
  <2> SUFFICES ASSUME VuiUndo[at] \in {<<m, "ring">>, <<m, "handle">>, Farewell(m)}
               PROVE  FALSE
    BY <1>1
  <2>1. PICK j \in 1 .. at - 1 : VuiUndo[j] = <<m, "join">>
    BY UndoJoinsFirst
  <2>2. Undone(j)
    BY <1>3
  <2> QED BY <1>15, <2>1, <2>2 DEF Undone
<1>16. Workers'
  <2> SUFFICES ASSUME NEW m \in Worker
               PROVE  /\ worker'[m] = "gone" => ~running'[m]
                      /\ AtWork(m)' /\ Awaited(m)' =>
                           /\ Holds(m, "handle")' /\ Holds(m, "ring")'
                           /\ sem'[Farewell(m)] # NoHandle
                      /\ sem'[Farewell(m)] > 0 => worker'[m] = "gone"
    BY <1>2 DEF Workers, Whole
  <2>1. /\ worker[m] = "gone" => ~running[m]
        /\ AtWork(m) /\ Awaited(m) =>
             Holds(m, "handle") /\ Holds(m, "ring") /\ sem[Farewell(m)] # NoHandle
        /\ sem[Farewell(m)] > 0 => worker[m] = "gone"
    BY DEF LifeInv, Workers
  <2>2. Farewell(m) \in SemId
    BY SemIds
  <2>3. AtWork(m) /\ Awaited(m) =>
          /\ <<m, "handle">> \in held' /\ <<m, "ring">> \in held'
          /\ sem'[Farewell(m)] # NoHandle
    BY <1>2, <1>6, <1>15, <2>1, <2>2 DEF Holds
  <2>4. sem'[Farewell(m)] > 0 => worker[m] = "gone"
    BY <1>6, <2>1, <2>2
  <2> QED BY <1>2, <1>11, <2>1, <2>3, <2>4 DEF AtWork, Awaited, Holds
<1>17. Streams'
  <2>1. stream' = "started" =>
          /\ <<"audioin", "wrapper">> \in held' /\ <<"audioin", "handle">> \in held'
          /\ <<"audioin", "ring">> \in held'
    <3> SUFFICES ASSUME stream' = "started"
                 PROVE  <<n, r>> \notin {<<"audioin", "wrapper">>, <<"audioin", "handle">>,
                                         <<"audioin", "ring">>}
      BY <1>2 DEF LifeInv, Streams, Holds
    <3> SUFFICES ASSUME VuiUndo[at] \in {<<"audioin", "ring">>, <<"audioin", "handle">>,
                                         <<"audioin", "wrapper">>}
                 PROVE  FALSE
      BY <1>1
    <3>1. PICK j \in 1 .. at - 1 : VuiUndo[j] = <<"audioin", "stop_stream">>
      BY UndoStopsFirst
    <3>2. stream # "started"
      BY <1>3, <3>1 DEF Undone
    <3> QED BY <1>2, <3>2
  <2>2. AtWork("audioin") /\ Awaited("audioin") => r # "handle"
    <3> SUFFICES ASSUME r = "handle" PROVE ~AtWork("audioin") \/ ~Awaited("audioin")
      OBVIOUS
    <3>0. VuiUndo[at][2] = "handle"
      BY <1>1
    <3>1. PICK j \in 1 .. at - 1 : VuiUndo[j] = <<"audioin", "join">>
      BY <3>0, UndoHandlesLast
    <3>2. VuiUndo[j][1] = "audioin" /\ VuiUndo[j][2] = "join" /\ Undone(j)
      BY <1>3, <3>1
    <3> QED BY <3>2 DEF Undone
  <2>3. r # "handle" /\ AllHeld => \A m \in Node : <<m, "handle">> \in held'
    BY <1>2 DEF AllHeld, Holds
  <2> QED BY <1>2, <2>1, <2>2, <2>3 DEF LifeInv, Streams, AtWork, Awaited, AllHeld, Holds
<1>18. Failures'
  BY <1>2 DEF LifeInv, Failures
<1> QED BY <1>10, <1>12, <1>14, <1>16, <1>17, <1>18 DEF LifeInv

\* A call of a destructor.
LEMMA UndoKeeps ==
  ASSUME LifeInv, Undo
  PROVE  LifeInv'
<1>1. pc = "destroy" /\ todo # <<>>
  BY DEF Undo
<1>2. PICK at \in 1 .. 36 :
        /\ UndoneTo(at) /\ todo = SubSeq(VuiUndo, at, 36)
        /\ Head(todo) = VuiUndo[at] /\ Tail(todo) = SubSeq(VuiUndo, at + 1, 36)
  BY <1>1, AtUndo
<1> QED BY <1>1, <1>2, UndoAbsent, UndoPresent

\* When all calls have been made nothing is left.
LEMMA UndoDoneKeeps ==
  ASSUME LifeInv, UndoDone
  PROVE  LifeInv'
<1>1. /\ pc = "destroy" /\ todo = <<>> /\ pc' = "gone"
      /\ UNCHANGED <<held, sem, failed, stack, stream, audio, pipe, running, worker>>
  BY DEF UndoDone, resVars, walkVars, audioVars, workerVars
<1>2. PICK at \in 1 .. 37 : UndoneTo(at)
  BY <1>1 DEF LifeInv, Undoing
<1>3. todo = SubSeq(VuiUndo, at, 36)
  BY <1>2 DEF UndoneTo
<1>4. at = 37
  BY <1>1, <1>3, UndoNext
<1>5. \A i \in 1 .. 36 : Undone(i)
  <2>1. at - 1 = 36 /\ \A i \in 1 .. at - 1 : Undone(i)
    BY <1>2, <1>4 DEF UndoneTo
  <2> QED BY <2>1
<1>6. NothingHeld
  <2>1. ASSUME NEW q \in held PROVE FALSE
    <3>1. PICK i \in 1 .. 36 : q = VuiUndo[i]
      BY BuildUndone DEF LifeInv, Owned
    <3> QED BY <1>5, <3>1 DEF Undone
  <2>2. ASSUME NEW s \in SemId PROVE sem[s] = NoHandle
    <3>1. s \in Range(VuiUndo) /\ s[2] \in SemName
      BY DEF SemId
    <3>2. PICK i \in 1 .. 36 : s = VuiUndo[i]
      BY <3>1, BuildUndone
    <3> QED BY <1>5, <3>1, <3>2 DEF Undone
  <2> QED BY <2>1, <2>2 DEF NothingHeld
<1>7. Gone' /\ Building' /\ Built' /\ Undoing'
  BY <1>1, <1>6 DEF Gone, NothingHeld, Building, Built, Undoing, Whole
<1>8. Types' /\ Owned' /\ Failures'
  BY <1>1 DEF LifeInv, Types, Owned, Failures, Holds, Whole
<1>9. Workers' /\ Streams'
  BY <1>1 DEF LifeInv, Workers, Streams, AtWork, Awaited, AllHeld, Holds, Whole
<1> QED BY <1>7, <1>8, <1>9 DEF LifeInv

-----------------------------------------------------------------------------
(* The whole life.                                                          *)

\* VuiCreate has the whole interface, or takes back what there is of it.
LEMMA CreateDoneKeeps ==
  ASSUME LifeInv, CreateDone
  PROVE  LifeInv'
<1>1. /\ pc = "create" /\ todo = <<>>
      /\ UNCHANGED <<resVars, walkVars, audioVars, workerVars, status>>
  BY DEF CreateDone
<1>2. CASE Complete
  <2>1. /\ pc' = "idle"
        /\ UNCHANGED <<held, sem, failed, stack, stream, audio, pipe, running, worker, status>>
    BY <1>1, <1>2 DEF CreateDone, resVars, walkVars, audioVars, workerVars
  <2>2. PICK at \in 1 .. 29 : BuiltTo(at) /\ at > 28
    BY <1>1, AtBuild
  <2>3. ASSUME NEW i \in 1 .. 28 PROVE Done(VuiBuild[i])'
    <3>1. at = 29 /\ i \in 1 .. at - 1
      BY <2>2
    <3>2. Done(VuiBuild[i])
      BY <2>2, <3>1 DEF BuiltTo
    <3> QED BY <2>1, <3>2, FailedDone
  <2>4. Built'
    BY <1>2, <2>1, <2>3 DEF Built, AllHeld, Holds, Complete
  <2>5. Building' /\ Undoing' /\ Gone'
    BY <2>1 DEF Building, Undoing, Gone
  <2>6. Types' /\ Owned' /\ Failures'
    BY <1>1, <2>1 DEF LifeInv, Types, Owned, Failures, Holds, Whole
  <2>7. Workers' /\ Streams'
    BY <1>1, <2>1 DEF LifeInv, Workers, Streams, AtWork, Awaited, AllHeld, Holds, Whole
  <2> QED BY <2>4, <2>5, <2>6, <2>7 DEF LifeInv
<1>3. CASE ~Complete
  <2>1. pc' = "destroy" /\ todo' = VuiUndo
    BY <1>3 DEF CreateDone
  <2> QED BY <1>1, <2>1, BeginUndo
<1> QED BY <1>2, <1>3

\* Nothing is held at first.
LEMMA LifeInitially ==
  Init => LifeInv
<1> SUFFICES ASSUME Init PROVE LifeInv
  OBVIOUS
<1>1. /\ held = {} /\ sem = [s \in SemId |-> NoHandle] /\ failed = {}
      /\ pc = "create" /\ todo = VuiBuild
      /\ stack = [t \in {"caller", "audioin"} |-> <<>>] /\ status = "stopped"
      /\ stream = "stopped" /\ audio = FALSE /\ pipe = "stop"
      /\ running = [n \in Worker |-> FALSE] /\ worker = [n \in Worker |-> "none"]
  BY DEF Init
<1>2. Types
  BY <1>1 DEF Types, NoHandle
<1>3. BuiltTo(1)
  <2>1. todo = SubSeq(VuiBuild, 1, 28)
    BY <1>1, FullSeqs
  <2>2. NothingHeld
    BY <1>1 DEF NothingHeld
  <2>3. ASSUME NEW i \in 1 .. 28, VuiBuild[i][2] # "handle" PROVE Housed(1, i)
    <3>1. PICK j \in 1 .. i - 1 : VuiBuild[j] = <<VuiBuild[i][1], "handle">>
      BY <2>3, BuildHandlesFirst
    <3>2. j \in 1 .. i
      OBVIOUS
    <3> QED BY <3>1, <3>2 DEF Housed
  <2>4. \A i \in 1 .. 28 : VuiBuild[i] \notin held
    BY <1>1
  <2> QED BY <2>1, <2>2, <2>3, <2>4 DEF BuiltTo
<1>4. Building
  BY <1>1, <1>3 DEF Building
<1>5. Built /\ Undoing /\ Gone /\ Owned /\ Failures
  BY <1>1 DEF Built, Undoing, Gone, Owned, Failures, Whole
<1>6. Workers /\ Streams
  <2>1. \A n \in Worker : sem[Farewell(n)] = -1
    BY <1>1, SemIds DEF NoHandle
  <2>2. "audioin" \in Worker
    BY DEF Worker
  <2> QED BY <1>1, <2>1, <2>2 DEF Workers, Streams, AtWork
<1> QED BY <1>2, <1>4, <1>5, <1>6 DEF LifeInv

\* Every step keeps the invariant,
LEMMA LifeInductive ==
  LifeInv /\ [Next]_vars => LifeInv'
<1> SUFFICES ASSUME LifeInv, [Next]_vars PROVE LifeInv'
  OBVIOUS
<1>1. CASE Next
  <2>1. Alive
    BY <1>1 DEF Next
  <2>2. CASE Api
    <3>1. CASE VuiDestroy
      BY <3>1, BeginUndo DEF VuiDestroy
    <3> QED BY <2>2, <3>1, CallsQuiet DEF Api
  <2>3. CASE Calling
    BY <2>1, <2>3, ObtainKeeps, FailKeeps, CreateDoneKeeps, UndoKeeps, UndoDoneKeeps, CallsQuiet,
       CommandQuiet DEF Calling
  <2>4. CASE Callback
    BY <2>1, <2>4, CallbackQuiet
  <2>5. CASE AudioInWorker
    BY <2>1, <2>5, AudioInQuiet
  <2>6. ASSUME NEW n \in Recogniser, RecogniserWorker(n) PROVE LifeInv'
    BY <2>1, <2>6, RecogniserQuiet
  <2> QED BY <1>1, <2>2, <2>3, <2>4, <2>5, <2>6 DEF Next
<1>2. CASE UNCHANGED vars
  <2>1. UNCHANGED <<held, sem, failed, running, worker, stack, stream, audio, pipe, pc, todo,
                    status>>
    BY <1>2 DEF vars, resVars, callVars, apiVars, walkVars, audioVars, workerVars
  <2>2. SemsStay /\ WorkersStay /\ StageStays
    BY <2>1, SameQuiet DEF StageStays
  <2>3. Streams' /\ DOMAIN stack' = {"caller", "audioin"}
    BY <2>1 DEF LifeInv, Streams, AllHeld, Holds, AtWork, Awaited, Types
  <2> QED BY <2>1, <2>2, <2>3, Quiet
<1> QED BY <1>1, <1>2

\* so it holds throughout.
LEMMA LifeStays ==
  Spec => []LifeInv
<1> QED BY LifeInitially, LifeInductive, PTL DEF Spec

\* However many allocations fail: VuiCreate returns an interface with all its
\* modules, or NULL with nothing left of it, and VuiDestroy leaves nothing either, and
\* no thread but one that has no semaphore to be waited for by.
THEOREM AllOrNothingStays ==
  Spec => []AllOrNothing
<1>1. LifeInv => AllOrNothing
  <2> SUFFICES ASSUME LifeInv PROVE AllOrNothing
    OBVIOUS
  <2>1. ASSUME pc \in Whole
        PROVE  /\ \A n \in Node : Holds(n, "handle")
               /\ \A r \in Range(VuiBuild) \ failed :
                    CASE r[2] = "thread" -> worker[r[1]] \notin {"none", "gone"}
                      [] r[2] \in SemName -> sem[r] # NoHandle
                      [] OTHER -> r \in held
    <3>1. AllHeld /\ \A i \in 1 .. 28 : Done(VuiBuild[i])
      BY <2>1 DEF LifeInv, Built
    <3>2. ASSUME NEW r \in Range(VuiBuild) \ failed
          PROVE  /\ r[2] = "thread" => worker[r[1]] \notin {"none", "gone"}
                 /\ r[2] \in SemName => sem[r] # NoHandle
                 /\ r[2] # "thread" /\ r[2] \notin SemName => r \in held
      <4>1. PICK i \in 1 .. 28 : r = VuiBuild[i]
        BY BuildUndone
      <4>2. Holds(r[1], "handle")
        BY <3>1, <4>1, BuildCalls DEF AllHeld
      <4>3. Had(r)
        BY <3>1, <3>2, <4>1, <4>2 DEF Done
      <4>4. r[2] = "thread" => worker[r[1]] \notin {"none", "gone"}
        <5> SUFFICES ASSUME r[2] = "thread" PROVE worker[r[1]] \notin {"none", "gone"}
          OBVIOUS
        <5>1. r[1] \in Worker
          BY <4>1, BuildThreadsLast
        <5>2. worker[r[1]] # "none"
          BY <4>3, HadCases
        <5> QED BY <2>1, <5>1, <5>2 DEF LifeInv, Workers
      <4> QED BY <4>3, <4>4, HadCases
    <3> QED BY <3>1, <3>2 DEF AllHeld
  <2>2. pc = "gone" => held = {} /\ \A s \in SemId : sem[s] = NoHandle
    BY DEF LifeInv, Gone, NothingHeld
  <2>3. ASSUME pc = "gone", NEW n \in Worker, <<n, "sem_worker_thread">> \notin failed
        PROVE  worker[n] \in {"none", "gone"}
    <3>1. AtWork(n) /\ Awaited(n) => <<n, "handle">> \in held
      BY DEF LifeInv, Workers, Holds
    <3>2. Awaited(n) /\ <<n, "handle">> \notin held
      BY <2>2, <2>3 DEF Awaited, Farewell
    <3> QED BY <3>1, <3>2 DEF AtWork
  <2> QED BY <2>1, <2>2, <2>3 DEF AllOrNothing, Whole
<1> QED BY <1>1, LifeStays, PTL

-----------------------------------------------------------------------------
(* What vui.c does with the lists.                                          *)

Sound == Linked(Node, NoNode, mem, pre)

NodeReady(n) == {P!Link(n), P!Rear(n)} \subseteq InUse(Node, NoNode, mem)

\* A module whose handle is there has been made a node, and once VuiCreate has
\* returned so has the root.
ReadyNodes ==
  /\ \A n \in Node \ {"vui"} : Holds(n, "handle") => NodeReady(n)
  /\ pc \in Whole => \A n \in Node : NodeReady(n)

\* The links that vui.c means, and the pointers that stand for them.
Shape ==
  /\ pre["vui"] = NoNode
  /\ pre["audioin"] \in {NoNode, "vui"} /\ pre["aec"] \in {NoNode, "audioin"}
  /\ pre["lasr"] \in {NoNode, "aec"} /\ pre["rasr"] \in {NoNode, "aec"}
  /\ pre["audioin"] # NoNode =>
       /\ mem.next[P!Rear("vui")] = P!Link("audioin")
       /\ mem.next[P!Link("audioin")] = P!Rear("vui")
  /\ pre["aec"] # NoNode =>
       /\ mem.next[P!Rear("audioin")] = P!Link("aec")
       /\ mem.next[P!Link("aec")] = P!Rear("audioin")
  /\ pre["lasr"] # NoNode => mem.next[P!Link("lasr")] = P!Rear("aec")
  /\ pre["lasr"] # NoNode /\ pre["rasr"] = NoNode => mem.next[P!Rear("aec")] = P!Link("lasr")
  /\ pre["rasr"] # NoNode =>
       /\ mem.next[P!Rear("aec")] = P!Link("rasr")
       /\ pre["lasr"] # NoNode => mem.next[P!Link("rasr")] = P!Link("lasr")
       /\ pre["lasr"] = NoNode => mem.next[P!Link("rasr")] = P!Rear("aec")

Unlinks == \A n \in Node : pre[n] = NoNode

\* __module_linking has come to its link number at.
LinkedTo(mode, at) ==
  /\ todo = SubSeq(LinksOf(mode), at, Len(LinksOf(mode)))
  /\ \A n \in Node : pre[n] # NoNode => \E i \in 1 .. at - 1 : LinksOf(mode)[i][2] = n
  /\ \A i \in 1 .. at - 1 : pre[LinksOf(mode)[i][2]] # NoNode

Clears == [i \in 1 .. 5 |-> <<<<"vui", "audioin", "aec", "lasr", "rasr">>[i], "clear">>]

\* __module_unlinking has come to its node number at.
ClearedTo(at) ==
  /\ todo = SubSeq(Clears, at, 5)
  /\ \A i \in 1 .. at - 1 : \A n \in Node : pre[n] # Clears[i][1]

Linking ==
  /\ pc = "create" \/ (pc = "idle" /\ status = "stopped") => Unlinks
  /\ pc = "link" =>
       \E mode \in Mode : \E at \in 1 .. Len(LinksOf(mode)) + 1 : LinkedTo(mode, at)
  /\ pc = "unlink" => \E at \in 1 .. 6 : ClearedTo(at)
  /\ pc = "push" \/ (pc = "idle" /\ status = "started") =>
       pre["audioin"] # NoNode /\ pre["aec"] # NoNode /\ pre["lasr"] # NoNode
  /\ pc = "link" => status = "stopped"
  /\ status \in {"started", "stopped"}

ListInv == Sound /\ ReadyNodes /\ Shape /\ Linking

\* The links of a mode, one by one.
LEMMA LinksAt ==
  ASSUME NEW mode \in Mode
  PROVE  /\ Len(LinksOf(mode)) \in {3, 4} /\ LinksOf(mode) \in Seq(Node \X Node)
         /\ LinksOf(mode)[1] = <<"vui", "audioin">> /\ LinksOf(mode)[2] = <<"audioin", "aec">>
         /\ LinksOf(mode)[3] = <<"aec", "lasr">>
         /\ Len(LinksOf(mode)) = 4 => LinksOf(mode)[4] = <<"aec", "rasr">>
<1>1. CASE mode = "lasr_rasr"
  <2> DEFINE s == <<<<"vui", "audioin">>, <<"audioin", "aec">>, <<"aec", "lasr">>>>
             t == <<<<"aec", "rasr">>>>
  <2>1. LinksOf(mode) = s \o t
    BY <1>1 DEF LinksOf
  <2>2. /\ s \in Seq(Node \X Node) /\ t \in Seq(Node \X Node) /\ Len(s) = 3 /\ Len(t) = 1
        /\ s[1] = <<"vui", "audioin">> /\ s[2] = <<"audioin", "aec">>
        /\ s[3] = <<"aec", "lasr">> /\ t[1] = <<"aec", "rasr">>
    BY DEF Node
  <2> HIDE DEF s, t
  <2>3. /\ s \o t \in Seq(Node \X Node) /\ Len(s \o t) = 4
        /\ (s \o t)[1] = s[1] /\ (s \o t)[2] = s[2] /\ (s \o t)[3] = s[3]
        /\ (s \o t)[4] = t[1]
    <3>1. /\ s \o t \in Seq(Node \X Node) /\ Len(s \o t) = 3 + 1
          /\ \A i \in 1 .. 3 + 1 : (s \o t)[i] = IF i <= 3 THEN s[i] ELSE t[i - 3]
      <4>1. /\ s \o t \in Seq(Node \X Node) /\ Len(s \o t) = Len(s) + Len(t)
            /\ \A i \in 1 .. Len(s) + Len(t) :
                 (s \o t)[i] = IF i <= Len(s) THEN s[i] ELSE t[i - Len(s)]
        BY <2>2, ConcatProperties
      <4>2. Len(s) = 3 /\ Len(t) = 1
        BY <2>2
      <4> QED BY <4>1, <4>2
    <3> QED BY <3>1
  <2> QED BY <2>1, <2>2, <2>3
<1>2. CASE mode = "lasr_only"
  <2>1. LinksOf(mode) = <<<<"vui", "audioin">>, <<"audioin", "aec">>, <<"aec", "lasr">>>>
    BY <1>2 DEF LinksOf
  <2> QED BY <2>1 DEF Node
<1> QED BY <1>1, <1>2 DEF Mode

\* The nodes that __module_unlinking clears, one by one.
LEMMA ClearsAt ==
  /\ Clears \in Seq(Node \X {"clear"}) /\ Len(Clears) = 5
  /\ Clears[1] = <<"vui", "clear">> /\ Clears[2] = <<"audioin", "clear">>
  /\ Clears[3] = <<"aec", "clear">> /\ Clears[4] = <<"lasr", "clear">>
  /\ Clears[5] = <<"rasr", "clear">>
<1>1. Clears = <<<<"vui", "clear">>, <<"audioin", "clear">>, <<"aec", "clear">>,
                 <<"lasr", "clear">>, <<"rasr", "clear">>>>
  BY DEF Clears
<1> QED BY <1>1 DEF Node

\* A node that no other was connected after has an empty list.
LEMMA EmptyList ==
  ASSUME NEW N, NEW Z, NEW m, NEW p, Linked(N, Z, m, p), NEW n \in N,
         P!Rear(n) \in InUse(N, Z, m), \A k \in N : p[k] # n
  PROVE  m.next[P!Rear(n)] = P!Rear(n)
  BY FirstOf

\* The ten cells.
LEMMA NodeCells ==
  ASSUME NEW n \in Node
  PROVE  P!Link(n) \in Cells(Node) /\ P!Rear(n) \in Cells(Node)
  BY DEF Cells, P!Link, P!Rear

\* Ready is what NodeReady says.
LEMMA ReadyInUse ==
  ASSUME NEW n \in Node
  PROVE  /\ P!Ready(P!Link(n)) <=> P!Link(n) \in InUse(Node, NoNode, mem)
         /\ P!Ready(P!Rear(n)) <=> P!Rear(n) \in InUse(Node, NoNode, mem)
  BY NodeCells DEF P!Ready, P!Null, InUse, Nil

InUseNow == InUse(Node, NoNode, mem)

\* PipelineConnect as __module_linking uses it.
LEMMA ConnectShape ==
  ASSUME Sound, Shape, NEW p, NEW r,
         <<p, r>> \in {<<"vui", "audioin">>, <<"audioin", "aec">>, <<"aec", "lasr">>,
                       <<"aec", "rasr">>},
         \A n \in Node : NodeReady(n), pre[r] = NoNode,
         r = "lasr" => pre["rasr"] = NoNode, r = "rasr" => pre["lasr"] # NoNode,
         P!Connect(p, r)
  PROVE  Sound' /\ Shape' /\ InUseNow' = InUseNow /\ pre' = [pre EXCEPT ![r] = p]
<1>1. /\ p \in Node /\ r \in Node /\ p # r
      /\ P!Rear(p) \in InUse(Node, NoNode, mem) /\ P!Link(r) \in InUse(Node, NoNode, mem)
      /\ mem' = P!ListAdd(mem, P!Link(r), P!Rear(p)) /\ pre' = [pre EXCEPT ![r] = p]
  BY DEF Node, NodeReady, P!Connect
<1>2. /\ Sound' /\ InUseNow' = InUseNow
      /\ mem'.next = [mem.next EXCEPT ![P!Link(r)] = mem.next[P!Rear(p)],
                                      ![P!Rear(p)] = P!Link(r)]
  <2>1. Linked(Node, NoNode, mem, pre)
    BY DEF Sound
  <2>2. /\ Linked(Node, NoNode, mem', pre')
        /\ InUse(Node, NoNode, mem') = InUse(Node, NoNode, mem)
        /\ mem'.next = [mem.next EXCEPT ![P!Link(r)] = mem.next[P!Rear(p)],
                                        ![P!Rear(p)] = P!Link(r)]
    <3>1. /\ p \in Node /\ r \in Node /\ P!Rear(p) \in InUse(Node, NoNode, mem)
          /\ P!Link(r) \in InUse(Node, NoNode, mem) /\ pre[r] = NoNode
      BY <1>1
    <3>2. /\ Linked(Node, NoNode, P!ListAdd(mem, P!Link(r), P!Rear(p)), [pre EXCEPT ![r] = p])
          /\ InUse(Node, NoNode, P!ListAdd(mem, P!Link(r), P!Rear(p))) = InUse(Node, NoNode, mem)
          /\ P!ListAdd(mem, P!Link(r), P!Rear(p)).next
               = [mem.next EXCEPT ![P!Link(r)] = mem.next[P!Rear(p)], ![P!Rear(p)] = P!Link(r)]
      BY ONLY <2>1, <3>1, ConnectKeeps
    <3>3. mem' = P!ListAdd(mem, P!Link(r), P!Rear(p)) /\ pre' = [pre EXCEPT ![r] = p]
      BY <1>1
    <3> QED BY ONLY <3>2, <3>3
  <2> QED BY <2>2 DEF Sound, InUseNow
<1>3. /\ mem.next \in [Cells(Node) -> Cells(Node) \cup {Nil(NoNode)}]
      /\ pre \in [Node -> Node \cup {NoNode}]
      /\ NoNode \notin Node
  BY DEF Sound, Linked, Memory
<1>4. \A n \in Node :
        /\ mem'.next[P!Link(n)] = IF n = r THEN mem.next[P!Rear(p)] ELSE mem.next[P!Link(n)]
        /\ mem'.next[P!Rear(n)] = IF n = p THEN P!Link(r) ELSE mem.next[P!Rear(n)]
        /\ pre'[n] = IF n = r THEN p ELSE pre[n]
  BY <1>1, <1>2, <1>3, NodeCells DEF P!Link, P!Rear
<1>5. (\A k \in Node : pre[k] # p) => mem.next[P!Rear(p)] = P!Rear(p)
  BY <1>1, EmptyList DEF Sound
<1>6. "vui" \in Node /\ "audioin" \in Node /\ "aec" \in Node /\ "lasr" \in Node
      /\ "rasr" \in Node /\ \A k \in Node : k \in {"vui", "audioin", "aec", "lasr", "rasr"}
  BY DEF Node
<1>7. Shape'
  <2>1. CASE p = "vui" /\ r = "audioin"
    <3>1. mem.next[P!Rear("vui")] = P!Rear("vui")
      BY <1>3, <1>5, <1>6, <2>1 DEF Shape
    <3> QED BY <1>3, <1>4, <1>6, <2>1, <3>1 DEF Shape
  <2>2. CASE p = "audioin" /\ r = "aec"
    <3>1. mem.next[P!Rear("audioin")] = P!Rear("audioin")
      BY <1>3, <1>5, <1>6, <2>2 DEF Shape
    <3> QED BY <1>3, <1>4, <1>6, <2>2, <3>1 DEF Shape
  <2>3. CASE p = "aec" /\ r = "lasr"
    <3>1. mem.next[P!Rear("aec")] = P!Rear("aec")
      BY <1>3, <1>5, <1>6, <2>3 DEF Shape
    <3> QED BY <1>3, <1>4, <1>6, <2>3, <3>1 DEF Shape
  <2>4. CASE p = "aec" /\ r = "rasr"
    BY <1>3, <1>4, <1>6, <2>4 DEF Shape
  <2>5. \/ p = "vui" /\ r = "audioin"
        \/ p = "audioin" /\ r = "aec"
        \/ p = "aec" /\ r = "lasr"
        \/ p = "aec" /\ r = "rasr"
    OBVIOUS
  <2> QED BY <2>1, <2>2, <2>3, <2>4, <2>5
<1> QED BY <1>1, <1>2, <1>7

\* PipelineClear, in any order.
LEMMA ClearShape ==
  ASSUME Sound, Shape, NEW n \in Node, NodeReady(n), P!ClearFirst(n)
  PROVE  /\ Sound' /\ Shape' /\ InUseNow' = InUseNow
         /\ \E r \in Node : pre[r] = n /\ pre' = [pre EXCEPT ![r] = NoNode]
<1> DEFINE e == mem.next[P!Rear(n)]
<1>1. /\ e # P!Rear(n) /\ mem' = P!ListDel(mem, e) /\ pre' = [pre EXCEPT ![e[1]] = NoNode]
      /\ P!Rear(n) \in InUse(Node, NoNode, mem)
  BY DEF P!ClearFirst, P!ListEmpty, NodeReady
<1>2. /\ e[1] \in Node /\ e = P!Link(e[1]) /\ e \in InUse(Node, NoNode, mem)
      /\ pre[e[1]] = n /\ mem.prev[e] = P!Rear(n)
  BY <1>1, FirstOf DEF Sound
<1>3. PICK r \in Node : e = P!Link(r) /\ r = e[1]
  BY <1>2
<1>4. /\ Sound' /\ InUseNow' = InUseNow
      /\ mem'.next = [mem.next EXCEPT ![P!Rear(n)] = mem.next[P!Link(r)],
                                      ![P!Link(r)] = P!Link(r)]
  <2>1. Linked(Node, NoNode, mem, pre) /\ P!Link(r) \in InUse(Node, NoNode, mem)
    BY <1>2, <1>3 DEF Sound
  <2>2. mem' = P!ListDel(mem, P!Link(r)) /\ pre' = [pre EXCEPT ![r] = NoNode]
    BY <1>1, <1>3
  <2>3. /\ Linked(Node, NoNode, mem', pre')
        /\ InUse(Node, NoNode, mem') = InUse(Node, NoNode, mem)
        /\ mem'.next = [mem.next EXCEPT ![mem.prev[P!Link(r)]] = mem.next[P!Link(r)],
                                        ![P!Link(r)] = P!Link(r)]
    <3>1. LET m2 == P!ListDel(mem, P!Link(r))
          IN  /\ Linked(Node, NoNode, m2, [pre EXCEPT ![r] = NoNode])
              /\ InUse(Node, NoNode, m2) = InUse(Node, NoNode, mem)
              /\ m2.next = [mem.next EXCEPT ![mem.prev[P!Link(r)]] = mem.next[P!Link(r)],
                                            ![P!Link(r)] = P!Link(r)]
      BY ONLY <2>1, r \in Node, UnlinkKeeps
    <3> QED BY ONLY <2>2, <3>1
  <2> QED BY <1>2, <1>3, <2>3 DEF Sound, InUseNow
<1>5. /\ mem.next \in [Cells(Node) -> Cells(Node) \cup {Nil(NoNode)}]
      /\ pre \in [Node -> Node \cup {NoNode}]
      /\ NoNode \notin Node
  BY DEF Sound, Linked, Memory
<1>6. \A k \in Node :
        /\ mem'.next[P!Link(k)] = IF k = r THEN P!Link(r) ELSE mem.next[P!Link(k)]
        /\ mem'.next[P!Rear(k)] = IF k = n THEN mem.next[P!Link(r)] ELSE mem.next[P!Rear(k)]
        /\ pre'[k] = IF k = r THEN NoNode ELSE pre[k]
  BY <1>1, <1>3, <1>4, <1>5, NodeCells DEF P!Link, P!Rear
<1>7. "vui" \in Node /\ "audioin" \in Node /\ "aec" \in Node /\ "lasr" \in Node
      /\ "rasr" \in Node /\ \A k \in Node : k \in {"vui", "audioin", "aec", "lasr", "rasr"}
  BY DEF Node
<1>8. pre[r] = n /\ mem.next[P!Rear(n)] = P!Link(r)
  BY <1>2, <1>3
<1> HIDE DEF e
<1>9. \/ n = "vui" /\ r = "audioin"
      \/ n = "audioin" /\ r = "aec"
      \/ n = "aec" /\ r = "lasr"
      \/ n = "aec" /\ r = "rasr"
  BY <1>5, <1>7, <1>8 DEF Shape
<1>10. Shape'
  <2>1. CASE n = "vui" /\ r = "audioin"
    BY <1>5, <1>6, <1>7, <2>1 DEF Shape
  <2>2. CASE n = "audioin" /\ r = "aec"
    BY <1>5, <1>6, <1>7, <2>2 DEF Shape
  <2>3. CASE n = "aec" /\ r = "lasr"
    <3>1. pre["rasr"] = NoNode
      BY <1>8, <2>3 DEF Shape, P!Link
    <3> QED BY <1>5, <1>6, <1>7, <2>3, <3>1 DEF Shape
  <2>4. CASE n = "aec" /\ r = "rasr"
    BY <1>5, <1>6, <1>7, <1>8, <2>4 DEF Shape
  <2> QED BY <1>9, <2>1, <2>2, <2>3, <2>4
<1> QED BY <1>1, <1>3, <1>4, <1>8, <1>10

\* A list is found empty only when no node is connected after its owner.
LEMMA ClearedAll ==
  ASSUME Sound, Shape, NEW n \in Node, P!Cleared(n)
  PROVE  \A k \in Node : pre[k] # n
<1>1. mem.next[P!Rear(n)] = P!Rear(n) /\ NoNode \notin Node
  BY DEF P!Cleared, P!ListEmpty, Sound, Linked
<1>2. \A k, l \in Node : P!Link(k) # P!Rear(l)
  BY DEF P!Link, P!Rear
<1> QED BY <1>1, <1>2 DEF Shape, Node

\* A step that leaves the lists alone and obtains no module.
LEMMA ListsStay ==
  ASSUME ListInv, UNCHANGED listVars, held' \subseteq held \cup {<<"vui", "handle">>}
              \/ \A n \in Node : <<n, "handle">> \in held' => <<n, "handle">> \in held,
         pc' \in Whole => pc \in Whole
  PROVE  Sound' /\ Shape' /\ ReadyNodes'
<1>1. mem' = mem /\ pre' = pre
  BY DEF listVars
<1>2. Sound' /\ Shape'
  BY <1>1 DEF ListInv, Sound, Shape
<1>3. \A n \in Node \ {"vui"} : <<n, "handle">> \in held' => <<n, "handle">> \in held
  OBVIOUS
<1>4. ReadyNodes'
  BY <1>1, <1>3 DEF ListInv, ReadyNodes, NodeReady, Holds
<1> QED BY <1>2, <1>4

\* PipelineNodeInit of one node more.
LEMMA InitShape ==
  ASSUME Sound, NEW n \in Node, P!NodeInit(n)
  PROVE  Sound' /\ InUseNow' = InUseNow \cup {P!Link(n), P!Rear(n)} /\ pre' = pre
<1>1. /\ mem' = P!ListInit(P!ListInit(mem, P!Link(n)), P!Rear(n)) /\ pre' = pre
      /\ P!Link(n) \notin InUse(Node, NoNode, mem) /\ P!Rear(n) \notin InUse(Node, NoNode, mem)
  BY ReadyInUse DEF P!NodeInit
<1>2. Linked(Node, NoNode, mem, pre)
  BY DEF Sound
<1>3. LET m2 == P!ListInit(P!ListInit(mem, P!Link(n)), P!Rear(n))
      IN  /\ Linked(Node, NoNode, m2, pre)
          /\ InUse(Node, NoNode, m2) = InUse(Node, NoNode, mem) \cup {P!Link(n), P!Rear(n)}
          /\ m2.next = [mem.next EXCEPT ![P!Link(n)] = P!Link(n), ![P!Rear(n)] = P!Rear(n)]
  BY ONLY <1>1, <1>2, n \in Node, NodeInitKeeps
<1>4. /\ Linked(Node, NoNode, mem', pre')
      /\ InUse(Node, NoNode, mem') = InUse(Node, NoNode, mem) \cup {P!Link(n), P!Rear(n)}
  BY ONLY <1>1, <1>3
<1> QED BY <1>1, <1>4 DEF Sound, InUseNow

\* VuiCreate makes nodes and no links.
LEMMA CreateLists ==
  ASSUME LifeInv, ListInv, Obtain \/ Fail \/ CreateDone
  PROVE  ListInv'
<1>1. pc = "create" /\ Unlinks /\ UNCHANGED status /\ status = "stopped"
  BY DEF LifeInv, Building, ListInv, Linking, Obtain, Fail, CreateDone
<1>2. CASE Obtain
  <2> DEFINE n == Head(todo)[1]  r == Head(todo)[2]
  <2>1. pc' = "create" /\ held' \subseteq held \cup {Head(todo)}
    BY <1>1, <1>2 DEF Obtain
  <2>2. PICK at \in 1 .. 29 : BuiltTo(at) /\ at <= 28 /\ Head(todo) = VuiBuild[at]
    BY <1>1, <1>2, AtBuild DEF Obtain
  <2>3. Head(todo) = <<n, r>> /\ n \in Node
    BY <2>2, BuildCalls
  <2>4. CASE r = "handle" /\ n # "vui"
    <3>1. P!NodeInit(n)
      BY <1>2, <2>4 DEF Obtain
    <3>2. Sound' /\ InUse(Node, NoNode, mem') = InUseNow \cup {P!Link(n), P!Rear(n)}
          /\ pre' = pre
      BY <2>3, <3>1, InitShape DEF ListInv, InUseNow
    <3>3. ASSUME NEW k \in Node \ {"vui"}, <<k, "handle">> \in held'
          PROVE  {P!Link(k), P!Rear(k)} \subseteq InUse(Node, NoNode, mem')
      <4>1. CASE k = n
        BY <3>2, <4>1
      <4>2. CASE k # n
        <5>1. <<k, "handle">> \in held
          BY <2>1, <2>3, <3>3, <4>2
        <5> QED BY <3>2, <5>1 DEF ListInv, ReadyNodes, NodeReady, Holds, InUseNow
      <4> QED BY <4>1, <4>2
    <3>4. ReadyNodes'
      BY <2>1, <3>3 DEF ReadyNodes, NodeReady, Holds, Whole
    <3>5. Unlinks'
      BY <1>1, <3>2 DEF Unlinks
    <3>6. Linking'
      BY <1>1, <2>1, <3>5 DEF Linking
    <3>7. Shape'
      BY <3>5 DEF Unlinks, Shape, Node
    <3> QED BY <3>2, <3>4, <3>6, <3>7 DEF ListInv
  <2>5. CASE ~(r = "handle" /\ n # "vui")
    <3>1. UNCHANGED listVars
      BY <1>2, <2>5 DEF Obtain
    <3>2. \A k \in Node \ {"vui"} : <<k, "handle">> \in held' => <<k, "handle">> \in held
      BY <2>1, <2>3, <2>5
    <3>3. ReadyNodes' /\ Sound' /\ Shape'
      BY <2>1, <3>1, <3>2 DEF ListInv, ReadyNodes, NodeReady, Holds, Whole, Sound, Shape, listVars
    <3>4. Linking'
      BY <1>1, <2>1, <3>1 DEF Linking, Unlinks, listVars
    <3> QED BY <3>3, <3>4 DEF ListInv
  <2> QED BY <2>4, <2>5
<1>3. CASE Fail
  <2>1. pc' \in {"create", "gone", "aborted"} /\ UNCHANGED listVars /\ held' = held
    BY <1>1, <1>3 DEF Fail
  <2>2. Sound' /\ Shape' /\ ReadyNodes'
    BY <2>1, ListsStay DEF Whole
  <2>3. Linking'
    BY <1>1, <2>1 DEF Linking, Unlinks, listVars
  <2> QED BY <2>2, <2>3 DEF ListInv
<1>4. CASE CreateDone
  <2>1. CASE Complete
    <3>1. P!NodeInit("vui") /\ pc' = "idle" /\ held' = held /\ "vui" \in Node
      BY <1>4, <2>1 DEF CreateDone, resVars, Node
    <3>2. Sound' /\ InUse(Node, NoNode, mem') = InUseNow \cup {P!Link("vui"), P!Rear("vui")}
          /\ pre' = pre
      BY <3>1, InitShape DEF ListInv, InUseNow
    <3>3. ASSUME NEW k \in Node
          PROVE  {P!Link(k), P!Rear(k)} \subseteq InUse(Node, NoNode, mem')
      <4>1. k = "vui" \/ NodeReady(k)
        BY <2>1 DEF ListInv, ReadyNodes, Complete
      <4> QED BY <3>2, <4>1 DEF NodeReady, InUseNow
    <3>4. ReadyNodes'
      BY <3>3 DEF ReadyNodes, NodeReady
    <3>5. Unlinks'
      BY <1>1, <3>2 DEF Unlinks
    <3>6. Linking'
      BY <1>1, <3>1, <3>5 DEF Linking
    <3>7. Shape'
      BY <3>5 DEF Unlinks, Shape, Node
    <3> QED BY <3>2, <3>4, <3>6, <3>7 DEF ListInv
  <2>2. CASE ~Complete
    <3>1. pc' = "destroy" /\ UNCHANGED listVars /\ held' = held
      BY <1>4, <2>2 DEF CreateDone, resVars
    <3>2. Sound' /\ Shape' /\ ReadyNodes'
      BY <3>1, ListsStay DEF Whole
    <3>3. Linking'
      BY <1>1, <3>1 DEF Linking
    <3> QED BY <3>2, <3>3 DEF ListInv
  <2> QED BY <2>1, <2>2
<1> QED BY <1>2, <1>3, <1>4

\* The next link, which connects a node that is in no list.
LEMMA NextLink ==
  ASSUME ListInv, LinkStep
  PROVE  \E mode \in Mode : \E at \in 1 .. Len(LinksOf(mode)) : \E p \in Node, r \in Node :
           /\ LinkedTo(mode, at) /\ LinksOf(mode)[at] = <<p, r>> /\ P!Connect(p, r)
           /\ todo' = SubSeq(LinksOf(mode), at + 1, Len(LinksOf(mode)))
           /\ pre[r] = NoNode
           /\ <<p, r>> \in {<<"vui", "audioin">>, <<"audioin", "aec">>, <<"aec", "lasr">>,
                            <<"aec", "rasr">>}
           /\ r = "lasr" => pre["rasr"] = NoNode
           /\ r = "rasr" => pre["lasr"] # NoNode
<1>1. pc = "link" /\ todo # <<>> /\ todo' = Tail(todo) /\ P!Connect(Head(todo)[1], Head(todo)[2])
  BY DEF LinkStep
<1>a. PICK mode \in Mode : \E at \in 1 .. Len(LinksOf(mode)) + 1 : LinkedTo(mode, at)
  BY <1>1 DEF ListInv, Linking
<1>2. PICK at \in 1 .. Len(LinksOf(mode)) + 1 : LinkedTo(mode, at)
  BY <1>a
<1> DEFINE all == LinksOf(mode)  L == Len(all)
<1>3. /\ todo = SubSeq(all, at, L) /\ L \in {3, 4} /\ all \in Seq(Node \X Node)
      /\ \A n \in Node : pre[n] # NoNode => \E i \in 1 .. at - 1 : all[i][2] = n
      /\ \A i \in 1 .. at - 1 : pre[all[i][2]] # NoNode
      /\ all[1] = <<"vui", "audioin">> /\ all[2] = <<"audioin", "aec">>
      /\ all[3] = <<"aec", "lasr">> /\ (L = 4 => all[4] = <<"aec", "rasr">>)
  BY <1>2, LinksAt DEF LinkedTo
<1>4. at \in 1 .. L + 1 /\ L = Len(all) /\ L \in Nat
  BY <1>3
<1> HIDE DEF all, L
<1>5. at <= L /\ Head(todo) = all[at] /\ Tail(todo) = SubSeq(all, at + 1, L)
  <2>1. /\ (todo # <<>> <=> at <= L)
        /\ (at <= L => Head(todo) = all[at] /\ Tail(todo) = SubSeq(all, at + 1, L))
    <3>1. all \in Seq(Node \X Node) /\ todo = SubSeq(all, at, L)
      BY <1>3
    <3> QED BY ONLY <1>4, <3>1, Rest
  <2> QED BY <1>1, <2>1
<1>6. at \in {1, 2, 3, 4} /\ (at = 4 => L = 4)
  <2>1. L \in {3, 4} /\ at \in 1 .. L + 1 /\ at <= L
    BY <1>3, <1>4, <1>5
  <2> QED BY ONLY <2>1
<1>7. PICK p \in Node, r \in Node : all[at] = <<p, r>>
  BY <1>3, <1>6 DEF Node
<1>8. P!Connect(p, r) /\ todo' = SubSeq(all, at + 1, L)
  <2>1. Head(todo)[1] = p /\ Head(todo)[2] = r
    BY <1>5, <1>7
  <2> QED BY <1>1, <1>5, <2>1
<1>9. \/ at = 1 /\ p = "vui" /\ r = "audioin"
      \/ at = 2 /\ p = "audioin" /\ r = "aec"
      \/ at = 3 /\ p = "aec" /\ r = "lasr"
      \/ at = 4 /\ p = "aec" /\ r = "rasr"
  BY <1>3, <1>6, <1>7
<1>10. \A i \in 1 .. at - 1 : i \in {1, 2, 3} /\ i < at
  BY <1>6
<1>11. pre[r] = NoNode
  BY <1>3, <1>9, <1>10
<1>12. r = "lasr" => pre["rasr"] = NoNode
  <2>1. "rasr" \in Node
    BY DEF Node
  <2> QED BY <1>3, <1>9, <1>10, <2>1
<1>13. r = "rasr" => pre["lasr"] # NoNode
  <2>1. at = 4 => 3 \in 1 .. at - 1
    OBVIOUS
  <2> QED BY <1>3, <1>9, <2>1
<1>14. at \in 1 .. L
  BY <1>4, <1>5
<1> QED BY <1>2, <1>7, <1>8, <1>9, <1>11, <1>12, <1>13, <1>14 DEF all, L

\* A step of LINKING.
LEMMA LinkKeeps ==
  ASSUME ListInv, LinkStep
  PROVE  ListInv'
<1>1. /\ pc = "link" /\ pc' = "link" /\ status' = status /\ held' = held
  BY DEF LinkStep, resVars
<1>2. PICK mode \in Mode : \E at \in 1 .. Len(LinksOf(mode)) : \E p \in Node, r \in Node :
           /\ LinkedTo(mode, at) /\ LinksOf(mode)[at] = <<p, r>> /\ P!Connect(p, r)
           /\ todo' = SubSeq(LinksOf(mode), at + 1, Len(LinksOf(mode)))
           /\ pre[r] = NoNode
           /\ <<p, r>> \in {<<"vui", "audioin">>, <<"audioin", "aec">>, <<"aec", "lasr">>,
                            <<"aec", "rasr">>}
           /\ r = "lasr" => pre["rasr"] = NoNode
           /\ r = "rasr" => pre["lasr"] # NoNode
  BY NextLink
<1>3. PICK at \in 1 .. Len(LinksOf(mode)) : \E p \in Node, r \in Node :
           /\ LinkedTo(mode, at) /\ LinksOf(mode)[at] = <<p, r>> /\ P!Connect(p, r)
           /\ todo' = SubSeq(LinksOf(mode), at + 1, Len(LinksOf(mode)))
           /\ pre[r] = NoNode
           /\ <<p, r>> \in {<<"vui", "audioin">>, <<"audioin", "aec">>, <<"aec", "lasr">>,
                            <<"aec", "rasr">>}
           /\ r = "lasr" => pre["rasr"] = NoNode
           /\ r = "rasr" => pre["lasr"] # NoNode
  BY <1>2
<1>4. PICK p \in Node, r \in Node :
           /\ LinkedTo(mode, at) /\ LinksOf(mode)[at] = <<p, r>> /\ P!Connect(p, r)
           /\ todo' = SubSeq(LinksOf(mode), at + 1, Len(LinksOf(mode)))
           /\ pre[r] = NoNode
           /\ <<p, r>> \in {<<"vui", "audioin">>, <<"audioin", "aec">>, <<"aec", "lasr">>,
                            <<"aec", "rasr">>}
           /\ r = "lasr" => pre["rasr"] = NoNode
           /\ r = "rasr" => pre["lasr"] # NoNode
  BY <1>3
<1>5. \A n \in Node : NodeReady(n)
  BY <1>1 DEF ListInv, ReadyNodes, Whole
<1>6. Sound' /\ Shape' /\ InUseNow' = InUseNow /\ pre' = [pre EXCEPT ![r] = p]
  BY <1>4, <1>5, ConnectShape DEF ListInv
<1>7. ReadyNodes'
  BY <1>1, <1>5, <1>6 DEF ReadyNodes, NodeReady, InUseNow
<1>8. \A n \in Node : pre'[n] = IF n = r THEN p ELSE pre[n]
  BY <1>6 DEF ListInv, Sound, Linked
<1>9. p # NoNode
  BY DEF Node, NoNode
<1>10. LinkedTo(mode, at + 1)'
  <2> DEFINE all == LinksOf(mode)
  <2>1. /\ todo' = SubSeq(all, at + 1, Len(all)) /\ all[at][2] = r
        /\ \A n \in Node : pre[n] # NoNode => \E i \in 1 .. at - 1 : all[i][2] = n
        /\ \A i \in 1 .. at - 1 : pre[all[i][2]] # NoNode
    BY <1>4 DEF LinkedTo
  <2>2. \A i \in 1 .. at : all[i][2] \in Node
    BY LinksAt
  <2> HIDE DEF all
  <2>3. \A n \in Node : pre'[n] # NoNode => \E i \in 1 .. (at + 1) - 1 : all[i][2] = n
    <3> SUFFICES ASSUME NEW n \in Node, pre'[n] # NoNode
                 PROVE  \E i \in 1 .. (at + 1) - 1 : all[i][2] = n
      OBVIOUS
    <3>1. CASE n = r
      <4>1. at \in 1 .. (at + 1) - 1
        OBVIOUS
      <4> QED BY <2>1, <3>1, <4>1
    <3>2. CASE n # r
      <4>1. PICK i \in 1 .. at - 1 : all[i][2] = n
        BY <1>8, <2>1, <3>2
      <4>2. i \in 1 .. (at + 1) - 1
        OBVIOUS
      <4> QED BY <4>1, <4>2
    <3> QED BY <3>1, <3>2
  <2>4. \A i \in 1 .. (at + 1) - 1 : pre'[all[i][2]] # NoNode
    <3> SUFFICES ASSUME NEW i \in 1 .. (at + 1) - 1 PROVE pre'[all[i][2]] # NoNode
      OBVIOUS
    <3>1. i \in 1 .. at /\ (i = at \/ i \in 1 .. at - 1)
      OBVIOUS
    <3>2. all[i][2] \in Node
      BY <2>2, <3>1
    <3>3. all[i][2] = r \/ pre[all[i][2]] # NoNode
      BY <2>1, <3>1
    <3> QED BY <1>8, <1>9, <3>2, <3>3
  <2> QED BY <2>1, <2>3, <2>4 DEF LinkedTo, all
<1>11. at + 1 \in 1 .. Len(LinksOf(mode)) + 1
  BY LinksAt
<1>12. Linking'
  <2>1. \E a \in 1 .. Len(LinksOf(mode)) + 1 : LinkedTo(mode, a)'
    BY <1>10, <1>11
  <2>2. \E m \in Mode : \E a \in 1 .. Len(LinksOf(m)) + 1 : LinkedTo(m, a)'
    BY <2>1
  <2> QED BY <1>1, <2>2 DEF ListInv, Linking
<1> QED BY <1>6, <1>7, <1>12 DEF ListInv

\* The next node whose list is cleared.
LEMMA NextClear ==
  ASSUME ListInv, pc = "unlink", todo # <<>>
  PROVE  \E at \in 1 .. 5 : \E n \in Node :
           /\ ClearedTo(at) /\ Clears[at] = <<n, "clear">> /\ Head(todo) = <<n, "clear">>
           /\ Tail(todo) = SubSeq(Clears, at + 1, 5)
<1>1. PICK at \in 1 .. 6 : ClearedTo(at)
  BY DEF ListInv, Linking
<1>2. todo = SubSeq(Clears, at, 5) /\ Clears \in Seq(Node \X {"clear"}) /\ Len(Clears) = 5
      /\ at \in 1 .. 5 + 1 /\ 5 \in Nat
  BY <1>1, ClearsAt DEF ClearedTo
<1>3. /\ todo # <<>> <=> at <= 5
      /\ at <= 5 => Head(todo) = Clears[at] /\ Tail(todo) = SubSeq(Clears, at + 1, 5)
  BY ONLY <1>2, Rest
<1>4. at \in 1 .. 5
  BY <1>3
<1>5. PICK n \in Node : Clears[at] = <<n, "clear">>
  <2>1. at \in {1, 2, 3, 4, 5}
    BY <1>4
  <2> QED BY <2>1, ClearsAt DEF Node
<1>6. Head(todo) = <<n, "clear">> /\ Tail(todo) = SubSeq(Clears, at + 1, 5)
  BY <1>3, <1>4, <1>5
<1> QED BY <1>1, <1>4, <1>5, <1>6

\* A step of __module_unlinking.
LEMMA UnlinkStepKeeps ==
  ASSUME ListInv, UnlinkStep
  PROVE  ListInv'
<1>1. pc = "unlink" /\ todo # <<>> /\ pc' = "unlink" /\ status' = status /\ held' = held
  BY DEF UnlinkStep, resVars
<1>2. PICK at \in 1 .. 5 : \E n \in Node :
           /\ ClearedTo(at) /\ Clears[at] = <<n, "clear">> /\ Head(todo) = <<n, "clear">>
           /\ Tail(todo) = SubSeq(Clears, at + 1, 5)
  BY <1>1, NextClear
<1>3. PICK n \in Node :
           /\ ClearedTo(at) /\ Clears[at] = <<n, "clear">> /\ Head(todo) = <<n, "clear">>
           /\ Tail(todo) = SubSeq(Clears, at + 1, 5)
  BY <1>2
<1>4. \A k \in Node : NodeReady(k)
  BY <1>1 DEF ListInv, ReadyNodes, Whole
<1>5. \/ P!ClearFirst(n) /\ todo' = todo
      \/ P!Cleared(n) /\ todo' = Tail(todo)
  BY <1>3 DEF UnlinkStep
<1>6. \A i \in 1 .. at - 1 : \A k \in Node : pre[k] # Clears[i][1]
  BY <1>3 DEF ClearedTo
<1>7. CASE P!ClearFirst(n) /\ todo' = todo
  <2>1. /\ Sound' /\ Shape' /\ InUseNow' = InUseNow
        /\ \E r \in Node : pre[r] = n /\ pre' = [pre EXCEPT ![r] = NoNode]
    BY <1>4, <1>7, ClearShape DEF ListInv
  <2>2. PICK r \in Node : pre[r] = n /\ pre' = [pre EXCEPT ![r] = NoNode]
    BY <2>1
  <2>3. ReadyNodes'
    BY <1>1, <1>4, <2>1 DEF ReadyNodes, NodeReady, InUseNow
  <2>4. \A k \in Node : pre'[k] = IF k = r THEN NoNode ELSE pre[k]
    BY <2>2 DEF ListInv, Sound, Linked
  <2>5. \A i \in 1 .. at - 1 : Clears[i][1] # NoNode
    <3> SUFFICES ASSUME NEW i \in 1 .. at - 1 PROVE Clears[i][1] # NoNode
      OBVIOUS
    <3>1. i \in {1, 2, 3, 4, 5}
      OBVIOUS
    <3> QED BY <3>1, ClearsAt DEF NoNode
  <2>6. ClearedTo(at)'
    <3>1. todo' = SubSeq(Clears, at, 5)
      BY <1>3, <1>7 DEF ClearedTo
    <3>2. \A i \in 1 .. at - 1 : \A k \in Node : pre'[k] # Clears[i][1]
      BY <1>6, <2>4, <2>5
    <3> QED BY <3>1, <3>2 DEF ClearedTo, Clears
  <2>7. Linking'
    BY <1>1, <2>6 DEF ListInv, Linking
  <2> QED BY <2>1, <2>3, <2>7 DEF ListInv
<1>8. CASE P!Cleared(n) /\ todo' = Tail(todo)
  <2>1. mem' = mem /\ pre' = pre
    BY <1>8 DEF P!Cleared, P!vars
  <2>2. \A k \in Node : pre[k] # n
    BY <1>8, ClearedAll DEF ListInv
  <2>3. Sound' /\ Shape' /\ ReadyNodes'
    BY <1>1, <2>1 DEF ListInv, Sound, Shape, ReadyNodes, NodeReady, Holds
  <2>4. ClearedTo(at + 1)'
    <3>1. todo' = SubSeq(Clears, at + 1, 5)
      BY <1>3, <1>8
    <3>2. \A i \in 1 .. (at + 1) - 1 : \A k \in Node : pre'[k] # Clears[i][1]
      <4> SUFFICES ASSUME NEW i \in 1 .. (at + 1) - 1, NEW k \in Node
                   PROVE  pre'[k] # Clears[i][1]
        OBVIOUS
      <4>1. i = at \/ i \in 1 .. at - 1
        OBVIOUS
      <4> QED BY <1>3, <1>6, <2>1, <2>2, <4>1
    <3> QED BY <3>1, <3>2 DEF ClearedTo, Clears
  <2>5. at + 1 \in 1 .. 6
    OBVIOUS
  <2>6. Linking'
    BY <1>1, <2>4, <2>5 DEF ListInv, Linking
  <2> QED BY <2>3, <2>6 DEF ListInv
<1> QED BY <1>5, <1>7, <1>8

\* Calls of the interface that leave the lists alone.
LEMMA ListCalls ==
  ASSUME ListInv,
         \/ \E mode \in Mode : VuiStart(mode)
         \/ Launch \/ VuiStop \/ Pushed \/ Unlinked
  PROVE  ListInv'
<1>1. /\ UNCHANGED listVars /\ held' = held /\ pc \in Whole /\ pc' \in Whole
  BY DEF VuiStart, VuiStop, Launch, Pushed, Unlinked, Whole, resVars
<1>2. mem' = mem /\ pre' = pre
  BY <1>1 DEF listVars
<1>3. Sound' /\ Shape' /\ ReadyNodes'
  BY <1>1, <1>2 DEF ListInv, Sound, Shape, ReadyNodes, NodeReady, Holds
<1>4. Linking'
  <2>1. ASSUME NEW mode \in Mode, VuiStart(mode) PROVE Linking'
    <3>1. pc = "idle" /\ status = "stopped" /\ pc' = "link" /\ todo' = LinksOf(mode)
          /\ status' = status
      BY <2>1 DEF VuiStart
    <3>2. Unlinks
      BY <3>1 DEF ListInv, Linking
    <3>3. LinksOf(mode) = SubSeq(LinksOf(mode), 1, Len(LinksOf(mode)))
      BY LinksAt, SubSeqFull
    <3>4. LinkedTo(mode, 1)'
      BY <1>2, <3>1, <3>2, <3>3 DEF LinkedTo, Unlinks
    <3>5. 1 \in 1 .. Len(LinksOf(mode)) + 1
      BY LinksAt
    <3>6. \E m \in Mode : \E at \in 1 .. Len(LinksOf(m)) + 1 : LinkedTo(m, at)'
      BY <3>4, <3>5
    <3> QED BY <3>1, <3>6 DEF Linking
  <2>2. CASE Launch
    <3>1. pc = "link" /\ todo = <<>> /\ pc' = "push" /\ status' = status
      BY <2>2 DEF Launch
    <3>2. PICK mode \in Mode : \E at \in 1 .. Len(LinksOf(mode)) + 1 : LinkedTo(mode, at)
      BY <3>1 DEF ListInv, Linking
    <3>3. PICK at \in 1 .. Len(LinksOf(mode)) + 1 : LinkedTo(mode, at)
      BY <3>2
    <3>4. at > Len(LinksOf(mode))
      <4>1. /\ LinksOf(mode) \in Seq(Node \X Node) /\ Len(LinksOf(mode)) \in Nat
            /\ Len(LinksOf(mode)) = Len(LinksOf(mode)) /\ at \in 1 .. Len(LinksOf(mode)) + 1
            /\ todo = SubSeq(LinksOf(mode), at, Len(LinksOf(mode)))
        BY <3>3, LinksAt DEF LinkedTo
      <4>2. todo # <<>> <=> at <= Len(LinksOf(mode))
        BY ONLY <4>1, Rest
      <4> QED BY <3>1, <4>1, <4>2
    <3>5. 1 \in 1 .. at - 1 /\ 2 \in 1 .. at - 1 /\ 3 \in 1 .. at - 1
      BY <3>4, LinksAt
    <3>6. pre["audioin"] # NoNode /\ pre["aec"] # NoNode /\ pre["lasr"] # NoNode
      BY <3>3, <3>5, LinksAt DEF LinkedTo
    <3> QED BY <1>2, <3>1, <3>6 DEF ListInv, Linking
  <2>3. CASE VuiStop
    BY <1>2, <2>3 DEF VuiStop, ListInv, Linking
  <2>4. CASE Pushed
    <3>1. CASE cmd = "start"
      BY <1>2, <2>4, <3>1 DEF Pushed, ListInv, Linking
    <3>2. CASE cmd # "start"
      <4>1. pc' = "unlink" /\ status' = status /\ todo' = Clears
        BY <2>4, <3>2 DEF Pushed, Clears
      <4>2. Clears = SubSeq(Clears, 1, 5)
        BY ClearsAt, SubSeqFull
      <4>3. ClearedTo(1)'
        BY <4>1, <4>2 DEF ClearedTo, Clears
      <4> QED BY <4>1, <4>3 DEF ListInv, Linking
    <3> QED BY <3>1, <3>2
  <2>5. CASE Unlinked
    <3>1. pc = "unlink" /\ todo = <<>> /\ pc' = "idle" /\ status' = "stopped"
      BY <2>5 DEF Unlinked
    <3>2. PICK at \in 1 .. 6 : ClearedTo(at)
      BY <3>1 DEF ListInv, Linking
    <3>3. at = 6
      <4>1. todo = SubSeq(Clears, at, 5) /\ Clears \in Seq(Node \X {"clear"})
            /\ Len(Clears) = 5 /\ at \in 1 .. 5 + 1 /\ 5 \in Nat
        BY <3>2, ClearsAt DEF ClearedTo
      <4>2. todo # <<>> <=> at <= 5
        BY ONLY <4>1, Rest
      <4> QED BY <3>1, <4>2
    <3>4. \A i \in {1, 2, 3, 4, 5} : \A n \in Node : pre[n] # Clears[i][1]
      BY <3>2, <3>3 DEF ClearedTo
    <3>5. \A n \in Node : pre[n] \notin Node
      BY <3>4, ClearsAt DEF Node
    <3>6. Unlinks
      BY <3>5 DEF ListInv, Sound, Linked, Unlinks
    <3> QED BY <1>2, <3>1, <3>6 DEF Linking, Unlinks
  <2> QED BY <2>1, <2>2, <2>3, <2>4, <2>5
<1> QED BY <1>3, <1>4 DEF ListInv

\* The rest leaves the lists alone, and frees, fails or waits.
LEMMA ListsRest ==
  ASSUME ListInv, UNCHANGED <<listVars, status>>, held' \subseteq held,
         (pc' = pc /\ todo' = todo) \/ pc' \in {"destroy", "gone", "aborted"}
  PROVE  ListInv'
<1>1. mem' = mem /\ pre' = pre
  BY DEF listVars
<1>2. Sound' /\ Shape' /\ ReadyNodes'
  BY ListsStay DEF Whole
<1>3. Linking'
  BY <1>1 DEF ListInv, Linking, Unlinks, LinkedTo, ClearedTo
<1> QED BY <1>2, <1>3 DEF ListInv

\* No node is linked at first.
LEMMA ListInitially ==
  Init => ListInv
<1> SUFFICES ASSUME Init PROVE ListInv
  OBVIOUS
<1>1. /\ mem = [next |-> [c \in P!Cell |-> P!Null], prev |-> [c \in P!Cell |-> P!Null]]
      /\ pre = [n \in Node |-> NoNode] /\ NoNode \notin Node
      /\ held = {} /\ pc = "create" /\ status = "stopped"
  BY NoNodeAssumption DEF Init, P!Init, P!NoNodeApart
<1>2. mem \in Memory(Cells(Node), Cells(Node) \cup {Nil(NoNode)})
      /\ InUse(Node, NoNode, mem) = {}
  BY <1>1 DEF P!Null, P!Link, P!Cell, Memory, Cells, Nil, InUse
<1>3. Sound
  BY <1>1, <1>2 DEF Sound, Linked, P!WellLinked
<1>4. Unlinks
  BY <1>1 DEF Unlinks
<1>5. Shape
  BY <1>4 DEF Unlinks, Shape, Node
<1>6. ReadyNodes /\ Linking
  BY <1>1, <1>4 DEF ReadyNodes, Linking, Holds, Whole
<1> QED BY <1>3, <1>5, <1>6 DEF ListInv

\* Every step keeps the lists as vui.c means them,
LEMMA ListInductive ==
  LifeInv /\ ListInv /\ [Next]_vars => ListInv'
<1> SUFFICES ASSUME LifeInv, ListInv, [Next]_vars PROVE ListInv'
  OBVIOUS
<1>1. CASE Next
  <2>1. CASE Undo
    BY <2>1, ListsRest DEF Undo
  <2>2. CASE UndoDone \/ VuiDestroy
    BY <2>2, ListsRest DEF UndoDone, VuiDestroy, resVars
  <2>3. CASE Command
    BY <2>3, ListsRest DEF Command, RootEnd, AecCommand, AudioInStart, AudioInStarted,
       AudioInStop, AudioInStopped, AudioInStopEnd, RecogniserAsk, RecogniserAnswered, resVars,
       apiVars
  <2>4. CASE Callback
    BY <2>4, ListsRest DEF Callback, Writes, resVars
  <2>5. CASE AudioInWorker
    BY <2>5, ListsRest DEF AudioInWorker, AudioInTop, AudioInWait, AudioInLook, AudioInPush,
       AecData, PushReturns, RecogniserData, Writes, resVars, callVars, apiVars
  <2>6. ASSUME NEW n \in Recogniser, RecogniserWorker(n) PROVE ListInv'
    BY <2>6, ListsRest DEF RecogniserWorker, RecogniserTop, RecogniserBegin, RecogniserEnd,
       callVars, apiVars
  <2> QED BY <1>1, <2>1, <2>2, <2>3, <2>4, <2>5, <2>6, CreateLists, LinkKeeps,
             UnlinkStepKeeps, ListCalls DEF Next, Api, Calling
<1>2. CASE UNCHANGED vars
  BY <1>2, ListsRest DEF vars, resVars, callVars, apiVars
<1> QED BY <1>1, <1>2

\* A step of the interface is a step of the pipeline, or none of it.
LEMMA PipelineStep ==
  LifeInv /\ ListInv /\ [Next]_vars => UNCHANGED listVars \/ P!Next
<1> SUFFICES ASSUME LifeInv, ListInv, [Next]_vars, ~UNCHANGED listVars PROVE P!Next
  OBVIOUS
<1>1. ASSUME NEW n \in Node, P!NodeInit(n) PROVE P!Next
  BY <1>1 DEF P!Next
<1>2. CASE Obtain
  <2>1. PICK at \in 1 .. 29 : BuiltTo(at) /\ at <= 28 /\ Head(todo) = VuiBuild[at]
    BY <1>2, AtBuild DEF Obtain
  <2>2. at \in 1 .. 28
    BY <2>1
  <2>3. Head(todo)[1] \in Node
    BY <2>1, <2>2, BuildCalls
  <2>4. P!NodeInit(Head(todo)[1])
    BY <1>2 DEF Obtain
  <2> QED BY <1>1, <2>3, <2>4
<1>3. CASE CreateDone
  <2>1. P!NodeInit("vui") /\ "vui" \in Node
    BY <1>3 DEF CreateDone, Node
  <2> QED BY <1>1, <2>1
<1>4. CASE LinkStep
  <2>1. PICK p \in Node, r \in Node : P!Connect(p, r) /\ pre[r] = NoNode
    BY <1>4, NextLink
  <2>2. NodeReady(p) /\ NodeReady(r)
    BY <1>4 DEF LinkStep, ListInv, ReadyNodes, Whole
  <2>3. P!Ready(P!Rear(p)) /\ P!Ready(P!Link(r))
    BY <2>2, ReadyInUse DEF NodeReady
  <2> QED BY <2>1, <2>3 DEF P!Next
<1>5. CASE UnlinkStep
  <2>1. PICK n \in Node : Head(todo) = <<n, "clear">>
    BY <1>5, NextClear DEF UnlinkStep
  <2>2. P!ClearFirst(n)
    BY <1>5, <2>1 DEF UnlinkStep, P!Cleared, P!vars, listVars
  <2>3. NodeReady(n)
    BY <1>5 DEF UnlinkStep, ListInv, ReadyNodes, Whole
  <2>4. P!Ready(P!Rear(n))
    BY <2>3, ReadyInUse DEF NodeReady
  <2> QED BY <2>2, <2>4 DEF P!Next
<1>6. CASE UNCHANGED vars
  BY <1>6 DEF vars
<1>7. \/ UNCHANGED vars \/ Obtain \/ CreateDone \/ LinkStep \/ UnlinkStep
  BY DEF Next, Api, Calling, VuiStart, VuiStop, VuiDestroy, Fail, Undo, UndoDone, Launch, Pushed,
     Unlinked, Command, RootEnd, AecCommand, AudioInStart, AudioInStarted, AudioInStop,
     AudioInStopped, AudioInStopEnd, RecogniserAsk, RecogniserAnswered, Callback,
     AudioInWorker, AudioInTop, AudioInWait, AudioInLook, AudioInPush, RecogniserWorker,
     RecogniserTop, RecogniserBegin, RecogniserEnd
<1> QED BY <1>2, <1>3, <1>4, <1>5, <1>6, <1>7

\* so they are throughout.
LEMMA ListInvStays ==
  Spec => [](LifeInv /\ ListInv)
<1>1. Init => LifeInv /\ ListInv
  BY LifeInitially, ListInitially
<1>2. LifeInv /\ ListInv /\ [Next]_vars => (LifeInv /\ ListInv)'
  BY LifeInductive, ListInductive
<1> QED BY <1>1, <1>2, PTL DEF Spec

\* vui.c uses the pipeline as it asks to be used: a node is initialised once, before
\* it is connected, and is connected only while it is in no list; whatever is
\* started and stopped, and whichever allocations failed.
THEOREM PipelineAsAloneHolds ==
  Spec => PipelineAsAlone
<1>1. Init => P!Init
  BY DEF Init
<1>2. LifeInv /\ ListInv /\ [Next]_vars => [UNCHANGED listVars \/ P!Next]_vars
  BY PipelineStep
<1> QED BY <1>1, <1>2, ListInvStays, PTL DEF Spec, PipelineAsAlone

\* The pipeline of vui.c is a Pipeline of its five nodes.
LEMMA SameNext ==
  P!Next => Lists(Node, NoNode)!Next
<1>1. \A m, c : P!Visited(m, c) = Lists(Node, NoNode)!Visited(m, c)
  BY SameVisited
<1>2. ASSUME NEW n \in Node, P!NodeInit(n) PROVE Lists(Node, NoNode)!NodeInit(n)
  BY <1>2 DEF P!NodeInit, P!Ready, P!Null, P!ListInit, P!Link, P!Rear, Lists!NodeInit,
              Lists!Ready, Lists!Null, Lists!ListInit, Lists!Link, Lists!Rear
<1>3. ASSUME NEW p \in Node, NEW r \in Node, P!Connect(p, r)
      PROVE  Lists(Node, NoNode)!Connect(p, r)
  BY <1>3 DEF P!Connect, P!ListAdd, P!Splice, P!Link, P!Rear, Lists!Connect, Lists!ListAdd,
              Lists!Splice, Lists!Link, Lists!Rear
<1>4. ASSUME NEW p \in Node, NEW r \in Node, P!DisConnect(p, r)
      PROVE  Lists(Node, NoNode)!DisConnect(p, r)
  BY <1>1, <1>4 DEF P!DisConnect, P!ListDel, P!Range, P!Link, P!Rear, Lists!DisConnect,
                    Lists!ListDel, Lists!Range, Lists!Link, Lists!Rear
<1>5. ASSUME NEW p \in Node, P!ClearFirst(p) PROVE Lists(Node, NoNode)!ClearFirst(p)
  BY <1>5 DEF P!ClearFirst, P!ListEmpty, P!ListDel, P!Rear, Lists!ClearFirst,
              Lists!ListEmpty, Lists!ListDel, Lists!Rear
<1>6. \A c : P!Ready(c) = Lists(Node, NoNode)!Ready(c)
  BY DEF P!Ready, P!Null, P!Link, Lists!Ready, Lists!Null, Lists!Link
<1>7. \A n : P!Link(n) = Lists(Node, NoNode)!Link(n) /\ P!Rear(n) = Lists(Node, NoNode)!Rear(n)
  BY DEF P!Link, P!Rear, Lists!Link, Lists!Rear
<1> QED BY <1>2, <1>3, <1>4, <1>5, <1>6, <1>7 DEF P!Next, Lists!Next

\* The sequences are the same too.
LEMMA SameAfter ==
  /\ \A n \in Node : P!After(n) = Lists(Node, NoNode)!After(n)
  /\ \A n \in Node : P!After(n)' = Lists(Node, NoNode)!After(n)'
<1>1. \A n \in Node : P!After(n) = AfterIn(Node, NoNode, mem, n)
  BY DEF P!After, P!Ready, P!Null, AfterIn, InUse, Cells, Nil, P!Rear, P!Link
<1>2. \A n \in Node : P!After(n)' = AfterIn(Node, NoNode, mem', n)
  BY DEF P!After, P!Ready, P!Null, AfterIn, InUse, Cells, Nil, P!Rear, P!Link
<1> QED BY <1>1, <1>2, AfterIs

\* and so is the tree.
LEMMA SameTree ==
  TreeOf(Node, NoNode)!Next => Tree!Next
<1> DEFINE A == [n \in Node |-> P!After(n)]
           B == [n \in Node |-> Lists(Node, NoNode)!After(n)]
<1>1. A = B /\ A' = B'
  BY SameAfter
<1> HIDE DEF A, B
<1>2. ASSUME NEW p \in Node, NEW r \in Node, TreeOf(Node, NoNode)!Connect(p, r)
      PROVE  Tree!Connect(p, r)
  <2>1. B' = [B EXCEPT ![p] = <<r>> \o @] /\ \A q \in Node : r \notin Range(B[q])
    BY <1>2 DEF TreeOf!Connect, TreeOf!Free, TreeOf!Range, Range, B
  <2>2. A' = [A EXCEPT ![p] = <<r>> \o @] /\ \A q \in Node : r \notin Range(A[q])
    BY <1>1, <2>1
  <2> QED BY <2>2 DEF Tree!Connect, Tree!Free, Tree!Range, Range, A
<1>3. ASSUME NEW p \in Node, NEW r \in Node, TreeOf(Node, NoNode)!DisConnect(p, r)
      PROVE  Tree!DisConnect(p, r)
  BY <1>1, <1>3 DEF TreeOf!DisConnect, TreeOf!Without, Tree!DisConnect, Tree!Without, A, B
<1>4. ASSUME NEW p \in Node, TreeOf(Node, NoNode)!ClearFirst(p)
      PROVE  Tree!ClearFirst(p)
  BY <1>1, <1>4 DEF TreeOf!ClearFirst, Tree!ClearFirst, A, B
<1> QED BY <1>2, <1>3, <1>4 DEF TreeOf!Next, Tree!Next

\* Whatever is started and stopped, and whichever allocations failed, what vui.c
\* makes of the pointers is a tree of nodes: the node connected last is called first,
\* and what is connected to one node or cleared of it leaves the others as they are.
THEOREM LinksAsTreeHolds ==
  Spec => LinksAsTree
<1> DEFINE Inv == Chained(Node, NoNode, mem, pre)
<1>1. IsFiniteSet(Node)
  <2>1. IsFiniteSet({} \cup {"vui"} \cup {"audioin"} \cup {"aec"} \cup {"lasr"} \cup {"rasr"})
    BY FS_EmptySet, FS_AddElement
  <2>2. Node = {} \cup {"vui"} \cup {"audioin"} \cup {"aec"} \cup {"lasr"} \cup {"rasr"}
    BY DEF Node
  <2> QED BY <2>1, <2>2
<1>2. Init => Inv /\ Tree!Init
  <2> SUFFICES ASSUME P!Init PROVE Inv /\ Tree!Init
    BY DEF Init
  <2>1. \A n \in Node : P!Rear(n) \notin InUse(Node, NoNode, mem)
    BY DEF P!Init, P!Null, P!Link, P!Cell, InUse, Cells, Nil, P!Rear
  <2>2. [n \in Node |-> P!After(n)] = [n \in Node |-> <<>>]
    BY <2>1, SameAfter, AfterIs DEF AfterIn
  <2> QED BY <2>1, <2>2 DEF Chained, Tree!Init
<1>3. Inv /\ LifeInv /\ ListInv /\ [Next]_vars
        => Inv' /\ [UNCHANGED listVars \/ TreeStep]_vars
  <2> SUFFICES ASSUME Inv, LifeInv, ListInv, [Next]_vars
               PROVE  Inv' /\ (UNCHANGED listVars \/ TreeStep)
    OBVIOUS
  <2>1. UNCHANGED listVars \/ P!Next
    BY PipelineStep
  <2>2. CASE UNCHANGED listVars
    BY <2>2 DEF listVars
  <2>3. CASE P!Next
    <3>1. Lists(Node, NoNode)!Next
      BY <2>3, SameNext
    <3>2. Linked(Node, NoNode, mem, pre)
      BY DEF ListInv, Sound
    <3>3. /\ Chained(Node, NoNode, mem', pre')
          /\ \/ \A n \in Node : Lists(Node, NoNode)!After(n)' = Lists(Node, NoNode)!After(n)
             \/ TreeOf(Node, NoNode)!Next
      BY <1>1, <3>1, <3>2, TreeStepped
    <3> QED BY <3>3, SameAfter, SameTree DEF TreeStep
  <2> QED BY <2>1, <2>2, <2>3
<1> QED BY <1>2, <1>3, ListInvStays, PTL DEF Spec, LinksAsTree

-----------------------------------------------------------------------------
(* The walks of the lists.                                                  *)

\* A walk of a list of a node is at a cell that is in use.
Frames == [node : Node, at : InUse(Node, NoNode, mem)]

\* A walk of the interface's lists goes on only while all its nodes are there.
Walks ==
  Awaited("audioin") =>
    /\ \A t \in {"caller", "audioin"} : stack[t] \in Seq(Frames)
    /\ stack["audioin"] # <<>> => worker["audioin"] = "push" /\ pc # "create"
    /\ stack["caller"] # <<>> => AllHeld

\* What is initialised stays initialised.
LEMMA InUseGrows ==
  ASSUME Sound, UNCHANGED listVars \/ P!Next
  PROVE  InUse(Node, NoNode, mem) \subseteq InUse(Node, NoNode, mem')
<1>1. Linked(Node, NoNode, mem, pre)
  BY DEF Sound
<1>2. CASE UNCHANGED listVars
  BY <1>2 DEF listVars
<1>3. ASSUME NEW n \in Node, P!NodeInit(n)
      PROVE  InUse(Node, NoNode, mem) \subseteq InUse(Node, NoNode, mem')
  BY <1>3, InitShape DEF InUseNow
<1>4. ASSUME NEW p \in Node, NEW r \in Node, P!Ready(P!Rear(p)), P!Ready(P!Link(r)),
             pre[r] = NoNode, P!Connect(p, r)
      PROVE  InUse(Node, NoNode, mem) \subseteq InUse(Node, NoNode, mem')
  <2>1. /\ p \in Node /\ r \in Node /\ P!Rear(p) \in InUse(Node, NoNode, mem)
        /\ P!Link(r) \in InUse(Node, NoNode, mem) /\ pre[r] = NoNode
    BY <1>4, ReadyInUse
  <2>2. /\ Linked(Node, NoNode, P!ListAdd(mem, P!Link(r), P!Rear(p)), [pre EXCEPT ![r] = p])
        /\ InUse(Node, NoNode, P!ListAdd(mem, P!Link(r), P!Rear(p))) = InUse(Node, NoNode, mem)
        /\ P!ListAdd(mem, P!Link(r), P!Rear(p)).next
             = [mem.next EXCEPT ![P!Link(r)] = mem.next[P!Rear(p)], ![P!Rear(p)] = P!Link(r)]
    BY ONLY <1>1, <2>1, ConnectKeeps
  <2>3. mem' = P!ListAdd(mem, P!Link(r), P!Rear(p))
    BY <1>4 DEF P!Connect
  <2> QED BY <2>2, <2>3
<1>5. ASSUME NEW r \in Node, P!Link(r) \in InUse(Node, NoNode, mem),
             mem' = P!ListDel(mem, P!Link(r))
      PROVE  InUse(Node, NoNode, mem) \subseteq InUse(Node, NoNode, mem')
  <2>1. /\ Linked(Node, NoNode, P!ListDel(mem, P!Link(r)), [pre EXCEPT ![r] = NoNode])
        /\ InUse(Node, NoNode, P!ListDel(mem, P!Link(r))) = InUse(Node, NoNode, mem)
        /\ P!ListDel(mem, P!Link(r)).next
             = [mem.next EXCEPT ![mem.prev[P!Link(r)]] = mem.next[P!Link(r)],
                                ![P!Link(r)] = P!Link(r)]
    BY ONLY <1>1, <1>5, UnlinkKeeps
  <2> QED BY <1>5, <2>1
<1>6. ASSUME NEW p \in Node, NEW r \in Node, P!Ready(P!Link(r)), P!DisConnect(p, r)
      PROVE  InUse(Node, NoNode, mem) \subseteq InUse(Node, NoNode, mem')
  BY <1>5, <1>6, ReadyInUse DEF P!DisConnect
<1>7. ASSUME NEW n \in Node, P!Ready(P!Rear(n)), P!ClearFirst(n)
      PROVE  InUse(Node, NoNode, mem) \subseteq InUse(Node, NoNode, mem')
  <2>1. /\ mem.next[P!Rear(n)] # P!Rear(n) /\ mem' = P!ListDel(mem, mem.next[P!Rear(n)])
        /\ P!Rear(n) \in InUse(Node, NoNode, mem)
    BY <1>7, ReadyInUse DEF P!ClearFirst, P!ListEmpty
  <2>2. PICK r \in Node : mem.next[P!Rear(n)] = P!Link(r)
                          /\ P!Link(r) \in InUse(Node, NoNode, mem)
    BY <1>1, <2>1, FirstOf
  <2> QED BY <1>5, <2>1, <2>2
<1> QED BY <1>2, <1>3, <1>4, <1>6, <1>7 DEF P!Next

\* The next cell of a walk.
LEMMA FramesAt ==
  ASSUME Sound
  PROVE  /\ \A n \in Node : NodeReady(n) => Frame(n) \in Frames
         /\ \A f \in Frames : [f EXCEPT !.at = mem.next[f.at]] \in Frames
         /\ \A f \in Frames : f.node \in Node /\ f.at[1] \in Node
<1>1. \A c \in InUse(Node, NoNode, mem) : mem.next[c] \in InUse(Node, NoNode, mem)
                                          /\ c[1] \in Node
  BY DEF Sound, Linked, P!WellLinked, InUse, Cells
<1> QED BY <1>1 DEF Frames, Frame, NodeReady

\* The frame on top goes on to the next cell.
LEMMA AdvancedFrames ==
  ASSUME Sound, NEW s \in Seq(Frames)
  PROVE  Advanced(s) \in Seq(Frames)
<1>1. CASE s = <<>>
  BY <1>1 DEF Advanced
<1>2. CASE s # <<>>
  <2>1. Len(s) \in 1 .. Len(s)
    BY <1>2
  <2> DEFINE f == s[Len(s)]  g == [f EXCEPT !.at = mem.next[f.at]]
  <2>2. f \in Frames
    BY <2>1, ElementOfSeq
  <2>3. g \in Frames
    BY <2>2, FramesAt
  <2>4. Advanced(s) = [s EXCEPT ![Len(s)] = g]
    BY <1>2 DEF Advanced
  <2> HIDE DEF f, g
  <2> QED BY <2>1, <2>3, <2>4, ExceptSeq
<1> QED BY <1>1, <1>2

\* A handler is entered, or returns to the walk that called it.
LEMMA WalkKeeps ==
  ASSUME Sound, DOMAIN stack = {"caller", "audioin"}, NEW t \in {"caller", "audioin"},
         stack[t] \in Seq(Frames)
  PROVE  /\ \A n \in Node : NodeReady(n) /\ Enter(t, n) => stack'[t] \in Seq(Frames)
         /\ Return(t) => stack'[t] \in Seq(Frames)
         /\ Leave(t) /\ stack[t] # <<>> => stack'[t] \in Seq(Frames)
         /\ \A u \in {"caller", "audioin"} :
              u # t /\ ((\E n : Enter(t, n)) \/ Return(t) \/ Leave(t)) => stack'[u] = stack[u]
<1>1. ASSUME NEW n \in Node, NodeReady(n), Enter(t, n) PROVE stack'[t] \in Seq(Frames)
  <2>1. stack'[t] = Append(stack[t], Frame(n)) /\ Frame(n) \in Frames
    BY <1>1, FramesAt DEF Enter
  <2> QED BY <2>1, AppendProperties
<1>2. ASSUME Return(t) PROVE stack'[t] \in Seq(Frames)
  <2>1. stack'[t] = Advanced(stack[t])
    BY <1>2 DEF Return
  <2> QED BY <2>1, AdvancedFrames
<1>3. ASSUME Leave(t), stack[t] # <<>> PROVE stack'[t] \in Seq(Frames)
  <2>1. stack'[t] = Advanced(Front(stack[t]))
    BY <1>3 DEF Leave
  <2>2. Front(stack[t]) \in Seq(Frames)
    BY <1>3 DEF Front
  <2> QED BY <2>1, <2>2, AdvancedFrames
<1>4. ASSUME NEW u \in {"caller", "audioin"}, u # t,
             (\E n : Enter(t, n)) \/ Return(t) \/ Leave(t)
      PROVE  stack'[u] = stack[u]
  BY <1>4 DEF Enter, Return, Leave
<1> QED BY <1>1, <1>2, <1>3, <1>4

\* Where no thread walks, or none goes on walking.
LEMMA WalksStay ==
  ASSUME ListInv, Walks, UNCHANGED listVars \/ P!Next, UNCHANGED stack,
         failed \subseteq failed', pc' = "create" => pc = "create",
         worker'["audioin"] = worker["audioin"] \/ worker["audioin"] # "push" \/ pc = "create",
         stack["caller"] # <<>> => held \subseteq held'
  PROVE  Walks'
<1> SUFFICES ASSUME Awaited("audioin")'
             PROVE  /\ \A t \in {"caller", "audioin"} : stack'[t] \in Seq(Frames')
                    /\ stack'["audioin"] # <<>> => worker'["audioin"] = "push" /\ pc' # "create"
                    /\ stack'["caller"] # <<>> => AllHeld'
  BY DEF Walks
<1>1. Awaited("audioin")
  BY DEF Awaited
<1>2. Frames \subseteq Frames'
  BY InUseGrows DEF Frames, ListInv
<1>3. ASSUME NEW t \in {"caller", "audioin"} PROVE stack'[t] \in Seq(Frames')
  <2>1. stack[t] \in Seq(Frames)
    BY <1>1 DEF Walks
  <2>2. stack[t] \in Seq(Frames')
    BY <1>2, <2>1, SeqMonotonic
  <2> QED BY <2>2
<1> QED BY <1>1, <1>3 DEF Walks, AllHeld, Holds

\* The walk of a command.
LEMMA CommandWalks ==
  ASSUME LifeInv, ListInv, Walks, Alive, Command
  PROVE  Walks'
<1>1. /\ UNCHANGED <<listVars, failed, held, worker, pc>> /\ stack["caller"] # <<>>
  BY DEF Command, RootEnd, AecCommand, AudioInStart, AudioInStarted, AudioInStop,
         AudioInStopped, AudioInStopEnd, RecogniserAsk, RecogniserAnswered, Calls, AtEnd,
         Walking, resVars, apiVars, workerVars
<1>2. \A n \in Node : NodeReady(n)
  BY <1>1 DEF ListInv, ReadyNodes, Whole, LifeInv, Streams, Alive
<1>3. \/ UNCHANGED stack
      \/ \E n \in Node : Enter("caller", n)
      \/ Return("caller") \/ Leave("caller")
  BY DEF Command, RootEnd, AecCommand, AudioInStart, AudioInStarted, AudioInStop,
         AudioInStopped, AudioInStopEnd, RecogniserAsk, RecogniserAnswered, resVars, Node
<1>4. CASE UNCHANGED stack
  BY <1>1, <1>4, WalksStay
<1>5. CASE \/ \E n \in Node : Enter("caller", n)
           \/ Return("caller") \/ Leave("caller")
  <2> SUFFICES ASSUME Awaited("audioin")'
               PROVE  /\ \A t \in {"caller", "audioin"} : stack'[t] \in Seq(Frames')
                      /\ stack'["audioin"] # <<>> => worker'["audioin"] = "push" /\ pc' # "create"
                      /\ stack'["caller"] # <<>> => AllHeld'
    BY DEF Walks
  <2>1. Awaited("audioin") /\ Frames' = Frames
    BY <1>1 DEF Awaited, Frames, listVars
  <2>2. stack'["caller"] \in Seq(Frames) /\ stack'["audioin"] = stack["audioin"]
    BY <1>1, <1>2, <1>5, <2>1, WalkKeeps DEF Walks, ListInv, LifeInv, Types
  <2> QED BY <1>1, <2>1, <2>2 DEF Walks, AllHeld, Holds
<1> QED BY <1>3, <1>4, <1>5

\* The walk of a frame of audio.
LEMMA AudioInWalks ==
  ASSUME LifeInv, ListInv, Walks, AudioInWorker
  PROVE  Walks'
<1>1. UNCHANGED <<listVars, failed, held>> /\ (pc' = "create" => pc = "create")
  BY DEF AudioInWorker, AudioInTop, AudioInWait, AudioInLook, AudioInPush, AecData, PushReturns,
         RecogniserData, Writes, resVars, callVars, apiVars
<1>2. CASE AudioInTop \/ AudioInWait
  BY <1>1, <1>2, WalksStay DEF AudioInTop, AudioInWait, callVars, walkVars
<1>3. CASE AudioInLook \/ AudioInPush
  <2> SUFFICES ASSUME Awaited("audioin")'
               PROVE  /\ \A t \in {"caller", "audioin"} : stack'[t] \in Seq(Frames')
                      /\ stack'["audioin"] # <<>> => worker'["audioin"] = "push" /\ pc' # "create"
                      /\ stack'["caller"] # <<>> => AllHeld'
    BY DEF Walks
  <2>1. Awaited("audioin") /\ Frames' = Frames
    BY <1>1 DEF Awaited, Frames, listVars
  <2>2. /\ stack["caller"] \in Seq(Frames) /\ stack["audioin"] \in Seq(Frames)
        /\ stack["audioin"] # <<>> => worker["audioin"] = "push" /\ pc # "create"
        /\ stack["caller"] # <<>> => AllHeld
    BY <2>1 DEF Walks
  <2>3. Sound /\ DOMAIN stack = {"caller", "audioin"} /\ "audioin" \in Worker
        /\ worker \in [Worker -> {"none", "top", "wait", "look", "push", "session", "gone"}]
    BY DEF ListInv, LifeInv, Types, Worker
  <2>4. AllHeld' <=> AllHeld
    BY <1>1 DEF AllHeld, Holds
  <2>5. CASE AudioInLook
    <3>1. CASE pipe = "start" /\ audio
      <4>1. Goes("audioin", "push") /\ Enter("audioin", "audioin")
        BY <2>5, <3>1 DEF AudioInLook
      <4>2. AllHeld
        BY <2>1, <2>5, <3>1 DEF AudioInLook, LifeInv, Streams, AtWork
      <4>3. "audioin" \in Node /\ NodeReady("audioin")
        BY <4>2 DEF AllHeld, ListInv, ReadyNodes, Node
      <4>4. stack'["audioin"] \in Seq(Frames) /\ stack'["caller"] = stack["caller"]
        BY <2>2, <2>3, <4>1, <4>3, WalkKeeps
      <4>5. worker'["audioin"] = "push" /\ pc # "create"
        BY <2>3, <3>1, <4>1 DEF Goes, LifeInv, Building
      <4> QED BY <1>1, <2>1, <2>2, <2>4, <4>4, <4>5
    <3>2. CASE ~(pipe = "start" /\ audio)
      <4>1. stack' = stack /\ worker["audioin"] = "look"
        BY <2>5, <3>2 DEF AudioInLook
      <4> QED BY <1>1, <2>1, <2>2, <2>4, <4>1
    <3> QED BY <3>1, <3>2
  <2>6. CASE AudioInPush
    <3>1. worker["audioin"] = "push" /\ AllHeld /\ stack["audioin"] # <<>>
      BY <2>1, <2>6 DEF AudioInPush, AecData, PushReturns, RecogniserData, Calls, AtEnd,
                        Walking, LifeInv, Streams, AtWork
    <3>2. "aec" \in Node /\ NodeReady("aec")
      BY <3>1 DEF AllHeld, ListInv, ReadyNodes, Node
    <3>3. CASE AecData
      <4>1. Enter("audioin", "aec") /\ worker' = worker
        BY <3>3 DEF AecData
      <4>2. stack'["audioin"] \in Seq(Frames) /\ stack'["caller"] = stack["caller"]
        BY <2>2, <2>3, <3>2, <4>1, WalkKeeps
      <4> QED BY <1>1, <2>1, <2>2, <2>4, <3>1, <4>1, <4>2
    <3>4. ASSUME NEW n \in Recogniser, RecogniserData(n)
          PROVE  /\ \A t \in {"caller", "audioin"} : stack'[t] \in Seq(Frames')
                 /\ stack'["audioin"] # <<>> => worker'["audioin"] = "push" /\ pc' # "create"
                 /\ stack'["caller"] # <<>> => AllHeld'
      <4>1. Return("audioin") /\ worker' = worker
        BY <3>4 DEF RecogniserData
      <4>2. stack'["audioin"] \in Seq(Frames) /\ stack'["caller"] = stack["caller"]
        BY <2>2, <2>3, <4>1, WalkKeeps
      <4> QED BY <1>1, <2>1, <2>2, <2>4, <3>1, <4>1, <4>2
    <3>5. CASE PushReturns
      <4>1. Leave("audioin") /\ stack["audioin"] # <<>>
        BY <3>5 DEF PushReturns, AtEnd, Walking
      <4>2. stack'["audioin"] \in Seq(Frames) /\ stack'["caller"] = stack["caller"]
        BY <2>2, <2>3, <4>1, WalkKeeps
      <4>3. CASE Len(stack["audioin"]) = 1
        <5>1. Front(stack["audioin"]) = <<>>
          BY <2>2, <4>3 DEF Front
        <5>2. stack'["audioin"] = <<>>
          BY <2>3, <4>1, <5>1 DEF Leave, Advanced
        <5> QED BY <1>1, <2>1, <2>2, <2>4, <4>2, <5>2
      <4>4. CASE Len(stack["audioin"]) # 1
        <5>1. worker' = worker
          BY <3>5, <4>4 DEF PushReturns
        <5> QED BY <1>1, <2>1, <2>2, <2>4, <3>1, <4>2, <5>1
      <4> QED BY <4>3, <4>4
    <3> QED BY <2>6, <3>3, <3>4, <3>5 DEF AudioInPush
  <2> QED BY <1>3, <2>5, <2>6
<1> QED BY <1>2, <1>3 DEF AudioInWorker

\* Every step keeps the walks where they may be,
LEMMA WalksInductive ==
  LifeInv /\ ListInv /\ Walks /\ [Next]_vars => Walks'
<1> SUFFICES ASSUME LifeInv, ListInv, Walks, [Next]_vars PROVE Walks'
  OBVIOUS
<1>1. UNCHANGED listVars \/ P!Next
  BY PipelineStep
<1>2. pc # "push" /\ pc # "aborted" => stack["caller"] = <<>>
  BY DEF LifeInv, Streams
<1>3. CASE \/ Obtain \/ Fail \/ CreateDone \/ Undo \/ UndoDone \/ VuiDestroy
           \/ LinkStep \/ Pushed \/ UnlinkStep \/ Unlinked \/ Callback
           \/ (\E mode \in Mode : VuiStart(mode))
           \/ (\E n \in Recogniser : RecogniserWorker(n)) \/ UNCHANGED vars
  <2>1. UNCHANGED stack /\ failed \subseteq failed'
    BY <1>3 DEF Obtain, Fail, CreateDone, Undo, UndoDone, VuiDestroy, LinkStep, Pushed,
       UnlinkStep, Unlinked, Callback, VuiStart, RecogniserWorker, RecogniserTop,
       RecogniserBegin, RecogniserEnd, vars, callVars, walkVars, resVars
  <2>2. held \subseteq held' \/ pc = "destroy"
    BY <1>3 DEF Obtain, Fail, CreateDone, Undo, UndoDone, VuiDestroy, LinkStep, Pushed,
       UnlinkStep, Unlinked, Callback, VuiStart, RecogniserWorker, RecogniserTop,
       RecogniserBegin, RecogniserEnd, vars, callVars, walkVars, resVars
  <2>3. worker'["audioin"] = worker["audioin"] \/ worker["audioin"] # "push" \/ pc = "create"
    <3>1. CASE Obtain
      BY <3>1 DEF Obtain
    <3>2. ASSUME NEW n \in Recogniser, RecogniserWorker(n)
          PROVE  worker'["audioin"] = worker["audioin"]
      <4>1. n # "audioin" /\ "audioin" \in Worker /\ DOMAIN worker = Worker
        BY DEF Recogniser, Worker, LifeInv, Types
      <4> QED BY <3>2, <4>1 DEF RecogniserWorker, RecogniserTop, RecogniserBegin,
                 RecogniserEnd, Goes
    <3>3. CASE \/ Fail \/ CreateDone \/ Undo \/ UndoDone \/ VuiDestroy
               \/ LinkStep \/ Pushed \/ UnlinkStep \/ Unlinked \/ Callback
               \/ (\E mode \in Mode : VuiStart(mode)) \/ UNCHANGED vars
      BY <3>3 DEF Fail, CreateDone, Undo, UndoDone, VuiDestroy, LinkStep, Pushed,
         UnlinkStep, Unlinked, Callback, VuiStart, vars, workerVars
    <3> QED BY <1>3, <3>1, <3>2, <3>3
  <2>4. pc' = "create" => pc = "create"
    BY <1>3 DEF Obtain, Fail, CreateDone, Undo, UndoDone, VuiDestroy, LinkStep, Pushed,
       UnlinkStep, Unlinked, Callback, Writes, VuiStart, RecogniserWorker, RecogniserTop,
       RecogniserBegin, RecogniserEnd, vars, callVars, apiVars
  <2> QED BY <1>1, <1>2, <2>1, <2>2, <2>3, <2>4, WalksStay
<1>4. CASE Launch \/ VuiStop
  <2> SUFFICES ASSUME Awaited("audioin")'
               PROVE  /\ \A t \in {"caller", "audioin"} : stack'[t] \in Seq(Frames')
                      /\ stack'["audioin"] # <<>> => worker'["audioin"] = "push" /\ pc' # "create"
                      /\ stack'["caller"] # <<>> => AllHeld'
    BY DEF Walks
  <2>1. /\ UNCHANGED <<listVars, failed, held, worker>> /\ pc \in Whole /\ pc' = "push"
        /\ stack' = [stack EXCEPT !["caller"] = <<Frame("vui")>>]
    BY <1>4 DEF Launch, VuiStop, resVars, workerVars, Whole
  <2>2. Awaited("audioin") /\ Frames' = Frames
    BY <2>1 DEF Awaited, Frames, listVars
  <2>3. "vui" \in Node /\ NodeReady("vui") /\ Sound /\ DOMAIN stack = {"caller", "audioin"}
    BY <2>1 DEF ListInv, ReadyNodes, LifeInv, Types, Node
  <2>4. Frame("vui") \in Frames
    BY <2>3, FramesAt
  <2>5. stack'["caller"] \in Seq(Frames) /\ stack'["audioin"] = stack["audioin"]
    BY <2>1, <2>3, <2>4
  <2>6. AllHeld'
    BY <2>1, WholeHeld DEF AllHeld, Holds
  <2> QED BY <2>1, <2>2, <2>5, <2>6 DEF Walks
<1>5. CASE Command /\ Alive
  BY <1>5, CommandWalks
<1>6. CASE AudioInWorker
  BY <1>6, AudioInWalks
<1> QED BY <1>3, <1>4, <1>5, <1>6 DEF Next, Api, Calling

\* so they are throughout.
LEMMA WalksStayAlways ==
  Spec => [](LifeInv /\ ListInv /\ Walks)
<1>1. Init => LifeInv /\ ListInv /\ Walks
  <2>1. Init => Walks
    <3> SUFFICES ASSUME Init PROVE Walks
      OBVIOUS
    <3>1. \A t \in {"caller", "audioin"} : stack[t] = <<>> /\ stack[t] \in Seq(Frames)
      BY DEF Init
    <3> QED BY <3>1 DEF Walks
  <2> QED BY <2>1, LifeInitially, ListInitially
<1>2. LifeInv /\ ListInv /\ Walks /\ [Next]_vars => (LifeInv /\ ListInv /\ Walks)'
  BY LifeInductive, ListInductive, WalksInductive
<1> QED BY <1>1, <1>2, PTL DEF Spec

\* Whatever VuiDestroy frees, no worker that it waited for, no callback of the stream
\* and no walk of the lists still uses; a worker is not waited for only if its
\* semaphore could not be created.
THEOREM NothingUsedAfterFree ==
  Spec => []NoUseAfterFree
<1>1. LifeInv /\ ListInv /\ Walks => NoUseAfterFree
  <2> SUFFICES ASSUME LifeInv, ListInv, Walks PROVE NoUseAfterFree
    OBVIOUS
  <2>1. ASSUME NEW n \in Worker, worker[n] \notin {"none", "gone"},
               <<n, "sem_worker_thread">> \notin failed
        PROVE  Holds(n, "handle") /\ Holds(n, "ring")
    BY <2>1 DEF LifeInv, Workers, AtWork, Awaited, Farewell
  <2>2. ASSUME stream = "started"
        PROVE  Holds("audioin", "wrapper") /\ Holds("audioin", "handle")
               /\ Holds("audioin", "ring")
    BY <2>2 DEF LifeInv, Streams
  <2>3. ASSUME <<"audioin", "sem_worker_thread">> \notin failed, NEW t \in DOMAIN stack,
               NEW i \in DOMAIN stack[t]
        PROVE  Holds(stack[t][i].node, "handle") /\ Holds(stack[t][i].at[1], "handle")
    <3>1. Awaited("audioin") /\ t \in {"caller", "audioin"}
      BY <2>3 DEF Awaited, Farewell, LifeInv, Types
    <3>2. stack[t] \in Seq(Frames)
      BY <3>1 DEF Walks
    <3>3. i \in 1 .. Len(stack[t]) /\ stack[t] # <<>>
      BY <2>3, <3>2
    <3>4. AllHeld
      BY <3>1, <3>3 DEF Walks, LifeInv, Streams, AtWork
    <3>5. stack[t][i] \in Frames
      BY <3>2, <3>3, ElementOfSeq
    <3>6. stack[t][i].node \in Node /\ stack[t][i].at[1] \in Node
      BY <3>5, FramesAt DEF ListInv
    <3> QED BY <3>4, <3>6 DEF AllHeld
  <2> QED BY <2>1, <2>2, <2>3 DEF NoUseAfterFree
<1> QED BY <1>1, WalksStayAlways, PTL

-----------------------------------------------------------------------------
(* The walk of a command, which tells every node that is linked.            *)

\* A walk of a node's list at its end, or at the node r.
Follow(n) == [node |-> n, at |-> P!Rear(n)]
Towards(n, r) == [node |-> n, at |-> P!Link(r)]
Moved(f) == [f EXCEPT !.at = mem.next[f.at]]
Told(n) == pre[n] # NoNode => told[n] = cmd

ToAudioIn == <<Towards("vui", "audioin")>>
ToAec == <<Towards("vui", "audioin"), Towards("audioin", "aec")>>
Below(f) == <<Towards("vui", "audioin"), Towards("audioin", "aec"), f>>
PastAec == <<Towards("vui", "audioin"), Follow("audioin")>>

\* Where the caller's walk can be, and whom it has told.
Walked ==
  LET s == stack["caller"]
  IN  \/ s \in {ToAudioIn, ToAec}
      \/ s = Below(Towards("aec", "rasr")) /\ pre["rasr"] # NoNode
      \/ s = Below(Towards("aec", "lasr")) /\ Told("rasr")
      \/ s = Below(Follow("aec")) /\ Told("rasr") /\ Told("lasr")
      \/ s = PastAec /\ Told("rasr") /\ Told("lasr") /\ Told("aec")
      \/ s \in {<<Follow("vui")>>, <<>>} /\ \A n \in Node \ {"vui"} : Told(n)

\* No node is left started that is not linked.
NoneStarted == \A n \in Node \ {"vui"} : pre[n] = NoNode => told[n] # "start"

ToldInv ==
  /\ DOMAIN told = Node
  /\ EveryNodeTold
  /\ pc \in {"create", "link", "unlink"} => \A n \in Node \ {"vui"} : told[n] # "start"
  /\ pc = "push" => Walked /\ NoneStarted

\* A sequence t that is s and one element more.
LEMMA OneMore ==
  ASSUME NEW S, NEW s \in Seq(S), NEW t \in Seq(S), Len(t) = Len(s) + 1,
         \A i \in 1 .. Len(s) : t[i] = s[i]
  PROVE  Append(s, t[Len(t)]) = t /\ Front(t) = s /\ Last(t) = t[Len(t)]
<1> DEFINE e == t[Len(t)]
<1>1. e \in S /\ Len(s) \in Nat
  BY ElementOfSeq
<1>2. Append(s, e) = t
  <2>1. /\ Append(s, e) \in Seq(S) /\ Len(Append(s, e)) = Len(s) + 1
        /\ \A i \in 1 .. Len(s) : Append(s, e)[i] = s[i]
        /\ Append(s, e)[Len(s) + 1] = e
    BY <1>1, AppendProperties
  <2>2. \A i \in 1 .. Len(t) : Append(s, e)[i] = t[i]
    BY <1>1, <2>1
  <2> QED BY <2>1, <2>2, SeqEqual
<1>3. SubSeq(t, 1, Len(t) - 1) = s
  <2>1. \A i \in 1 .. Len(s) : t[i] \in S
    BY ElementOfSeq
  <2>2. /\ SubSeq(t, 1, Len(s)) \in Seq(S) /\ Len(SubSeq(t, 1, Len(s))) = Len(s)
        /\ \A i \in 1 .. Len(s) : SubSeq(t, 1, Len(s))[i] = s[i]
    BY <1>1, <2>1, SubSeqProperties
  <2>3. SubSeq(t, 1, Len(s)) = s
    BY <2>2, SeqEqual
  <2> QED BY <1>1, <2>3
<1> QED BY <1>2, <1>3 DEF Front, Last

\* The stacks that occur, which have three frames at most.
LEMMA ShortStacks ==
  /\ \A A : Last(<<A>>) = A /\ Front(<<A>>) = <<>>
  /\ \A A, B : Last(<<A, B>>) = B /\ Front(<<A, B>>) = <<A>> /\ Append(<<A>>, B) = <<A, B>>
  /\ \A A, B, C : /\ Last(<<A, B, C>>) = C /\ Front(<<A, B, C>>) = <<A, B>>
                  /\ Append(<<A, B>>, C) = <<A, B, C>>
<1>1. ASSUME NEW A PROVE Last(<<A>>) = A /\ Front(<<A>>) = <<>>
  <2>1. Len(<<A>>) = 1 /\ SubSeq(<<A>>, 1, 0) = <<>>
    OBVIOUS
  <2> QED BY <2>1 DEF Last, Front
<1>2. ASSUME NEW A, NEW B
      PROVE  Last(<<A, B>>) = B /\ Front(<<A, B>>) = <<A>> /\ Append(<<A>>, B) = <<A, B>>
  <2> DEFINE one == <<A>>  two == <<A, B>>
  <2>1. /\ one \in Seq({A, B}) /\ two \in Seq({A, B}) /\ Len(one) = 1 /\ Len(two) = 2
        /\ one[1] = A /\ two[1] = A /\ two[2] = B
    OBVIOUS
  <2> HIDE DEF one, two
  <2>2. Len(two) = Len(one) + 1 /\ \A i \in 1 .. Len(one) : two[i] = one[i]
    BY <2>1
  <2>3. Append(one, two[Len(two)]) = two /\ Front(two) = one /\ Last(two) = two[Len(two)]
    BY <2>1, <2>2, OneMore
  <2> QED BY <2>1, <2>3 DEF one, two
<1>3. ASSUME NEW A, NEW B, NEW C
      PROVE  /\ Last(<<A, B, C>>) = C /\ Front(<<A, B, C>>) = <<A, B>>
             /\ Append(<<A, B>>, C) = <<A, B, C>>
  <2> DEFINE two == <<A, B>>  three == <<A, B, C>>
  <2>1. /\ two \in Seq({A, B, C}) /\ three \in Seq({A, B, C})
        /\ Len(two) = 2 /\ Len(three) = 3
        /\ two[1] = A /\ two[2] = B /\ three[1] = A /\ three[2] = B /\ three[3] = C
    OBVIOUS
  <2> HIDE DEF two, three
  <2>2. Len(three) = Len(two) + 1 /\ \A i \in 1 .. Len(two) : three[i] = two[i]
    BY <2>1
  <2>3. /\ Append(two, three[Len(three)]) = three /\ Front(three) = two
        /\ Last(three) = three[Len(three)]
    BY <2>1, <2>2, OneMore
  <2> QED BY <2>1, <2>3 DEF two, three
<1> QED BY <1>1, <1>2, <1>3

\* A stack whose top goes on to the next cell.
LEMMA ShortWalks ==
  /\ \A f : Advanced(<<f>>) = <<Moved(f)>>
  /\ \A A, f : Advanced(<<A, f>>) = <<A, Moved(f)>>
  /\ \A A, B, f : Advanced(<<A, B, f>>) = <<A, B, Moved(f)>>
<1>1. ASSUME NEW f PROVE Advanced(<<f>>) = <<Moved(f)>>
  BY DEF Advanced, Moved
<1>2. ASSUME NEW A, NEW f PROVE Advanced(<<A, f>>) = <<A, Moved(f)>>
  BY DEF Advanced, Moved
<1>3. ASSUME NEW A, NEW B, NEW f PROVE Advanced(<<A, B, f>>) = <<A, B, Moved(f)>>
  BY DEF Advanced, Moved
<1> QED BY <1>1, <1>2, <1>3

\* What a step of a command handler does to the walk.
LEMMA CommandSteps ==
  ASSUME Command
  PROVE  /\ \/ UNCHANGED <<stack, told>>
            \/ \E n \in {"audioin", "aec"} :
                 Calls("caller", n) /\ Enter("caller", n) /\ told' = told
            \/ \E n \in Recogniser : Calls("caller", n) /\ Return("caller") /\ Tell(n)
            \/ \E n \in {"audioin", "aec"} :
                 /\ AtEnd("caller") /\ Top("caller").node = n
                 /\ Leave("caller") /\ Tell(n)
            \/ /\ AtEnd("caller") /\ Top("caller").node = "vui"
               /\ Leave("caller") /\ told' = told
         /\ stack["caller"] # <<>>
         /\ mem' = mem /\ pre' = pre /\ pc' = pc /\ cmd' = cmd
  BY DEF Command, RootEnd, AecCommand, AudioInStart, AudioInStarted, AudioInStop,
         AudioInStopped, AudioInStopEnd, RecogniserAsk, RecogniserAnswered, Calls, AtEnd,
         Walking, walkVars, listVars, apiVars

\* Where the caller's walk is says whose handler is called next.
LEMMA AtTop ==
  ASSUME stack["caller"] # <<>>
  PROVE  /\ \A n : Last(stack["caller"]) = Follow(n) =>
              AtEnd("caller") /\ Top("caller").node = n /\ \A m : ~Calls("caller", m)
         /\ \A n, r : Last(stack["caller"]) = Towards(n, r) =>
              ~AtEnd("caller") /\ \A m : Calls("caller", m) <=> m = r
  BY DEF Follow, Towards, AtEnd, Calls, Walking, Top, P!Link, P!Rear

\* One handler of a linked node after the other.
LEMMA CommandTells ==
  ASSUME LifeInv, ListInv, ToldInv, Alive, Command
  PROVE  ToldInv'
<1>1. /\ stack["caller"] # <<>> /\ pc = "push" /\ pc' = "push"
      /\ mem' = mem /\ pre' = pre /\ cmd' = cmd
  BY CommandSteps DEF LifeInv, Streams, Alive
<1>2. /\ pre["audioin"] # NoNode /\ pre["aec"] # NoNode /\ pre["lasr"] # NoNode
      /\ mem.next[P!Rear("audioin")] = P!Link("aec")
      /\ mem.next[P!Link("audioin")] = P!Rear("vui")
      /\ mem.next[P!Link("aec")] = P!Rear("audioin")
      /\ mem.next[P!Link("lasr")] = P!Rear("aec")
      /\ pre["rasr"] = NoNode => mem.next[P!Rear("aec")] = P!Link("lasr")
      /\ pre["rasr"] # NoNode => /\ mem.next[P!Rear("aec")] = P!Link("rasr")
                                 /\ mem.next[P!Link("rasr")] = P!Link("lasr")
  BY <1>1 DEF ListInv, Linking, Shape
<1>3. Walked /\ NoneStarted /\ DOMAIN told = Node /\ DOMAIN stack = {"caller", "audioin"}
  BY <1>1 DEF ToldInv, LifeInv, Types
<1>4. ASSUME NEW n \in Node, pre[n] # NoNode, Tell(n)
      PROVE  /\ NoneStarted' /\ Told(n)' /\ DOMAIN told' = Node
             /\ \A m \in Node : Told(m) => Told(m)'
  <2>1. \A m \in Node : told'[m] = IF m = n THEN cmd ELSE told[m]
    BY <1>3, <1>4 DEF Tell
  <2>2. DOMAIN told' = Node
    BY <1>3, <1>4 DEF Tell
  <2> QED BY <1>1, <1>3, <1>4, <2>1, <2>2 DEF NoneStarted, Told
<1>5. told' = told => /\ NoneStarted' /\ DOMAIN told' = Node
                      /\ \A m \in Node : Told(m) => Told(m)'
  BY <1>1, <1>3 DEF NoneStarted, Told
<1>6. /\ \A n : Enter("caller", n) => stack'["caller"] = Append(stack["caller"], Frame(n))
      /\ Return("caller") => stack'["caller"] = Advanced(stack["caller"])
      /\ Leave("caller") => stack'["caller"] = Advanced(Front(stack["caller"]))
  BY <1>3 DEF Enter, Return, Leave
<1>7. /\ Frame("audioin") = Towards("audioin", "aec")
      /\ (pre["rasr"] = NoNode => Frame("aec") = Towards("aec", "lasr"))
      /\ (pre["rasr"] # NoNode => Frame("aec") = Towards("aec", "rasr"))
  BY <1>2 DEF Frame, Towards
<1>10. /\ (pre["rasr"] # NoNode => Moved(Towards("aec", "rasr")) = Towards("aec", "lasr"))
       /\ Moved(Towards("aec", "lasr")) = Follow("aec")
       /\ Moved(Towards("audioin", "aec")) = Follow("audioin")
       /\ Moved(Towards("vui", "audioin")) = Follow("vui")
  BY <1>2 DEF Moved, Towards, Follow
<1> SUFFICES NoneStarted' /\ Walked' /\ DOMAIN told' = Node
  BY <1>1 DEF ToldInv, EveryNodeTold
<1>8. CASE UNCHANGED <<stack, told>>
  BY <1>1, <1>3, <1>8 DEF Walked, NoneStarted, Told
<1>9. CASE ~UNCHANGED <<stack, told>>
  <2>1. \/ \E n \in {"audioin", "aec"} :
             Calls("caller", n) /\ Enter("caller", n) /\ told' = told
        \/ \E n \in Recogniser : Calls("caller", n) /\ Return("caller") /\ Tell(n)
        \/ \E n \in {"audioin", "aec"} :
             AtEnd("caller") /\ Top("caller").node = n /\ Leave("caller") /\ Tell(n)
        \/ AtEnd("caller") /\ Top("caller").node = "vui" /\ Leave("caller") /\ told' = told
    BY <1>9, CommandSteps
  <2>2. CASE stack["caller"] = ToAudioIn
    <3>1. Last(stack["caller"]) = Towards("vui", "audioin")
      BY <2>2, ShortStacks DEF ToAudioIn
    <3>a. ~AtEnd("caller") /\ \A m : Calls("caller", m) <=> m = "audioin"
      BY <1>1, <3>1, AtTop
    <3>2. Enter("caller", "audioin") /\ told' = told
      BY <2>1, <3>a DEF Recogniser
    <3>3. stack'["caller"] = ToAec
      BY <1>6, <1>7, <2>2, <3>2, ShortStacks DEF ToAudioIn, ToAec
    <3> QED BY <1>5, <3>2, <3>3 DEF Walked
  <2>3. CASE stack["caller"] = ToAec
    <3>1. Last(stack["caller"]) = Towards("audioin", "aec")
      BY <2>3, ShortStacks DEF ToAec
    <3>a. ~AtEnd("caller") /\ \A m : Calls("caller", m) <=> m = "aec"
      BY <1>1, <3>1, AtTop
    <3>2. Enter("caller", "aec") /\ told' = told
      BY <2>1, <3>a DEF Recogniser
    <3>3. stack'["caller"] = Below(Frame("aec"))
      BY <1>6, <2>3, <3>2, ShortStacks DEF ToAec, Below
    <3>4. CASE pre["rasr"] # NoNode
      BY <1>1, <1>5, <1>7, <3>2, <3>3, <3>4 DEF Walked
    <3>5. CASE pre["rasr"] = NoNode
      BY <1>1, <1>5, <1>7, <3>2, <3>3, <3>5 DEF Walked, Told
    <3> QED BY <3>4, <3>5
  <2>4. CASE stack["caller"] = Below(Towards("aec", "rasr")) /\ pre["rasr"] # NoNode
    <3>1. Last(stack["caller"]) = Towards("aec", "rasr")
      BY <2>4, ShortStacks DEF Below
    <3>a. ~AtEnd("caller") /\ \A m : Calls("caller", m) <=> m = "rasr"
      BY <1>1, <3>1, AtTop
    <3>2. Return("caller") /\ Tell("rasr")
      BY <2>1, <3>a DEF Recogniser
    <3>3. stack'["caller"] = Below(Towards("aec", "lasr"))
      BY <1>6, <1>10, <2>4, <3>2, ShortWalks DEF Below
    <3>4. NoneStarted' /\ Told("rasr")' /\ DOMAIN told' = Node
      BY <1>4, <2>4, <3>2 DEF Node
    <3> QED BY <3>3, <3>4 DEF Walked
  <2>5. CASE stack["caller"] = Below(Towards("aec", "lasr")) /\ Told("rasr")
    <3>1. Last(stack["caller"]) = Towards("aec", "lasr")
      BY <2>5, ShortStacks DEF Below
    <3>a. ~AtEnd("caller") /\ \A m : Calls("caller", m) <=> m = "lasr"
      BY <1>1, <3>1, AtTop
    <3>2. Return("caller") /\ Tell("lasr")
      BY <2>1, <3>a DEF Recogniser
    <3>3. stack'["caller"] = Below(Follow("aec"))
      BY <1>6, <1>10, <2>5, <3>2, ShortWalks DEF Below
    <3>4. NoneStarted' /\ Told("lasr")' /\ DOMAIN told' = Node /\ Told("rasr")'
      BY <1>2, <1>4, <2>5, <3>2 DEF Node
    <3> QED BY <3>3, <3>4 DEF Walked
  <2>6. CASE stack["caller"] = Below(Follow("aec")) /\ Told("rasr") /\ Told("lasr")
    <3>1. Last(stack["caller"]) = Follow("aec")
      BY <2>6, ShortStacks DEF Below
    <3>2. Leave("caller") /\ Tell("aec")
      BY <1>1, <2>1, <3>1, AtTop
    <3>3. stack'["caller"] = PastAec
      <4>1. Front(stack["caller"]) = <<Towards("vui", "audioin"), Towards("audioin", "aec")>>
        BY <2>6, ShortStacks DEF Below
      <4> QED BY <1>6, <1>10, <3>2, <4>1, ShortWalks DEF PastAec
    <3>4. /\ NoneStarted' /\ Told("aec")' /\ DOMAIN told' = Node
          /\ Told("rasr")' /\ Told("lasr")'
      BY <1>2, <1>4, <2>6, <3>2 DEF Node
    <3> QED BY <3>3, <3>4 DEF Walked
  <2>7. CASE stack["caller"] = PastAec /\ Told("rasr") /\ Told("lasr") /\ Told("aec")
    <3>1. Last(stack["caller"]) = Follow("audioin")
      BY <2>7, ShortStacks DEF PastAec
    <3>2. Leave("caller") /\ Tell("audioin")
      BY <1>1, <2>1, <3>1, AtTop
    <3>3. stack'["caller"] = <<Follow("vui")>>
      <4>1. Front(stack["caller"]) = <<Towards("vui", "audioin")>>
        BY <2>7, ShortStacks DEF PastAec
      <4> QED BY <1>6, <1>10, <3>2, <4>1, ShortWalks
    <3>4. /\ NoneStarted' /\ Told("audioin")' /\ DOMAIN told' = Node
          /\ Told("rasr")' /\ Told("lasr")' /\ Told("aec")'
      BY <1>2, <1>4, <2>7, <3>2 DEF Node
    <3>5. \A n \in Node \ {"vui"} : Told(n)'
      BY <3>4 DEF Node
    <3> QED BY <3>3, <3>4, <3>5 DEF Walked
  <2>8. CASE stack["caller"] = <<Follow("vui")>> /\ \A n \in Node \ {"vui"} : Told(n)
    <3>1. Last(stack["caller"]) = Follow("vui")
      BY <2>8, ShortStacks
    <3>2. Leave("caller") /\ told' = told
      BY <1>1, <2>1, <3>1, AtTop
    <3>3. stack'["caller"] = <<>>
      BY <1>6, <2>8, <3>2, ShortStacks DEF Advanced
    <3> QED BY <1>5, <2>8, <3>2, <3>3 DEF Walked
  <2> QED BY <1>1, <1>3, <2>2, <2>3, <2>4, <2>5, <2>6, <2>7, <2>8 DEF Walked
<1> QED BY <1>8, <1>9

\* Between commands nobody is told, and no link comes or goes under a command.
LEMMA CallsTell ==
  ASSUME LifeInv, ListInv, ListInv', ToldInv,
         \/ \E mode \in Mode : VuiStart(mode)
         \/ VuiStop \/ VuiDestroy \/ Obtain \/ Fail \/ CreateDone \/ Undo \/ UndoDone
         \/ LinkStep \/ Launch \/ Pushed \/ UnlinkStep \/ Unlinked
  PROVE  ToldInv'
<1>1. told' = told /\ DOMAIN told' = Node /\ DOMAIN stack = {"caller", "audioin"}
  BY DEF VuiStart, VuiStop, VuiDestroy, Obtain, Fail, CreateDone, Undo, UndoDone, LinkStep,
         Launch, Pushed, UnlinkStep, Unlinked, walkVars, ToldInv, LifeInv, Types
<1> DEFINE Calm == \A n \in Node \ {"vui"} : told[n] # "start"
           Linkeds == \A n \in Node \ {"vui"} : told[n] = "start" <=> pre[n] # NoNode
<1>2. /\ pc \in {"create", "link", "unlink"} => Calm
      /\ pc = "idle" /\ status # "started" => Calm
      /\ pc = "idle" /\ status = "started" => Linkeds
      /\ pc = "push" => Walked /\ NoneStarted
  BY DEF ToldInv, EveryNodeTold
<1>3. ASSUME pc' \in {"create", "link", "unlink", "destroy", "gone", "aborted"},
             pc' \in {"create", "link", "unlink"} => Calm
      PROVE  ToldInv'
  BY <1>1, <1>3 DEF ToldInv, EveryNodeTold
<1>4. ASSUME pc' = "idle", status' # "started", Calm PROVE ToldInv'
  BY <1>1, <1>4 DEF ToldInv, EveryNodeTold
<1>5. CASE Obtain \/ Fail \/ LinkStep \/ UnlinkStep
  BY <1>2, <1>3, <1>5 DEF Obtain, Fail, LinkStep, UnlinkStep
<1>6. CASE VuiDestroy \/ Undo \/ UndoDone
  BY <1>3, <1>6 DEF VuiDestroy, Undo, UndoDone
<1>7. ASSUME NEW mode \in Mode, VuiStart(mode) PROVE ToldInv'
  BY <1>2, <1>3, <1>7 DEF VuiStart
<1>8. CASE CreateDone
  BY <1>2, <1>3, <1>4, <1>8 DEF CreateDone, LifeInv, Building
<1>9. CASE Unlinked
  BY <1>2, <1>4, <1>9 DEF Unlinked
<1>10. CASE Pushed
  <2>1. pc = "push" /\ stack["caller"] = <<>> /\ mem' = mem /\ pre' = pre
    BY <1>10 DEF Pushed, listVars
  <2>2. \A n \in Node \ {"vui"} : Told(n)
    <3>1. /\ \A f : <<f>> # <<>>
          /\ \A f, g : <<f, g>> # <<>>
          /\ \A f, g, h : <<f, g, h>> # <<>>
      OBVIOUS
    <3> QED BY <1>2, <2>1, <3>1 DEF Walked, ToAudioIn, ToAec, Below, PastAec
  <2>3. CASE cmd = "start"
    <3>1. Linkeds
      BY <1>2, <2>1, <2>2, <2>3 DEF Told, NoneStarted
    <3>2. pc' = "idle" /\ status' = "started"
      BY <1>10, <2>3 DEF Pushed
    <3> QED BY <1>1, <2>1, <3>1, <3>2 DEF ToldInv, EveryNodeTold
  <2>4. CASE cmd # "start"
    <3>1. Calm
      BY <1>2, <2>1, <2>2, <2>4 DEF Told, NoneStarted
    <3>2. pc' = "unlink"
      BY <1>10, <2>4 DEF Pushed
    <3> QED BY <1>3, <3>1, <3>2
  <2> QED BY <2>3, <2>4
<1>11. CASE Launch \/ VuiStop
  <2>1. /\ pc' = "push" /\ mem' = mem /\ pre' = pre
        /\ stack' = [stack EXCEPT !["caller"] = <<Frame("vui")>>]
    BY <1>11 DEF Launch, VuiStop, listVars
  <2>2. mem.next[P!Rear("vui")] = P!Link("audioin")
    BY <2>1 DEF ListInv, Linking, Shape
  <2>3. stack'["caller"] = ToAudioIn
    BY <1>1, <2>1, <2>2 DEF Frame, ToAudioIn, Towards
  <2>4. NoneStarted
    <3>1. CASE Launch
      BY <1>2, <3>1 DEF Launch, NoneStarted
    <3>2. CASE VuiStop
      BY <1>2, <3>2 DEF VuiStop, NoneStarted
    <3> QED BY <1>11, <3>1, <3>2
  <2>5. Walked' /\ NoneStarted'
    BY <1>1, <2>1, <2>3, <2>4 DEF Walked, NoneStarted
  <2> QED BY <1>1, <2>1, <2>5 DEF ToldInv, EveryNodeTold
<1> QED BY <1>5, <1>6, <1>7, <1>8, <1>9, <1>10, <1>11

\* Every step keeps the books of who was told.
LEMMA ToldInductive ==
  LifeInv /\ ListInv /\ ListInv' /\ ToldInv /\ [Next]_vars => ToldInv'
<1> SUFFICES ASSUME LifeInv, ListInv, ListInv', ToldInv, [Next]_vars PROVE ToldInv'
  OBVIOUS
<1>1. CASE Callback \/ AudioInWorker \/ (\E n \in Recogniser : RecogniserWorker(n))
           \/ UNCHANGED vars
  <2>1. /\ UNCHANGED <<told, cmd, status, pre>> /\ pc' \in {pc, "aborted"}
        /\ stack'["caller"] = stack["caller"]
    BY <1>1 DEF Callback, AudioInWorker, AudioInTop, AudioInWait, AudioInLook, AudioInPush,
       AecData, PushReturns, RecogniserData, Enter, Return, Leave, Writes, RecogniserWorker,
       RecogniserTop, RecogniserBegin, RecogniserEnd, vars, callVars, apiVars, walkVars,
       listVars, LifeInv, Types
  <2> QED BY <2>1 DEF ToldInv, EveryNodeTold, Walked, NoneStarted, Told
<1>2. CASE Command /\ Alive
  BY <1>2, CommandTells
<1> QED BY <1>1, <1>2, CallsTell DEF Next, Api, Calling

\* Between calls the nodes that are linked have been started and the others stopped,
\* in either mode and whatever the mode before: a command reaches every node that is
\* linked, once, though each handler passes it on as it likes.
THEOREM EveryNodeIsTold ==
  Spec => []EveryNodeTold
<1>1. Init => LifeInv /\ ListInv /\ ToldInv
  <2>1. Init => ToldInv
    BY DEF Init, ToldInv, EveryNodeTold
  <2> QED BY <2>1, LifeInitially, ListInitially
<1>2. LifeInv /\ ListInv /\ ToldInv /\ [Next]_vars => (LifeInv /\ ListInv /\ ToldInv)'
  BY LifeInductive, ListInductive, ToldInductive
<1>3. ToldInv => EveryNodeTold
  BY DEF ToldInv
<1> QED BY <1>1, <1>2, <1>3, PTL DEF Spec
=============================================================================
