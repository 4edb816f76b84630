------------------------------ MODULE Pipeline ------------------------------
(***************************************************************************)
(* utils/pipeline/src/pipeline.c: nodes linked into a tree by the lists of *)
(* list_head.h.  A node has a cell "link", by which it is in the list of   *)
(* the node before it, and a cell "rear_list", the head of its own list.   *)
(* The caller connects only nodes that were initialised and are in no list: *)
(* the functions do not look.                                              *)
(***************************************************************************)
EXTENDS ListHead, Functions

CONSTANTS Node, NoNode

\* What a module that uses this one owes.
NoNodeApart == NoNode \notin Node

VARIABLES
  mem,     (* the cells, of type PipelineNode.link and PipelineNode.rear_list *)
  pre      (* what the pointers stand for: the node each was connected after *)

vars == <<mem, pre>>

Cell == Node \X {"link", "rear_list"}
Link(n) == <<n, "link">>
Rear(n) == <<n, "rear_list">>
Null == Link(NoNode)

Init ==
  /\ mem = [next |-> [c \in Cell |-> Null], prev |-> [c \in Cell |-> Null]]
  /\ pre = [n \in Node |-> NoNode]

Ready(c) == mem.next[c] # Null

\* PipelineNodeInit, of memory that MZERO has set to zero.
NodeInit(n) ==
  /\ ~Ready(Link(n)) /\ ~Ready(Rear(n))
  /\ mem' = ListInit(ListInit(mem, Link(n)), Rear(n))
  /\ UNCHANGED pre

\* PipelineConnect: the new node is the first to be called.
Connect(p, r) ==
  /\ mem' = ListAdd(mem, Link(r), Rear(p))
  /\ pre' = [pre EXCEPT ![r] = p]

\* PipelineDisConnect: takes out the node if a walk of the list finds it.
DisConnect(p, r) ==
  /\ mem' = ListDel(mem, Link(r))
  /\ pre' = [pre EXCEPT ![r] = NoNode]
  /\ Link(r) \in Range(Visited(mem, Rear(p)))

\* PipelineClear, one turn of its loop: the node that is first.
ClearFirst(p) ==
  /\ ~ListEmpty(mem, Rear(p))
  /\ mem' = ListDel(mem, mem.next[Rear(p)])
  /\ pre' = [pre EXCEPT ![mem.next[Rear(p)][1]] = NoNode]

Cleared(p) == ListEmpty(mem, Rear(p)) /\ UNCHANGED vars

Next ==
  \/ \E n \in Node : NodeInit(n)
  \/ \E p, r \in Node :
       /\ Ready(Rear(p)) /\ Ready(Link(r))
       /\ \/ pre[r] = NoNode /\ Connect(p, r)
          \/ DisConnect(p, r)
  \/ \E p \in Node : Ready(Rear(p)) /\ ClearFirst(p)

Spec == Init /\ [][Next]_vars

-----------------------------------------------------------------------------
(* Properties.                                                              *)

ReadyCells == {c \in Cell : Ready(c)}

\* The pointers of initialised cells lead to initialised cells, and those of
\* neighbours agree.
ListsSound == WellLinked(mem, ReadyCells)

\* The node whose list a cell is in, if it is in one.
ListOf(c) == IF c[2] = "rear_list" THEN c[1] ELSE pre[c[1]]

\* A walk of a node's list never strays into another list, and a node that is
\* connected to nothing is in no list.
ListsApart ==
  \A c \in ReadyCells :
    /\ ListOf(mem.next[c]) = ListOf(c)
    /\ ListOf(c) = NoNode => mem.next[c] = c

\* The nodes after n in the order of PipelinePushCmd and PipelinePushData.
After(n) ==
  IF ~Ready(Rear(n)) THEN <<>>
  ELSE LET cells == Visited(mem, Rear(n)) IN [i \in DOMAIN cells |-> cells[i][1]]

=============================================================================
