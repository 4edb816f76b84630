---------------------------- MODULE PipelineTree ----------------------------
(***************************************************************************)
(* What utils/pipeline promises to vui.c, without pointers: each node has a *)
(* sequence of the nodes after it, a node is after at most one other, the  *)
(* one connected last is the first to be called, and what one node is      *)
(* connected to or cleared of leaves the others as they are.               *)
(***************************************************************************)
EXTENDS Naturals, Sequences, Functions

CONSTANT Node

VARIABLE after          (* the nodes after each node, the first to be called first *)

Init == after = [n \in Node |-> <<>>]

Free(n) == \A p \in Node : n \notin Range(after[p])

Connect(p, r) ==
  /\ after' = [after EXCEPT ![p] = <<r>> \o @]
  /\ Free(r)

Without(s, i) == SubSeq(s, 1, i - 1) \o SubSeq(s, i + 1, Len(s))

DisConnect(p, r) ==
  \E i \in DOMAIN after[p] :
    after[p][i] = r /\ after' = [after EXCEPT ![p] = Without(@, i)]

ClearFirst(p) ==
  /\ after[p] # <<>>
  /\ after' = [after EXCEPT ![p] = Tail(@)]

Next ==
  \/ \E p, r \in Node : Connect(p, r) \/ DisConnect(p, r)
  \/ \E p \in Node : ClearFirst(p)

Spec == Init /\ [][Next]_after

=============================================================================
