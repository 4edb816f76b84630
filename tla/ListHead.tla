------------------------------ MODULE ListHead ------------------------------
(***************************************************************************)
(* utils/list_head: circular doubly linked lists whose cells are members   *)
(* of the structures they link.  A memory is a record of two functions on  *)
(* cells, next and prev.  A head is a cell too, and so is a cell that is   *)
(* in no list: both are a list of themselves alone.                        *)
(***************************************************************************)
EXTENDS Integers, FiniteSets, Sequences

\* list_init.
ListInit(m, entry) ==
  [next |-> [m.next EXCEPT ![entry] = entry],
   prev |-> [m.prev EXCEPT ![entry] = entry]]

\* __LIST_ADD, its four stores in the order of the macro.
Splice(m, entry, before, after) ==
  [next |-> [m.next EXCEPT ![entry] = after, ![before] = entry],
   prev |-> [m.prev EXCEPT ![after] = entry, ![entry] = before]]

\* list_add, list_add_after, list_add_head.
ListAdd(m, entry, base) == Splice(m, entry, base, m.next[base])

\* list_add_before, list_add_tail.
ListAddTail(m, entry, base) == Splice(m, entry, m.prev[base], base)

\* Mutant: the cell after the one taken out still points back to it.
ListDelOneSided(m, entry) ==
  [next |-> [m.next EXCEPT ![m.prev[entry]] = m.next[entry], ![entry] = entry],
   prev |-> [m.prev EXCEPT ![entry] = entry]]

\* list_del: the cell is a list of itself afterwards, so that it can be taken
\* out once more without harm.
ListDel(m, entry) ==
  LET after == m.next[entry]  before == m.prev[entry]
  IN  [next |-> [m.next EXCEPT ![before] = after, ![entry] = entry],
       prev |-> [m.prev EXCEPT ![after] = before, ![entry] = entry]]

ListEmpty(m, head) == m.next[head] = head

\* What every operation on initialised cells R relies on: the two pointers of
\* neighbours agree, so that a list can be walked both ways and list_del finds
\* the two neighbours it must mend.
WellLinked(m, R) ==
  \A c \in R :
    /\ m.next[c] \in R /\ m.prev[c] \in R
    /\ m.prev[m.next[c]] = c /\ m.next[m.prev[c]] = c

-----------------------------------------------------------------------------

\* list_for_each: the cells a walk visits before it is back at the head, as a
\* sequence.  A walk that has visited as many cells as there are goes round for
\* ever without the head, and is given up.
Visited(m, head) ==
  LET cells == Cardinality(DOMAIN m.next)
      at[i \in 0 .. cells] == IF i = 0 THEN head ELSE m.next[at[i - 1]]
      turns == {i \in 1 .. cells : \A j \in 1 .. i : at[j] # head}
  IN  [i \in 1 .. Cardinality(turns) |-> at[i]]

=============================================================================
