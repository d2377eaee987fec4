---------------------------- MODULE LinkedList ----------------------------
(***************************************************************************)
(* The intrusive singly linked list of kernel/src/list.rs.                 *)
(*                                                                         *)
(* A ListItem owns one `next` pointer, so an item can be linked into one   *)
(* list at a time; a LinkedList is the pair of its `head` and `last`       *)
(* pointers.  A pointer is the item it points to, or None.  The `next`     *)
(* fields of all items are one function nx, shared by all the lists.       *)
(***************************************************************************)
EXTENDS Naturals, FiniteSets

CONSTANTS None   \* the null pointer, Option::None

NewList == [head |-> None, last |-> None]

Lists(Items) == [head : Items \cup {None}, last : Items \cup {None}]

IsEmpty(l) == l.head = None

\* push: `last` becomes the item, and the item becomes `head` only if there was
\* no previous `last`.
Push(l, t) == [head |-> IF l.last = None THEN t ELSE l.head, last |-> t]

\* push, the pointers of the items: the previous `last` points to the new item.
\* The item's own `next` is not written.
PushNext(nx, l, t) == IF l.last = None THEN nx ELSE [nx EXCEPT ![l.last] = t]

\* The `next` of a possibly absent item (result.and_then(|ptr| ptr.next)).
NextOf(nx, t) == IF t = None THEN None ELSE nx[t]

\* Mutant: `last` is not cleared when the list becomes empty.
PopKeepsLast(l, nx) == [head |-> NextOf(nx, l.head), last |-> l.last]

\* Mutant: the item stays in the list.
Peek(l, nx) == l

\* pop: `head` moves to its successor, and `last` is cleared if there is none.
\* The item taken out is l.head; its `next` is left as it is.
Pop(l, nx) ==
    LET n == NextOf(nx, l.head)
    IN  [head |-> n, last |-> IF n = None THEN None ELSE l.last]

\* The items a traversal from `head` meets.  A list of n items is covered after
\* n steps even when stale pointers have closed it into a cycle.
ListItems(l, nx) ==
    LET at[i \in Nat] == IF i = 0 THEN l.head ELSE NextOf(nx, at[i - 1])
    IN  {at[i] : i \in 0..Cardinality(DOMAIN nx)} \ {None}

=============================================================================
