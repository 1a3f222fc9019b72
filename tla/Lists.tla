------------------------------- MODULE Lists -------------------------------
(***************************************************************************)
(* The doubly linked lists of include/wk/list.h, seen as sequences.  A     *)
(* node that is on no list points to itself, so list_del of a detached     *)
(* node changes nothing: RemoveFirst leaves a sequence without the node    *)
(* as it is.                                                               *)
(***************************************************************************)
EXTENDS Integers, SequencesExt

\* list_del: unlink the node and make it point to itself.
ListDel(l, n) == RemoveFirst(l, n)

\* list_add_tail: link the node just before the list head.
ListAddTail(l, n) == Append(l, n)

\* list_add_tail(new, &pos->list) with pos the i-th node, or the list head
\* when i is one more than the length.
ListAddBefore(l, i, n) == InsertAt(l, i, n)

\* A node is linked at most once.
NoDup(s) == \A i, j \in DOMAIN s : s[i] = s[j] => i = j

=============================================================================
