-------------------------------- MODULE List --------------------------------
(***************************************************************************)
(* The circular lists of list.c, as functions from the links of all nodes  *)
(* to the links after a call: L[n] is the pair of pointers of node n, and  *)
(* a head is a node.  Whoever keeps lists has the links as a variable; an  *)
(* entry that was taken off, or whose memory went back, keeps what was     *)
(* last stored there.                                                      *)
(***************************************************************************)
EXTENDS Integers, Sequences

CONSTANT Null   \* the null pointer

list_init(L, head) == [L EXCEPT ![head] = [next |-> head, prev |-> head]]

\* list_insert(): four stores, in this order.
list_insert(L, new, prev, next) ==
    [L EXCEPT ![new] = [next |-> next, prev |-> prev],
              ![prev].next = new,
              ![next].prev = new]

list_add(L, new, head) == list_insert(L, new, head, L[head].next)

list_del(L, entry) ==
    [L EXCEPT ![L[entry].prev].next = L[entry].next,
              ![L[entry].next].prev = L[entry].prev,
              ![entry] = [next |-> Null, prev |-> Null]]

list_empty(L, head) == L[head].next = head

list_first(L, head) == L[head].next

\* Wrong: the list that was moved is not emptied (mutant).
list_splice_shared(L, list, head) ==
    IF list_empty(L, list) THEN L
    ELSE [L EXCEPT ![L[list].next].prev = head,
                   ![head].next = L[list].next,
                   ![L[list].prev].next = L[head].next,
                   ![L[head].next].prev = L[list].prev]

\* list_splice(): the entries of list go in front of head's, list is empty.
list_splice(L, list, head) ==
    IF list_empty(L, list) THEN L
    ELSE list_init([L EXCEPT ![L[list].next].prev = head,
                             ![head].next = L[list].next,
                             ![L[list].prev].next = L[head].next,
                             ![L[head].next].prev = L[list].prev],
                   list)

\* What a loop such as that of list_size() meets from an entry on until it is
\* at head, cut off after max entries or at a pointer that leads to no node.
Walk(L, first, head, max) ==
    LET walk[k \in 0 .. max] ==
          IF k = 0 THEN [at |-> first, met |-> <<>>]
          ELSE LET w == walk[k - 1]
               IN  IF w.at = head \/ w.at \notin DOMAIN L THEN w
                   ELSE [at |-> L[w.at].next, met |-> Append(w.met, w.at)]
    IN  walk[max].met
=============================================================================
