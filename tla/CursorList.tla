----------------------------- MODULE CursorList -----------------------------
(***************************************************************************)
(* TemplateList<ObjectType> of the Windows client: a doubly linked list    *)
(* with one cursor, which its owner moves with QueryNext and under which   *)
(* it removes elements.  A list is a record of the class's fields and the  *)
(* set of the elements allocated for it; the links of an element outside   *)
(* that set are stale.                                                     *)
(***************************************************************************)
EXTENDS Integers, Sequences, FiniteSets

CONSTANTS
  Node,   \* addresses of TemplateObject elements
  NULL

ASSUME CursorListAssumption == NULL \notin Node

ListStatus == {"NO_QUERY", "QUERY_NEXT", "QUERY_PREVIOUS", "STOP_QUERY"}

Link == Node \cup {NULL}

TemplateList ==
  [nb_objects : Nat, Head : Link, Tail : Link, Current : Link,
   Querying : ListStatus, Greater : [Node -> Link], Lesser : [Node -> Link],
   nodes : SUBSET Node]

\* The constructor.
EmptyList ==
  [nb_objects |-> 0, Head |-> NULL, Tail |-> NULL, Current |-> NULL,
   Querying |-> "NO_QUERY", Greater |-> [n \in Node |-> NULL],
   Lesser |-> [n \in Node |-> NULL], nodes |-> {}]

ToHead(l) == [l EXCEPT !.Current = l.Head, !.Querying = "NO_QUERY"]

SetQueryState(l, status) == [l EXCEPT !.Querying = status]

\* Add the new element n at the tail; the cursor ends on it.
AddToTail(l, n) ==
  [nb_objects |-> l.nb_objects + 1,
   Head |-> IF l.Tail = NULL THEN n ELSE l.Head,
   Tail |-> n, Current |-> n, Querying |-> "NO_QUERY",
   Greater |-> [m \in Node |-> IF m = n THEN NULL
                               ELSE IF m = l.Tail THEN n ELSE l.Greater[m]],
   Lesser |-> [m \in Node |-> IF m = n THEN l.Tail ELSE l.Lesser[m]],
   nodes |-> l.nodes \cup {n}]

\* Deviation: only the forward links are changed.
UnlinkedOneWay(l) ==
  LET c == l.Current
  IN  [l EXCEPT
        !.nb_objects = @ - 1,
        !.nodes = @ \ {c},
        !.Greater = [m \in Node |-> IF c # l.Head /\ m = l.Lesser[c]
                                    THEN l.Greater[c] ELSE l.Greater[m]]]

\* The links of the neighbours of the element under the cursor lead past it.
Unlinked(l) ==
  LET c == l.Current
  IN  [l EXCEPT
        !.nb_objects = @ - 1,
        !.nodes = @ \ {c},
        !.Greater = [m \in Node |-> IF c # l.Head /\ m = l.Lesser[c]
                                    THEN IF c = l.Tail THEN NULL ELSE l.Greater[c]
                                    ELSE l.Greater[m]],
        !.Lesser = [m \in Node |-> IF c # l.Tail /\ m = l.Greater[c]
                                   THEN IF c = l.Head THEN NULL ELSE l.Lesser[c]
                                   ELSE l.Lesser[m]]]

\* Deviation: the cursor moves on to the next element at once.
AfterRemovalAhead(l) == l.Greater[l.Current]

\* Where the cursor goes from an element removed in the middle, so that the
\* query in progress goes on after it; without a query it stays on it.
AfterRemoval(l) ==
  IF l.Querying = "QUERY_NEXT" THEN l.Lesser[l.Current]
  ELSE IF l.Querying = "QUERY_PREVIOUS" THEN l.Greater[l.Current]
  ELSE l.Current

\* Remove the element under the cursor.
RemoveObject(l) ==
  LET u == Unlinked(l)
      c == l.Current
  IN  IF c # l.Tail /\ c # l.Head
      THEN [u EXCEPT !.Current = AfterRemoval(l)]
      ELSE IF c # l.Head
      THEN [u EXCEPT !.Tail = l.Lesser[c], !.Current = l.Lesser[c], !.Querying =
             IF @ = "QUERY_PREVIOUS" THEN "NO_QUERY" ELSE @]
      ELSE IF c # l.Tail
      THEN [u EXCEPT !.Head = l.Greater[c], !.Current = l.Greater[c], !.Querying =
             IF @ = "QUERY_NEXT" THEN "NO_QUERY" ELSE @]
      ELSE [u EXCEPT !.Head = NULL, !.Tail = NULL, !.Current = NULL,
                     !.Querying = "NO_QUERY"]

\* Move to the next element; the first call after ToHead stays on the head.
QueryNext(l) ==
  IF l.Querying = "STOP_QUERY" THEN l
  ELSE LET c == IF l.Querying = "NO_QUERY" \/ l.Current = NULL THEN l.Current
                ELSE l.Greater[l.Current]
       IN  [l EXCEPT !.Current = c, !.Querying =
              IF c = NULL THEN "NO_QUERY"
              ELSE IF @ = "NO_QUERY" THEN "QUERY_NEXT" ELSE @]

\* Deviation: the end of the list is not noticed.
QueriedPastTheEnd(l) == l.Querying # "STOP_QUERY"

\* What QueryNext returned, given the list it left.
Queried(l) == l.Current # NULL /\ l.Querying # "STOP_QUERY"

\* The list holds the elements of the sequence s, in this order.
Represents(l, s) ==
  LET n == l.nb_objects
  IN  /\ DOMAIN s = 1..n
      /\ \A i \in 1..n : s[i] \in l.nodes
      /\ \A m \in l.nodes : \E i \in 1..n : s[i] = m
      /\ \A i, j \in 1..n : s[i] = s[j] => i = j
      /\ l.Head = IF n = 0 THEN NULL ELSE s[1]
      /\ l.Tail = IF n = 0 THEN NULL ELSE s[n]
      /\ \A i \in 1..n :
           /\ l.Greater[s[i]] = IF i = n THEN NULL ELSE s[i + 1]
           /\ l.Lesser[s[i]] = IF i = 1 THEN NULL ELSE s[i - 1]
=============================================================================
