------------------------ MODULE VisibleObjectsProofs ------------------------
(***************************************************************************)
(* Proofs about VisualObjectList, for every set of objects, of elements    *)
(* and of moves.  The invariant follows one sequence s: what the list      *)
(* holds.  A walk is at one place of s, and visited is what lies before.   *)
(***************************************************************************)
EXTENDS VisibleObjects, TLAPS

-----------------------------------------------------------------------------
(* What the operations of TemplateList do to the sequence the list holds,  *)
(* for every set of elements.                                              *)

\* s with n after its last element.
Appended(s, count, n) == [i \in 1..(count + 1) |-> IF i <= count THEN s[i] ELSE n]

\* s without its k-th element.
Dropped(s, count, k) == [i \in 1..(count - 1) |-> IF i < k THEN s[i] ELSE s[i + 1]]

\* Moving the cursor does not change what the list holds.
LEMMA CursorIsApart ==
  ASSUME NEW l, NEW m, NEW s, Represents(l, s),
         m.nb_objects = l.nb_objects, m.nodes = l.nodes, m.Head = l.Head,
         m.Tail = l.Tail, m.Greater = l.Greater, m.Lesser = l.Lesser
  PROVE  Represents(m, s)
BY DEF Represents

\* The sequence may be taken as a function of the places.
LEMMA AsFunction ==
  ASSUME NEW l \in TemplateList, NEW s, Represents(l, s)
  PROVE  \E f \in [1..l.nb_objects -> l.nodes] :
           Represents(l, f) /\ \A k \in 1..l.nb_objects : f[k] = s[k]
<1> DEFINE f == [k \in 1..l.nb_objects |-> s[k]]
<1>1. l.nb_objects \in Nat
  BY DEF TemplateList
<1>2. \A k \in 1..l.nb_objects : s[k] \in l.nodes
  BY DEF Represents
<1>3. Represents(l, f)
  BY <1>1, <1>2 DEF Represents
<1>4. /\ f \in [1..l.nb_objects -> l.nodes]
      /\ \A k \in 1..l.nb_objects : f[k] = s[k]
  BY <1>2
<1> HIDE DEF f
<1> QED BY <1>3, <1>4

\* The tail is the head only in a list of at most one element.
LEMMA EndsOfTheList ==
  ASSUME NEW l \in TemplateList, NEW s, Represents(l, s),
         NEW k \in 1..l.nb_objects
  PROVE  /\ s[k] \in l.nodes /\ s[k] \in Node /\ s[k] # NULL
         /\ s[k] = l.Head <=> k = 1
         /\ s[k] = l.Tail <=> k = l.nb_objects
BY CursorListAssumption DEF Represents, TemplateList

\* AddToTail puts the new element after the others.
LEMMA AddToTailAppends ==
  ASSUME NEW l \in TemplateList, NEW s, Represents(l, s),
         NEW n \in Node \ l.nodes
  PROVE  /\ AddToTail(l, n) \in TemplateList
         /\ Represents(AddToTail(l, n), Appended(s, l.nb_objects, n))
<1> DEFINE count == l.nb_objects
           t == Appended(s, count, n)
           m == AddToTail(l, n)
<1>1. /\ count \in Nat /\ l.nodes \subseteq Node
      /\ l.Greater \in [Node -> Link] /\ l.Lesser \in [Node -> Link]
      /\ l.Head \in Link /\ l.Tail \in Link
  BY DEF TemplateList
<1>2. m \in TemplateList
  BY <1>1, CursorListAssumption DEF AddToTail, TemplateList, Link, ListStatus
<1>3. /\ m.nb_objects = count + 1 /\ m.nodes = l.nodes \cup {n}
      /\ m.Head = (IF l.Tail = NULL THEN n ELSE l.Head) /\ m.Tail = n
      /\ m.Greater = [e \in Node |-> IF e = n THEN NULL
                        ELSE IF e = l.Tail THEN n ELSE l.Greater[e]]
      /\ m.Lesser = [e \in Node |-> IF e = n THEN l.Tail ELSE l.Lesser[e]]
  BY DEF AddToTail
<1>4. \A i \in 1..count : s[i] \in l.nodes /\ s[i] # n /\ s[i] \in Node
  BY <1>1 DEF Represents
<1>5. /\ DOMAIN t = 1..(count + 1)
      /\ \A i \in 1..count : t[i] = s[i]
      /\ t[count + 1] = n
  BY <1>1 DEF Appended
<1>6. /\ \A i \in 1..(count + 1) : t[i] \in m.nodes
      /\ \A e \in m.nodes : \E i \in 1..(count + 1) : t[i] = e
  <2>1. ASSUME NEW i \in 1..(count + 1) PROVE t[i] \in m.nodes
    BY <1>1, <1>3, <1>4, <1>5
  <2>2. ASSUME NEW e \in m.nodes PROVE \E i \in 1..(count + 1) : t[i] = e
    <3>1. CASE e = n
      BY <3>1, <1>1, <1>5
    <3>2. CASE e # n
      <4>1. PICK i \in 1..count : s[i] = e
        BY <3>2, <1>3 DEF Represents
      <4> QED BY <4>1, <1>1, <1>5
    <3> QED BY <3>1, <3>2
  <2> QED BY <2>1, <2>2
<1>7. ASSUME NEW i \in 1..(count + 1), NEW j \in 1..(count + 1), t[i] = t[j]
      PROVE  i = j
  <2>1. CASE i <= count /\ j <= count
    <3>1. s[i] = s[j]
      BY <2>1, <1>1, <1>5, <1>7
    <3> QED BY <2>1, <3>1, <1>1 DEF Represents
  <2>2. CASE i = count + 1 \/ j = count + 1
    BY <2>2, <1>1, <1>4, <1>5, <1>7
  <2> QED BY <2>1, <2>2, <1>1
<1>8. m.Head = t[1] /\ m.Tail = t[count + 1]
  <2>1. CASE count = 0
    BY <2>1, <1>3, <1>5 DEF Represents
  <2>2. CASE count # 0
    BY <2>2, <1>1, <1>3, <1>4, <1>5, CursorListAssumption DEF Represents
  <2> QED BY <2>1, <2>2
<1>9. ASSUME NEW i \in 1..(count + 1)
      PROVE  m.Greater[t[i]] = IF i = count + 1 THEN NULL ELSE t[i + 1]
  <2>1. CASE i = count + 1
    BY <2>1, <1>3, <1>5
  <2>2. CASE i = count
    BY <2>2, <1>1, <1>3, <1>4, <1>5 DEF Represents
  <2>3. CASE i < count
    <3>1. s[i] # l.Tail /\ l.Greater[s[i]] = s[i + 1]
      BY <2>3, <1>1 DEF Represents
    <3>0. i \in 1..count /\ i + 1 \in 1..count
      BY <2>3, <1>1
    <3>2. t[i] = s[i] /\ t[i + 1] = s[i + 1] /\ s[i] # n /\ s[i] \in Node
      BY <3>0, <1>4, <1>5
    <3>3. m.Greater[s[i]] = l.Greater[s[i]]
      BY <3>1, <3>2, <1>3
    <3>4. count \in Nat /\ i # count + 1
      BY <2>3, <1>1
    <3> QED BY <3>1, <3>2, <3>3, <3>4
  <2> QED BY <2>1, <2>2, <2>3, <1>1
<1>10. ASSUME NEW i \in 1..(count + 1)
       PROVE  m.Lesser[t[i]] = IF i = 1 THEN NULL ELSE t[i - 1]
  <2>1. CASE i = count + 1
    BY <2>1, <1>1, <1>3, <1>5 DEF Represents
  <2>2. CASE i < count + 1
    <3>1. l.Lesser[s[i]] = IF i = 1 THEN NULL ELSE s[i - 1]
      BY <2>2, <1>1 DEF Represents
    <3>2. t[i] = s[i] /\ s[i] # n /\ s[i] \in Node
      BY <2>2, <1>1, <1>4, <1>5
    <3>3. i # 1 => t[i - 1] = s[i - 1]
      BY <2>2, <1>1, <1>5
    <3> QED BY <3>1, <3>2, <3>3, <1>3
  <2> QED BY <2>1, <2>2, <1>1
<1> HIDE DEF m, t
<1>11. Represents(m, t)
  BY <1>1, <1>3, <1>5, <1>6, <1>7, <1>8, <1>9, <1>10 DEF Represents
<1> QED BY <1>2, <1>11 DEF m, t

\* RemoveObject takes the element under the cursor out of the sequence, and
\* the query goes on with the element after it.
LEMMA RemoveObjectDrops ==
  ASSUME NEW l \in TemplateList, NEW s, Represents(l, s),
         NEW k \in 1..l.nb_objects, l.Current = s[k]
  PROVE  LET t == Dropped(s, l.nb_objects, k)
             m == RemoveObject(l)
         IN  /\ m \in TemplateList
             /\ m.nb_objects = l.nb_objects - 1 /\ m.nodes = l.nodes \ {s[k]}
             /\ Represents(m, t)
             /\ l.Querying = "QUERY_NEXT" =>
                  IF k = 1 THEN m.Querying = "NO_QUERY" /\ m.Current = m.Head
                  ELSE m.Querying = "QUERY_NEXT" /\ m.Current = t[k - 1]
<1> DEFINE count == l.nb_objects
           c == s[k]
           t == Dropped(s, count, k)
           m == RemoveObject(l)
<1>1. /\ count \in Nat /\ count > 0 /\ k \in 1..count /\ l.nodes \subseteq Node
      /\ l.Greater \in [Node -> Link] /\ l.Lesser \in [Node -> Link]
      /\ l.Head \in Link /\ l.Tail \in Link /\ l.Current = c
      /\ l.Querying \in ListStatus
  BY DEF TemplateList
<1>2. /\ \A i \in 1..count : s[i] \in l.nodes /\ s[i] \in Node /\ s[i] # NULL
      /\ \A i, j \in 1..count : s[i] = s[j] => i = j
      /\ \A i \in 1..count : l.Greater[s[i]] = IF i = count THEN NULL ELSE s[i + 1]
      /\ \A i \in 1..count : l.Lesser[s[i]] = IF i = 1 THEN NULL ELSE s[i - 1]
      /\ l.Head = s[1] /\ l.Tail = s[count]
      /\ \A e \in l.nodes : \E i \in 1..count : s[i] = e
  <2>1. /\ \A i \in 1..count : s[i] \in l.nodes
        /\ \A i, j \in 1..count : s[i] = s[j] => i = j
        /\ \A e \in l.nodes : \E i \in 1..count : s[i] = e
    BY DEF Represents
  <2>2. /\ \A i \in 1..count : l.Greater[s[i]] = IF i = count THEN NULL ELSE s[i + 1]
        /\ \A i \in 1..count : l.Lesser[s[i]] = IF i = 1 THEN NULL ELSE s[i - 1]
    BY DEF Represents
  <2>3. l.Head = s[1] /\ l.Tail = s[count]
    BY <1>1 DEF Represents
  <2>4. \A i \in 1..count : s[i] \in Node /\ s[i] # NULL
    BY <1>1, <2>1, CursorListAssumption
  <2> QED BY <2>1, <2>2, <2>3, <2>4
<1>3. /\ c = l.Head <=> k = 1
      /\ c = l.Tail <=> k = count
  BY <1>1, <1>2
<1>4. m \in TemplateList
  <2> DEFINE u == Unlinked(l)
  <2>1. l.Greater[c] \in Link /\ l.Lesser[c] \in Link /\ c \in Link
    BY <1>1, <1>2 DEF Link
  <2>2. u \in TemplateList /\ u.Querying = l.Querying
    <3>1. l.nb_objects - 1 \in Nat /\ NULL \in Link
      BY <1>1 DEF Link
    <3> QED BY <1>1, <2>1, <3>1 DEF Unlinked, TemplateList
  <2> HIDE DEF u
  <2>3. AfterRemoval(l) \in Link
    BY <1>1, <2>1 DEF AfterRemoval
  <2>4. /\ NULL \in Link
        /\ {"NO_QUERY", u.Querying} \subseteq ListStatus
    BY <1>1, <2>2 DEF Link, ListStatus
  <2>5. \A h, e, a \in Link : \A q \in ListStatus :
          /\ [u EXCEPT !.Current = a] \in TemplateList
          /\ [u EXCEPT !.Tail = e, !.Current = a, !.Querying = q] \in TemplateList
          /\ [u EXCEPT !.Head = h, !.Current = a, !.Querying = q] \in TemplateList
          /\ [u EXCEPT !.Head = h, !.Tail = e, !.Current = a, !.Querying = q]
               \in TemplateList
    BY <2>2 DEF TemplateList
  <2> QED BY <1>1, <2>1, <2>3, <2>4, <2>5 DEF RemoveObject, u
<1>5. /\ m.nb_objects = count - 1 /\ m.nodes = l.nodes \ {c}
      /\ m.Head = IF k # 1 THEN l.Head ELSE IF k # count THEN l.Greater[c] ELSE NULL
      /\ m.Tail = IF k # count THEN l.Tail ELSE IF k # 1 THEN l.Lesser[c] ELSE NULL
      /\ m.Greater = [e \in Node |->
           IF k # 1 /\ e = l.Lesser[c]
           THEN IF k = count THEN NULL ELSE l.Greater[c] ELSE l.Greater[e]]
      /\ m.Lesser = [e \in Node |->
           IF k # count /\ e = l.Greater[c]
           THEN IF k = 1 THEN NULL ELSE l.Lesser[c] ELSE l.Lesser[e]]
  <2>1. m.Greater = Unlinked(l).Greater /\ m.Lesser = Unlinked(l).Lesser
    BY DEF RemoveObject, Unlinked, TemplateList
  <2>2. /\ m.nb_objects = count - 1 /\ m.nodes = l.nodes \ {c}
        /\ m.Head = IF k # 1 THEN l.Head ELSE IF k # count THEN l.Greater[c] ELSE NULL
        /\ m.Tail = IF k # count THEN l.Tail ELSE IF k # 1 THEN l.Lesser[c] ELSE NULL
    BY <1>1, <1>3 DEF RemoveObject, Unlinked, TemplateList
  <2> QED BY <1>1, <1>3, <2>1, <2>2 DEF Unlinked, TemplateList
<1>6. l.Querying = "QUERY_NEXT" =>
        IF k = 1 THEN m.Querying = "NO_QUERY" /\ m.Current = m.Head
        ELSE m.Querying = "QUERY_NEXT" /\ m.Current = l.Lesser[c]
  BY <1>1, <1>3 DEF RemoveObject, Unlinked, AfterRemoval, TemplateList
<1> HIDE DEF m
<1>7. /\ DOMAIN t = 1..(count - 1)
      /\ \A i \in 1..(count - 1) :
           /\ i < k => i \in 1..count /\ t[i] = s[i]
           /\ i >= k => i + 1 \in 1..count /\ t[i] = s[i + 1]
  BY <1>1 DEF Dropped
<1> HIDE DEF t
<1>8. /\ \A i \in 1..(count - 1) : t[i] \in m.nodes
      /\ \A e \in m.nodes : \E i \in 1..(count - 1) : t[i] = e
  <2>1. ASSUME NEW i \in 1..(count - 1) PROVE t[i] \in m.nodes
    <3>1. CASE i < k
      BY <3>1, <1>1, <1>2, <1>5, <1>7
    <3>2. CASE i >= k
      <4>1. i + 1 \in 1..count /\ i + 1 # k /\ t[i] = s[i + 1]
        BY <3>2, <1>1, <1>7
      <4> QED BY <4>1, <1>1, <1>2, <1>5
    <3> QED BY <3>1, <3>2, <1>1
  <2>2. ASSUME NEW e \in m.nodes PROVE \E i \in 1..(count - 1) : t[i] = e
    <3>1. PICK i \in 1..count : s[i] = e
      BY <1>2, <1>5
    <3>2. i # k
      BY <3>1, <1>5
    <3>3. CASE i < k
      <4>1. i \in 1..(count - 1)
        BY <3>3, <1>1
      <4> QED BY <3>1, <3>3, <4>1, <1>7
    <3>4. CASE i > k
      <4>1. i - 1 \in 1..(count - 1) /\ i - 1 >= k /\ (i - 1) + 1 = i
        BY <3>4, <1>1
      <4> QED BY <3>1, <4>1, <1>7
    <3> QED BY <3>2, <3>3, <3>4, <1>1
  <2> QED BY <2>1, <2>2
<1>9. ASSUME NEW i \in 1..(count - 1), NEW j \in 1..(count - 1), t[i] = t[j]
      PROVE  i = j
  <2> DEFINE At(x) == IF x < k THEN x ELSE x + 1
  <2>1. \A x \in 1..(count - 1) : At(x) \in 1..count /\ t[x] = s[At(x)]
    BY <1>1, <1>7
  <2>2. At(i) = At(j)
    BY <2>1, <1>2, <1>9
  <2> QED BY <2>2, <1>1
<1>10. /\ m.Head = IF count - 1 = 0 THEN NULL ELSE t[1]
       /\ m.Tail = IF count - 1 = 0 THEN NULL ELSE t[count - 1]
  <2>1. CASE count = 1
    BY <2>1, <1>1, <1>5
  <2>2. CASE count > 1
    <3>1. 1 \in 1..(count - 1) /\ count - 1 \in 1..(count - 1)
      BY <2>2, <1>1
    <3>2. /\ k = 1 => t[1] = s[2] /\ l.Greater[c] = s[2]
          /\ k # 1 => t[1] = s[1]
      BY <2>2, <3>1, <1>1, <1>2, <1>7
    <3>3. /\ k = count => t[count - 1] = s[count - 1] /\ l.Lesser[c] = s[count - 1]
          /\ k # count => t[count - 1] = s[count]
      BY <2>2, <3>1, <1>1, <1>2, <1>7
    <3> QED BY <2>2, <3>2, <3>3, <1>1, <1>2, <1>5
  <2> QED BY <2>1, <2>2, <1>1
<1>11. ASSUME NEW i \in 1..(count - 1)
       PROVE  m.Greater[t[i]] = IF i = count - 1 THEN NULL ELSE t[i + 1]
  <2>1. CASE i < k - 1
    <3>1. /\ i \in 1..count /\ i + 1 \in 1..(count - 1) /\ i + 1 < k /\ k - 1 \in 1..count
          /\ i # k - 1 /\ k # 1 /\ i # count /\ i # count - 1
      BY <2>1, <1>1
    <3>2. t[i] = s[i] /\ t[i + 1] = s[i + 1] /\ l.Lesser[c] = s[k - 1]
      BY <2>1, <3>1, <1>1, <1>2, <1>7
    <3>3. s[i] # s[k - 1] /\ s[i] \in Node /\ l.Greater[s[i]] = s[i + 1]
      BY <3>1, <1>2
    <3> QED BY <3>1, <3>2, <3>3, <1>5
  <2>2. CASE i = k - 1
    <3>1. /\ i \in 1..count /\ i < k /\ k # 1
          /\ i = count - 1 <=> k = count
          /\ k # count => i + 1 \in 1..(count - 1) /\ i + 1 >= k /\ i + 2 = k + 1
      BY <2>2, <1>1
    <3>2. /\ t[i] = s[k - 1] /\ l.Lesser[c] = s[k - 1] /\ s[k - 1] \in Node
          /\ k # count => t[i + 1] = s[k + 1] /\ l.Greater[c] = s[k + 1]
      BY <2>2, <3>1, <1>1, <1>2, <1>7
    <3> QED BY <3>1, <3>2, <1>5
  <2>3. CASE i >= k
    <3>1. /\ i + 1 \in 1..count /\ i + 1 # k - 1 /\ i >= k
          /\ i = count - 1 <=> i + 1 = count
          /\ i # count - 1 => i + 1 \in 1..(count - 1) /\ i + 1 >= k
          /\ k # 1 => k - 1 \in 1..count
      BY <2>3, <1>1
    <3>2. t[i] = s[i + 1] /\ (i # count - 1 => t[i + 1] = s[(i + 1) + 1])
      BY <3>1, <1>7
    <3>3. /\ k # 1 => l.Lesser[c] = s[k - 1] /\ s[i + 1] # s[k - 1]
          /\ s[i + 1] \in Node
          /\ l.Greater[s[i + 1]] = IF i + 1 = count THEN NULL ELSE s[(i + 1) + 1]
      BY <3>1, <1>1, <1>2
    <3> QED BY <3>1, <3>2, <3>3, <1>5
  <2> QED BY <2>1, <2>2, <2>3, <1>1
<1>12. ASSUME NEW i \in 1..(count - 1)
       PROVE  m.Lesser[t[i]] = IF i = 1 THEN NULL ELSE t[i - 1]
  <2>1. CASE i < k
    <3>1. /\ i \in 1..count /\ i # k + 1 /\ (k # count => k + 1 \in 1..count)
          /\ i # 1 => i - 1 \in 1..(count - 1) /\ i - 1 < k
      BY <2>1, <1>1
    <3>2. t[i] = s[i] /\ (i # 1 => t[i - 1] = s[i - 1])
      BY <2>1, <3>1, <1>7
    <3>3. /\ k # count => l.Greater[c] = s[k + 1] /\ s[i] # s[k + 1]
          /\ s[i] \in Node
          /\ l.Lesser[s[i]] = IF i = 1 THEN NULL ELSE s[i - 1]
      BY <3>1, <1>1, <1>2
    <3> QED BY <3>1, <3>2, <3>3, <1>5
  <2>2. CASE i = k
    <3>1. /\ k # count /\ k + 1 \in 1..count /\ i >= k /\ i = k
          /\ k # 1 => i - 1 \in 1..(count - 1) /\ i - 1 < k
      BY <2>2, <1>1
    <3>2. /\ t[i] = s[k + 1] /\ l.Greater[c] = s[k + 1] /\ s[k + 1] \in Node
          /\ k # 1 => t[i - 1] = s[k - 1] /\ l.Lesser[c] = s[k - 1]
      BY <3>1, <1>1, <1>2, <1>7
    <3> QED BY <3>1, <3>2, <1>5
  <2>3. CASE i > k
    <3>1. /\ k # count /\ k + 1 \in 1..count /\ i + 1 \in 1..count /\ i + 1 # k + 1
          /\ i >= k /\ i - 1 \in 1..(count - 1) /\ i - 1 >= k /\ i # 1
          /\ (i - 1) + 1 = i /\ (i + 1) - 1 = i /\ i + 1 # 1
      BY <2>3, <1>1
    <3>2. t[i] = s[i + 1] /\ t[i - 1] = s[(i - 1) + 1]
      BY <3>1, <1>7
    <3>3. /\ l.Greater[c] = s[k + 1] /\ s[i + 1] # s[k + 1] /\ s[i + 1] \in Node
          /\ l.Lesser[s[i + 1]] = s[(i + 1) - 1]
      BY <3>1, <1>1, <1>2
    <3> QED BY <3>1, <3>2, <3>3, <1>5
  <2> QED BY <2>1, <2>2, <2>3, <1>1
<1>13. Represents(m, t)
  BY <1>1, <1>5, <1>7, <1>8, <1>9, <1>10, <1>11, <1>12 DEF Represents
<1>14. k # 1 => t[k - 1] = l.Lesser[c]
  <2>1. k # 1 => k - 1 \in 1..(count - 1) /\ k - 1 < k
    BY <1>1
  <2> QED BY <2>1, <1>1, <1>2, <1>7
<1> QED BY <1>4, <1>5, <1>6, <1>13, <1>14 DEF m, t

\* QueryNext goes from the k-th element to the next, from ToHead to the first,
\* and off the end of the list after the last.
LEMMA QueryNextSteps ==
  ASSUME NEW l \in TemplateList, NEW s, Represents(l, s),
         NEW k \in 0..l.nb_objects,
         IF k = 0 THEN l.Querying = "NO_QUERY" /\ l.Current = l.Head
         ELSE l.Querying = "QUERY_NEXT" /\ l.Current = s[k]
  PROVE  LET m == QueryNext(l)
         IN  /\ m \in TemplateList
             /\ Represents(m, s)
             /\ m.nb_objects = l.nb_objects /\ m.nodes = l.nodes
             /\ Queried(m) <=> k # l.nb_objects
             /\ k # l.nb_objects =>
                  m.Querying = "QUERY_NEXT" /\ m.Current = s[k + 1]
<1> DEFINE m == QueryNext(l)
           next == IF k = 0 THEN l.Head ELSE l.Greater[s[k]]
<1>1. l.nb_objects \in Nat /\ l.Head \in Link /\ l.Greater \in [Node -> Link]
  BY DEF TemplateList
<1>2. k # 0 => s[k] \in Node /\ s[k] # NULL
  BY <1>1, EndsOfTheList
<1>3. next = IF k = l.nb_objects THEN NULL ELSE s[k + 1]
  BY <1>1 DEF Represents
<1>4. k # l.nb_objects => s[k + 1] # NULL
  BY <1>1, EndsOfTheList
<1>5. next \in Link
  BY <1>1, <1>2
<1>6. m = [l EXCEPT !.Current = next,
                    !.Querying = IF next = NULL THEN "NO_QUERY" ELSE "QUERY_NEXT"]
  BY <1>2 DEF QueryNext, TemplateList
<1>7. m \in TemplateList
  BY <1>5, <1>6 DEF TemplateList, ListStatus
<1>8. Represents(m, s)
  BY <1>6, CursorIsApart DEF TemplateList
<1> QED BY <1>3, <1>4, <1>6, <1>7, <1>8 DEF Queried, TemplateList

-----------------------------------------------------------------------------
(* The invariant.                                                          *)

Walking == {"look", "summon", "kill"}

\* Which step belongs to which handler.
Control ==
  /\ op = "none" => pc = "idle"
  /\ op = "Delete" => pc = "kill"
  /\ op = "Replace" => pc = "delete" /\ arg \in IDs
  /\ op = "DeleteAll" => pc \in {"query", "look", "kill", "end"} /\ visited = <<>>
  /\ op = "MovePlayer" =>
       pc \in {"query", "look", "kill", "end", "scenery"} /\ arg \in Int \X Int
  /\ op = "Sort" => pc \in {"query", "look", "summon", "kill", "end", "compare"}

\* The walk has kept the first Len(visited) elements, in order.
Passed(s) == \A i \in 1..Len(visited) : visited[i] = s[i]

\* Before QueryNext the cursor is on the last element kept.
AtQuery(s) ==
  /\ Passed(s) /\ Len(visited) <= list.nb_objects
  /\ IF Len(visited) = 0
     THEN list.Querying = "NO_QUERY" /\ list.Current = list.Head
     ELSE list.Querying = "QUERY_NEXT" /\ list.Current = s[Len(visited)]

\* After it, on the next one.
AtElement(s) ==
  /\ Passed(s) /\ Len(visited) < list.nb_objects
  /\ list.Querying = "QUERY_NEXT" /\ list.Current = s[Len(visited) + 1]

\* The arrays of Sort hold every element once.
Arrayed ==
  /\ Len(visited) = list.nb_objects
  /\ \A i \in 1..list.nb_objects : visited[i] \in list.nodes
  /\ \A m \in list.nodes : \E i \in 1..list.nb_objects : visited[i] = m
  /\ \A i, j \in 1..list.nb_objects : visited[i] = visited[j] => i = j

Place(s) ==
  /\ pc = "query" => AtQuery(s)
  /\ pc \in Walking /\ op # "Delete" => AtElement(s)
  /\ pc = "end" => Passed(s) /\ Len(visited) = list.nb_objects
  /\ op = "Delete" => list.Current \in list.nodes /\ list.Querying = "QUERY_NEXT"
  /\ pc = "compare" =>
       Arrayed /\ 1 <= loop.i /\ loop.i < loop.j

\* Sort adds an object only to kill another next.
Allocated ==
  op = "Sort" => nbUnit <= size \/ (pc = "kill" /\ nbUnit <= size + 1)

ListInv ==
  /\ nbUnit = list.nb_objects
  /\ \E s \in [1..list.nb_objects -> list.nodes] : Represents(list, s) /\ Place(s)

IInv == TypeOK /\ Control /\ ListInv /\ Allocated

Loop == [pass : Nat, i : Nat, j : Nat, sorting : BOOLEAN]

-----------------------------------------------------------------------------
\* What the helpers of the handlers do.

\* The library's sequences start at 1.
LEMMA Listed ==
  ASSUME TypeOK, NEW s, Represents(list, s)
  PROVE  /\ list.nb_objects \in Nat /\ list.nodes \subseteq Node
         /\ \A k \in 1..list.nb_objects : s[k] \in list.nodes
BY DEF TypeOK, TemplateList, Represents

\* A search finds an object of the list and leaves the list as it is.
LEMMA SearchFinds ==
  ASSUME TypeOK, NEW id, NEW l \in Searched(id)
  PROVE  /\ l \in TemplateList
         /\ l.nb_objects = list.nb_objects /\ l.nodes = list.nodes
         /\ \A s : Represents(list, s) => Represents(l, s)
         /\ id \in IDs => /\ l.Current \in list.nodes /\ l.Current \in Node
                          /\ obj[l.Current].ID = id
<1>1. list \in TemplateList /\ list.nodes \subseteq Node
  BY DEF TypeOK, TemplateList
<1>2. \A n \in First(id) : n \in list.nodes /\ n \in Node /\ obj[n].ID = id
  BY <1>1 DEF First
<1>3. CASE id \in IDs
  <2>1. PICK n \in First(id) :
          l = [list EXCEPT !.Current = n, !.Querying = "STOP_QUERY"]
    BY <1>3 DEF Searched
  <2>2. l \in TemplateList
    BY <1>1, <1>2, <2>1 DEF TemplateList, Link, ListStatus
  <2>3. /\ l.nb_objects = list.nb_objects /\ l.nodes = list.nodes
        /\ l.Head = list.Head /\ l.Tail = list.Tail
        /\ l.Greater = list.Greater /\ l.Lesser = list.Lesser /\ l.Current = n
    BY <1>1, <2>1 DEF TemplateList
  <2> QED BY <1>2, <2>2, <2>3, CursorIsApart
<1>4. CASE id \notin IDs
  <2>1. l = [list EXCEPT !.Current = NULL, !.Querying = "NO_QUERY"]
    BY <1>4 DEF Searched
  <2>2. l \in TemplateList
    BY <1>1, <2>1 DEF TemplateList, Link, ListStatus
  <2>3. /\ l.nb_objects = list.nb_objects /\ l.nodes = list.nodes
        /\ l.Head = list.Head /\ l.Tail = list.Tail
        /\ l.Greater = list.Greater /\ l.Lesser = list.Lesser
    BY <1>1, <2>1 DEF TemplateList
  <2> QED BY <1>4, <2>2, <2>3, CursorIsApart
<1> QED BY <1>3, <1>4

\* Setting the query state leaves the list as it is.
LEMMA SetQueryStateIsApart ==
  ASSUME NEW l \in TemplateList, NEW status \in ListStatus
  PROVE  LET m == SetQueryState(l, status)
         IN  /\ m \in TemplateList
             /\ m.nb_objects = l.nb_objects /\ m.nodes = l.nodes
             /\ m.Current = l.Current /\ m.Querying = status
             /\ \A s : Represents(l, s) => Represents(m, s)
<1> DEFINE m == SetQueryState(l, status)
<1>1. m \in TemplateList
  BY DEF SetQueryState, TemplateList
<1>2. /\ m.nb_objects = l.nb_objects /\ m.nodes = l.nodes
      /\ m.Head = l.Head /\ m.Tail = l.Tail
      /\ m.Greater = l.Greater /\ m.Lesser = l.Lesser
      /\ m.Current = l.Current /\ m.Querying = status
  BY DEF SetQueryState, TemplateList
<1> QED BY <1>1, <1>2, CursorIsApart

\* ToHead leaves the list as it is.
LEMMA ToHeadIsApart ==
  ASSUME NEW l \in TemplateList
  PROVE  LET m == ToHead(l)
         IN  /\ m \in TemplateList
             /\ m.nb_objects = l.nb_objects /\ m.nodes = l.nodes
             /\ m.Querying = "NO_QUERY" /\ m.Current = m.Head
             /\ \A s : Represents(l, s) => Represents(m, s)
<1> DEFINE m == ToHead(l)
<1>1. m \in TemplateList
  BY DEF ToHead, TemplateList, ListStatus
<1>2. /\ m.nb_objects = l.nb_objects /\ m.nodes = l.nodes
      /\ m.Head = l.Head /\ m.Tail = l.Tail
      /\ m.Greater = l.Greater /\ m.Lesser = l.Lesser
      /\ m.Querying = "NO_QUERY" /\ m.Current = l.Head
  BY DEF ToHead, TemplateList
<1> QED BY <1>1, <1>2, CursorIsApart

\* RestorePointer puts the cursor back and leaves the list as it is.
LEMMA RestorePointerIsApart ==
  ASSUME TypeOK, NEW l \in TemplateList
  PROVE  LET m == RestorePointer(l)
         IN  /\ m \in TemplateList
             /\ m.nb_objects = l.nb_objects /\ m.nodes = l.nodes
             /\ m.Current = list.Current /\ m.Querying = list.Querying
             /\ m.Head = l.Head
             /\ \A s : Represents(l, s) => Represents(m, s)
<1> DEFINE m == RestorePointer(l)
<1>0. list \in TemplateList
  BY DEF TypeOK
<1>1. m \in TemplateList
  BY <1>0 DEF RestorePointer, TemplateList
<1>2. /\ m.nb_objects = l.nb_objects /\ m.nodes = l.nodes
      /\ m.Head = l.Head /\ m.Tail = l.Tail
      /\ m.Greater = l.Greater /\ m.Lesser = l.Lesser
      /\ m.Current = list.Current /\ m.Querying = list.Querying
  BY <1>0 DEF RestorePointer, TemplateList
<1> QED BY <1>1, <1>2, CursorIsApart

\* The objects made by Add are objects.
LEMMA NewObjectIsOne ==
  ASSUME SpellID \in Int, NEW id \in Int, NEW type \in Names,
         NEW pos \in Position, NEW effect \in Names, NEW child \in Names
  PROVE  NewObject(id, type, pos, effect, child) \in TFCObject
<1> DEFINE i == IF type = "SERAPH" THEN SpellID ELSE id
           u == IF type = "SERAPH" THEN "PLAYER" ELSE NONE
<1>1. NewObject(id, type, pos, effect, child) =
        [ID |-> i, NewID |-> id, Type |-> type,
         pos |-> pos, DeleteMe |-> FALSE, Moving |-> FALSE, SummonID |-> u,
         spellEffectID |-> effect, spellChildID |-> child]
  BY DEF NewObject
<1>2. i \in Int
  OBVIOUS
<1>3. u \in Names
  BY VisibleObjectsAssumption DEF NONE
<1> HIDE DEF i, u
<1> QED BY <1>1, <1>2, <1>3 DEF TFCObject

\* What Add does to the list: at most one new element, after the others, and
\* in the middle of a walk the cursor where it was.
Grown(s, t, saved) ==
  /\ list' \in TemplateList /\ Represents(list', t)
  /\ t \in [1..list'.nb_objects -> list'.nodes]
  /\ list.nodes \subseteq list'.nodes
  /\ list'.nb_objects \in {list.nb_objects, list.nb_objects + 1}
  /\ \A k \in 1..list.nb_objects : t[k] = s[k]
  /\ saved => list'.Current = list.Current /\ list'.Querying = list.Querying

LEMMA AddGrows ==
  ASSUME IInv, NEW s, Represents(list, s), NEW STATE objects, NEW STATE id,
         NEW STATE type, NEW STATE pos, NEW STATE effect, NEW STATE child,
         NEW saved \in BOOLEAN, Add(objects, id, type, pos, effect, child, saved)
  PROVE  /\ \E t : Grown(s, t, saved)
         /\ nbUnit' = list'.nb_objects
         /\ \/ obj' = objects /\ list'.nodes = list.nodes
            \/ \E n \in Node \ list.nodes :
                 /\ obj' = [objects EXCEPT ![n] = NewObject(id, type, pos, effect, child)]
                 /\ list'.nodes = list.nodes \cup {n}
<1>1. /\ TypeOK /\ list \in TemplateList /\ nbUnit = list.nb_objects
      /\ list.nb_objects \in Nat
  BY DEF IInv, ListInv, TypeOK, TemplateList
<1>2. \A k \in 1..list.nb_objects : s[k] \in list.nodes
  BY <1>1, Listed
<1>3. CASE AlreadyHere(id)
  <2>0. PICK f \in [1..list.nb_objects -> list.nodes] :
          Represents(list, f) /\ \A k \in 1..list.nb_objects : f[k] = s[k]
    BY <1>1, AsFunction
  <2>1. PICK l \in Searched(id) :
          /\ list' = IF saved THEN RestorePointer(l) ELSE l
          /\ obj' = objects /\ nbUnit' = nbUnit
    BY <1>3 DEF Add
  <2>2. /\ l \in TemplateList /\ l.nb_objects = list.nb_objects
        /\ l.nodes = list.nodes
    BY <1>1, SearchFinds
  <2>3. Represents(l, f)
    BY <2>0, <1>1, SearchFinds
  <2>4. /\ list' \in TemplateList /\ Represents(list', f)
        /\ list'.nb_objects = list.nb_objects /\ list'.nodes = list.nodes
        /\ saved => list'.Current = list.Current /\ list'.Querying = list.Querying
    BY <1>1, <2>1, <2>2, <2>3, RestorePointerIsApart
  <2>5. Grown(s, f, saved)
    BY <1>1, <2>0, <2>4 DEF Grown
  <2> QED BY <1>1, <2>1, <2>4, <2>5
<1>4. CASE ~ AlreadyHere(id)
  <2>1. PICK n \in Node \ list.nodes :
          /\ list' = IF saved THEN RestorePointer(AddToTail(list, n))
                     ELSE AddToTail(list, n)
          /\ obj' = [objects EXCEPT ![n] = NewObject(id, type, pos, effect, child)]
          /\ nbUnit' = nbUnit + 1
    BY <1>4 DEF Add
  <2> DEFINE l == AddToTail(list, n)
             t == Appended(s, list.nb_objects, n)
  <2>2. l \in TemplateList /\ Represents(l, t)
    BY <1>1, <2>1, AddToTailAppends
  <2>3. l.nb_objects = list.nb_objects + 1 /\ l.nodes = list.nodes \cup {n}
    BY DEF AddToTail
  <2>4. /\ \A k \in 1..list.nb_objects : t[k] = s[k]
        /\ t \in [1..(list.nb_objects + 1) -> list.nodes \cup {n}]
    BY <1>1, <1>2 DEF Appended
  <2> HIDE DEF l, t
  <2>5. /\ list' \in TemplateList /\ Represents(list', t)
        /\ list'.nb_objects = list.nb_objects + 1
        /\ list'.nodes = list.nodes \cup {n}
        /\ saved => list'.Current = list.Current /\ list'.Querying = list.Querying
    BY <1>1, <2>1, <2>2, <2>3, RestorePointerIsApart DEF l
  <2>6. Grown(s, t, saved)
    BY <2>4, <2>5 DEF Grown
  <2> QED BY <1>1, <2>1, <2>5, <2>6
<1> QED BY <1>3, <1>4

Objects == [Node -> TFCObject \cup {NoObject}]

Packets == [at : {"ready", "load", "store"}, loaded : Int]

\* Add keeps the objects it finds.
LEMMA AddTypes ==
  ASSUME IInv, NEW STATE objects, objects \in Objects,
         \A n \in list.nodes : objects[n] \in TFCObject,
         NEW STATE id, NEW STATE type, NEW STATE pos,
         NEW STATE effect, NEW STATE child, NEW saved \in BOOLEAN,
         id \in Int, type \in Names, pos \in Position,
         effect \in Names, child \in Names,
         Add(objects, id, type, pos, effect, child, saved)
  PROVE  /\ list' \in TemplateList /\ nbUnit' \in Nat /\ obj' \in Objects
         /\ \A n \in list'.nodes : obj'[n] \in TFCObject
         /\ \A n \in list.nodes : obj'[n] = objects[n]
<1>1. PICK s : Represents(list, s)
  BY DEF IInv, ListInv
<1>2. PICK t : Grown(s, t, saved)
  BY <1>1, AddGrows
<1>3. list' \in TemplateList /\ nbUnit' \in Nat
  BY <1>1, <1>2, AddGrows DEF Grown, TemplateList
<1>4. NewObject(id, type, pos, effect, child) \in TFCObject
  BY NewObjectIsOne DEF IInv, TypeOK
<1>5. \/ obj' = objects /\ list'.nodes = list.nodes
      \/ \E n \in Node \ list.nodes :
           /\ obj' = [objects EXCEPT ![n] = NewObject(id, type, pos, effect, child)]
           /\ list'.nodes = list.nodes \cup {n}
  BY <1>1, AddGrows
<1>6. list.nodes \subseteq Node
  BY DEF IInv, TypeOK, TemplateList
<1> QED BY <1>3, <1>4, <1>5, <1>6 DEF Objects

\* The same, when Add is given the objects as they are.
LEMMA PlainAddTypes ==
  ASSUME IInv, NEW STATE id, NEW STATE type, NEW STATE pos,
         NEW STATE effect, NEW STATE child, NEW saved \in BOOLEAN,
         id \in Int, type \in Names, pos \in Position,
         effect \in Names, child \in Names,
         Add(obj, id, type, pos, effect, child, saved)
  PROVE  /\ list' \in TemplateList /\ nbUnit' \in Nat /\ obj' \in Objects
         /\ \A n \in list'.nodes : obj'[n] \in TFCObject
         /\ \A n \in list.nodes : obj'[n] = obj[n]
<1>1. obj \in Objects /\ \A n \in list.nodes : obj[n] \in TFCObject
  BY DEF IInv, TypeOK, Objects
<1> QED BY <1>1, AddTypes

\* Between two handlers the list and its count are all there is to say.
LEMMA IdleSuffices ==
  ASSUME TypeOK', op' = "none", pc' = "idle", nbUnit' = list'.nb_objects,
         NEW t, Represents(list', t)
  PROVE  IInv'
<1>1. list' \in TemplateList
  BY DEF TypeOK
<1>2. PICK f \in [1..list'.nb_objects -> list'.nodes] : Represents(list', f)
  BY <1>1, AsFunction
<1>3. Place(f)'
  BY DEF Place, Walking
<1>4. ListInv'
  BY <1>2, <1>3 DEF ListInv
<1> QED BY <1>4 DEF IInv, Control, Allocated

\* What one step adds to the list keeps the invariant, if no walk is on.
LEMMA IdleAdd ==
  ASSUME IInv, op = "none", UNCHANGED <<op, pc, arg, visited, size, loop>>,
         SpellID' \in Int, packet' \in Packets,
         NEW STATE id, NEW STATE type, NEW STATE pos,
         id \in Int, type \in Names, pos \in Position,
         Add(obj, id, type, pos, NONE, NONE, FALSE)
  PROVE  IInv'
<1>1. PICK s : Represents(list, s)
  BY DEF IInv, ListInv
<1>2. NONE \in Names
  BY VisibleObjectsAssumption DEF NONE
<1>3. /\ list' \in TemplateList /\ nbUnit' \in Nat /\ obj' \in Objects
      /\ \A n \in list'.nodes : obj'[n] \in TFCObject
  BY <1>2, PlainAddTypes
<1>4. TypeOK'
  BY <1>3 DEF IInv, TypeOK, Objects, Packets
<1>5. PICK t : Grown(s, t, FALSE)
  BY <1>1, AddGrows
<1>6. nbUnit' = list'.nb_objects
  BY <1>1, AddGrows
<1>7. pc' = "idle" /\ op' = "none"
  BY DEF IInv, Control
<1> QED BY <1>4, <1>5, <1>6, <1>7, IdleSuffices DEF Grown

-----------------------------------------------------------------------------
\* The packet thread.

LEMMA ArriveKeeps ==
  ASSUME IInv, NEW id \in ServerIDs, NEW a \in Arrivals, Arrive(id, a)
  PROVE  IInv'
<1>1. id \in Int /\ a.Type \in Names /\ a.pos \in Position
  BY VisibleObjectsAssumption
<1>2. SpellID' \in Int
  BY DEF Arrive, Taken, IInv, TypeOK
<1>3. /\ op = "none" /\ UNCHANGED <<op, pc, arg, visited, size, loop, packet>>
      /\ Add(obj, id, a.Type, a.pos, NONE, NONE, FALSE)
  BY DEF Arrive, PacketReady, Unlocked
<1>4. packet' \in Packets
  BY <1>3 DEF IInv, TypeOK, Packets
<1> QED BY <1>1, <1>2, <1>3, <1>4, IdleAdd

\* Nothing but SpellID and the packet thread's own place changes.
LEMMA CounterKeeps ==
  ASSUME IInv, UNCHANGED <<list, obj, nbUnit, op, pc, arg, visited, size, loop>>,
         SpellID' \in Int, packet' \in Packets
  PROVE  IInv'
<1>1. TypeOK'
  BY DEF IInv, TypeOK, Packets
<1>2. Control' /\ ListInv' /\ Allocated'
  BY DEF IInv, Control, IDs, ListInv, Place, AtQuery, AtElement, Passed,
         Arrayed, Allocated
<1> QED BY <1>1, <1>2 DEF IInv

LEMMA OwnEntranceKeeps ==
  ASSUME IInv, NEW pos \in Places, OwnEntrance(pos)
  PROVE  IInv'
<1>1. /\ SpellID \in Int /\ PlayerID \in Int /\ "SPELL" \in Names /\ pos \in Position
      /\ packet \in Packets
  BY VisibleObjectsAssumption DEF IInv, TypeOK, Packets
<1>2. /\ op = "none" /\ UNCHANGED <<op, pc, arg, visited, size, loop>>
      /\ \/ Add(obj, SpellID, "SPELL", pos, NONE, NONE, FALSE)
         \/ Add(obj, PlayerID, "SPELL", pos, NONE, NONE, FALSE)
         \/ UNCHANGED <<list, obj, nbUnit>>
      /\ SpellID' \in Int /\ packet' = [packet EXCEPT !.at = "load"]
  BY <1>1 DEF OwnEntrance, PacketReady, Unlocked
<1>3. packet' \in Packets
  BY <1>1, <1>2 DEF Packets
<1> QED BY <1>1, <1>2, <1>3, IdleAdd, CounterKeeps

LEMMA LoadSpellIDKeeps ==
  ASSUME IInv, LoadSpellID
  PROVE  IInv'
<1>1. SpellID \in Int
  BY DEF IInv, TypeOK
<1> QED BY <1>1, CounterKeeps DEF LoadSpellID, Packets

LEMMA StoreSpellIDKeeps ==
  ASSUME IInv, StoreSpellID
  PROVE  IInv'
<1>1. packet.loaded - 1 \in Int
  BY DEF IInv, TypeOK
<1>2. Ready \in Packets
  BY DEF Ready, Packets
<1> QED BY <1>1, <1>2, CounterKeeps DEF StoreSpellID

LEMMA CastKeeps ==
  ASSUME IInv, NEW s \in Spells, Cast(s)
  PROVE  IInv'
<1>1. PICK t : Represents(list, t)
  BY DEF IInv, ListInv
<1>2. /\ list \in TemplateList /\ SpellID \in Int /\ SpellID - 1 \in Int
      /\ nbUnit = list.nb_objects /\ nbUnit \in Nat /\ nbUnit + 1 \in Nat /\ TypeOK
  BY DEF IInv, TypeOK, ListInv
<1>3. /\ SpellID' = SpellID - 1 /\ op = "none"
      /\ UNCHANGED <<op, pc, arg, visited, size, loop, packet>>
  BY DEF Cast, PacketReady, Unlocked
<1>4. ASSUME NEW o \in TFCObject PROVE Sent(o, s) \in TFCObject
  <2>1. s.SummonID \in Names /\ s.moving \in BOOLEAN
    BY VisibleObjectsAssumption
  <2>2. (o.Moving \/ s.moving) \in BOOLEAN
    OBVIOUS
  <2> QED BY <2>1, <2>2 DEF Sent, TFCObject
<1>5. /\ list' \in TemplateList /\ nbUnit' = list'.nb_objects /\ nbUnit' \in Nat
      /\ obj' \in Objects /\ \A m \in list'.nodes : obj'[m] \in TFCObject
      /\ \E u : Represents(list', u)
  <2>1. CASE AlreadyHere(SpellID)
    <3>1. /\ list' \in Searched(SpellID) /\ UNCHANGED nbUnit /\ SpellID \in IDs
          /\ obj' = [obj EXCEPT ![list'.Current] = Sent(obj[list'.Current], s)]
      BY <2>1 DEF Cast, AlreadyHere
    <3>2. /\ list' \in TemplateList /\ Represents(list', t)
          /\ list'.nb_objects = list.nb_objects /\ list'.nodes = list.nodes
          /\ list'.Current \in list.nodes
      BY <1>1, <1>2, <3>1, SearchFinds
    <3>3. obj[list'.Current] \in TFCObject
      BY <1>2, <3>2 DEF TypeOK
    <3>4. Sent(obj[list'.Current], s) \in TFCObject
      BY <1>4, <3>3
    <3>5. obj' \in Objects /\ \A m \in list'.nodes : obj'[m] \in TFCObject
      BY <1>2, <3>1, <3>2, <3>4 DEF TypeOK, TemplateList, Objects
    <3>6. nbUnit' = nbUnit /\ list'.nb_objects = list.nb_objects
      BY <3>1, <3>2
    <3> QED BY <1>2, <3>2, <3>5, <3>6
  <2>2. CASE ~ AlreadyHere(SpellID)
    <3> DEFINE o == NewObject(SpellID, s.Type, s.pos, s.spellEffectID, s.spellChildID)
    <3>1. PICK n \in Node \ list.nodes :
            /\ list' = SetQueryState(AddToTail(list, n), "STOP_QUERY")
            /\ obj' = [obj EXCEPT ![n] = Sent(o, s)]
            /\ nbUnit' = nbUnit + 1
      BY <2>2 DEF Cast
    <3> DEFINE l == AddToTail(list, n)
               u == Appended(t, list.nb_objects, n)
    <3>2. l \in TemplateList /\ Represents(l, u)
      BY <1>1, <1>2, <3>1, AddToTailAppends
    <3>3. l.nb_objects = list.nb_objects + 1 /\ l.nodes = list.nodes \cup {n}
      BY DEF AddToTail
    <3> HIDE DEF l, u
    <3>4. /\ list' \in TemplateList /\ Represents(list', u)
          /\ list'.nb_objects = list.nb_objects + 1 /\ list'.nodes = list.nodes \cup {n}
      BY <3>1, <3>2, <3>3, SetQueryStateIsApart DEF l, ListStatus
    <3>5. o \in TFCObject
      BY <1>2, VisibleObjectsAssumption, NewObjectIsOne
    <3> HIDE DEF o
    <3>6. Sent(o, s) \in TFCObject
      BY <1>4, <3>5
    <3>7. obj' \in Objects /\ \A m \in list'.nodes : obj'[m] \in TFCObject
      BY <1>2, <3>1, <3>4, <3>6 DEF TypeOK, Objects
    <3> QED BY <1>2, <3>1, <3>4, <3>7
  <2> QED BY <2>1, <2>2
<1>6. TypeOK'
  BY <1>2, <1>3, <1>5 DEF TypeOK, Objects
<1>7. op' = "none" /\ pc' = "idle"
  BY <1>3 DEF IInv, Control
<1> QED BY <1>5, <1>6, <1>7, IdleSuffices

LEMMA MoveObjectKeeps ==
  ASSUME IInv, NEW id \in ServerIDs, NEW a \in Arrivals,
         NEW samePlace \in BOOLEAN, MoveObject(id, a, samePlace)
  PROVE  IInv'
<1>1. /\ op = "none" /\ UNCHANGED <<op, pc, arg, visited, size, loop, packet>>
      /\ TypeOK /\ pc = "idle"
  BY DEF MoveObject, PacketReady, Unlocked, IInv, Control
<1>2. CASE id \in IDs
  <2> DEFINE c == list'.Current
  <2>1. /\ list' \in Searched(id)
        /\ obj' = [obj EXCEPT ![c] = Queued(obj[c], samePlace)]
        /\ UNCHANGED <<nbUnit, SpellID>>
    BY <1>2 DEF MoveObject
  <2>2. /\ list' \in TemplateList /\ list'.nodes = list.nodes
        /\ list'.nb_objects = list.nb_objects /\ c \in list.nodes
        /\ \A s : Represents(list, s) => Represents(list', s)
    BY <1>1, <1>2, <2>1, SearchFinds
  <2>3. obj[c] \in TFCObject /\ NONE \in Names
    BY <1>1, <2>2, VisibleObjectsAssumption DEF TypeOK, NONE
  <2>4. Queued(obj[c], samePlace) \in TFCObject
    <3>1. (obj[c].Moving \/ ~ samePlace) \in BOOLEAN
      OBVIOUS
    <3> QED BY <2>3, <3>1 DEF Queued, TFCObject
  <2>5. obj' \in Objects /\ \A n \in list'.nodes : obj'[n] \in TFCObject
    BY <1>1, <2>1, <2>2, <2>4 DEF TypeOK, TemplateList, Objects
  <2>6. TypeOK'
    BY <1>1, <2>1, <2>2, <2>5 DEF TypeOK, Objects
  <2> QED BY <1>1, <2>1, <2>2, <2>6, IdleSuffices DEF IInv, ListInv
<1>3. CASE id \notin IDs
  <2>0. /\ Add(obj, id, a.Type, a.pos, NONE, NONE, FALSE)
        /\ SpellID' = SpellID - Taken(id, a.Type)
    BY <1>3 DEF MoveObject
  <2>1. SpellID' \in Int
    BY <1>1, <2>0 DEF Taken, TypeOK
  <2>2. id \in Int /\ a.Type \in Names /\ a.pos \in Position
    BY VisibleObjectsAssumption
  <2>3. packet' \in Packets
    BY <1>1 DEF TypeOK, Packets
  <2> QED BY <1>1, <2>0, <2>1, <2>2, <2>3, IdleAdd
<1> QED BY <1>2, <1>3

\* Delete and the second half of Replace stand on an object of the list.
LEMMA StandOn ==
  ASSUME IInv, NEW STATE id, id \in IDs, NEW l \in Searched(id),
         list' = SetQueryState(l, "QUERY_NEXT"),
         op' = "Delete", pc' = "kill",
         UNCHANGED <<obj, nbUnit, SpellID, visited, size, loop, packet>>
  PROVE  IInv'
<1>1. TypeOK /\ nbUnit = list.nb_objects
  BY DEF IInv, ListInv
<1>2. PICK s \in [1..list.nb_objects -> list.nodes] : Represents(list, s)
  BY DEF IInv, ListInv
<1>3. /\ l \in TemplateList /\ l.nb_objects = list.nb_objects
      /\ l.nodes = list.nodes /\ Represents(l, s) /\ l.Current \in list.nodes
  BY <1>1, <1>2, SearchFinds
<1>4. /\ list' \in TemplateList /\ list'.nb_objects = list.nb_objects
      /\ list'.nodes = list.nodes /\ Represents(list', s)
      /\ list'.Current \in list.nodes /\ list'.Querying = "QUERY_NEXT"
  BY <1>3, SetQueryStateIsApart DEF ListStatus
<1>5. TypeOK'
  BY <1>1, <1>4 DEF TypeOK
<1>6. Place(s)'
  BY <1>4 DEF Place, Walking
<1>7. ListInv'
  BY <1>1, <1>2, <1>4, <1>6 DEF ListInv
<1> QED BY <1>5, <1>7 DEF IInv, Control, Allocated

LEMMA DeleteKeeps ==
  ASSUME IInv, NEW id \in ServerIDs, Delete(id)
  PROVE  IInv'
<1>1. op = "none" /\ UNCHANGED <<obj, nbUnit, SpellID, arg, visited, size, loop, packet>>
  BY DEF Delete, PacketReady, Unlocked
<1>2. CASE id \in IDs
  <2>1. PICK l \in Searched(id) :
          list' = SetQueryState(l, "QUERY_NEXT") /\ op' = "Delete" /\ pc' = "kill"
    BY <1>2 DEF Delete
  <2> QED BY <1>1, <1>2, <2>1, StandOn
<1>3. CASE id \notin IDs
  <2>1. list' \in Searched(id) /\ UNCHANGED <<op, pc>>
    BY <1>3 DEF Delete
  <2>2. TypeOK /\ nbUnit = list.nb_objects /\ \E s : Represents(list, s)
    BY DEF IInv, ListInv
  <2>3. /\ list' \in TemplateList /\ list'.nodes = list.nodes
        /\ list'.nb_objects = list.nb_objects
        /\ \A s : Represents(list, s) => Represents(list', s)
    BY <2>1, <2>2, SearchFinds
  <2>4. TypeOK'
    BY <1>1, <2>1, <2>2, <2>3 DEF TypeOK
  <2>5. op' = "none" /\ pc' = "idle"
    BY <1>1, <2>1 DEF IInv, Control
  <2> QED BY <1>1, <2>2, <2>3, <2>4, <2>5, IdleSuffices
<1> QED BY <1>2, <1>3

LEMMA ReplaceKeeps ==
  ASSUME IInv, NEW id \in ServerIDs, Replace(id)
  PROVE  IInv'
<1>0. PICK c \in First(id) : Add(obj, SpellID, "SPELL", obj[c].pos, NONE, NONE, FALSE)
  BY DEF Replace
<1>1. /\ op = "none" /\ SpellID' = SpellID - 1
      /\ Add(obj, SpellID, "SPELL", obj[c].pos, NONE, NONE, FALSE)
      /\ op' = "Replace" /\ pc' = "delete" /\ arg' = id
      /\ UNCHANGED <<visited, size, loop, packet>>
  BY <1>0 DEF Replace, PacketReady, Unlocked
<1>2. TypeOK
  BY DEF IInv
<1>3. c \in list.nodes /\ obj[c].ID = id
  BY DEF First
<1>4. obj[c].pos \in Position
  BY <1>2, <1>3 DEF TypeOK, TFCObject
<1>5. SpellID \in Int /\ "SPELL" \in Names /\ NONE \in Names
  BY <1>2, VisibleObjectsAssumption DEF TypeOK, NONE
<1>6. /\ list' \in TemplateList /\ nbUnit' \in Nat /\ obj' \in Objects
      /\ \A n \in list'.nodes : obj'[n] \in TFCObject
      /\ \A n \in list.nodes : obj'[n] = obj[n]
  BY <1>1, <1>4, <1>5, PlainAddTypes
<1>7. TypeOK'
  BY <1>1, <1>2, <1>6 DEF TypeOK, Objects
<1>8. PICK s : Represents(list, s)
  BY DEF IInv, ListInv
<1>9. nbUnit' = list'.nb_objects /\ \E t : Grown(s, t, FALSE)
  BY <1>1, <1>8, AddGrows
<1>10. PICK t : Grown(s, t, FALSE)
  BY <1>9
<1>11. id \in IDs'
  <2>1. c \in list'.nodes /\ obj'[c].ID = id
    BY <1>3, <1>6, <1>10 DEF Grown
  <2> QED BY <2>1 DEF IDs
<1>12. Place(t)'
  BY <1>1 DEF Place, Walking
<1>13. ListInv'
  BY <1>9, <1>10, <1>12 DEF ListInv, Grown
<1> QED BY <1>1, <1>7, <1>11, <1>13 DEF IInv, Control, Allocated

LEMMA ReplaceDeleteKeeps ==
  ASSUME IInv, ReplaceDelete
  PROVE  IInv'
<1>1. arg \in IDs
  BY DEF ReplaceDelete, IInv, Control
<1>2. PICK l \in Searched(arg) : list' = SetQueryState(l, "QUERY_NEXT")
  BY DEF ReplaceDelete
<1> QED BY <1>1, <1>2, StandOn DEF ReplaceDelete

-----------------------------------------------------------------------------
\* The start of a walk.
LEMMA WalkBegins ==
  ASSUME IInv, list' = ToHead(list), pc' = "query", visited' = <<>>,
         op' \in {"DeleteAll", "MovePlayer", "Sort"},
         op' = "MovePlayer" => arg' \in Int \X Int,
         size' \in Nat, op' = "Sort" => nbUnit <= size',
         UNCHANGED <<obj, nbUnit, SpellID, loop, packet>>
  PROVE  IInv'
<1>1. TypeOK /\ list \in TemplateList /\ nbUnit = list.nb_objects
  BY DEF IInv, ListInv, TypeOK
<1>2. PICK s \in [1..list.nb_objects -> list.nodes] : Represents(list, s)
  BY DEF IInv, ListInv
<1>3. /\ list' \in TemplateList /\ list'.nb_objects = list.nb_objects
      /\ list'.nodes = list.nodes /\ Represents(list', s)
      /\ list'.Querying = "NO_QUERY" /\ list'.Current = list'.Head
  BY <1>1, <1>2, ToHeadIsApart
<1>4. TypeOK'
  BY <1>1, <1>3 DEF TypeOK
<1>5. Len(visited') = 0 /\ list'.nb_objects \in Nat
  BY <1>3 DEF TemplateList
<1>6. Place(s)'
  BY <1>3, <1>5 DEF Place, Walking, AtQuery, Passed
<1>7. ListInv'
  BY <1>1, <1>2, <1>3, <1>6 DEF ListInv
<1> QED BY <1>4, <1>7 DEF IInv, Control, Allocated

LEMMA DeleteAllKeeps ==
  ASSUME IInv, DeleteAll
  PROVE  IInv'
BY WalkBegins DEF DeleteAll, IInv, TypeOK

LEMMA MovePlayerKeeps ==
  ASSUME IInv, NEW move \in Moves, MovePlayer(move)
  PROVE  IInv'
<1>1. move \in Int \X Int
  BY VisibleObjectsAssumption
<1> QED BY <1>1, WalkBegins DEF MovePlayer, IInv, TypeOK

LEMMA SortKeeps ==
  ASSUME IInv, Sort
  PROVE  IInv'
<1>1. nbUnit \in Nat /\ nbUnit <= nbUnit
  BY DEF IInv, TypeOK
<1> QED BY <1>1, WalkBegins DEF Sort
-----------------------------------------------------------------------------
\* The steps of a walk.

\* In the middle of a walk the handler is one that walks.
LEMMA Walkers ==
  ASSUME IInv, pc \in {"query", "look", "summon", "end", "compare"}
  PROVE  /\ op \in {"DeleteAll", "MovePlayer", "Sort"}
         /\ pc = "summon" \/ pc = "compare" => op = "Sort"
BY DEF IInv, Control, TypeOK

LEMMA QueryKeeps ==
  ASSUME IInv, Query
  PROVE  IInv'
<1>1. /\ TypeOK /\ nbUnit = list.nb_objects /\ pc = "query"
      /\ op \in {"DeleteAll", "MovePlayer", "Sort"}
      /\ list \in TemplateList /\ list.nb_objects \in Nat
  BY Walkers DEF Query, IInv, ListInv, TypeOK, TemplateList
<1>2. /\ list' = QueryNext(list)
      /\ pc' = IF Queried(list') THEN "look" ELSE "end"
      /\ UNCHANGED <<obj, nbUnit, SpellID, op, arg, visited, size, loop, packet>>
  BY DEF Query
<1>3. PICK s \in [1..list.nb_objects -> list.nodes] :
        Represents(list, s) /\ AtQuery(s)
  BY <1>1 DEF IInv, ListInv, Place
<1> DEFINE k == Len(visited)
<1>4. k \in 0..list.nb_objects
  BY <1>1, <1>3 DEF TypeOK, AtQuery
<1>5. IF k = 0 THEN list.Querying = "NO_QUERY" /\ list.Current = list.Head
      ELSE list.Querying = "QUERY_NEXT" /\ list.Current = s[k]
  BY <1>3 DEF AtQuery
<1>6. /\ list' \in TemplateList /\ Represents(list', s)
      /\ list'.nb_objects = list.nb_objects /\ list'.nodes = list.nodes
      /\ Queried(list') <=> k # list.nb_objects
      /\ k # list.nb_objects =>
           list'.Querying = "QUERY_NEXT" /\ list'.Current = s[k + 1]
  BY <1>1, <1>2, <1>3, <1>4, <1>5, QueryNextSteps
<1>7. TypeOK'
  BY <1>1, <1>2, <1>6 DEF TypeOK
<1>8. Place(s)'
  <2>1. CASE k # list.nb_objects
    <3>1. pc' = "look" /\ op' # "Delete"
      BY <2>1, <1>1, <1>2, <1>6
    <3>2. Passed(s)' /\ Len(visited') = k /\ k < list'.nb_objects
      BY <2>1, <1>1, <1>2, <1>3, <1>4, <1>6 DEF AtQuery, Passed
    <3>3. AtElement(s)'
      BY <2>1, <1>6, <3>2 DEF AtElement
    <3> QED BY <3>1, <3>3 DEF Place
  <2>2. CASE k = list.nb_objects
    <3>1. pc' = "end" /\ op' # "Delete"
      BY <2>2, <1>1, <1>2, <1>6
    <3>2. Passed(s)' /\ Len(visited') = list'.nb_objects
      BY <2>2, <1>2, <1>3, <1>6 DEF AtQuery, Passed
    <3> QED BY <3>1, <3>2 DEF Place, Walking
  <2> QED BY <2>1, <2>2
<1>9. ListInv'
  BY <1>1, <1>2, <1>3, <1>6, <1>8 DEF ListInv
<1>10. Control' /\ Allocated'
  BY <1>1, <1>2 DEF IInv, Control, Allocated
<1> QED BY <1>7, <1>9, <1>10 DEF IInv

\* The element under the cursor joins those passed.
LEMMA KeepPasses ==
  ASSUME TypeOK, NEW s, Represents(list, s), AtElement(s), Keep, list' = list
  PROVE  AtQuery(s)' /\ visited' \in Seq(Node)
<1>1. /\ list.nb_objects \in Nat /\ visited \in Seq(Node)
      /\ Len(visited) < list.nb_objects /\ list.Current = s[Len(visited) + 1]
      /\ visited' = Append(visited, list.Current)
      /\ \A i \in 1..Len(visited) : visited[i] = s[i]
  BY DEF TypeOK, TemplateList, AtElement, Passed, Keep
<1>2. list.Current \in Node
  <2>1. Len(visited) + 1 \in 1..list.nb_objects
    BY <1>1
  <2> QED BY <1>1, <2>1, Listed
<1>3. /\ visited' \in Seq(Node) /\ Len(visited') = Len(visited) + 1
      /\ \A i \in 1..Len(visited') : visited'[i] = s[i]
  BY <1>1, <1>2
<1> QED BY <1>1, <1>3 DEF AtQuery, AtElement, Passed

LEMMA LookDeleteAllKeeps ==
  ASSUME IInv, LookDeleteAll
  PROVE  IInv'
<1>1. /\ op = "DeleteAll" /\ pc = "look" /\ pc' = "kill"
      /\ UNCHANGED <<list, obj, nbUnit, SpellID, op, arg, visited, size, loop, packet>>
  BY DEF LookDeleteAll
<1>2. TypeOK' /\ Control' /\ Allocated'
  BY <1>1 DEF IInv, TypeOK, Control, Allocated
<1>3. ListInv'
  BY <1>1 DEF IInv, ListInv, Place, AtElement, Passed, Walking
<1> QED BY <1>2, <1>3 DEF IInv

\* What a walking handler decides about the element under the cursor.
LEMMA LookKeeps ==
  ASSUME IInv, op \in {"MovePlayer", "Sort"}, pc = "look",
         UNCHANGED <<list, nbUnit, SpellID, op, arg, size, loop, packet>>,
         obj' \in Objects, \A n \in list.nodes : obj'[n] \in TFCObject,
         \/ Keep
         \/ /\ UNCHANGED visited
            /\ pc' = "kill" \/ (op = "Sort" /\ pc' = "summon")
  PROVE  IInv'
<1>1. TypeOK /\ nbUnit = list.nb_objects
  BY DEF IInv, ListInv
<1>2. PICK s \in [1..list.nb_objects -> list.nodes] :
        Represents(list, s) /\ AtElement(s)
  BY DEF IInv, ListInv, Place, Walking
<1>3. Control' /\ Allocated'
  BY DEF IInv, Control, Allocated, Keep
<1>4. CASE Keep
  <2>1. AtQuery(s)' /\ visited' \in Seq(Node)
    BY <1>1, <1>2, <1>4, KeepPasses
  <2>2. TypeOK'
    BY <1>1, <1>4, <2>1 DEF TypeOK, Keep, Objects
  <2>3. Place(s)'
    BY <1>4, <2>1 DEF Place, Walking, Keep
  <2>4. ListInv'
    BY <1>1, <1>2, <2>3 DEF ListInv
  <2> QED BY <1>3, <2>2, <2>4 DEF IInv
<1>5. CASE UNCHANGED visited /\ (pc' = "kill" \/ (op = "Sort" /\ pc' = "summon"))
  <2>1. TypeOK'
    BY <1>1, <1>5 DEF TypeOK, Objects
  <2>2. AtElement(s)'
    BY <1>2, <1>5 DEF AtElement, Passed
  <2>3. Place(s)'
    BY <1>5, <2>2 DEF Place
  <2>4. ListInv'
    BY <1>1, <1>2, <2>3 DEF ListInv
  <2> QED BY <1>3, <2>1, <2>4 DEF IInv
<1> QED BY <1>4, <1>5

\* A coordinate is a signed char again after the addition.
LEMMA SignedCharInRange ==
  ASSUME NEW x \in Int
  PROVE  SignedChar(x) \in Char
BY VisibleObjectsAssumption DEF SignedChar, Char

LEMMA LookMovePlayerKeeps ==
  ASSUME IInv, LookMovePlayer
  PROVE  IInv'
<1> DEFINE c == list.Current
           moved == [obj[c] EXCEPT !.pos.OX = SignedChar(@ - arg[1]),
                                   !.pos.OY = SignedChar(@ - arg[2])]
<1>1. /\ op = "MovePlayer" /\ pc = "look"
      /\ obj' = [obj EXCEPT ![c] = moved]
      /\ Keep \/ (pc' = "kill" /\ UNCHANGED visited)
      /\ UNCHANGED <<list, nbUnit, SpellID, op, arg, size, loop, packet>>
  BY DEF LookMovePlayer
<1>2. TypeOK /\ arg \in Int \X Int
  BY <1>1 DEF IInv, Control
<1>3. PICK s : Represents(list, s) /\ AtElement(s)
  BY <1>1 DEF IInv, ListInv, Place, Walking
<1>4. c \in list.nodes /\ c \in Node
  <2>1. Len(visited) + 1 \in 1..list.nb_objects
    BY <1>2, <1>3 DEF AtElement, TypeOK, TemplateList
  <2> QED BY <1>2, <1>3, <2>1, Listed DEF AtElement
<1>5. moved \in TFCObject
  <2>1. obj[c] \in TFCObject
    BY <1>2, <1>4 DEF TypeOK
  <2> DEFINE p == obj[c].pos
             x == SignedChar(p.OX - arg[1])
             y == SignedChar(p.OY - arg[2])
  <2>2. p \in [OX : Char, OY : Char, OC : Int]
    BY <2>1 DEF TFCObject, Position
  <2>3. p.OX - arg[1] \in Int /\ p.OY - arg[2] \in Int
    BY <1>2, <2>2, VisibleObjectsAssumption DEF Char
  <2>4. x \in Char /\ y \in Char
    BY <2>3, SignedCharInRange
  <2>5. moved = [obj[c] EXCEPT !.pos = [p EXCEPT !.OX = x, !.OY = y]]
    BY <2>1, <2>2 DEF TFCObject
  <2> HIDE DEF x, y, moved
  <2>6. [p EXCEPT !.OX = x, !.OY = y] \in Position
    BY <2>2, <2>4 DEF Position
  <2> QED BY <2>1, <2>5, <2>6 DEF TFCObject
<1> HIDE DEF moved
<1>6. obj' \in Objects /\ \A n \in list.nodes : obj'[n] \in TFCObject
  BY <1>1, <1>2, <1>4, <1>5 DEF TypeOK, Objects
<1> QED BY <1>1, <1>6, LookKeeps

LEMMA LookSortKeeps ==
  ASSUME IInv, NEW isMov \in BOOLEAN, LookSort(isMov)
  PROVE  IInv'
<1>1. /\ op = "Sort" /\ pc = "look"
      /\ Keep \/ (UNCHANGED visited /\ pc' \in {"kill", "summon"})
      /\ UNCHANGED <<list, obj, nbUnit, SpellID, op, arg, size, loop, packet>>
  BY DEF LookSort
<1>2. obj' \in Objects /\ \A n \in list.nodes : obj'[n] \in TFCObject
  BY <1>1 DEF IInv, TypeOK, Objects
<1> QED BY <1>1, <1>2, LookKeeps
\* The element a walk stands on.
LEMMA OnElement ==
  ASSUME TypeOK, NEW s, Represents(list, s), AtElement(s)
  PROVE  /\ list.Current \in list.nodes /\ obj[list.Current] \in TFCObject
         /\ Len(visited) + 1 \in 1..list.nb_objects
<1>1. Len(visited) + 1 \in 1..list.nb_objects
  BY DEF AtElement, TypeOK, TemplateList
<1> QED BY <1>1, Listed DEF AtElement, TypeOK

LEMMA SeraphEndsKeeps ==
  ASSUME IInv, SeraphEnds
  PROVE  IInv'
<1> DEFINE c == list.Current
           objects == [obj EXCEPT ![c].SummonID = NONE]
<1>1. /\ op = "Sort" /\ pc = "look"
      /\ Add(objects, obj[c].NewID, obj[c].SummonID, obj[c].pos, NONE, NONE, TRUE)
      /\ op' = "none" /\ pc' = "idle" /\ visited' = <<>> /\ size' = 0
      /\ UNCHANGED <<SpellID, arg, loop, packet>>
  BY DEF SeraphEnds
<1>2. TypeOK
  BY DEF IInv
<1>3. PICK s : Represents(list, s) /\ AtElement(s)
  BY <1>1 DEF IInv, ListInv, Place, Walking
<1>4. c \in list.nodes /\ obj[c] \in TFCObject /\ c \in Node
  BY <1>2, <1>3, OnElement DEF TypeOK, TemplateList
<1>5. NONE \in Names
  BY VisibleObjectsAssumption DEF NONE
<1>6. objects \in Objects /\ \A n \in list.nodes : objects[n] \in TFCObject
  <2>1. [obj[c] EXCEPT !.SummonID = NONE] \in TFCObject
    BY <1>4, <1>5 DEF TFCObject
  <2> QED BY <1>2, <1>4, <2>1 DEF TypeOK, Objects
<1> HIDE DEF objects
<1>7. /\ obj[c].NewID \in Int /\ obj[c].SummonID \in Names
      /\ obj[c].pos \in Position
  BY <1>4 DEF TFCObject
<1>8. /\ list' \in TemplateList /\ nbUnit' \in Nat /\ obj' \in Objects
      /\ \A n \in list'.nodes : obj'[n] \in TFCObject
  BY <1>1, <1>5, <1>6, <1>7, AddTypes
<1>9. TypeOK'
  BY <1>1, <1>2, <1>8 DEF TypeOK, Objects
<1>10. PICK t : Grown(s, t, TRUE)
  BY <1>1, <1>3, AddGrows
<1>11. nbUnit' = list'.nb_objects
  BY <1>1, <1>3, AddGrows
<1> QED BY <1>1, <1>9, <1>10, <1>11, IdleSuffices DEF Grown

LEMMA SummonKeeps ==
  ASSUME IInv, Summon
  PROVE  IInv'
<1> DEFINE c == list.Current
<1>1. /\ pc = "summon" /\ pc' = "kill" /\ SpellID' = SpellID - 1
      /\ Add(obj, SpellID, obj[c].SummonID, obj[c].pos, NONE, NONE, TRUE)
      /\ UNCHANGED <<op, arg, visited, size, loop, packet>>
  BY DEF Summon
<1>2. TypeOK /\ op = "Sort" /\ nbUnit = list.nb_objects
  BY <1>1, Walkers DEF IInv, ListInv
<1>3. PICK s : Represents(list, s) /\ AtElement(s)
  BY <1>1, <1>2 DEF IInv, ListInv, Place, Walking
<1>4. /\ obj[c].SummonID \in Names /\ obj[c].pos \in Position
      /\ Len(visited) + 1 \in 1..list.nb_objects
  BY <1>2, <1>3, OnElement DEF TFCObject
<1>5. SpellID \in Int /\ NONE \in Names
  BY <1>2, VisibleObjectsAssumption DEF TypeOK, NONE
<1>6. /\ list' \in TemplateList /\ nbUnit' \in Nat /\ obj' \in Objects
      /\ \A n \in list'.nodes : obj'[n] \in TFCObject
  BY <1>1, <1>4, <1>5, PlainAddTypes
<1>7. TypeOK'
  BY <1>1, <1>2, <1>6 DEF TypeOK, Objects
<1>8. PICK t : Grown(s, t, TRUE)
  BY <1>1, <1>3, AddGrows
<1>9. nbUnit' = list'.nb_objects
  BY <1>1, <1>3, AddGrows
<1>10. AtElement(t)'
  <2>1. /\ list'.Current = list.Current /\ list'.Querying = list.Querying
        /\ \A k \in 1..list.nb_objects : t[k] = s[k]
        /\ list'.nb_objects \in {list.nb_objects, list.nb_objects + 1}
        /\ list.nb_objects \in Nat /\ Len(visited) \in Nat
    BY <1>2, <1>8 DEF Grown, TypeOK, TemplateList
  <2>2. Len(visited) < list'.nb_objects
    BY <1>3, <2>1 DEF AtElement
  <2>3. \A i \in 1..Len(visited) : visited[i] = t[i]
    BY <1>3, <1>4, <2>1 DEF AtElement, Passed
  <2> QED BY <1>1, <1>3, <1>4, <2>1, <2>2, <2>3 DEF AtElement, Passed
<1>11. Place(t)'
  BY <1>1, <1>2, <1>10 DEF Place
<1>12. ListInv'
  BY <1>8, <1>9, <1>11 DEF ListInv, Grown
<1>13. Allocated'
  <2>1. nbUnit <= size /\ nbUnit \in Nat /\ size \in Nat
    BY <1>1, <1>2 DEF IInv, Allocated, TypeOK
  <2>2. nbUnit' \in {nbUnit, nbUnit + 1}
    BY <1>2, <1>8, <1>9 DEF Grown
  <2> QED BY <1>1, <2>1, <2>2 DEF Allocated
<1>14. Control'
  BY <1>1, <1>2 DEF Control
<1> QED BY <1>7, <1>12, <1>13, <1>14 DEF IInv

\* Whatever element is killed, the objects that are left are objects.
LEMMA KillTypes ==
  ASSUME IInv, Kill, list.Current \in list.nodes,
         list' \in TemplateList, list'.nodes = list.nodes \ {list.Current},
         list'.nb_objects = list.nb_objects - 1,
         visited' \in Seq(Node),
         op' \in {"none", "DeleteAll", "MovePlayer", "Sort"},
         pc' \in {"idle", "query"}
  PROVE  TypeOK' /\ nbUnit' = list'.nb_objects
<1>1. TypeOK /\ nbUnit = list.nb_objects /\ list.nodes \subseteq Node
  BY DEF IInv, ListInv, TypeOK, TemplateList
<1>2. /\ obj' = [obj EXCEPT ![list.Current] = NoObject] /\ nbUnit' = nbUnit - 1
      /\ UNCHANGED <<SpellID, arg, size, loop, packet>>
  BY DEF Kill
<1>3. obj' \in Objects /\ \A n \in list'.nodes : obj'[n] \in TFCObject
  BY <1>1, <1>2 DEF TypeOK, Objects
<1>4. nbUnit' = list'.nb_objects /\ nbUnit' \in Nat
  BY <1>1, <1>2 DEF TemplateList
<1> QED BY <1>1, <1>2, <1>3, <1>4 DEF TypeOK, Objects

LEMMA KillKeeps ==
  ASSUME IInv, Kill
  PROVE  IInv'
<1> DEFINE removed == RemoveObject(list)
           c == list.Current
           n == list.nb_objects
<1>1. /\ TypeOK /\ nbUnit = n /\ pc = "kill" /\ n \in Nat
      /\ list \in TemplateList /\ visited \in Seq(Node)
      /\ op \in {"Delete", "DeleteAll", "MovePlayer", "Sort"}
  BY DEF Kill, IInv, Control, ListInv, TypeOK, TemplateList
<1>2. nbUnit' = nbUnit - 1 /\ UNCHANGED <<SpellID, arg, size, loop, packet>>
  BY DEF Kill
<1>3. CASE op = "Delete"
  <2>1. PICK s : Represents(list, s) /\ c \in list.nodes
    BY <1>3 DEF IInv, ListInv, Place
  <2>2. PICK k \in 1..n : c = s[k]
    BY <2>1 DEF Represents
  <2>3. /\ removed \in TemplateList /\ removed.nb_objects = n - 1
        /\ removed.nodes = list.nodes \ {c}
        /\ Represents(removed, Dropped(s, n, k))
    BY <1>1, <2>1, <2>2, RemoveObjectDrops
  <2>4. /\ list' = SetQueryState(removed, "STOP_QUERY")
        /\ op' = "none" /\ pc' = "idle" /\ UNCHANGED visited
    BY <1>3 DEF Kill
  <2> HIDE DEF removed
  <2>5. /\ list' \in TemplateList /\ list'.nb_objects = n - 1
        /\ list'.nodes = list.nodes \ {c}
        /\ Represents(list', Dropped(s, n, k))
    BY <2>3, <2>4, SetQueryStateIsApart DEF ListStatus
  <2>6. TypeOK' /\ nbUnit' = list'.nb_objects
    BY <1>1, <2>1, <2>4, <2>5, KillTypes
  <2> QED BY <2>4, <2>5, <2>6, IdleSuffices
<1>4. CASE op # "Delete"
  <2>1. PICK s : Represents(list, s) /\ AtElement(s)
    BY <1>1, <1>4 DEF IInv, ListInv, Place, Walking
  <2> DEFINE k == Len(visited) + 1
  <2>0. PICK t : t = Dropped(s, n, k)
    OBVIOUS
  <2>2. c \in list.nodes /\ k \in 1..n /\ c = s[k]
    BY <1>1, <2>1, OnElement DEF AtElement
  <2>3. /\ removed \in TemplateList /\ removed.nb_objects = n - 1
        /\ removed.nodes = list.nodes \ {c}
        /\ Represents(removed, t)
        /\ IF k = 1 THEN removed.Querying = "NO_QUERY" /\ removed.Current = removed.Head
           ELSE removed.Querying = "QUERY_NEXT" /\ removed.Current = t[k - 1]
    BY <1>1, <2>0, <2>1, <2>2, RemoveObjectDrops DEF AtElement
  <2>4. pc' = "query" /\ op' = op
        /\ \/ op = "Sort" /\ list' = ToHead(removed) /\ visited' = <<>>
           \/ op # "Sort" /\ list' = removed /\ visited' = visited
    BY <1>1, <1>4 DEF Kill, RestartSort
  <2>5. ASSUME NEW i \in 1..Len(visited) PROVE t[i] = visited[i]
    <3>1. i \in 1..(n - 1) /\ i < k
      BY <1>1, <2>2
    <3>2. t[i] = s[i]
      BY <2>0, <3>1 DEF Dropped
    <3> QED BY <2>1, <3>2 DEF AtElement, Passed
  <2> HIDE DEF removed
  <2>6. /\ list' \in TemplateList /\ list'.nb_objects = n - 1
        /\ list'.nodes = list.nodes \ {c} /\ Represents(list', t)
        /\ visited' \in Seq(Node)
    <3>1. CASE list' = ToHead(removed) /\ visited' = <<>>
      BY <2>3, <3>1, ToHeadIsApart
    <3>2. CASE list' = removed /\ visited' = visited
      BY <1>1, <2>3, <3>2
    <3> QED BY <2>4, <3>1, <3>2
  <2>7. TypeOK' /\ nbUnit' = list'.nb_objects
    BY <1>1, <1>4, <2>2, <2>4, <2>6, KillTypes
  <2>8. Len(visited) \in Nat /\ n - 1 \in Nat
    BY <1>1, <2>2
  <2>9. AtQuery(t)'
    <3>1. CASE op = "Sort"
      <4>1. /\ Len(visited') = 0
            /\ list'.Querying = "NO_QUERY" /\ list'.Current = list'.Head
        BY <2>3, <2>4, <3>1, ToHeadIsApart
      <4> QED BY <2>6, <2>8, <4>1 DEF AtQuery, Passed
    <3>2. CASE op # "Sort"
      <4>1. Len(visited) <= n - 1 /\ (Len(visited) = 0 <=> k = 1)
        BY <1>1, <2>2
      <4>2. k - 1 = Len(visited)
        BY <1>1
      <4>3. visited' = visited /\ list' = removed
        BY <2>4, <3>2
      <4>4. Passed(t)'
        BY <2>5, <4>3 DEF Passed
      <4>5. IF Len(visited') = 0
            THEN list'.Querying = "NO_QUERY" /\ list'.Current = list'.Head
            ELSE list'.Querying = "QUERY_NEXT" /\ list'.Current = t[Len(visited')]
        BY <2>3, <4>1, <4>2, <4>3
      <4> QED BY <2>6, <4>1, <4>3, <4>4, <4>5 DEF AtQuery
    <3> QED BY <3>1, <3>2
  <2>10. Place(t)'
    BY <1>4, <2>4, <2>9 DEF Place, Walking
  <2>11. PICK f \in [1..list'.nb_objects -> list'.nodes] :
           Represents(list', f) /\ \A i \in 1..list'.nb_objects : f[i] = t[i]
    BY <2>6, AsFunction
  <2>12. Place(f)'
    <3>1. Len(visited') <= list'.nb_objects /\ Len(visited') \in Nat
      BY <2>6, <2>9 DEF AtQuery
    <3>2. \A i \in 1..Len(visited') : f[i] = t[i]
      BY <2>6, <2>8, <2>11, <3>1
    <3>3. Len(visited') # 0 => Len(visited') \in 1..Len(visited')
      BY <3>1
    <3>4. AtQuery(f)'
      BY <2>9, <3>2, <3>3 DEF AtQuery, Passed
    <3> QED BY <1>4, <2>4, <3>4 DEF Place, Walking
  <2>13. ListInv'
    BY <2>7, <2>11, <2>12 DEF ListInv
  <2>14. Control' /\ Allocated'
    BY <1>1, <1>2, <1>4, <2>4 DEF IInv, Control, Allocated, TypeOK
  <2> QED BY <2>7, <2>13, <2>14 DEF IInv
<1> QED BY <1>3, <1>4
\* A handler ends without touching the list.
LEMMA HandlerEnds ==
  ASSUME IInv, UNCHANGED <<list, obj, SpellID, packet>>,
         op' = "none", pc' = "idle", visited' = <<>>, size' \in Nat,
         loop' = loop \/ loop' = NoLoop, nbUnit' = nbUnit
  PROVE  IInv'
<1>1. TypeOK /\ nbUnit = list.nb_objects /\ \E s : Represents(list, s)
  BY DEF IInv, ListInv
<1>2. loop' \in Loop
  <2>1. NoLoop \in Loop
    BY DEF NoLoop, Loop
  <2> QED BY <1>1, <2>1 DEF TypeOK, Loop
<1>3. visited' \in Seq(Node)
  OBVIOUS
<1>4. TypeOK'
  BY <1>1, <1>2, <1>3 DEF TypeOK, Loop
<1> QED BY <1>1, <1>4, IdleSuffices

LEMMA EndDeleteAllKeeps ==
  ASSUME IInv, EndDeleteAll
  PROVE  IInv'
<1>1. /\ op = "DeleteAll" /\ pc = "end" /\ nbUnit' = 0
      /\ op' = "none" /\ pc' = "idle" /\ visited' = <<>>
      /\ UNCHANGED <<list, obj, SpellID, arg, size, loop, packet>>
  BY DEF EndDeleteAll
<1>2. nbUnit = 0
  <2>1. visited = <<>> /\ Len(visited) = list.nb_objects /\ nbUnit = list.nb_objects
    BY <1>1 DEF IInv, Control, ListInv, Place
  <2> QED BY <2>1
<1>3. size' \in Nat
  BY <1>1 DEF IInv, TypeOK
<1> QED BY <1>1, <1>2, <1>3, HandlerEnds

LEMMA EndMovePlayerKeeps ==
  ASSUME IInv, EndMovePlayer
  PROVE  IInv'
BY HandlerEnds DEF EndMovePlayer, IInv, TypeOK

LEMMA AddSceneryKeeps ==
  ASSUME IInv, NEW id \in Scenery, NEW pos \in Places, AddScenery(id, pos)
  PROVE  IInv'
<1>1. /\ op = "MovePlayer" /\ Add(obj, id, "SCENERY", pos, NONE, NONE, FALSE)
      /\ pc' = "scenery" /\ visited' = <<>>
      /\ UNCHANGED <<SpellID, op, arg, size, loop, packet>>
  BY DEF AddScenery
<1>2. /\ id \in Int /\ "SCENERY" \in Names /\ NONE \in Names
      /\ pos \in Position
  BY VisibleObjectsAssumption DEF NONE
<1>3. /\ list' \in TemplateList /\ nbUnit' \in Nat /\ obj' \in Objects
      /\ \A n \in list'.nodes : obj'[n] \in TFCObject
  BY <1>1, <1>2, PlainAddTypes
<1>4. TypeOK'
  BY <1>1, <1>3 DEF IInv, TypeOK, Objects
<1>5. PICK s : Represents(list, s)
  BY DEF IInv, ListInv
<1>6. nbUnit' = list'.nb_objects /\ \E t : Grown(s, t, FALSE)
  BY <1>1, <1>5, AddGrows
<1>7. PICK t : Grown(s, t, FALSE)
  BY <1>6
<1>8. Place(t)'
  BY <1>1 DEF Place, Walking
<1>9. ListInv'
  BY <1>6, <1>7, <1>8 DEF ListInv, Grown
<1>10. Control' /\ Allocated'
  BY <1>1 DEF IInv, Control, Allocated
<1> QED BY <1>4, <1>9, <1>10 DEF IInv

\* What changes objects and nothing else, when no handler is on.
LEMMA ObjectsChange ==
  ASSUME IInv, op = "none", obj' \in Objects,
         \A n \in list.nodes : obj'[n] \in TFCObject,
         UNCHANGED <<list, nbUnit, SpellID, op, pc, arg, visited, size, loop, packet>>
  PROVE  IInv'
<1>1. TypeOK /\ nbUnit = list.nb_objects /\ \E s : Represents(list, s) /\ pc = "idle"
  BY DEF IInv, ListInv, Control
<1>2. TypeOK'
  BY <1>1 DEF TypeOK, Objects
<1> QED BY <1>1, <1>2, IdleSuffices

LEMMA LandKeeps ==
  ASSUME IInv, NEW n \in Node, NEW pos \in Places, Land(n, pos)
  PROVE  IInv'
<1>1. /\ op = "none" /\ n \in list.nodes
      /\ obj' = [obj EXCEPT ![n].Moving = FALSE, ![n].pos = pos]
      /\ UNCHANGED <<list, nbUnit, SpellID, op, pc, arg, visited, size, loop, packet>>
  BY DEF Land, Unlocked
<1>2. TypeOK
  BY DEF IInv
<1>3. obj[n] \in TFCObject /\ pos \in Position
  BY <1>1, <1>2, VisibleObjectsAssumption DEF TypeOK
<1>4. [obj[n] EXCEPT !.Moving = FALSE, !.pos = pos] \in TFCObject
  BY <1>3 DEF TFCObject
<1>5. obj' = [obj EXCEPT ![n] = [obj[n] EXCEPT !.Moving = FALSE, !.pos = pos]]
  BY <1>1, <1>2 DEF TypeOK
<1>6. \E o \in TFCObject : obj' = [obj EXCEPT ![n] = o]
  BY <1>4, <1>5
<1>7. obj' \in Objects /\ \A m \in list.nodes : obj'[m] \in TFCObject
  BY <1>2, <1>6 DEF TypeOK, Objects
<1> QED BY <1>1, <1>7, ObjectsChange

LEMMA ExpireKeeps ==
  ASSUME IInv, NEW n \in Node, Expire(n)
  PROVE  IInv'
<1>1. /\ op = "none" /\ n \in list.nodes
      /\ obj' = [obj EXCEPT ![n].DeleteMe = TRUE]
      /\ UNCHANGED <<list, nbUnit, SpellID, op, pc, arg, visited, size, loop, packet>>
  BY DEF Expire, Unlocked
<1>2. TypeOK
  BY DEF IInv
<1>3. [obj[n] EXCEPT !.DeleteMe = TRUE] \in TFCObject
  BY <1>1, <1>2 DEF TypeOK, TFCObject
<1>4. \E o \in TFCObject : obj' = [obj EXCEPT ![n] = o]
  BY <1>1, <1>3
<1>5. obj' \in Objects /\ \A m \in list.nodes : obj'[m] \in TFCObject
  BY <1>2, <1>4 DEF TypeOK, Objects
<1> QED BY <1>1, <1>5, ObjectsChange

-----------------------------------------------------------------------------
\* The passes of Sort and the new links.

LEMMA BeginPassesKeeps ==
  ASSUME IInv, BeginPasses
  PROVE  IInv'
<1>1. /\ op = "Sort" /\ pc = "end" /\ pc' = "compare" /\ loop' = StartOfPass(1)
      /\ UNCHANGED <<list, obj, nbUnit, SpellID, op, arg, visited, size, packet>>
  BY DEF BeginPasses
<1>2. PICK s \in [1..list.nb_objects -> list.nodes] :
        Represents(list, s) /\ Passed(s) /\ Len(visited) = list.nb_objects
  BY <1>1 DEF IInv, ListInv, Place
<1>3. loop' \in Loop
      /\ loop'.i = 1 /\ loop'.j = 2
  BY <1>1 DEF StartOfPass, Loop
<1>4. TypeOK'
  BY <1>1, <1>3 DEF IInv, TypeOK, Loop
<1>5. Arrayed'
  BY <1>1, <1>2 DEF Arrayed, Passed, Represents
<1>6. Place(s)'
  BY <1>1, <1>3, <1>5 DEF Place, Walking
<1>7. ListInv'
  BY <1>1, <1>2, <1>6 DEF IInv, ListInv
<1>8. Control' /\ Allocated'
  BY <1>1 DEF IInv, Control, Allocated
<1> QED BY <1>4, <1>7, <1>8 DEF IInv

\* Whatever a pass does between two comparisons.
LEMMA PassSuffices ==
  ASSUME IInv, pc = "compare", Arrayed', visited' \in Seq(Node),
         loop' \in Loop,
         1 <= loop'.i, loop'.i < loop'.j,
         UNCHANGED <<list, obj, nbUnit, SpellID, op, pc, arg, size, packet>>
  PROVE  IInv'
<1>1. TypeOK /\ op = "Sort" /\ nbUnit = list.nb_objects
  BY Walkers DEF IInv, ListInv
<1>2. PICK s \in [1..list.nb_objects -> list.nodes] : Represents(list, s)
  BY DEF IInv, ListInv
<1>3. TypeOK'
  BY <1>1 DEF TypeOK, Loop
<1>4. Place(s)'
  BY <1>1 DEF Place, Walking
<1>5. ListInv'
  BY <1>1, <1>2, <1>4 DEF ListInv
<1>6. Control' /\ Allocated'
  BY <1>1 DEF IInv, Control, Allocated
<1> QED BY <1>3, <1>5, <1>6 DEF IInv

\* The counters of a pass after an assignment.
LEMMA LoopInner ==
  \A l \in Loop : \A y \in Nat :
    LET m == [l EXCEPT !.j = y] IN m \in Loop /\ m.i = l.i /\ m.j = y
BY Zenon DEF Loop

LEMMA LoopSorting ==
  \A l \in Loop : \A b \in BOOLEAN :
    LET m == [l EXCEPT !.sorting = b] IN m \in Loop /\ m.i = l.i /\ m.j = l.j
BY Zenon DEF Loop

LEMMA LoopOuter ==
  \A l \in Loop : \A x \in Nat :
    LET m == [l EXCEPT !.i = x] IN m \in Loop /\ m.i = x /\ m.j = l.j
BY Zenon DEF Loop

LEMMA CompareKeeps ==
  ASSUME IInv, Compare
  PROVE  IInv'
<1>1. /\ pc = "compare" /\ loop.j <= nbUnit
      /\ UNCHANGED <<list, obj, nbUnit, SpellID, op, pc, arg, size, packet>>
  BY DEF Compare
<1>2. /\ TypeOK /\ nbUnit = list.nb_objects /\ Arrayed
      /\ 1 <= loop.i /\ loop.i < loop.j
  BY <1>1 DEF IInv, ListInv, Place
<1> DEFINE i == loop.i
           j == loop.j
           n == list.nb_objects
<1>3. /\ loop \in Loop
      /\ visited \in Seq(Node) /\ n \in Nat /\ list.nodes \subseteq Node
      /\ i \in 1..n /\ j \in 1..n /\ Len(visited) = n
  BY <1>1, <1>2 DEF TypeOK, TemplateList, Arrayed, Loop
<1>4. /\ loop' \in Loop
      /\ loop'.i = i /\ loop'.j = j + 1
  <2> DEFINE next == [loop EXCEPT !.j = j + 1]
  <2>1. loop' = [next EXCEPT !.sorting = TRUE] \/ loop' = next
    BY DEF Compare
  <2>2. next \in Loop /\ next.i = i /\ next.j = j + 1
    <3>1. loop \in Loop /\ j + 1 \in Nat
      BY <1>3
    <3> HIDE DEF i, j
    <3>2. next \in Loop /\ next.i = loop.i /\ next.j = j + 1
      BY <3>1, LoopInner, Zenon
    <3> QED BY <3>2 DEF i
  <2> HIDE DEF next
  <2>3. LET m == [next EXCEPT !.sorting = TRUE]
        IN  m \in Loop /\ m.i = i /\ m.j = j + 1
    BY <2>2, LoopSorting
  <2> QED BY <2>1, <2>2, <2>3
<1>5. CASE visited' = Exchanged(visited, i, j)
  <2>1. DOMAIN visited = 1..n
    BY <1>3
  <2>2. visited' = [k \in 1..n |-> IF k = i THEN visited[j]
                                   ELSE IF k = j THEN visited[i] ELSE visited[k]]
    BY <1>5, <2>1 DEF Exchanged
  <2>3. visited' \in Seq(Node) /\ Len(visited') = n
    <3>1. visited' \in [1..n -> Node]
      BY <1>3, <2>2
    <3> QED BY <1>3, <3>1
  <2>4. \A k \in 1..n : visited[k] \in list.nodes
    BY <1>2 DEF Arrayed
  <2>5. \A k \in 1..n : visited'[k] \in list.nodes
    BY <1>3, <2>2, <2>4
  <2>6. ASSUME NEW m \in list.nodes PROVE \E k \in 1..n : visited'[k] = m
    <3>1. PICK k \in 1..n : visited[k] = m
      BY <1>2 DEF Arrayed
    <3>2. visited'[IF k = i THEN j ELSE IF k = j THEN i ELSE k] = m
      BY <1>3, <2>2, <3>1
    <3> QED BY <1>3, <3>2
  <2>7. ASSUME NEW a \in 1..n, NEW b \in 1..n, visited'[a] = visited'[b]
        PROVE  a = b
    <3> DEFINE was(k) == IF k = i THEN j ELSE IF k = j THEN i ELSE k
    <3>1. visited[was(a)] = visited[was(b)] /\ was(a) \in 1..n /\ was(b) \in 1..n
      BY <1>3, <2>2, <2>7
    <3>2. was(a) = was(b)
      BY <1>2, <3>1 DEF Arrayed
    <3> QED BY <3>2
  <2>8. Arrayed'
    BY <1>1, <2>3, <2>5, <2>6, <2>7 DEF Arrayed
  <2> QED BY <1>1, <1>2, <1>3, <1>4, <2>3, <2>8, PassSuffices
<1>6. CASE UNCHANGED visited
  <2>1. Arrayed' /\ visited' \in Seq(Node)
    BY <1>1, <1>2, <1>3, <1>6 DEF Arrayed
  <2> QED BY <1>1, <1>2, <1>3, <1>4, <2>1, PassSuffices
<1> QED BY <1>5, <1>6 DEF Compare

LEMMA NextRoundKeeps ==
  ASSUME IInv, NextRound
  PROVE  IInv'
<1>1. /\ pc = "compare"
      /\ loop' = IF loop.sorting /\ loop.i < nbUnit
                 THEN [loop EXCEPT !.i = @ + 1, !.j = loop.i + 2, !.sorting = FALSE]
                 ELSE StartOfPass(loop.pass + 1)
      /\ UNCHANGED <<list, obj, nbUnit, SpellID, op, pc, arg, visited, size, packet>>
  BY DEF NextRound
<1>2. TypeOK /\ Arrayed /\ 1 <= loop.i /\ loop.i < loop.j
  BY <1>1 DEF IInv, ListInv, Place
<1>3. /\ loop' \in Loop
      /\ 1 <= loop'.i /\ loop'.i < loop'.j
  <2>1. loop \in Loop
    BY <1>2 DEF TypeOK, Loop
  <2>2. CASE loop' = [loop EXCEPT !.i = @ + 1, !.j = loop.i + 2, !.sorting = FALSE]
    <3>1. loop.i \in Nat /\ loop.i + 1 \in Nat /\ loop.i + 2 \in Nat
      BY <2>1 DEF Loop
    <3> DEFINE u == [loop EXCEPT !.i = loop.i + 1]
               v == [u EXCEPT !.j = loop.i + 2]
    <3>2. u \in Loop /\ u.i = loop.i + 1
      BY <2>1, <3>1, LoopOuter
    <3> HIDE DEF u
    <3>3. v \in Loop /\ v.i = loop.i + 1 /\ v.j = loop.i + 2
      BY <3>1, <3>2, LoopInner
    <3> HIDE DEF v
    <3>4. LET m == [v EXCEPT !.sorting = FALSE]
          IN  m \in Loop /\ m.i = loop.i + 1 /\ m.j = loop.i + 2
      BY <3>3, LoopSorting
    <3>5. loop' = [v EXCEPT !.sorting = FALSE]
      BY <2>2 DEF u, v
    <3> QED BY <1>2, <3>1, <3>4, <3>5
  <2>3. CASE loop' = StartOfPass(loop.pass + 1)
    BY <2>1, <2>3 DEF StartOfPass, Loop
  <2> QED BY <1>1, <2>2, <2>3
<1>4. Arrayed' /\ visited' \in Seq(Node)
  BY <1>1, <1>2 DEF Arrayed, TypeOK
<1> QED BY <1>1, <1>3, <1>4, PassSuffices
\* The new links make the list that the array holds.
LEMMA RelinkedHolds ==
  ASSUME NEW l \in TemplateList, NEW ptr, DOMAIN ptr = 1..l.nb_objects,
         \A i \in 1..l.nb_objects : ptr[i] \in l.nodes,
         \A m \in l.nodes : \E i \in 1..l.nb_objects : ptr[i] = m,
         \A i, j \in 1..l.nb_objects : ptr[i] = ptr[j] => i = j
  PROVE  LET m == Relinked(l, ptr, l.nb_objects)
         IN  /\ m \in TemplateList /\ Represents(m, ptr)
             /\ m.nb_objects = l.nb_objects /\ m.nodes = l.nodes
<1> DEFINE n == l.nb_objects
           At(k) == IF k \in 1..n THEN ptr[k] ELSE NULL
           Spot(m) == CHOOSE k \in 1..n : ptr[k] = m
           InArray(m) == \E k \in 1..n : ptr[k] = m
           m == Relinked(l, ptr, n)
<1>1. /\ n \in Nat /\ l.nodes \subseteq Node
      /\ l.Greater \in [Node -> Link] /\ l.Lesser \in [Node -> Link]
  BY DEF TemplateList
<1>2. \A k \in 1..n : ptr[k] \in l.nodes /\ ptr[k] \in Node
  BY <1>1
<1>3. \A k : At(k) \in Link
  BY <1>2 DEF Link
<1>4. m = [l EXCEPT
        !.Head = At(1), !.Current = At(1), !.Tail = At(n),
        !.Greater = [e \in Node |-> IF InArray(e) THEN At(Spot(e) + 1) ELSE l.Greater[e]],
        !.Lesser = [e \in Node |-> IF InArray(e) THEN At(Spot(e) - 1) ELSE l.Lesser[e]]]
  BY DEF Relinked
<1>5. \A k \in 1..n : InArray(ptr[k]) /\ Spot(ptr[k]) = k
  OBVIOUS
<1> HIDE DEF m, At, Spot, InArray
<1>6. /\ m.Head = At(1) /\ m.Tail = At(n) /\ m.Current = At(1)
      /\ m.nb_objects = n /\ m.nodes = l.nodes
      /\ m.Greater = [e \in Node |-> IF InArray(e) THEN At(Spot(e) + 1) ELSE l.Greater[e]]
      /\ m.Lesser = [e \in Node |-> IF InArray(e) THEN At(Spot(e) - 1) ELSE l.Lesser[e]]
  BY <1>4 DEF TemplateList
<1>7. m \in TemplateList
  <2>1. /\ [e \in Node |-> IF InArray(e) THEN At(Spot(e) + 1) ELSE l.Greater[e]]
             \in [Node -> Link]
        /\ [e \in Node |-> IF InArray(e) THEN At(Spot(e) - 1) ELSE l.Lesser[e]]
             \in [Node -> Link]
    BY <1>1, <1>3
  <2> QED BY <1>3, <1>4, <2>1 DEF TemplateList
<1>8. \A k \in 1..n :
        /\ m.Greater[ptr[k]] = At(k + 1)
        /\ m.Lesser[ptr[k]] = At(k - 1)
  BY <1>2, <1>5, <1>6
<1>9. Represents(m, ptr)
  BY <1>1, <1>6, <1>8 DEF Represents, At
<1> QED BY <1>6, <1>7, <1>9 DEF m

LEMMA EndSortKeeps ==
  ASSUME IInv, EndSort
  PROVE  IInv'
<1>1. /\ pc = "compare" /\ list' = Relinked(list, visited, nbUnit)
      /\ op' = "none" /\ pc' = "idle" /\ visited' = <<>> /\ size' = 0
      /\ loop' = NoLoop /\ UNCHANGED <<obj, nbUnit, SpellID, arg, packet>>
  BY DEF EndSort
<1>2. /\ TypeOK /\ nbUnit = list.nb_objects /\ Arrayed
      /\ list \in TemplateList /\ visited \in Seq(Node)
  BY <1>1 DEF IInv, ListInv, Place, TypeOK
<1>3. PICK t : t = visited
  OBVIOUS
<1>4. /\ DOMAIN t = 1..list.nb_objects
      /\ \A i \in 1..list.nb_objects : t[i] \in list.nodes
      /\ \A m \in list.nodes : \E i \in 1..list.nb_objects : t[i] = m
      /\ \A i, j \in 1..list.nb_objects : t[i] = t[j] => i = j
  BY <1>2, <1>3 DEF Arrayed
<1>5. /\ list' \in TemplateList /\ Represents(list', t)
      /\ list'.nb_objects = list.nb_objects /\ list'.nodes = list.nodes
  BY <1>1, <1>2, <1>3, <1>4, RelinkedHolds
<1>6. loop' \in Loop /\ visited' \in Seq(Node)
  BY <1>1 DEF NoLoop, Loop
<1>7. TypeOK'
  BY <1>1, <1>2, <1>5, <1>6 DEF TypeOK, Loop
<1> QED BY <1>1, <1>2, <1>5, <1>7, IdleSuffices

-----------------------------------------------------------------------------
\* The invariant is inductive.

LEMMA InitHolds ==
  ASSUME Init
  PROVE  IInv
<1>1. EmptyList \in TemplateList
  BY DEF EmptyList, TemplateList, Link, ListStatus
<1>2. Represents(EmptyList, [k \in 1..0 |-> NULL])
  BY DEF Represents, EmptyList
<1>3. TypeOK
  <2>1. NoLoop \in Loop
    BY DEF NoLoop, Loop
  <2>2. list.nodes = {}
    BY DEF Init, EmptyList
  <2> QED BY <1>1, <2>1, <2>2, VisibleObjectsAssumption DEF Init, TypeOK, Loop, Ready
<1>4. ListInv
  <2>1. PICK s \in [1..list.nb_objects -> list.nodes] : Represents(list, s)
    BY <1>1, <1>2, AsFunction DEF Init
  <2>2. Place(s)
    BY DEF Init, Place, Walking
  <2>3. nbUnit = list.nb_objects
    BY DEF Init, EmptyList
  <2> QED BY <2>1, <2>2, <2>3 DEF ListInv
<1> QED BY <1>3, <1>4 DEF Init, IInv, Control, Allocated

LEMMA StepKeeps ==
  ASSUME IInv, [Next]_vars
  PROVE  IInv'
<1>1. ASSUME PacketThread PROVE IInv'
  BY <1>1, ArriveKeeps, MoveObjectKeeps, OwnEntranceKeeps, LoadSpellIDKeeps,
     StoreSpellIDKeeps,
     CastKeeps, DeleteKeeps, ReplaceKeeps, ReplaceDeleteKeeps, DeleteAllKeeps
  DEF PacketThread
<1>2. ASSUME DrawThread PROVE IInv'
  BY <1>2, ExpireKeeps, LandKeeps, MovePlayerKeeps, SortKeeps, LookSortKeeps,
     SeraphEndsKeeps, SummonKeeps, BeginPassesKeeps, CompareKeeps, NextRoundKeeps,
     EndSortKeeps, LookMovePlayerKeeps, EndMovePlayerKeeps, AddSceneryKeeps
  DEF DrawThread
<1>3. ASSUME Walk PROVE IInv'
  BY <1>3, QueryKeeps, LookDeleteAllKeeps, KillKeeps, EndDeleteAllKeeps DEF Walk
<1>4. CASE UNCHANGED vars
  <2>1. TypeOK'
    BY <1>4 DEF IInv, TypeOK, vars
  <2>2. Control' /\ ListInv' /\ Allocated'
    BY <1>4 DEF IInv, Control, IDs, ListInv, Place, AtQuery, AtElement, Passed,
                Arrayed, Allocated, vars
  <2> QED BY <2>1, <2>2 DEF IInv
<1> QED BY <1>1, <1>2, <1>3, <1>4 DEF Next

LEMMA Invariance == Spec => []IInv
BY InitHolds, StepKeeps, PTL DEF Spec

\* Links, cursor, objects and coordinates keep their types.
THEOREM TypeCorrect == Spec => []TypeOK
<1>1. IInv => TypeOK
  BY DEF IInv
<1> QED BY <1>1, Invariance, PTL

\* Adding, killing and sorting keep one doubly linked list, counted by nbUnit.
THEOREM ListStaysWellFormed == Spec => []ListIsWellFormed
<1>1. IInv => ListIsWellFormed
  BY DEF IInv, ListInv, ListIsWellFormed
<1> QED BY <1>1, Invariance, PTL

LEMMA CursorInList == IInv => CursorIsLive
<1> SUFFICES ASSUME IInv, pc \in Walking PROVE list.Current \in list.nodes
  BY DEF CursorIsLive, Walking
<1>1. PICK s : Represents(list, s) /\ Place(s)
  BY DEF IInv, ListInv
<1>2. CASE op = "Delete"
  BY <1>1, <1>2 DEF Place
<1>3. CASE op # "Delete"
  BY <1>1, <1>3, OnElement DEF Place, IInv
<1> QED BY <1>2, <1>3

\* No handler dereferences a freed element or NULL.
THEOREM CursorStaysLive == Spec => []CursorIsLive
BY CursorInList, Invariance, PTL

\* A walk that kills and adds objects on its way passes all the others once.
THEOREM WalksMissNone == Spec => []WalkMissesNone
<1>1. IInv => WalkMissesNone
  <2> SUFFICES ASSUME IInv, pc \in {"end", "compare"}
               PROVE  /\ Len(visited) = nbUnit
                      /\ {visited[k] : k \in 1..Len(visited)} = list.nodes
    BY DEF WalkMissesNone
  <2>1. PICK s : Represents(list, s) /\ Place(s)
    BY DEF IInv, ListInv
  <2>2. nbUnit = list.nb_objects
    BY DEF IInv, ListInv
  <2>3. CASE pc = "end"
    <3>1. /\ Len(visited) = list.nb_objects
          /\ \A i \in 1..list.nb_objects : visited[i] = s[i]
      BY <2>1, <2>3 DEF Place, Passed
    <3> QED BY <2>1, <2>2, <3>1 DEF Represents
  <2>4. CASE pc = "compare"
    BY <2>1, <2>2, <2>4 DEF Place, Arrayed
  <2> QED BY <2>3, <2>4
<1> QED BY <1>1, Invariance, PTL

\* Sort stays inside the arrays it allocated when it began.
THEOREM SortStaysInItsArrays == Spec => []SortFitsItsArrays
<1>1. IInv => SortFitsItsArrays
  <2> SUFFICES ASSUME IInv, op = "Sort"
               PROVE  Len(visited) <= size /\ (pc = "compare" => nbUnit <= size)
    BY DEF SortFitsItsArrays
  <2>1. PICK s : Represents(list, s) /\ Place(s)
    BY DEF IInv, ListInv
  <2>2. /\ nbUnit = list.nb_objects /\ nbUnit \in Nat /\ size \in Nat
        /\ Len(visited) \in Nat
        /\ nbUnit <= size \/ (pc = "kill" /\ nbUnit <= size + 1)
        /\ pc \in {"query", "look", "summon", "kill", "end", "compare"}
    BY DEF IInv, ListInv, Allocated, Control, TypeOK
  <2>3. /\ Len(visited) <= nbUnit
        /\ pc = "kill" => Len(visited) < nbUnit
    BY <2>1, <2>2 DEF Place, Walking, AtQuery, AtElement, Arrayed
  <2> QED BY <2>2, <2>3
<1> QED BY <1>1, Invariance, PTL
-----------------------------------------------------------------------------
(* What a step does to the objects: it keeps them, or adds one, or removes *)
(* one that was due to leave.                                              *)

\* IDs that are not the client's own.
Given == ServerIDs \cup {PlayerID} \cup Scenery

\* Only the server announces seraphs; no spell and no seraph summons one.
Origins ==
  \A n \in list.nodes :
    /\ obj[n].SummonID # "SERAPH"
    /\ obj[n].Type = "SERAPH" => obj[n].NewID \in ServerIDs

WantedOut(o) == o.DeleteMe \/ OutOfRange(o)

\* What Sort and MovePlayer kill, after a summons too, is still wanted out.
KillsTheDue ==
  op \in {"MovePlayer", "Sort"} /\ pc \in {"summon", "kill"} =>
    WantedOut(obj[list.Current])

\* The object stays the one it is.
Same(n) ==
  /\ obj'[n].ID = obj[n].ID /\ obj'[n].Type = obj[n].Type
  /\ obj'[n].NewID = obj[n].NewID
  /\ obj'[n].SummonID = "SERAPH" => obj[n].SummonID = "SERAPH"

AsDue(n) == Due(n)' <=> Due(n)

Stay == list'.nodes = list.nodes /\ \A n \in list.nodes : Same(n)

\* SpellID has been given away: it is counted down, or about to be.
Used == SpellID' = SpellID - 1 \/ packet'.at = "load"

Enters(n) ==
  /\ n \in Node \ list.nodes /\ list'.nodes = list.nodes \cup {n}
  /\ \A m \in list.nodes : Same(m) /\ AsDue(m)
  /\ obj'[n].SummonID # "SERAPH"
  /\ IF obj'[n].Type = "SERAPH"
     THEN /\ obj'[n].ID = SpellID /\ SpellID' = SpellID - 1
          /\ obj'[n].NewID \in ServerIDs /\ packet.at = "ready"
     ELSE /\ obj'[n].ID \notin IDs
          /\ obj'[n].ID \in Given \/ (obj'[n].ID = SpellID /\ Used)

Leaves(c) ==
  /\ c \in list.nodes /\ Due(c) /\ list'.nodes = list.nodes \ {c}
  /\ \A m \in list'.nodes : Same(m) /\ AsDue(m)

StepKind == Stay \/ (\E n \in Node : Enters(n)) \/ (\E c \in Node : Leaves(c))

\* The object a walk stands on.
LEMMA StandsOn ==
  ASSUME IInv, pc \in Walking
  PROVE  /\ list.Current \in list.nodes /\ list.Current \in Node
         /\ obj[list.Current] \in TFCObject
BY CursorInList DEF CursorIsLive, Walking, IInv, TypeOK, TemplateList

\* Add brings one object or none.
LEMMA AddEnters ==
  ASSUME IInv, NEW STATE objects, objects \in Objects,
         \A m \in list.nodes :
           /\ objects[m].ID = obj[m].ID /\ objects[m].Type = obj[m].Type
           /\ objects[m].NewID = obj[m].NewID
           /\ objects[m].pos = obj[m].pos /\ objects[m].DeleteMe = obj[m].DeleteMe
           /\ objects[m].SummonID = "SERAPH" => obj[m].SummonID = "SERAPH",
         NEW STATE id, NEW STATE type, NEW STATE pos, NEW saved \in BOOLEAN,
         Add(objects, id, type, pos, NONE, NONE, saved),
         op \notin {"Delete", "DeleteAll"}, op' \notin {"Delete", "DeleteAll"},
         type = "SERAPH" => /\ id \in ServerIDs /\ packet.at = "ready"
                            /\ AlreadyHere(id) \/ SpellID' = SpellID - 1,
         type # "SERAPH" => id \in Given \/ (id = SpellID /\ Used)
  PROVE  StepKind
<1>1. PICK s : Represents(list, s)
  BY DEF IInv, ListInv
<1>2. TypeOK /\ list \in TemplateList /\ list.nodes \subseteq Node
  BY DEF IInv, TypeOK, TemplateList
<1>3. CASE AlreadyHere(id)
  <2>1. PICK l \in Searched(id) :
          obj' = objects /\ list' = IF saved THEN RestorePointer(l) ELSE l
    BY <1>3 DEF Add
  <2>2. l \in TemplateList /\ l.nodes = list.nodes
    BY <1>2, SearchFinds
  <2>3. list'.nodes = list.nodes
    BY <1>2, <2>1, <2>2, RestorePointerIsApart
  <2> QED BY <2>1, <2>3 DEF StepKind, Stay, Same
<1>4. CASE ~ AlreadyHere(id)
  <2> DEFINE o == NewObject(id, type, pos, NONE, NONE)
  <2>1. PICK n \in Node \ list.nodes :
          /\ obj' = [objects EXCEPT ![n] = o]
          /\ list' = IF saved THEN RestorePointer(AddToTail(list, n))
                     ELSE AddToTail(list, n)
    BY <1>4 DEF Add
  <2>2. AddToTail(list, n) \in TemplateList
    BY <1>1, <1>2, AddToTailAppends
  <2>3. AddToTail(list, n).nodes = list.nodes \cup {n}
    BY DEF AddToTail
  <2>4. list'.nodes = list.nodes \cup {n}
    BY <1>2, <2>1, <2>2, <2>3, RestorePointerIsApart
  <2>5. /\ o.ID = IF type = "SERAPH" THEN SpellID ELSE id
        /\ o.Type = type /\ o.NewID = id /\ o.SummonID # "SERAPH"
    BY DEF NewObject, NONE
  <2>6. id \notin IDs
    BY <1>4 DEF AlreadyHere
  <2> HIDE DEF o
  <2>7. obj'[n] = o /\ \A m \in list.nodes : obj'[m] = objects[m]
    BY <1>2, <2>1 DEF Objects
  <2>8. ASSUME NEW m \in list.nodes PROVE Same(m) /\ AsDue(m)
    BY <2>7 DEF Same, AsDue, Due, OutOfRange
  <2>9. IF obj'[n].Type = "SERAPH"
        THEN /\ obj'[n].ID = SpellID /\ SpellID' = SpellID - 1
             /\ obj'[n].NewID \in ServerIDs /\ packet.at = "ready"
        ELSE /\ obj'[n].ID \notin IDs
             /\ obj'[n].ID \in Given \/ (obj'[n].ID = SpellID /\ Used)
    <3>1. CASE type = "SERAPH"
      BY <1>4, <2>5, <2>7, <3>1
    <3>2. CASE type # "SERAPH"
      BY <2>5, <2>6, <2>7, <3>2
    <3> QED BY <3>1, <3>2
  <2>10. Enters(n)
    BY <2>4, <2>5, <2>7, <2>8, <2>9 DEF Enters
  <2> QED BY <2>10 DEF StepKind
<1> QED BY <1>3, <1>4

\* Add with the objects as they are.
LEMMA PlainAddEnters ==
  ASSUME IInv,
         NEW STATE id, NEW STATE type, NEW STATE pos, NEW saved \in BOOLEAN,
         Add(obj, id, type, pos, NONE, NONE, saved),
         op \notin {"Delete", "DeleteAll"}, op' \notin {"Delete", "DeleteAll"},
         type = "SERAPH" => /\ id \in ServerIDs /\ packet.at = "ready"
                            /\ AlreadyHere(id) \/ SpellID' = SpellID - 1,
         type # "SERAPH" => id \in Given \/ (id = SpellID /\ Used)
  PROVE  StepKind
<1>1. obj \in Objects
  BY DEF IInv, TypeOK, Objects
<1> QED BY <1>1, AddEnters

\* One object changes what is not its ID.
LEMMA OneChanges ==
  ASSUME TypeOK, NEW STATE c, c \in list.nodes, NEW STATE o,
         obj' = [obj EXCEPT ![c] = o],
         list'.nodes = list.nodes,
         o.ID = obj[c].ID, o.Type = obj[c].Type, o.NewID = obj[c].NewID,
         o.SummonID = "SERAPH" => obj[c].SummonID = "SERAPH"
  PROVE  StepKind
<1>1. ASSUME NEW m \in list.nodes PROVE Same(m)
  <2>1. m \in Node /\ c \in Node
    BY DEF TypeOK, TemplateList
  <2>2. obj'[m] = IF m = c THEN o ELSE obj[m]
    BY <2>1 DEF TypeOK
  <2> QED BY <2>2 DEF Same
<1> QED BY <1>1 DEF StepKind, Stay

LEMMA PacketThreadKinds ==
  ASSUME IInv, Origins, PacketThread
  PROVE  StepKind
<1> USE DEF PacketReady, Unlocked
<1>0. /\ TypeOK /\ list \in TemplateList /\ list.nodes \subseteq Node
      /\ \A n \in list.nodes : obj[n] \in TFCObject
  BY DEF IInv, TypeOK, TemplateList
<1>1. ASSUME UNCHANGED obj, list'.nodes = list.nodes PROVE StepKind
  BY <1>1 DEF StepKind, Stay, Same
<1>a. ASSUME NEW id \in ServerIDs, NEW a \in Arrivals,
             Add(obj, id, a.Type, a.pos, NONE, NONE, FALSE),
             SpellID' = SpellID - Taken(id, a.Type),
             op = "none", op' = "none", packet.at = "ready"
      PROVE  StepKind
  <2>1. a.Type = "SERAPH" => AlreadyHere(id) \/ SpellID' = SpellID - 1
    BY <1>a DEF Taken, AlreadyHere
  <2> QED BY <1>a, <2>1, PlainAddEnters DEF Given
<1>2. ASSUME NEW id \in ServerIDs, NEW a \in Arrivals, Arrive(id, a)
      PROVE  StepKind
  BY <1>a, <1>2 DEF Arrive
<1>3. ASSUME NEW id \in ServerIDs, NEW a \in Arrivals, NEW samePlace \in BOOLEAN,
             MoveObject(id, a, samePlace)
      PROVE  StepKind
  <2>1. packet.at = "ready" /\ op = "none" /\ op' = "none"
    BY <1>3 DEF MoveObject
  <2>2. CASE id \notin IDs
    BY <1>3, <1>a, <2>1, <2>2 DEF MoveObject
  <2>3. CASE id \in IDs
    <3> DEFINE c == list'.Current
               o == Queued(obj[c], samePlace)
    <3>1. list' \in Searched(id) /\ obj' = [obj EXCEPT ![c] = o]
      BY <1>3, <2>3 DEF MoveObject
    <3>2. list'.nodes = list.nodes /\ c \in list.nodes
      BY <1>0, <2>3, <3>1, SearchFinds
    <3>3. /\ o.ID = obj[c].ID /\ o.Type = obj[c].Type /\ o.NewID = obj[c].NewID
          /\ o.SummonID # "SERAPH"
      BY <1>0, <3>2 DEF Queued, TFCObject, NONE
    <3> HIDE DEF o
    <3>4. ASSUME NEW m \in list.nodes PROVE Same(m)
      <4>1. m \in Node /\ c \in Node
        BY <1>0, <3>2
      <4>2. obj'[m] = IF m = c THEN o ELSE obj[m]
        BY <1>0, <3>1, <4>1 DEF TypeOK
      <4> QED BY <3>3, <4>2 DEF Same
    <3> QED BY <3>2, <3>4 DEF StepKind, Stay
  <2> QED BY <2>2, <2>3
<1>4. ASSUME NEW pos \in Places, OwnEntrance(pos) PROVE StepKind
  <2>1. /\ \/ Add(obj, SpellID, "SPELL", pos, NONE, NONE, FALSE)
           \/ Add(obj, PlayerID, "SPELL", pos, NONE, NONE, FALSE)
           \/ UNCHANGED <<list, obj, nbUnit>>
        /\ op = "none" /\ op' = "none" /\ "SPELL" # "SERAPH"
        /\ packet' = [packet EXCEPT !.at = "load"]
    BY <1>4 DEF OwnEntrance
  <2>2. Used /\ PlayerID \in Given
    BY <1>0, <2>1 DEF Used, TypeOK, Given
  <2> QED BY <1>1, <2>1, <2>2, PlainAddEnters
<1>5. ASSUME LoadSpellID \/ StoreSpellID PROVE StepKind
  BY <1>1, <1>5 DEF LoadSpellID, StoreSpellID
<1>6. ASSUME NEW s \in Spells, Cast(s) PROVE StepKind
  <2>1. s.Type # "SERAPH" /\ s.SummonID # "SERAPH"
    BY VisibleObjectsAssumption
  <2>2. ASSUME NEW o \in TFCObject
        PROVE  /\ Sent(o, s).ID = o.ID /\ Sent(o, s).Type = o.Type
               /\ Sent(o, s).NewID = o.NewID /\ Sent(o, s).SummonID # "SERAPH"
    BY <2>1 DEF Sent, TFCObject
  <2>3. CASE AlreadyHere(SpellID)
    <3> DEFINE c == list'.Current
               o == Sent(obj[c], s)
    <3>1. list' \in Searched(SpellID) /\ obj' = [obj EXCEPT ![c] = o] /\ SpellID \in IDs
      BY <1>6, <2>3 DEF Cast, AlreadyHere
    <3>2. list'.nodes = list.nodes /\ c \in list.nodes
      BY <1>0, <3>1, SearchFinds
    <3>3. /\ o.ID = obj[c].ID /\ o.Type = obj[c].Type /\ o.NewID = obj[c].NewID
          /\ o.SummonID # "SERAPH"
      BY <1>0, <2>2, <3>2
    <3> HIDE DEF o
    <3>4. ASSUME NEW m \in list.nodes PROVE Same(m)
      <4>1. m \in Node /\ c \in Node
        BY <1>0, <3>2
      <4>2. obj'[m] = IF m = c THEN o ELSE obj[m]
        BY <1>0, <3>1, <4>1 DEF TypeOK
      <4> QED BY <3>3, <4>2 DEF Same
    <3> QED BY <3>2, <3>4 DEF StepKind, Stay
  <2>4. CASE ~ AlreadyHere(SpellID)
    <3> DEFINE o == NewObject(SpellID, s.Type, s.pos, s.spellEffectID, s.spellChildID)
               u == Sent(o, s)
    <3>1. PICK n \in Node \ list.nodes :
            /\ list' = SetQueryState(AddToTail(list, n), "STOP_QUERY")
            /\ obj' = [obj EXCEPT ![n] = u]
      BY <1>6, <2>4 DEF Cast
    <3>2. list'.nodes = list.nodes \cup {n}
      <4>1. AddToTail(list, n).nodes = list.nodes \cup {n}
        BY DEF AddToTail
      <4>2. PICK t : Represents(list, t)
        BY DEF IInv, ListInv
      <4>3. AddToTail(list, n) \in TemplateList
        BY <1>0, <3>1, <4>2, AddToTailAppends
      <4> QED BY <3>1, <4>1, <4>3, SetQueryStateIsApart DEF ListStatus
    <3>3. o \in TFCObject
      BY <1>0, VisibleObjectsAssumption, NewObjectIsOne DEF TypeOK
    <3>4. o.ID = SpellID /\ o.Type = s.Type
      BY <2>1 DEF NewObject
    <3> HIDE DEF o
    <3>5. u.ID = SpellID /\ u.Type # "SERAPH" /\ u.SummonID # "SERAPH"
      BY <2>1, <2>2, <3>3, <3>4
    <3> HIDE DEF u
    <3>6. op = "none" /\ op' = "none" /\ SpellID' = SpellID - 1 /\ SpellID \notin IDs
      BY <1>6, <2>4 DEF Cast, AlreadyHere
    <3>7. obj'[n] = u /\ \A m \in list.nodes : obj'[m] = obj[m]
      BY <1>0, <3>1 DEF TypeOK
    <3>8. ASSUME NEW m \in list.nodes PROVE Same(m) /\ AsDue(m)
      BY <3>6, <3>7 DEF Same, AsDue, Due, OutOfRange
    <3>9. Enters(n)
      BY <3>1, <3>2, <3>5, <3>6, <3>7, <3>8 DEF Enters, Used
    <3> QED BY <3>9 DEF StepKind
  <2> QED BY <2>3, <2>4
<1>7. ASSUME NEW id \in ServerIDs, Delete(id) PROVE StepKind
  <2>1. PICK l \in Searched(id) :
          UNCHANGED obj /\ list' \in {l, SetQueryState(l, "QUERY_NEXT")}
    BY <1>7 DEF Delete
  <2>2. l \in TemplateList /\ l.nodes = list.nodes
    BY <1>0, SearchFinds
  <2>3. list'.nodes = list.nodes
    BY <2>1, <2>2, SetQueryStateIsApart DEF ListStatus
  <2> QED BY <1>1, <2>1, <2>3
<1>8. ASSUME NEW id \in ServerIDs, Replace(id) PROVE StepKind
  <2>1. PICK c \in First(id) : Add(obj, SpellID, "SPELL", obj[c].pos, NONE, NONE, FALSE)
    BY <1>8 DEF Replace
  <2>2. /\ op = "none" /\ op' = "Replace" /\ "SPELL" # "SERAPH"
        /\ SpellID' = SpellID - 1
    BY <1>8 DEF Replace
  <2> QED BY <2>1, <2>2, PlainAddEnters DEF Used
<1>9. ASSUME ReplaceDelete PROVE StepKind
  <2>1. PICK l \in Searched(arg) :
          UNCHANGED obj /\ list' = SetQueryState(l, "QUERY_NEXT")
    BY <1>9 DEF ReplaceDelete
  <2>2. l \in TemplateList /\ l.nodes = list.nodes
    BY <1>0, SearchFinds
  <2>3. list'.nodes = list.nodes
    BY <2>1, <2>2, SetQueryStateIsApart DEF ListStatus
  <2> QED BY <1>1, <2>1, <2>3
<1>10. ASSUME DeleteAll PROVE StepKind
  <2>1. UNCHANGED obj /\ list' = ToHead(list)
    BY <1>10 DEF DeleteAll
  <2> QED BY <1>0, <1>1, <2>1, ToHeadIsApart
<1> QED BY <1>2, <1>3, <1>4, <1>5, <1>6, <1>7, <1>8, <1>9, <1>10 DEF PacketThread

LEMMA DrawThreadKinds ==
  ASSUME IInv, Origins, DrawThread
  PROVE  StepKind
<1>0. /\ TypeOK /\ list \in TemplateList /\ list.nodes \subseteq Node
      /\ \A n \in list.nodes : obj[n] \in TFCObject
  BY DEF IInv, TypeOK, TemplateList
<1>1. ASSUME UNCHANGED obj, list'.nodes = list.nodes PROVE StepKind
  BY <1>1 DEF StepKind, Stay, Same
<1>2. ASSUME NEW n \in Node, Expire(n) PROVE StepKind
  <2>1. /\ obj' = [obj EXCEPT ![n] = [obj[n] EXCEPT !.DeleteMe = TRUE]]
        /\ UNCHANGED list /\ n \in list.nodes
    BY <1>2 DEF Expire
  <2> QED BY <1>0, <2>1, OneChanges DEF TFCObject
<1>3. ASSUME NEW n \in Node, NEW pos \in Places, Land(n, pos) PROVE StepKind
  <2> DEFINE o == [obj[n] EXCEPT !.Moving = FALSE, !.pos = pos]
  <2>1. /\ obj' = [obj EXCEPT ![n].Moving = FALSE, ![n].pos = pos]
        /\ UNCHANGED list /\ n \in list.nodes
    BY <1>3 DEF Land
  <2>2. obj' = [obj EXCEPT ![n] = o]
    BY <1>0, <2>1 DEF TypeOK, TFCObject
  <2> QED BY <1>0, <2>1, <2>2, OneChanges DEF TFCObject
<1>4. ASSUME NEW move \in Moves, MovePlayer(move) PROVE StepKind
  BY <1>0, <1>1, <1>4, ToHeadIsApart DEF MovePlayer
<1>5. ASSUME Sort PROVE StepKind
  BY <1>0, <1>1, <1>5, ToHeadIsApart DEF Sort
<1>6. ASSUME NEW isMov \in BOOLEAN, LookSort(isMov) PROVE StepKind
  BY <1>1, <1>6 DEF LookSort
<1>7. ASSUME SeraphEnds PROVE StepKind
  <2> DEFINE c == list.Current
             objects == [obj EXCEPT ![c].SummonID = NONE]
  <2>1. /\ op = "Sort" /\ pc = "look" /\ op' = "none" /\ obj[c].Type = "SERAPH"
        /\ Add(objects, obj[c].NewID, obj[c].SummonID, obj[c].pos, NONE, NONE, TRUE)
    BY <1>7 DEF SeraphEnds
  <2>2. c \in list.nodes
    BY <2>1, StandsOn DEF Walking
  <2>3. [obj[c] EXCEPT !.SummonID = NONE] \in TFCObject
    BY <1>0, <2>2, VisibleObjectsAssumption DEF TFCObject, NONE
  <2>4. objects \in Objects
    BY <1>0, <2>2, <2>3 DEF TypeOK, Objects
  <2>5. \A m \in list.nodes :
          /\ objects[m].ID = obj[m].ID /\ objects[m].Type = obj[m].Type
          /\ objects[m].NewID = obj[m].NewID
          /\ objects[m].pos = obj[m].pos /\ objects[m].DeleteMe = obj[m].DeleteMe
          /\ objects[m].SummonID \in {obj[m].SummonID, NONE}
    BY <1>0, <2>2 DEF TypeOK, TFCObject
  <2>6. obj[c].SummonID # "SERAPH" /\ obj[c].NewID \in Given
    BY <2>1, <2>2 DEF Origins, Given
  <2>7. \A m \in list.nodes :
          objects[m].SummonID = "SERAPH" => obj[m].SummonID = "SERAPH"
    BY <2>5 DEF NONE
  <2> HIDE DEF objects
  <2> QED BY <2>1, <2>4, <2>5, <2>6, <2>7, AddEnters
<1>8. ASSUME Summon PROVE StepKind
  <2> DEFINE c == list.Current
  <2>1. /\ pc = "summon" /\ op' = op /\ SpellID' = SpellID - 1
        /\ Add(obj, SpellID, obj[c].SummonID, obj[c].pos, NONE, NONE, TRUE)
    BY <1>8 DEF Summon
  <2>2. op = "Sort"
    BY <2>1, Walkers
  <2>3. obj[c].SummonID # "SERAPH"
    BY <2>1, StandsOn DEF Walking, Origins
  <2> QED BY <2>1, <2>2, <2>3, PlainAddEnters DEF Used
<1>9. ASSUME BeginPasses \/ Compare \/ NextRound \/ EndMovePlayer PROVE StepKind
  BY <1>1, <1>9 DEF BeginPasses, Compare, NextRound, EndMovePlayer
<1>10. ASSUME EndSort PROVE StepKind
  <2>1. list'.nodes = list.nodes
    BY <1>0, <1>10 DEF EndSort, Relinked, TemplateList
  <2> QED BY <1>1, <1>10, <2>1 DEF EndSort
<1>11. ASSUME LookMovePlayer PROVE StepKind
  <2> DEFINE c == list.Current
             x == SignedChar(obj[c].pos.OX - arg[1])
             y == SignedChar(obj[c].pos.OY - arg[2])
             o == [obj[c] EXCEPT !.pos.OX = x, !.pos.OY = y]
  <2>1. pc = "look" /\ UNCHANGED list /\ obj' = [obj EXCEPT ![c] = o]
    BY <1>11 DEF LookMovePlayer
  <2>2. c \in list.nodes
    BY <2>1, StandsOn DEF Walking
  <2> HIDE DEF x, y
  <2>3. /\ o.ID = obj[c].ID /\ o.Type = obj[c].Type /\ o.NewID = obj[c].NewID
        /\ o.SummonID = obj[c].SummonID
    BY <1>0, <2>2 DEF TFCObject
  <2> HIDE DEF o
  <2> QED BY <1>0, <2>1, <2>2, <2>3, OneChanges
<1>12. ASSUME NEW id \in Scenery, NEW pos \in Places, AddScenery(id, pos)
       PROVE  StepKind
  <2>1. /\ Add(obj, id, "SCENERY", pos, NONE, NONE, FALSE)
        /\ op = "MovePlayer" /\ op' = op /\ "SCENERY" # "SERAPH"
    BY <1>12 DEF AddScenery
  <2> QED BY <2>1, PlainAddEnters DEF Given
<1> QED BY <1>2, <1>3, <1>4, <1>5, <1>6, <1>7, <1>8, <1>9, <1>10, <1>11, <1>12
        DEF DrawThread

\* KillObject removes what the walk stands on, which is due; the others are
\* as due as before.
LEMMA KillLeaves ==
  ASSUME IInv, KillsTheDue, Kill
  PROVE  StepKind
<1> DEFINE removed == RemoveObject(list)
           c == list.Current
<1>1. /\ TypeOK /\ list \in TemplateList /\ list.nodes \subseteq Node /\ pc = "kill"
      /\ op \in {"Delete", "DeleteAll", "MovePlayer", "Sort"}
  BY DEF Kill, IInv, Control, TypeOK, TemplateList
<1>2. c \in list.nodes
  BY <1>1, StandsOn DEF Walking
<1>3. Due(c)
  BY <1>1 DEF Due, KillsTheDue, WantedOut
<1>4. /\ obj' = [obj EXCEPT ![c] = NoObject]
      /\ list' \in {removed, ToHead(removed), SetQueryState(removed, "STOP_QUERY")}
      /\ op' = IF op = "Delete" THEN "none" ELSE op
  BY <1>1 DEF Kill, RestartSort
<1>5. removed.nodes = list.nodes \ {c}
  BY <1>1 DEF RemoveObject, Unlinked, TemplateList
<1>6. list'.nodes = list.nodes \ {c}
  <2>1. /\ ToHead(removed).nodes = removed.nodes
        /\ SetQueryState(removed, "STOP_QUERY").nodes = removed.nodes
    BY <1>1 DEF ToHead, SetQueryState, RemoveObject, Unlinked, TemplateList
  <2> QED BY <1>4, <1>5, <2>1
<1>7. \A m \in list'.nodes : obj'[m] = obj[m]
  BY <1>1, <1>4, <1>6 DEF TypeOK
<1>8. ASSUME NEW m \in list'.nodes PROVE Same(m) /\ AsDue(m)
  <2>1. OutOfRange(obj[m])' <=> OutOfRange(obj[m])
    BY <1>7 DEF OutOfRange
  <2>2. m # c
    BY <1>6
  <2>3. Due(m)' <=> Due(m)
    BY <1>1, <1>4, <1>7, <2>1, <2>2 DEF Due
  <2> QED BY <1>7, <2>3 DEF Same, AsDue
<1> HIDE DEF removed
<1>9. Leaves(c)
  BY <1>2, <1>3, <1>6, <1>8 DEF Leaves
<1> QED BY <1>1, <1>2, <1>9 DEF StepKind

\* So each step is of one of the three kinds.
LEMMA StepKinds ==
  ASSUME IInv, Origins, KillsTheDue, [Next]_vars
  PROVE  StepKind
<1>0. list \in TemplateList
  BY DEF IInv, TypeOK
<1>1. ASSUME UNCHANGED obj, list'.nodes = list.nodes PROVE StepKind
  BY <1>1 DEF StepKind, Stay, Same
<1>2. CASE UNCHANGED vars
  BY <1>1, <1>2 DEF vars
<1>3. CASE Walk
  <2>1. ASSUME Query PROVE StepKind
    <3>1. list'.nodes = list.nodes /\ UNCHANGED obj
      BY <1>0, <2>1 DEF Query, QueryNext, TemplateList
    <3> QED BY <1>1, <3>1
  <2>2. ASSUME LookDeleteAll \/ EndDeleteAll PROVE StepKind
    BY <1>1, <2>2 DEF LookDeleteAll, EndDeleteAll
  <2> QED BY <1>3, <2>1, <2>2, KillLeaves DEF Walk
<1> QED BY <1>2, <1>3, PacketThreadKinds, DrawThreadKinds DEF Next

\* Nothing but the walk itself changes what it stands on before it kills it.
LEMMA DueStep ==
  ASSUME IInv, KillsTheDue, [Next]_vars
  PROVE  KillsTheDue'
<1> SUFFICES ASSUME op' \in {"MovePlayer", "Sort"}, pc' \in {"summon", "kill"}
             PROVE  WantedOut(obj[list.Current])'
  BY DEF KillsTheDue
<1>0. TypeOK /\ (op = "none" => pc = "idle")
  BY DEF IInv, Control
<1>1. ASSUME UNCHANGED <<list, obj, op, pc>> PROVE WantedOut(obj[list.Current])'
  BY <1>1 DEF KillsTheDue, WantedOut, OutOfRange
<1>2. CASE UNCHANGED vars
  BY <1>1, <1>2 DEF vars
<1>3. CASE PacketThread
  <2>1. LoadSpellID \/ StoreSpellID
    BY <1>0, <1>3 DEF PacketThread, PacketReady, Unlocked, Arrive, MoveObject,
       OwnEntrance, Cast, Delete, Replace, ReplaceDelete, DeleteAll
  <2> QED BY <1>1, <2>1 DEF LoadSpellID, StoreSpellID
<1>4. CASE Walk
  BY <1>4 DEF Walk, Query, LookDeleteAll, Kill, RestartSort, EndDeleteAll
<1>5. CASE DrawThread
  <2>1. CASE LookMovePlayer
    <3> DEFINE c == list.Current
               moved == [obj[c] EXCEPT !.pos.OX = SignedChar(@ - arg[1]),
                                       !.pos.OY = SignedChar(@ - arg[2])]
    <3>1. /\ pc = "look" /\ list' = list /\ obj' = [obj EXCEPT ![c] = moved]
          /\ OutOfRange(moved)
      BY <2>1 DEF LookMovePlayer, Keep
    <3>2. c \in Node
      BY <3>1, StandsOn DEF Walking
    <3> HIDE DEF moved
    <3>3. obj'[c] = moved
      BY <1>0, <3>1, <3>2 DEF TypeOK
    <3> QED BY <3>1, <3>3 DEF WantedOut, OutOfRange
  <2>2. ASSUME NEW isMov \in BOOLEAN, LookSort(isMov)
        PROVE  WantedOut(obj[list.Current])'
    <3>1. UNCHANGED <<list, obj>> /\ Removable(obj[list.Current], isMov)
      BY <2>2 DEF LookSort, Keep
    <3> QED BY <3>1 DEF Removable, WantedOut, OutOfRange
  <2>3. CASE Summon
    <3> DEFINE c == list.Current
    <3>1. /\ pc = "summon" /\ op = "Sort" /\ SpellID' = SpellID - 1
          /\ Add(obj, SpellID, obj[c].SummonID, obj[c].pos, NONE, NONE, TRUE)
      BY <2>3, Walkers DEF Summon
    <3>2. c \in list.nodes /\ obj[c] \in TFCObject
      BY <3>1, StandsOn DEF Walking
    <3>3. /\ obj[c].SummonID \in Names /\ obj[c].pos \in Position
          /\ SpellID \in Int /\ NONE \in Names
      BY <1>0, <3>2, VisibleObjectsAssumption DEF TFCObject, TypeOK, NONE
    <3>4. obj'[c] = obj[c]
      BY <3>1, <3>2, <3>3, PlainAddTypes
    <3>5. PICK s : Represents(list, s)
      BY DEF IInv, ListInv
    <3>6. list'.Current = c
      BY <3>1, <3>5, AddGrows DEF Grown
    <3>7. WantedOut(obj[c])
      BY <3>1 DEF KillsTheDue
    <3> QED BY <3>4, <3>6, <3>7 DEF WantedOut, OutOfRange
  <2>4. LookMovePlayer \/ Summon \/ \E isMov \in BOOLEAN : LookSort(isMov)
    BY <1>0, <1>5 DEF DrawThread, Unlocked, Expire, Land, MovePlayer, Sort,
       SeraphEnds, BeginPasses, Compare, NextRound, EndSort, EndMovePlayer, AddScenery
  <2> QED BY <2>1, <2>2, <2>3, <2>4
<1> QED BY <1>2, <1>3, <1>4, <1>5 DEF Next

LEMMA OriginsInvariance == Spec => [](Origins /\ KillsTheDue)
<1>1. Init => Origins /\ KillsTheDue
  BY DEF Init, Origins, KillsTheDue, EmptyList
<1>2. IInv /\ Origins /\ KillsTheDue /\ [Next]_vars => Origins' /\ KillsTheDue'
  <2> SUFFICES ASSUME IInv, Origins, KillsTheDue, [Next]_vars
               PROVE  Origins' /\ KillsTheDue'
    OBVIOUS
  <2>1. StepKind
    BY StepKinds
  <2>2. Origins'
    BY <2>1 DEF StepKind, Stay, Enters, Leaves, Same, Origins
  <2> QED BY <2>2, DueStep
<1> QED BY <1>1, <1>2, Invariance, PTL DEF Spec

\* Objects share an ID only when one of them is a seraph: whatever the packet
\* thread writes over SpellID, and however often, Add searches for the ID of
\* every other object.
THEOREM TwinsStaySeraphs == Spec => []TwinsAreSeraphs
<1>1. Init => TwinsAreSeraphs
  BY DEF Init, TwinsAreSeraphs, EmptyList
<1>2. IInv /\ Origins /\ KillsTheDue /\ [Next]_vars /\ TwinsAreSeraphs
        => TwinsAreSeraphs'
  <2> SUFFICES ASSUME IInv, Origins, KillsTheDue, [Next]_vars, TwinsAreSeraphs,
                      NEW m \in list'.nodes, NEW n \in list'.nodes,
                      obj'[m].ID = obj'[n].ID, m # n
               PROVE  "SERAPH" \in {obj'[m].Type, obj'[n].Type}
    BY DEF TwinsAreSeraphs
  <2>1. CASE Stay \/ \E c \in Node : Leaves(c)
    BY <2>1 DEF Stay, Leaves, Same, TwinsAreSeraphs
  <2>2. ASSUME NEW e \in Node, Enters(e)
        PROVE  "SERAPH" \in {obj'[m].Type, obj'[n].Type}
    <3>1. CASE m # e /\ n # e
      BY <2>2, <3>1 DEF Enters, Same, TwinsAreSeraphs
    <3>2. CASE m = e \/ n = e
      <4>1. \A p \in list.nodes : obj'[p].ID \in IDs /\ p # e
        BY <2>2 DEF Enters, Same, IDs
      <4> QED BY <2>2, <3>2, <4>1 DEF Enters
    <3> QED BY <3>1, <3>2
  <2> QED BY <2>1, <2>2, StepKinds DEF StepKind
<1> QED BY <1>1, <1>2, Invariance, OriginsInvariance, PTL DEF Spec

-----------------------------------------------------------------------------
(* Where twins come from: a SpellID that goes up again.                    *)

\* An ID the client has taken: SpellID is below it, except between the packet
\* thread's Unlock and its SpellID--.
TakenID(id) ==
  /\ id <= FirstSpellID
  /\ \/ id > SpellID
     \/ id = SpellID /\ (packet.at = "load" \/ (packet.at = "store" /\ packet.loaded = id))

IDInv ==
  /\ SpellID <= FirstSpellID
  /\ packet.at = "store" => SpellID <= packet.loaded /\ packet.loaded <= FirstSpellID
  /\ UniqueIDs
  /\ \A i \in IDs : i \in Given \/ TakenID(i)

\* What a step does to SpellID.
CounterStep ==
  \/ UNCHANGED <<SpellID, packet>>
  \/ SpellID' = SpellID - 1 /\ UNCHANGED packet
  \/ UNCHANGED SpellID /\ packet.at = "ready" /\ packet'.at = "load"
  \/ LoadSpellID
  \/ StoreSpellID

LEMMA CounterSteps ==
  ASSUME IInv, [Next]_vars
  PROVE  CounterStep
<1>1. SpellID \in Int /\ packet \in Packets
  BY DEF IInv, TypeOK, Packets
<1>2. CASE UNCHANGED vars
  BY <1>2 DEF vars, CounterStep
<1>3. CASE PacketThread
  <2>1. ASSUME NEW id, NEW type, SpellID' = SpellID - Taken(id, type), UNCHANGED packet
        PROVE  CounterStep
    <3>1. Taken(id, type) = 0 \/ Taken(id, type) = 1
      BY DEF Taken
    <3>2. SpellID' = SpellID \/ SpellID' = SpellID - 1
      BY <1>1, <2>1, <3>1
    <3> QED BY <2>1, <3>2 DEF CounterStep
  <2>2. ASSUME NEW pos, OwnEntrance(pos) PROVE CounterStep
    BY <1>1, <2>2 DEF OwnEntrance, PacketReady, CounterStep, Packets
  <2>3. ASSUME NEW id, NEW a, Arrive(id, a) PROVE CounterStep
    BY <2>1, <2>3 DEF Arrive
  <2>4. ASSUME NEW id, NEW a, NEW samePlace, MoveObject(id, a, samePlace)
        PROVE  CounterStep
    BY <2>1, <2>4 DEF MoveObject, CounterStep
  <2>5. ASSUME NEW s, Cast(s) PROVE CounterStep
    BY <2>5 DEF Cast, CounterStep
  <2>6. ASSUME NEW id, Delete(id) \/ Replace(id) \/ ReplaceDelete \/ DeleteAll
        PROVE  CounterStep
    BY <2>6 DEF Delete, Replace, ReplaceDelete, DeleteAll, CounterStep
  <2>7. ASSUME LoadSpellID \/ StoreSpellID PROVE CounterStep
    BY <2>7 DEF CounterStep
  <2> QED BY <1>3, <2>2, <2>3, <2>4, <2>5, <2>6, <2>7 DEF PacketThread
<1>4. CASE DrawThread
  BY <1>4 DEF DrawThread, Expire, Land, MovePlayer, Sort, LookSort, SeraphEnds,
     Summon, BeginPasses, Compare, NextRound, EndSort, LookMovePlayer,
     EndMovePlayer, AddScenery, CounterStep
<1>5. CASE Walk
  BY <1>5 DEF Walk, Query, LookDeleteAll, Kill, EndDeleteAll, CounterStep
<1> QED BY <1>2, <1>3, <1>4, <1>5 DEF Next

\* A step that does not count up keeps the IDs apart.
LEMMA IDStep ==
  ASSUME IInv, IInv', Origins, KillsTheDue, IDInv, [Next]_vars, SpellID' <= SpellID
  PROVE  IDInv'
<1>1. /\ SpellID \in Int /\ SpellID' \in Int /\ FirstSpellID \in Int
      /\ packet \in Packets /\ packet' \in Packets
  BY VisibleObjectsAssumption DEF IInv, TypeOK, Packets
<1>2. /\ \A n \in list.nodes : obj[n].ID \in Int
      /\ \A n \in list'.nodes : obj'[n].ID \in Int
      /\ \A i \in Given : i \in Int /\ i > FirstSpellID
  BY VisibleObjectsAssumption DEF IInv, TypeOK, TFCObject, Given
<1>3. CounterStep /\ StepKind
  BY CounterSteps, StepKinds
<1>4. /\ SpellID' <= FirstSpellID
      /\ packet'.at = "store" =>
           SpellID' <= packet'.loaded /\ packet'.loaded <= FirstSpellID
  BY <1>1, <1>3 DEF CounterStep, LoadSpellID, StoreSpellID, IDInv, Packets, Ready
<1>5. ASSUME NEW i \in Int, TakenID(i) PROVE TakenID(i)'
  <2>1. CASE UNCHANGED <<SpellID, packet>>
    BY <1>5, <2>1 DEF TakenID
  <2>2. CASE SpellID' = SpellID - 1 /\ UNCHANGED packet
    BY <1>1, <1>5, <2>2 DEF TakenID
  <2>3. CASE UNCHANGED SpellID /\ packet.at = "ready" /\ packet'.at = "load"
    BY <1>5, <2>3 DEF TakenID
  <2>4. CASE LoadSpellID
    BY <1>5, <2>4 DEF TakenID, LoadSpellID
  <2>5. CASE StoreSpellID
    <3>1. /\ packet.loaded \in Int /\ SpellID <= packet.loaded
          /\ SpellID' = packet.loaded - 1 /\ packet.at = "store"
      BY <1>1, <2>5 DEF StoreSpellID, IDInv, Packets
    <3>2. i > SpellID'
      BY <1>1, <1>5, <3>1 DEF TakenID
    <3> QED BY <1>5, <3>2 DEF TakenID
  <2> QED BY <1>3, <2>1, <2>2, <2>3, <2>4, <2>5 DEF CounterStep
<1>6. IDs \subseteq Int /\ \A i \in IDs : i \in Given \/ TakenID(i)'
  <2>1. IDs \subseteq Int
    BY <1>2 DEF IDs
  <2>2. ASSUME NEW i \in IDs PROVE i \in Given \/ TakenID(i)'
    <3>1. i \in Given \/ TakenID(i)
      BY DEF IDInv
    <3> QED BY <1>5, <2>1, <3>1
  <2> QED BY <2>1, <2>2
<1>7. CASE Stay \/ \E c \in Node : Leaves(c)
  <2>1. list'.nodes \subseteq list.nodes /\ \A n \in list'.nodes : Same(n)
    BY <1>7 DEF Stay, Leaves
  <2>2. UniqueIDs'
    BY <2>1 DEF UniqueIDs, Same, IDInv
  <2>3. IDs' \subseteq IDs
    BY <2>1 DEF Same, IDs
  <2>4. \A i \in IDs' : i \in Given \/ TakenID(i)'
    BY <1>6, <2>3
  <2> QED BY <1>4, <2>2, <2>4 DEF IDInv, Given
<1>8. ASSUME NEW e \in Node, Enters(e) PROVE IDInv'
  <2>1. /\ list'.nodes = list.nodes \cup {e} /\ e \notin list.nodes
        /\ \A n \in list.nodes : Same(n)
    BY <1>8 DEF Enters
  <2>2. obj'[e].ID \notin IDs
    <3>1. CASE obj'[e].Type = "SERAPH"
      <4>1. obj'[e].ID = SpellID /\ packet.at = "ready"
        BY <1>8, <3>1 DEF Enters
      <4>2. ASSUME SpellID \in IDs PROVE FALSE
        <5>1. SpellID \in Given \/ TakenID(SpellID)
          BY <4>2 DEF IDInv
        <5>2. SpellID \notin Given
          BY <1>1, <1>2 DEF IDInv
        <5>3. ~ TakenID(SpellID)
          BY <1>1, <4>1 DEF TakenID
        <5> QED BY <5>1, <5>2, <5>3
      <4> QED BY <4>1, <4>2
    <3>2. CASE obj'[e].Type # "SERAPH"
      BY <1>8, <3>2 DEF Enters
    <3> QED BY <3>1, <3>2
  <2>3. \A n \in list.nodes : obj'[n].ID # obj'[e].ID
    BY <2>1, <2>2 DEF Same, IDs
  <2>4. UniqueIDs'
    BY <2>1, <2>3 DEF UniqueIDs, Same, IDInv
  <2>5. obj'[e].ID \in Given \/ (obj'[e].ID = SpellID /\ Used)
    BY <1>8 DEF Enters, Used
  <2>6. ASSUME NEW i \in Int, i = SpellID, Used PROVE TakenID(i)'
    <3>1. i <= FirstSpellID
      BY <2>6 DEF IDInv
    <3>2. CASE SpellID' = SpellID - 1
      BY <1>1, <2>6, <3>1, <3>2 DEF TakenID
    <3>3. CASE UNCHANGED SpellID /\ packet'.at = "load"
      BY <1>1, <2>6, <3>1, <3>3 DEF TakenID
    <3>4. packet'.at = "load" => UNCHANGED SpellID \/ SpellID' = SpellID - 1
      BY <1>3 DEF CounterStep, LoadSpellID, StoreSpellID, Ready
    <3> QED BY <2>6, <3>2, <3>3, <3>4 DEF Used
  <2>7. ASSUME NEW i \in IDs' PROVE i \in Given \/ TakenID(i)'
    <3>1. i \in IDs \/ i = obj'[e].ID
      BY <2>1 DEF IDs, Same
    <3>2. i \in Int
      BY <1>2 DEF IDs
    <3> QED BY <1>6, <2>5, <2>6, <3>1, <3>2
  <2>8. \A i \in IDs' : i \in Given \/ TakenID(i)'
    BY <2>7
  <2> QED BY <1>4, <2>4, <2>8 DEF IDInv, Given
<1> QED BY <1>3, <1>7, <1>8 DEF StepKind

\* As long as no store of the packet thread sets SpellID up again, which takes
\* two of Sort's decrements between its load and its store, no two objects
\* share an ID: not between the packet thread's Unlock and its decrement, nor
\* when one decrement is lost.
THEOREM IDsStayUnique == Spec /\ [][SpellID' <= SpellID]_vars => []UniqueIDs
<1>1. Init => IDInv
  <2>1. FirstSpellID \in Int
    BY VisibleObjectsAssumption
  <2> QED BY <2>1 DEF Init, IDInv, UniqueIDs, IDs, EmptyList, Ready
<1>2. IInv /\ IInv' /\ Origins /\ KillsTheDue /\ IDInv /\ [Next]_vars
        /\ [SpellID' <= SpellID]_vars => IDInv'
  <2> SUFFICES ASSUME IInv, IInv', Origins, KillsTheDue, IDInv, [Next]_vars,
                      [SpellID' <= SpellID]_vars
               PROVE  IDInv'
    OBVIOUS
  <2>1. CASE UNCHANGED vars
    BY <2>1 DEF vars, IDInv, UniqueIDs, TakenID, IDs, Given
  <2> QED BY <2>1, IDStep
<1>3. IDInv => UniqueIDs
  BY DEF IDInv
<1> QED BY <1>1, <1>2, <1>3, Invariance, OriginsInvariance, PTL DEF Spec

-----------------------------------------------------------------------------
(* The list implements the abstract set of objects.                        *)

Bar == [n \in list.nodes |-> obj[n].ID]

DueBar == {n \in list.nodes : Due(n)}

AbstractStep == [Visible!Next]_<<Bar, DueBar>>

LEMMA StepRefines ==
  ASSUME IInv, Origins, KillsTheDue, [Next]_vars
  PROVE  AbstractStep
<1>1. /\ DOMAIN Bar = list.nodes /\ \A n \in list.nodes : Bar[n] = obj[n].ID
      /\ DOMAIN Bar' = list'.nodes /\ \A n \in list'.nodes : Bar'[n] = obj'[n].ID
  BY DEF Bar
<1>2. /\ DueBar \subseteq list.nodes /\ DueBar' \subseteq list'.nodes
      /\ \A n \in list.nodes : n \in DueBar <=> Due(n)
      /\ \A n \in list'.nodes : n \in DueBar' <=> Due(n)'
  BY DEF DueBar
<1> USE DEF Visible!Visible, Visible!Kept
<1>3. CASE Stay
  <2>1. Visible!Judge
    BY <1>1, <1>3 DEF Visible!Judge, Stay, Same, Bar
  <2> QED BY <1>1, <1>2, <2>1 DEF AbstractStep, Visible!Next, Bar, DueBar
<1>4. ASSUME NEW n \in Node, Enters(n) PROVE AbstractStep
  <2>1. /\ list'.nodes = list.nodes \cup {n} /\ n \notin list.nodes
        /\ \A m \in list.nodes : Same(m) /\ AsDue(m)
    BY <1>4 DEF Enters
  <2>2. DueBar' \ {n} = DueBar
    BY <1>2, <2>1 DEF AsDue
  <2>3. Visible!Enter(n)
    BY <1>1, <2>1, <2>2 DEF Visible!Enter, Same, Bar, DueBar
  <2> QED BY <1>1, <1>2, <1>4, <2>3 DEF AbstractStep, Visible!Next, Bar, DueBar
<1>5. ASSUME NEW c \in Node, Leaves(c) PROVE AbstractStep
  <2>1. /\ list'.nodes = list.nodes \ {c} /\ c \in list.nodes /\ Due(c)
        /\ \A m \in list'.nodes : Same(m) /\ AsDue(m)
    BY <1>5 DEF Leaves
  <2>2. DueBar' = DueBar \ {c} /\ c \in DueBar
    BY <1>2, <2>1 DEF AsDue
  <2>3. Visible!Leave(c)
    BY <1>1, <2>1, <2>2 DEF Visible!Leave, Same, Bar, DueBar
  <2> QED BY <1>1, <1>2, <1>5, <2>3 DEF AbstractStep, Visible!Next, Bar, DueBar
<1> QED BY <1>3, <1>4, <1>5, StepKinds DEF StepKind

\* VisualObjectList is a set of objects: they enter one at a time, KillObject
\* removes the object a handler wanted out and no other, not even its twin, and
\* no walk and no sort brings or loses one.
THEOREM ImplementsTheVisibleSet == Spec => ImplementsVisibleSet
<1>1. Init => Visible!Init
  BY DEF Init, EmptyList, Visible!Init, Visible!Visible
<1>2. IInv /\ Origins /\ KillsTheDue /\ [Next]_vars => AbstractStep
  BY StepRefines
<1> QED BY <1>1, <1>2, Invariance, OriginsInvariance, PTL
        DEF Spec, ImplementsVisibleSet, Visible!Spec, AbstractStep, Bar, DueBar
=============================================================================
