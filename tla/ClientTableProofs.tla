------------------------- MODULE ClientTableProofs --------------------------
(* For any addresses, any number of buckets and any hash function, the table of  *)
(* the echo server implements one counter per client address.                    *)
EXTENDS ClientTable, TLAPS

\* What is needed of a list: no two nodes for one key.
Distinct(s) == \A i, j \in DOMAIN s : s[i].key = s[j].key => i = j

\* Where a walk along list s for key k stops.
StopOf(s, k) == CHOOSE p \in DOMAIN s : s[p].key = k /\ \A j \in 1 .. p - 1 : s[j].key # k

\* A walk along a list that holds the key once stops at that node.
LEMMA WalkStops ==
    ASSUME NEW s \in Seq(Node), Distinct(s), NEW k, NEW i \in DOMAIN s, s[i].key = k
    PROVE  StopOf(s, k) = i
<1>1. DOMAIN s = 1 .. Len(s)
  OBVIOUS
<1>2. \A j \in 1 .. i - 1 : s[j].key # k
  BY <1>1 DEF Distinct
<1>3. \A p \in DOMAIN s : s[p].key = k => p = i
  BY DEF Distinct
<1> QED
  BY <1>2, <1>3 DEF StopOf

\* Unlinking node p keeps the others, each once and in its order.
LEMMA UnlinkedSeq ==
    ASSUME NEW s \in Seq(Node), NEW p \in DOMAIN s
    PROVE  /\ Unlinked(s, p) \in Seq(Node)
           /\ Len(Unlinked(s, p)) = Len(s) - 1
           /\ \A i \in 1 .. Len(s) - 1 :
                Unlinked(s, p)[i] = IF i < p THEN s[i] ELSE s[i + 1]
<1>1. Len(s) \in Nat /\ p \in 1 .. Len(s)
  OBVIOUS
<1> DEFINE front == SubSeq(s, 1, p - 1)
           back  == SubSeq(s, p + 1, Len(s))
<1>2. front \in Seq(Node) /\ Len(front) = p - 1 /\ \A i \in 1 .. p - 1 : front[i] = s[i]
  BY <1>1
<1>3. back \in Seq(Node) /\ Len(back) = Len(s) - p
      /\ \A i \in 1 .. Len(s) - p : back[i] = s[p + i]
  BY <1>1
<1> HIDE DEF front, back
<1>4. /\ front \o back \in Seq(Node)
      /\ Len(front \o back) = Len(s) - 1
      /\ \A i \in 1 .. Len(s) - 1 :
           (front \o back)[i] = IF i < p THEN s[i] ELSE s[i + 1]
  <2>1. front \o back \in Seq(Node) /\ Len(front \o back) = Len(s) - 1
    BY <1>1, <1>2, <1>3
  <2>2. ASSUME NEW i \in 1 .. Len(s) - 1
        PROVE  (front \o back)[i] = IF i < p THEN s[i] ELSE s[i + 1]
    <3>1. CASE i < p
      BY <1>1, <1>2, <1>3, <3>1
    <3>2. CASE i >= p
      <4>1. i - (p - 1) \in 1 .. Len(s) - p /\ p + (i - (p - 1)) = i + 1
        BY <1>1, <3>2
      <4>2. (front \o back)[i] = back[i - (p - 1)]
        BY <1>1, <1>2, <1>3, <3>2
      <4> QED
        BY <1>1, <1>3, <3>2, <4>1, <4>2
    <3>3. i < p \/ i >= p
      BY <1>1
    <3> QED
      BY <3>1, <3>2, <3>3
  <2> QED
    BY <2>1, <2>2
<1> QED
  BY <1>4 DEF Unlinked, front, back

\* The table is a list of nodes in every bucket, each key in one node and in the
\* bucket of its hash: what the walks rely on.
TableInv == TableTypeOK /\ OneNodePerKey

\* The node of key k holds n.
Holds(s, k, n) == \E i \in DOMAIN s : s[i] = [key |-> k, counter |-> n]

\* The nodes of other keys are the same in two lists.
KeepsOthers(t, s, k) ==
    \A x \in Keys \ {k} : \A n : Holds(t, x, n) <=> Holds(s, x, n)

\* The list of a key is such a list, of nodes that are all for different keys.
LEMMA ChainIsDistinct ==
    ASSUME TableInv, NEW k \in Keys
    PROVE  Chain(k) \in Seq(Node) /\ Distinct(Chain(k))
<1>1. HashKey[k] \in Buckets
  BY ClientTableAssumption
<1> QED
  BY <1>1 DEF TableInv, TableTypeOK, OneNodePerKey, Chain, Distinct

\* A walk finds a node of the key when there is one.
LEMMA PlaceFound ==
    ASSUME TableInv, NEW k \in Keys, Present(k)
    PROVE  Place(k) \in DOMAIN Chain(k) /\ Chain(k)[Place(k)].key = k
<1>1. PICK i \in DOMAIN Chain(k) : Chain(k)[i].key = k
  BY DEF Present
<1>2. Place(k) = i
  BY <1>1, ChainIsDistinct, WalkStops DEF Place, StopOf
<1> QED
  BY <1>1, <1>2

\* Step, and so what is handed out, stays within the counter's width.
LEMMA IssuedType ==
    ASSUME TableInv, NEW k \in Keys
    PROVE  Issued(k) \in 0 .. CounterMod - 1
<1>1. CASE Present(k)
  <2>1. Chain(k)[Place(k)] \in Node
    BY <1>1, PlaceFound, ChainIsDistinct
  <2>2. Chain(k)[Place(k)].counter \in Nat
    BY <2>1, ClientTableAssumption DEF Node
  <2>3. Issued(k) = (Chain(k)[Place(k)].counter + 1) % CounterMod
    BY <1>1 DEF Issued, Step
  <2> QED
    BY <2>2, <2>3, ClientTableAssumption
<1>2. CASE ~Present(k)
  BY <1>2, ClientTableAssumption DEF Issued
<1> QED
  BY <1>1, <1>2

\* Another node for the same key in its place ...
LEMMA NodeUpdated ==
    ASSUME NEW s \in Seq(Node), Distinct(s), NEW p \in DOMAIN s,
           NEW m \in Node, m.key = s[p].key,
           NEW t, t = [s EXCEPT ![p] = m]
    PROVE  /\ t \in Seq(Node) /\ Distinct(t)
           /\ \A i \in DOMAIN t : \E j \in DOMAIN s : t[i].key = s[j].key
           /\ p \in DOMAIN t /\ t[p] = m
           /\ KeepsOthers(t, s, m.key)
<1>1. /\ t \in Seq(Node) /\ DOMAIN t = DOMAIN s
      /\ \A i \in DOMAIN s : t[i] = IF i = p THEN m ELSE s[i]
  OBVIOUS
<1>2. \A i \in DOMAIN s : t[i].key = s[i].key
  BY <1>1
<1>3. Distinct(t)
  BY <1>1, <1>2 DEF Distinct
<1>4. ASSUME NEW x \in Keys \ {m.key}, NEW n
      PROVE  Holds(t, x, n) <=> Holds(s, x, n)
  <2>1. \A i \in DOMAIN s : t[i] = [key |-> x, counter |-> n] => t[i] = s[i]
    BY <1>1
  <2>2. \A i \in DOMAIN s : s[i] = [key |-> x, counter |-> n] => t[i] = s[i]
    BY <1>1
  <2> QED
    BY <1>1, <2>1, <2>2 DEF Holds
<1> QED
  BY <1>1, <1>2, <1>3, <1>4 DEF KeepsOthers

\* ... or a node for a new key in front.
LEMMA NodeInFront ==
    ASSUME NEW s \in Seq(Node), Distinct(s),
           NEW m \in Node, \A i \in DOMAIN s : s[i].key # m.key,
           NEW t, t = <<m>> \o s
    PROVE  /\ t \in Seq(Node) /\ Distinct(t)
           /\ \A i \in DOMAIN t : t[i].key = m.key \/ \E j \in DOMAIN s : t[i].key = s[j].key
           /\ 1 \in DOMAIN t /\ t[1] = m
           /\ KeepsOthers(t, s, m.key)
<1>1. /\ t \in Seq(Node) /\ Len(t) = Len(s) + 1 /\ t[1] = m
      /\ \A i \in 1 .. Len(s) : t[i + 1] = s[i]
  <2>1. <<m>> \in Seq(Node) /\ Len(<<m>>) = 1 /\ <<m>>[1] = m
    OBVIOUS
  <2>2. \A i \in 1 .. Len(s) : (<<m>> \o s)[i + 1] = s[i]
    BY <2>1
  <2> QED
    BY <2>1, <2>2
<1>2. DOMAIN t = 1 .. Len(s) + 1 /\ DOMAIN s = 1 .. Len(s) /\ Len(s) \in Nat
  BY <1>1
<1>3. ASSUME NEW i \in DOMAIN t, i # 1
      PROVE  i - 1 \in DOMAIN s /\ t[i] = s[i - 1]
  <2>1. i - 1 \in 1 .. Len(s) /\ (i - 1) + 1 = i
    BY <1>2, <1>3
  <2> QED
    BY <1>1, <1>2, <2>1
<1>4. Distinct(t)
  <2>1. SUFFICES ASSUME NEW i \in DOMAIN t, NEW j \in DOMAIN t, t[i].key = t[j].key
                 PROVE  i = j
    BY DEF Distinct
  <2>2. CASE i = 1 \/ j = 1
    BY <1>1, <1>3, <2>1, <2>2
  <2>3. CASE i # 1 /\ j # 1
    <3>1. i - 1 = j - 1
      BY <1>3, <2>1, <2>3 DEF Distinct
    <3> QED
      BY <1>2, <3>1
  <2> QED
    BY <2>2, <2>3
<1>5. ASSUME NEW x \in Keys \ {m.key}, NEW n
      PROVE  Holds(t, x, n) <=> Holds(s, x, n)
  <2>1. ASSUME NEW i \in DOMAIN t, t[i] = [key |-> x, counter |-> n]
        PROVE  Holds(s, x, n)
    <3>1. i # 1
      BY <1>1, <2>1
    <3> QED
      BY <1>3, <2>1, <3>1 DEF Holds
  <2>2. ASSUME NEW i \in DOMAIN s, s[i] = [key |-> x, counter |-> n]
        PROVE  Holds(t, x, n)
    <3>1. i + 1 \in DOMAIN t /\ t[i + 1] = s[i]
      BY <1>1, <1>2
    <3> QED
      BY <2>2, <3>1 DEF Holds
  <2> QED
    BY <2>1, <2>2 DEF Holds
<1>6. \A i \in DOMAIN t : t[i].key = m.key \/ \E j \in DOMAIN s : t[i].key = s[j].key
  <2>1. ASSUME NEW i \in DOMAIN t
        PROVE  t[i].key = m.key \/ \E j \in DOMAIN s : t[i].key = s[j].key
    <3>1. CASE i = 1
      BY <1>1, <3>1
    <3>2. CASE i # 1
      BY <1>3, <3>2
    <3> QED
      BY <3>1, <3>2
  <2> QED
    BY <2>1
<1>7. 1 \in DOMAIN t
  BY <1>2
<1> QED
  BY <1>1, <1>4, <1>5, <1>6, <1>7 DEF KeepsOthers

\* What ct_next() makes of the list of its key.
LEMMA ListAfterNext ==
    ASSUME TableInv, NEW k \in Keys,
           NEW t, t = IF Present(k)
                      THEN [Chain(k) EXCEPT ![Place(k)] = [key |-> k, counter |-> Issued(k)]]
                      ELSE <<[key |-> k, counter |-> Issued(k)]>> \o Chain(k)
    PROVE  /\ t \in Seq(Node) /\ Distinct(t)
           /\ \A i \in DOMAIN t : HashKey[t[i].key] = HashKey[k]
           /\ Holds(t, k, Issued(k))
           /\ KeepsOthers(t, Chain(k), k)
<1>1. PICK m : m = [key |-> k, counter |-> Issued(k)]
  OBVIOUS
<1>2. m \in Node /\ m.key = k
  BY <1>1, IssuedType DEF Node
<1>3. Chain(k) \in Seq(Node) /\ Distinct(Chain(k))
  BY ChainIsDistinct
<1>4. \A i \in DOMAIN Chain(k) : HashKey[Chain(k)[i].key] = HashKey[k]
  BY ClientTableAssumption DEF TableInv, OneNodePerKey, Chain
<1>5. CASE Present(k)
  <2>1. Place(k) \in DOMAIN Chain(k) /\ Chain(k)[Place(k)].key = m.key
    BY <1>2, <1>5, PlaceFound
  <2>2. t = [Chain(k) EXCEPT ![Place(k)] = m]
    BY <1>1, <1>5
  <2>3. /\ t \in Seq(Node) /\ Distinct(t)
        /\ \A i \in DOMAIN t : \E j \in DOMAIN Chain(k) : t[i].key = Chain(k)[j].key
        /\ Place(k) \in DOMAIN t /\ t[Place(k)] = m
        /\ KeepsOthers(t, Chain(k), k)
    BY <1>2, <1>3, <2>1, <2>2, NodeUpdated
  <2>4. \A i \in DOMAIN t : HashKey[t[i].key] = HashKey[k]
    BY <1>4, <2>3
  <2>5. Holds(t, k, Issued(k))
    BY <1>1, <2>3 DEF Holds
  <2> QED
    BY <2>3, <2>4, <2>5
<1>6. CASE ~Present(k)
  <2>1. \A i \in DOMAIN Chain(k) : Chain(k)[i].key # m.key
    BY <1>2, <1>6 DEF Present
  <2>2. t = <<m>> \o Chain(k)
    BY <1>1, <1>6
  <2>3. /\ t \in Seq(Node) /\ Distinct(t)
        /\ \A i \in DOMAIN t : \/ t[i].key = m.key
                               \/ \E j \in DOMAIN Chain(k) : t[i].key = Chain(k)[j].key
        /\ 1 \in DOMAIN t /\ t[1] = m
        /\ KeepsOthers(t, Chain(k), m.key)
    <3>1. ASSUME NEW s \in Seq(Node), Distinct(s), s = Chain(k)
          PROVE  /\ t \in Seq(Node) /\ Distinct(t)
                 /\ \A i \in DOMAIN t : t[i].key = m.key \/ \E j \in DOMAIN s : t[i].key = s[j].key
                 /\ 1 \in DOMAIN t /\ t[1] = m
                 /\ KeepsOthers(t, s, m.key)
      <4>1. t = <<m>> \o s /\ \A i \in DOMAIN s : s[i].key # m.key
        BY <2>1, <2>2, <3>1
      <4> QED
        BY <1>2, <3>1, <4>1, NodeInFront
    <3> QED
      BY <1>3, <3>1
  <2>4. \A i \in DOMAIN t : HashKey[t[i].key] = HashKey[k]
    BY <1>2, <1>4, <2>3
  <2>5. Holds(t, k, Issued(k))
    BY <1>1, <2>3 DEF Holds
  <2> QED
    BY <1>2, <2>3, <2>4, <2>5
<1> QED
  BY <1>5, <1>6

\* What ct_reset() makes of the list of its key.
LEMMA ListAfterReset ==
    ASSUME TableInv, NEW k \in Keys,
           NEW t, t = IF Present(k) THEN Unlinked(Chain(k), Place(k)) ELSE Chain(k)
    PROVE  /\ t \in Seq(Node) /\ Distinct(t)
           /\ \A i \in DOMAIN t : HashKey[t[i].key] = HashKey[k]
           /\ \A n : ~Holds(t, k, n)
           /\ KeepsOthers(t, Chain(k), k)
<1> DEFINE s == Chain(k)
<1>2. s \in Seq(Node) /\ Distinct(s)
  BY ChainIsDistinct
<1>3. \A i \in DOMAIN s : HashKey[s[i].key] = HashKey[k]
  BY ClientTableAssumption DEF TableInv, OneNodePerKey, Chain
<1>4. CASE Present(k)
  <2> DEFINE p == Place(k)
  <2>1. p \in DOMAIN s /\ s[p].key = k /\ t = Unlinked(s, p)
    BY <1>4, PlaceFound
  <2> HIDE DEF s, p
  <2>2. t \in Seq(Node) /\ Len(t) = Len(s) - 1
        /\ \A i \in 1 .. Len(s) - 1 : t[i] = IF i < p THEN s[i] ELSE s[i + 1]
    BY <1>2, <2>1, UnlinkedSeq
  <2>3. DOMAIN t = 1 .. Len(s) - 1 /\ DOMAIN s = 1 .. Len(s) /\ Len(s) \in Nat /\ p \in Nat
    BY <1>2, <2>1, <2>2
  <2>4. \A i \in DOMAIN t : \E j \in DOMAIN s : /\ j # p /\ t[i] = s[j]
                                                /\ j = IF i < p THEN i ELSE i + 1
    <3>1. ASSUME NEW i \in DOMAIN t, i < p
          PROVE  i \in DOMAIN s /\ i # p /\ t[i] = s[i]
      <4>1. i \in 1 .. Len(s) - 1 /\ i \in 1 .. Len(s) /\ i # p
        BY <2>3, <3>1
      <4> QED
        BY <2>2, <2>3, <3>1, <4>1
    <3>2. ASSUME NEW i \in DOMAIN t, ~(i < p)
          PROVE  i + 1 \in DOMAIN s /\ i + 1 # p /\ t[i] = s[i + 1]
      <4>1. i \in 1 .. Len(s) - 1 /\ i + 1 \in 1 .. Len(s) /\ i + 1 # p
        BY <2>3, <3>2
      <4> QED
        BY <2>2, <2>3, <3>2, <4>1
    <3> QED
      BY <3>1, <3>2
  <2>5. \A j \in DOMAIN s : j # p => \E i \in DOMAIN t : t[i] = s[j]
    <3>1. ASSUME NEW j \in DOMAIN s, j < p
          PROVE  j \in DOMAIN t /\ t[j] = s[j]
      <4>1. j \in 1 .. Len(s) - 1
        BY <2>1, <2>3, <3>1
      <4> QED
        BY <2>2, <2>3, <3>1, <4>1
    <3>2. ASSUME NEW j \in DOMAIN s, j > p
          PROVE  j - 1 \in DOMAIN t /\ t[j - 1] = s[j]
      <4>1. j - 1 \in 1 .. Len(s) - 1 /\ ~(j - 1 < p) /\ (j - 1) + 1 = j
        BY <2>1, <2>3, <3>2
      <4> QED
        BY <2>2, <2>3, <4>1
    <3> QED
      BY <2>3, <3>1, <3>2
  <2>6. Distinct(t)
    BY <1>2, <2>3, <2>4 DEF Distinct
  <2>7. \A i \in DOMAIN t : HashKey[t[i].key] = HashKey[k]
    BY <1>3, <2>4
  <2>8. \A n : ~Holds(t, k, n)
    BY <1>2, <2>1, <2>4 DEF Holds, Distinct
  <2>9. KeepsOthers(t, s, k)
    BY <2>1, <2>4, <2>5 DEF Holds, KeepsOthers
  <2> QED
    BY <2>2, <2>6, <2>7, <2>8, <2>9 DEF s
<1>5. CASE ~Present(k)
  BY <1>2, <1>3, <1>5 DEF Present, Holds, KeepsOthers
<1> QED
  BY <1>4, <1>5

\* A walk finds the counter of the node of its key.
LEMMA WalkReads ==
    ASSUME NEW s \in Seq(Node), Distinct(s), NEW k
    PROVE  /\ (\E i \in DOMAIN s : s[i].key = k) <=> (\E n : Holds(s, k, n))
           /\ \A n : Holds(s, k, n) => s[StopOf(s, k)].counter = n
<1>1. ASSUME NEW i \in DOMAIN s, s[i].key = k
      PROVE  Holds(s, k, s[i].counter)
  <2>1. s[i] \in Node
    OBVIOUS
  <2>2. s[i] = [key |-> k, counter |-> s[i].counter]
    BY <1>1, <2>1 DEF Node
  <2> QED
    BY <2>2 DEF Holds
<1>2. ASSUME NEW n, Holds(s, k, n)
      PROVE  /\ \E i \in DOMAIN s : s[i].key = k
             /\ s[StopOf(s, k)].counter = n
  <2>1. PICK i \in DOMAIN s : s[i] = [key |-> k, counter |-> n]
    BY <1>2 DEF Holds
  <2>2. s[i].key = k /\ s[i].counter = n
    BY <2>1
  <2> QED
    BY <2>2, WalkStops
<1> QED
  BY <1>1, <1>2

\* A step that replaces the list of key k by such a list keeps the invariant, and the
\* walks for every other key find what they found.
LEMMA ListReplaced ==
    ASSUME TableInv, NEW k \in Keys, NEW t \in Seq(Node), Distinct(t),
           \A i \in DOMAIN t : HashKey[t[i].key] = HashKey[k],
           KeepsOthers(t, Chain(k), k),
           buckets' = [buckets EXCEPT ![HashKey[k]] = t]
    PROVE  /\ TableInv'
           /\ Chain(k)' = t
           /\ \A x \in Keys : Chain(x)' \in Seq(Node) /\ Distinct(Chain(x)')
           /\ \A x \in Keys \ {k} : \A n : Holds(Chain(x)', x, n) <=> Holds(Chain(x), x, n)
<1>1. /\ buckets \in [Buckets -> Seq(Node)] /\ HashKey \in [Keys -> Buckets]
      /\ HashKey[k] \in Buckets
  BY ClientTableAssumption DEF TableInv, TableTypeOK
<1>2. \A b \in Buckets : buckets'[b] = IF b = HashKey[k] THEN t ELSE buckets[b]
  BY <1>1
<1>3. TableTypeOK'
  BY <1>1 DEF TableTypeOK
<1>4. OneNodePerKey'
  BY <1>1, <1>2 DEF TableInv, OneNodePerKey, Distinct
<1>5. Chain(k)' = t
  BY <1>1, <1>2 DEF Chain
<1>6. \A x \in Keys : Chain(x)' = IF HashKey[x] = HashKey[k] THEN t ELSE Chain(x)
  BY <1>1, <1>2 DEF Chain
<1>7. \A x \in Keys : Chain(x) \in Seq(Node) /\ Distinct(Chain(x))
  BY ChainIsDistinct
<1>8. \A x \in Keys : Chain(x)' \in Seq(Node) /\ Distinct(Chain(x)')
  BY <1>6, <1>7
<1>9. \A x \in Keys \ {k} : \A n : Holds(Chain(x)', x, n) <=> Holds(Chain(x), x, n)
  <2>1. \A x \in Keys : HashKey[x] = HashKey[k] => Chain(x) = Chain(k)
    BY DEF Chain
  <2> QED
    BY <1>6, <2>1 DEF KeepsOthers
<1> QED
  BY <1>3, <1>4, <1>5, <1>8, <1>9 DEF TableInv

\* What the table says of a key, as Tally sees it.
Heard    == {x \in Keys : Present(x)}
Value(x) == Chain(x)[Place(x)].counter

\* Before and after a step, the walk for a key decides by the node of that key.
LEMMA ValueRead ==
    ASSUME TableInv, NEW x \in Keys
    PROVE  /\ x \in Heard <=> \E n : Holds(Chain(x), x, n)
           /\ \A n : Holds(Chain(x), x, n) => Value(x) = n
<1>1. Chain(x) \in Seq(Node) /\ Distinct(Chain(x))
  BY ChainIsDistinct
<1>2. x \in Heard <=> \E i \in DOMAIN Chain(x) : Chain(x)[i].key = x
  BY DEF Heard, Present
<1>3. Value(x) = Chain(x)[StopOf(Chain(x), x)].counter
  BY DEF Value, Place, StopOf
<1> QED
  BY <1>1, <1>2, <1>3, WalkReads

\* The same after a step (the state before says nothing of it).
LEMMA ValueReadAfter ==
    ASSUME NEW x \in Keys, Chain(x)' \in Seq(Node), Distinct(Chain(x)')
    PROVE  /\ x \in Heard' <=> \E n : Holds(Chain(x)', x, n)
           /\ \A n : Holds(Chain(x)', x, n) => Value(x)' = n
<1>1. x \in Heard' <=> \E i \in DOMAIN Chain(x)' : Chain(x)'[i].key = x
  BY DEF Heard, Present
<1>2. Value(x)' = Chain(x)'[StopOf(Chain(x)', x)].counter
  BY DEF Value, Place, StopOf
<1> QED
  BY <1>1, <1>2, WalkReads

\* A key whose node is untouched keeps its counter, and stays unheard of if it was.
LEMMA OthersUnchanged ==
    ASSUME TableInv, NEW k,
           \A x \in Keys : Chain(x)' \in Seq(Node) /\ Distinct(Chain(x)'),
           \A x \in Keys \ {k} : \A n : Holds(Chain(x)', x, n) <=> Holds(Chain(x), x, n)
    PROVE  \A x \in Keys \ {k} : /\ x \in Heard' <=> x \in Heard
                                 /\ x \in Heard => Value(x)' = Value(x)
<1>1. SUFFICES ASSUME NEW x \in Keys \ {k}
               PROVE  /\ x \in Heard' <=> x \in Heard
                      /\ x \in Heard => Value(x)' = Value(x)
  OBVIOUS
<1>2. /\ x \in Heard <=> \E n : Holds(Chain(x), x, n)
      /\ \A n : Holds(Chain(x), x, n) => Value(x) = n
  BY ValueRead
<1>3. /\ x \in Heard' <=> \E n : Holds(Chain(x)', x, n)
      /\ \A n : Holds(Chain(x)', x, n) => Value(x)' = n
  BY ValueReadAfter
<1> QED
  BY <1>2, <1>3

\* rawudp_ct_next() keeps the invariant and counts the one request.
LEMMA NextStep ==
    ASSUME TableInv, NEW k \in Keys, CtNext(k)
    PROVE  /\ TableInv' /\ T!Count(k)
           /\ k \in Heard' /\ Value(k)' = Issued(k)
           /\ \A x \in Keys \ {k} : /\ x \in Heard' <=> x \in Heard
                                    /\ x \in Heard => Value(x)' = Value(x)
<1>1. PICK t : t = IF Present(k)
                   THEN [Chain(k) EXCEPT ![Place(k)] = [key |-> k, counter |-> Issued(k)]]
                   ELSE <<[key |-> k, counter |-> Issued(k)]>> \o Chain(k)
  OBVIOUS
<1>2. buckets' = [buckets EXCEPT ![HashKey[k]] = t]
  <2>1. HashKey[k] \in Buckets /\ buckets \in [Buckets -> Seq(Node)]
    BY ClientTableAssumption DEF TableInv, TableTypeOK
  <2> QED
    BY <1>1, <2>1 DEF CtNext, Chain
<1>3. /\ t \in Seq(Node) /\ Distinct(t)
      /\ \A i \in DOMAIN t : HashKey[t[i].key] = HashKey[k]
      /\ Holds(t, k, Issued(k))
      /\ KeepsOthers(t, Chain(k), k)
  BY <1>1, ListAfterNext
<1>4. /\ TableInv' /\ Chain(k)' = t
      /\ \A x \in Keys : Chain(x)' \in Seq(Node) /\ Distinct(Chain(x)')
      /\ \A x \in Keys \ {k} : \A n : Holds(Chain(x)', x, n) <=> Holds(Chain(x), x, n)
  BY <1>2, <1>3, ListReplaced
<1>5. k \in Heard' /\ Value(k)' = Issued(k)
  BY <1>3, <1>4, ValueReadAfter
<1>6. \A x \in Keys \ {k} : /\ x \in Heard' <=> x \in Heard
                            /\ x \in Heard => Value(x)' = Value(x)
  BY <1>4, OthersUnchanged
<1>7. Heard \subseteq Keys /\ Heard' \subseteq Keys
  BY DEF Heard
<1>8. Heard' = Heard \cup {k}
  <2>1. \A x : x \in Heard' <=> (x \in Heard \/ x = k)
    BY <1>5, <1>6, <1>7
  <2> QED
    BY <2>1
<1> DEFINE tally == [x \in Heard |-> Value(x)]
<1>9. Issued(k) = IF k \in DOMAIN tally THEN (tally[k] + 1) % CounterMod ELSE 1
  BY DEF Issued, Step, Heard, Value
<1>10. [x \in Heard' |-> Value(x)'] =
         [x \in DOMAIN tally \cup {k} |-> IF x = k THEN Issued(k) ELSE tally[x]]
  BY <1>5, <1>6, <1>7, <1>8
<1>11. T!Count(k)
  BY <1>9, <1>10 DEF T!Count, T!Counted, Counters, Heard, Value
<1> QED
  BY <1>4, <1>5, <1>6, <1>11

\* rawudp_ct_reset() keeps the invariant and forgets the one client.
LEMMA ResetStep ==
    ASSUME TableInv, NEW k \in Keys, CtReset(k)
    PROVE  /\ TableInv' /\ T!Forget(k) /\ k \notin Heard'
           /\ \A x \in Keys \ {k} : /\ x \in Heard' <=> x \in Heard
                                    /\ x \in Heard => Value(x)' = Value(x)
<1>1. PICK t : t = IF Present(k) THEN Unlinked(Chain(k), Place(k)) ELSE Chain(k)
  OBVIOUS
<1>2. buckets' = [buckets EXCEPT ![HashKey[k]] = t]
  <2>1. HashKey[k] \in Buckets /\ buckets \in [Buckets -> Seq(Node)]
    BY ClientTableAssumption DEF TableInv, TableTypeOK
  <2> QED
    BY <1>1, <2>1 DEF CtReset, Chain
<1>3. /\ t \in Seq(Node) /\ Distinct(t)
      /\ \A i \in DOMAIN t : HashKey[t[i].key] = HashKey[k]
      /\ \A n : ~Holds(t, k, n)
      /\ KeepsOthers(t, Chain(k), k)
  BY <1>1, ListAfterReset
<1>4. /\ TableInv' /\ Chain(k)' = t
      /\ \A x \in Keys : Chain(x)' \in Seq(Node) /\ Distinct(Chain(x)')
      /\ \A x \in Keys \ {k} : \A n : Holds(Chain(x)', x, n) <=> Holds(Chain(x), x, n)
  BY <1>2, <1>3, ListReplaced
<1>5. k \notin Heard'
  BY <1>3, <1>4, ValueReadAfter
<1>6. \A x \in Keys \ {k} : /\ x \in Heard' <=> x \in Heard
                            /\ x \in Heard => Value(x)' = Value(x)
  BY <1>4, OthersUnchanged
<1>7. Heard \subseteq Keys /\ Heard' \subseteq Keys
  BY DEF Heard
<1>8. Heard' = Heard \ {k}
  <2>1. \A x : x \in Heard' <=> (x \in Heard /\ x # k)
    BY <1>5, <1>6, <1>7
  <2> QED
    BY <2>1
<1> DEFINE tally == [x \in Heard |-> Value(x)]
<1>9. [x \in Heard' |-> Value(x)'] = [x \in DOMAIN tally \ {k} |-> tally[x]]
  BY <1>6, <1>7, <1>8
<1>10. T!Forget(k)
  BY <1>9 DEF T!Forget, Counters, Heard, Value
<1> QED
  BY <1>4, <1>5, <1>6, <1>10

-----------------------------------------------------------------------------
\* An empty table is one, and one of no counters.
LEMMA TableStarts == CtInit => TableInv /\ T!TallyInit
<1> SUFFICES ASSUME CtInit
             PROVE  TableInv /\ T!TallyInit
  OBVIOUS
<1>1. TableInv
  BY DEF CtInit, TableInv, TableTypeOK, OneNodePerKey
<1>2. {x \in Keys : Present(x)} = {}
  BY ClientTableAssumption DEF CtInit, Present, Chain
<1> QED
  BY <1>1, <1>2 DEF T!TallyInit, Counters

\* Every step keeps the table in order and counts for one client at most.
LEMMA TableStep == TableInv /\ [CtStep]_buckets => TableInv' /\ [T!TallyNext]_Counters
<1> SUFFICES ASSUME TableInv, [CtStep]_buckets
             PROVE  TableInv' /\ [T!TallyNext]_Counters
  OBVIOUS
<1>1. CASE CtStep
  <2>1. PICK k \in Keys : CtNext(k) \/ CtReset(k)
    BY <1>1 DEF CtStep
  <2> QED
    BY <2>1, NextStep, ResetStep DEF T!TallyNext
<1>2. CASE UNCHANGED buckets
  BY <1>2 DEF TableInv, TableTypeOK, OneNodePerKey, Counters, Present, Chain, Place
<1> QED
  BY <1>1, <1>2

\* The table is in order after any requests.
THEOREM Inductive == TableSpec => []TableInv
  BY TableStarts, TableStep, PTL DEF TableSpec

\* Counters stay within their width, whatever the sequence of requests.
THEOREM TypeCorrect == TableSpec => []TableTypeOK
<1>1. TableInv => TableTypeOK
  BY DEF TableInv
<1> QED
  BY <1>1, Inductive, PTL

\* No sequence of ct_next() and ct_reset() leaves two nodes for one client.
THEOREM OneNodeCorrect == TableSpec => []OneNodePerKey
<1>1. TableInv => OneNodePerKey
  BY DEF TableInv
<1> QED
  BY <1>1, Inductive, PTL

\* The table implements one counter per client, for every hash function: clients
\* whose keys collide are counted as if they did not.
THEOREM Refinement == TableSpec => ImplementsTally
  BY TableStarts, TableStep, PTL DEF TableSpec, ImplementsTally, T!TallySpec
=============================================================================
