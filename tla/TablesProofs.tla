---------------------------- MODULE TablesProofs ----------------------------
(***************************************************************************)
(* The tables are exact once the calls are answered (TablesExact), and     *)
(* what getData says of a window is what happened in it (WindowCounted),   *)
(* if the queues of minutes and hours have room for three.                 *)
(*                                                                         *)
(* The first needs to know who will yet store what (AllExact): every       *)
(* bucket that is kept is in its table or owed by a call, what a call has  *)
(* in hand are the beats of its bucket, the current bucket of every level  *)
(* that is loaded holds the beats, and is not the next to be shifted out.  *)
(*                                                                         *)
(* The second needs that of every bucket of the window (WindowInv): what   *)
(* may come after it in the queue, the later buckets and the oldest that a *)
(* deletion asks for, fits beside it.  That Total, a fold, is the same for *)
(* tables that agree on the window is shown by a least counterexample.     *)
(***************************************************************************)
EXTENDS UptimeProofs

-----------------------------------------------------------------------------
(* When buckets begin                                                      *)

\* The times at which buckets begin.
Begins(l) == {Width[l] * i : i \in Nat}

\* Two of them are a width apart.
LEMMA Apart ==
    ASSUME NEW l \in Level, NEW a \in Begins(l), NEW b \in Begins(l), a < b
    PROVE  a + Width[l] <= b
  <1> DEFINE w == Width[l]
  <1>1. w \in Nat \ {0}  BY Levels
  <1>2. PICK i, j \in Nat : a = w * i /\ b = w * j  BY DEF Begins
  <1> HIDE DEF w
  <1>3. i < j
    <2>1. ASSUME j <= i PROVE FALSE
      <3>1. PICK d \in Nat : i = j + d
        <4>1. i - j \in Nat /\ i = j + (i - j)  BY <2>1
        <4> QED BY <4>1
      <3>2. w * i = w * j + w * d /\ w * d \in Nat /\ w * j \in Nat  BY <1>1, <3>1
      <3> QED BY <1>2, <3>2
    <2> QED BY <2>1
  <1>4. PICK d \in Nat : j = i + 1 + d
    <2>1. j - i - 1 \in Nat /\ j = i + 1 + (j - i - 1)  BY <1>3
    <2> QED BY <2>1
  <1>5. w * j = w * i + w + w * d /\ w * d \in Nat /\ w * i \in Nat  BY <1>1, <1>4
  <1>6. w * i + w <= w * j  BY <1>1, <1>5
  <1> QED BY <1>2, <1>6 DEF w

\* Division with a rest.
LEMMA Quotient ==
    ASSUME NEW t \in Nat, NEW w \in Nat \ {0}
    PROVE  t \div w \in Nat /\ t - (t % w) = w * (t \div w)
OBVIOUS

\* A key is one of them, and a multiple of the width away from it is another.
LEMMA KeyBegins ==
    ASSUME NEW l \in Level, NEW t \in Nat
    PROVE  /\ Key(l, t) \in Begins(l)
           /\ \A n \in Nat : Width[l] * n <= Key(l, t) => Key(l, t) - Width[l] * n \in Begins(l)
  <1> DEFINE w == Width[l]
             q == t \div w
  <1>1. w \in Nat \ {0}  BY Levels
  <1>2. q \in Nat  BY <1>1, Quotient
  <1>3. Key(l, t) = w * q  BY <1>1, Quotient DEF Key
  <1> HIDE DEF w, q
  <1>4. ASSUME NEW n \in Nat, w * n <= w * q PROVE \E i \in Nat : w * q - w * n = w * i
    <2>1. n <= q
      <3>1. ASSUME q < n PROVE FALSE
        <4>1. PICK d \in Nat : n = q + 1 + d
          <5>1. n - q - 1 \in Nat /\ n = q + 1 + (n - q - 1)  BY <1>2, <3>1
          <5> QED BY <5>1
        <4>2. w * n = w * q + w + w * d /\ w * d \in Nat /\ w * q \in Nat  BY <1>1, <1>2, <4>1
        <4> QED BY <1>1, <1>4, <4>2
      <3> QED BY <1>2, <3>1
    <2>2. PICK d \in Nat : q = n + d
      <3>1. q - n \in Nat /\ q = n + (q - n)  BY <1>2, <2>1
      <3> QED BY <3>1
    <2>3. w * q = w * n + w * d /\ w * n \in Nat /\ w * d \in Nat  BY <1>1, <2>2
    <2>4. w * q - w * n = w * d  BY <2>3
    <2> QED BY <2>4
  <1>5. Key(l, t) \in {w * i : i \in Nat}  BY <1>2, <1>3
  <1>6. \A n \in Nat : w * n <= Key(l, t) => Key(l, t) - w * n \in {w * i : i \in Nat}
    BY <1>3, <1>4
  <1> QED BY <1>5, <1>6 DEF Begins, w

\* The key of a time is the last before it.
LEMMA KeyUnique ==
    ASSUME NEW l \in Level, NEW t \in Nat, NEW k \in Begins(l), k <= t, t < k + Width[l]
    PROVE  Key(l, t) = k
  <1>1. Key(l, t) \in Nat /\ Key(l, t) <= t /\ t < Key(l, t) + Width[l] /\ Key(l, t) \in Begins(l)
    BY KeyBounds, KeyBegins
  <1>2. Width[l] \in Nat \ {0} /\ k \in Nat
    <2>1. Width[l] \in Nat \ {0}  BY Levels
    <2> QED BY <2>1 DEF Begins
  <1>3. ~(k < Key(l, t))  BY <1>1, <1>2, Apart
  <1>4. ~(Key(l, t) < k)  BY <1>1, <1>2, Apart
  <1> QED BY <1>1, <1>2, <1>3, <1>4

\* Keys rise with the time, and a key is the key of itself.
LEMMA KeyRises ==
    ASSUME NEW l \in Level, NEW s \in Nat, NEW t \in Nat, s <= t
    PROVE  Key(l, s) <= Key(l, t)
  <1>1. /\ Key(l, t) \in Nat /\ Key(l, t) <= t /\ t < Key(l, t) + Width[l] /\ Key(l, t) \in Begins(l)
        /\ Key(l, s) \in Nat /\ Key(l, s) <= s /\ Key(l, s) \in Begins(l)
    BY KeyBounds, KeyBegins
  <1>2. Width[l] \in Nat \ {0}  BY Levels
  <1>3. Key(l, t) < Key(l, s) => Key(l, t) + Width[l] <= Key(l, s)  BY <1>1, Apart
  <1> QED BY <1>1, <1>2, <1>3

\* The oldest key that is kept.
LEMMA KeepFromKey ==
    ASSUME NEW l \in Level, NEW t \in Nat, Start <= t
    PROVE  KeepFrom(l, t) = Key(l, t) - Width[l] * Limit[l]
  <1> DEFINE s == Width[l] * Limit[l]
  <1>1. /\ s \in Nat /\ s <= t /\ t - s \in Nat /\ Width[l] \in Nat \ {0}
        /\ Limit[l] \in Nat
    <2>1. Start \in Nat  BY Basics
    <2> QED BY <2>1, Levels
  <1>2. Key(l, t) \in Nat /\ Key(l, t) <= t /\ t < Key(l, t) + Width[l]  BY KeyBounds
  <1>3. s <= Key(l, t)
    <2>1. s \in Begins(l)  BY <1>1 DEF Begins
    <2>2. Key(l, t) < s => Key(l, t) + Width[l] <= s  BY <2>1, Apart, KeyBegins
    <2> QED BY <1>1, <1>2, <2>2
  <1>4. Key(l, t) - s \in Begins(l)  BY <1>1, <1>3, KeyBegins
  <1> HIDE DEF s
  <1>5. Key(l, t) - s <= t - s /\ t - s < (Key(l, t) - s) + Width[l]  BY <1>1, <1>2
  <1>6. Key(l, t - s) = Key(l, t) - s  BY <1>1, <1>4, <1>5, KeyUnique
  <1> QED BY <1>6 DEF KeepFrom, s

\* A minute before, it is the same bucket or the one before.
LEMMA KeyBefore ==
    ASSUME NEW l \in Level, NEW t \in Nat, t >= 1
    PROVE  /\ Key(l, t - 1) \in {Key(l, t), Key(l, t) - Width[l]}
           /\ Key(l, t) - Width[l] <= Key(l, t - 1) /\ Key(l, t - 1) <= Key(l, t)
  <1>1. /\ Key(l, t) \in Nat /\ Key(l, t) <= t /\ t < Key(l, t) + Width[l] /\ Key(l, t) \in Begins(l)
        /\ t - 1 \in Nat
    BY KeyBounds, KeyBegins
  <1>2. /\ Key(l, t - 1) \in Nat /\ Key(l, t - 1) <= t - 1 /\ t - 1 < Key(l, t - 1) + Width[l]
        /\ Key(l, t - 1) \in Begins(l)
    BY <1>1, KeyBounds, KeyBegins
  <1>3. Width[l] \in Nat \ {0}  BY Levels
  <1>4. Key(l, t - 1) < Key(l, t) => Key(l, t - 1) + Width[l] <= Key(l, t)
    BY <1>1, <1>2, Apart
  <1>5. Key(l, t - 1) <= Key(l, t)
    <2>1. Key(l, t) < Key(l, t - 1) => Key(l, t) + Width[l] <= Key(l, t - 1)
      BY <1>1, <1>2, Apart
    <2> QED BY <1>1, <1>2, <1>3, <2>1
  <1> QED BY <1>1, <1>2, <1>3, <1>4, <1>5

\* The keys of the times up to n.
Past(l, n) == {Key(l, t) : t \in 0 .. n}

\* The current key is the last of them; a new one is beyond.
LEMMA PastFacts ==
    ASSUME NEW l \in Level, NEW n \in Nat
    PROVE  /\ \A k \in Past(l, n) : k \in Nat /\ k <= Key(l, n)
           /\ Past(l, n) \subseteq Past(l, n + 1)
           /\ Key(l, n + 1) \in Past(l, n) => Key(l, n + 1) = Key(l, n)
           /\ \A t \in 0 .. n : Key(l, t) \in Past(l, n)
           /\ Key(l, n) <= Key(l, n + 1)
  <1>1. ASSUME NEW k \in Past(l, n) PROVE k \in Nat /\ k <= Key(l, n)
    <2>1. PICK t \in 0 .. n : k = Key(l, t)  BY DEF Past
    <2>2. t \in Nat /\ t <= n  OBVIOUS
    <2> QED BY <2>1, <2>2, KeyBounds, KeyRises
  <1>2. Key(l, n) <= Key(l, n + 1) /\ Key(l, n) \in Nat /\ Key(l, n + 1) \in Nat
    <2>1. n + 1 \in Nat /\ n <= n + 1  OBVIOUS
    <2> QED BY <2>1, KeyRises, KeyBounds
  <1>3. Past(l, n) \subseteq Past(l, n + 1)
    <2>1. \A t \in 0 .. n : t \in 0 .. n + 1  OBVIOUS
    <2> QED BY <2>1 DEF Past
  <1> QED BY <1>1, <1>2, <1>3 DEF Past

-----------------------------------------------------------------------------
(* What a queue loses                                                      *)

\* No key is twice in a queue, and each has its bucket.
Tidy(q) ==
    /\ DOMAIN q.data = {q.keys[i] : i \in DOMAIN q.keys}
    /\ \A i, j \in DOMAIN q.keys : q.keys[i] = q.keys[j] => i = j

\* A queue stays tidy when a new key is pushed, and has it.
LEMMA PushedTidy ==
    ASSUME NEW q \in Queue, NEW r \in Queue, NEW limit \in Nat \ {0}, NEW k \in Nat,
           Tidy(q), k \notin DOMAIN q.data, Pushed(r, q, limit, k)
    PROVE  /\ Tidy(r) /\ k \in DOMAIN r.data
           /\ r.keys # <<>> /\ r.keys[Len(r.keys)] = k
  <1> DEFINE m == Len(q.keys)
  <1>1. /\ m \in Nat /\ DOMAIN q.keys = 1 .. m /\ r.keys \in Seq(Nat)
        /\ DOMAIN r.keys = 1 .. Len(r.keys) /\ Len(r.keys) \in Nat
    BY DEF Queue
  <1>2. /\ \A i \in 1 .. m : q.keys[i] \in DOMAIN q.data /\ q.keys[i] # k
        /\ \A x \in DOMAIN q.data : \E i \in 1 .. m : q.keys[i] = x
        /\ \A i, j \in 1 .. m : q.keys[i] = q.keys[j] => i = j
    BY <1>1 DEF Tidy
  <1> HIDE DEF m
  <1>3. CASE /\ m < limit
             /\ DOMAIN r.keys = 1 .. m + 1 /\ r.keys[m + 1] = k
             /\ \A i \in 1 .. m : r.keys[i] = q.keys[i]
             /\ DOMAIN r.data = DOMAIN q.data \cup {k}
    <2>1. Len(r.keys) = m + 1  BY <1>1, <1>3
    <2>2. \A i \in 1 .. m + 1 : i \in 1 .. m \/ i = m + 1  BY <1>1
    <2>3. \A x \in DOMAIN r.data : \E i \in DOMAIN r.keys : r.keys[i] = x
      <3> TAKE x \in DOMAIN r.data
      <3>1. CASE x = k
        <4>1. m + 1 \in DOMAIN r.keys  BY <1>1, <1>3
        <4> QED BY <1>3, <3>1, <4>1
      <3>2. CASE x # k
        <4>1. PICK i \in 1 .. m : q.keys[i] = x  BY <1>2, <1>3, <3>2
        <4>2. i \in DOMAIN r.keys  BY <1>1, <1>3
        <4> QED BY <1>3, <4>1, <4>2
      <3> QED BY <3>1, <3>2
    <2>4. \A i \in DOMAIN r.keys : r.keys[i] \in DOMAIN r.data  BY <1>2, <1>3, <2>2
    <2>5. \A i, j \in DOMAIN r.keys : r.keys[i] = r.keys[j] => i = j
      BY <1>2, <1>3, <2>2
    <2>6. DOMAIN r.data = {r.keys[i] : i \in DOMAIN r.keys}  BY <2>3, <2>4
    <2>7. r.keys # <<>>  BY <1>1, <2>1
    <2> QED BY <1>3, <2>1, <2>5, <2>6, <2>7 DEF Tidy
  <1>4. CASE /\ limit <= m
             /\ DOMAIN r.keys = 1 .. m /\ r.keys[m] = k
             /\ \A i \in 1 .. m - 1 : r.keys[i] = q.keys[i + 1]
             /\ DOMAIN r.data = (DOMAIN q.data \cup {k}) \ {q.keys[1]}
    <2>1. m >= 1 /\ Len(r.keys) = m  BY <1>1, <1>4
    <2>2. /\ \A i \in 1 .. m : i \in 1 .. m - 1 \/ i = m
          /\ \A i \in 1 .. m - 1 : i + 1 \in 1 .. m /\ i + 1 # 1
          /\ 1 \in 1 .. m /\ m \in 1 .. m
      BY <1>1, <2>1
    <2>3. \A x \in DOMAIN r.data : \E i \in DOMAIN r.keys : r.keys[i] = x
      <3> TAKE x \in DOMAIN r.data
      <3>1. CASE x = k
        BY <1>4, <2>2, <3>1
      <3>2. CASE x # k
        <4>1. PICK i \in 1 .. m : q.keys[i] = x  BY <1>2, <1>4, <3>2
        <4>2. i # 1  BY <1>4, <4>1
        <4>3. i - 1 \in 1 .. m - 1 /\ i - 1 \in 1 .. m /\ (i - 1) + 1 = i  BY <1>1, <4>2
        <4>4. r.keys[i - 1] = x  BY <1>4, <4>1, <4>3
        <4> QED BY <1>4, <4>3, <4>4
      <3> QED BY <3>1, <3>2
    <2>4. \A i \in DOMAIN r.keys : r.keys[i] \in DOMAIN r.data
      <3> TAKE i \in DOMAIN r.keys
      <3>1. CASE i = m
        BY <1>2, <1>4, <2>2, <3>1
      <3>2. CASE i # m
        <4>1. i \in 1 .. m - 1 /\ i + 1 \in 1 .. m /\ i + 1 # 1  BY <1>4, <2>2, <3>2
        <4>2. r.keys[i] = q.keys[i + 1]  BY <1>4, <4>1
        <4>3. q.keys[i + 1] \in DOMAIN q.data /\ q.keys[i + 1] # q.keys[1]
          BY <1>2, <2>2, <4>1
        <4> QED BY <1>4, <4>2, <4>3
      <3> QED BY <3>1, <3>2
    <2>5. \A i, j \in DOMAIN r.keys : r.keys[i] = r.keys[j] => i = j
      <3> TAKE i, j \in DOMAIN r.keys
      <3> HAVE r.keys[i] = r.keys[j]
      <3>1. CASE i # m /\ j # m
        <4>1. /\ i \in 1 .. m - 1 /\ i + 1 \in 1 .. m
              /\ j \in 1 .. m - 1 /\ j + 1 \in 1 .. m
          BY <1>4, <2>2, <3>1
        <4>2. q.keys[i + 1] = q.keys[j + 1]  BY <1>4, <4>1
        <4>3. i + 1 = j + 1  BY <1>2, <4>1, <4>2
        <4> QED BY <1>1, <4>1, <4>3
      <3>2. \A x \in 1 .. m - 1 : r.keys[x] # k
        <4> TAKE x \in 1 .. m - 1
        <4>1. x + 1 \in 1 .. m /\ r.keys[x] = q.keys[x + 1]  BY <1>4, <2>2
        <4> QED BY <1>2, <4>1
      <3> QED BY <1>4, <2>2, <3>1, <3>2
    <2>6. DOMAIN r.data = {r.keys[i] : i \in DOMAIN r.keys}  BY <2>3, <2>4
    <2>7. r.keys # <<>>  BY <1>1, <2>1
    <2>8. k \in DOMAIN r.data  BY <1>2, <1>4, <2>2
    <2> QED BY <1>4, <2>1, <2>5, <2>6, <2>7, <2>8 DEF Tidy
  <1> QED BY <1>3, <1>4 DEF Pushed, m

\* What may come after the key k in a queue: the two oldest keys that a prune
\* asks for meanwhile.
Oldest(l, k) == {k - Width[l] * Limit[l], k - Width[l] * Limit[l] - Width[l]}

Placed(q, l, k) ==
    \A i, j \in DOMAIN q.keys : q.keys[i] = k /\ i < j => q.keys[j] \in Oldest(l, k)

\* Such a key stays if there is room for three.
LEMMA PushedPlaced ==
    ASSUME NEW q \in Queue, NEW r \in Queue, NEW limit \in Nat \ {0}, NEW x \in Nat,
           NEW l, NEW k,
           Tidy(q), Placed(q, l, k), x \notin DOMAIN q.data, Pushed(r, q, limit, x),
           x = k \/ (limit >= 3 /\ x \in Oldest(l, k))
    PROVE  /\ Placed(r, l, k)
           /\ k \in DOMAIN q.data => k \in DOMAIN r.data
  <1> DEFINE m == Len(q.keys)
             old == Oldest(l, k)
  <1>1. m \in Nat /\ DOMAIN q.keys = 1 .. m  BY DEF Queue
  <1>2. /\ \A i \in 1 .. m : q.keys[i] \in DOMAIN q.data /\ q.keys[i] # x
        /\ \A y \in DOMAIN q.data : \E i \in 1 .. m : q.keys[i] = y
        /\ \A i, j \in 1 .. m : q.keys[i] = q.keys[j] => i = j
        /\ \A i, j \in 1 .. m : q.keys[i] = k /\ i < j => q.keys[j] \in old
    BY <1>1 DEF Tidy, Placed
  <1>3. \A a, b, c \in old : a = b \/ b = c \/ a = c  BY DEF Oldest
  <1> HIDE DEF old, m
  <1>4. CASE x = k
    <2>1. \A i \in 1 .. m : q.keys[i] # k  BY <1>2, <1>4
    <2>2. k \notin DOMAIN q.data  BY <1>4
    <2>3. CASE /\ DOMAIN r.keys = 1 .. m + 1 /\ r.keys[m + 1] = x
               /\ \A i \in 1 .. m : r.keys[i] = q.keys[i]
      <3>1. \A i \in 1 .. m + 1 : i \in 1 .. m \/ i = m + 1  BY <1>1
      <3>2. \A i \in 1 .. m + 1 : r.keys[i] = k => i = m + 1  BY <2>1, <2>3, <3>1
      <3>3. \A j \in 1 .. m + 1 : ~(m + 1 < j)  BY <1>1
      <3> QED BY <2>2, <2>3, <3>2, <3>3 DEF Placed
    <2>4. CASE /\ limit <= m
               /\ DOMAIN r.keys = 1 .. m /\ r.keys[m] = x
               /\ \A i \in 1 .. m - 1 : r.keys[i] = q.keys[i + 1]
      <3>1. \A i \in 1 .. m : (i \in 1 .. m - 1 /\ i + 1 \in 1 .. m) \/ i = m  BY <1>1
      <3>2. \A i \in 1 .. m : r.keys[i] = k => i = m  BY <2>1, <2>4, <3>1
      <3>3. \A j \in 1 .. m : ~(m < j)  BY <1>1
      <3> QED BY <2>2, <2>4, <3>2, <3>3 DEF Placed
    <2> QED BY <2>3, <2>4 DEF Pushed, m
  <1>5. CASE limit >= 3 /\ x \in old /\ x # k
    <2>1. CASE /\ m < limit
               /\ DOMAIN r.keys = 1 .. m + 1 /\ r.keys[m + 1] = x
               /\ \A i \in 1 .. m : r.keys[i] = q.keys[i]
               /\ DOMAIN r.data = DOMAIN q.data \cup {x}
      <3>1. \A i \in 1 .. m + 1 : i \in 1 .. m \/ i = m + 1  BY <1>1
      <3>2. \A i, j \in 1 .. m + 1 : r.keys[i] = k /\ i < j => r.keys[j] \in old
        BY <1>1, <1>2, <1>5, <2>1, <3>1
      <3> QED BY <2>1, <3>2 DEF Placed, old
    <2>2. CASE /\ limit <= m
               /\ DOMAIN r.keys = 1 .. m /\ r.keys[m] = x
               /\ \A i \in 1 .. m - 1 : r.keys[i] = q.keys[i + 1]
               /\ DOMAIN r.data = (DOMAIN q.data \cup {x}) \ {q.keys[1]}
      <3>1. m >= 3 /\ 1 \in 1 .. m /\ 2 \in 1 .. m /\ 3 \in 1 .. m  BY <1>1, <1>5, <2>2
      <3>2. q.keys[1] # k
        <4>1. SUFFICES ASSUME q.keys[1] = k PROVE FALSE  OBVIOUS
        <4>2. q.keys[2] \in old /\ q.keys[3] \in old  BY <1>2, <3>1, <4>1
        <4>3. q.keys[2] # q.keys[3] /\ q.keys[2] # x /\ q.keys[3] # x  BY <1>2, <3>1
        <4>4. \A a, b \in old : a = b \/ b = x \/ a = x  BY <1>3, <1>5
        <4> QED BY <4>2, <4>3, <4>4
      <3>3. \A i \in 1 .. m : (i \in 1 .. m - 1 /\ i + 1 \in 1 .. m) \/ i = m  BY <1>1
      <3>4. \A i, j \in 1 .. m : r.keys[i] = k /\ i < j => r.keys[j] \in old
        <4> SUFFICES ASSUME NEW i \in 1 .. m, NEW j \in 1 .. m, r.keys[i] = k, i < j
                     PROVE  r.keys[j] \in old
          OBVIOUS
        <4>1. i \in 1 .. m - 1 /\ i + 1 \in 1 .. m /\ r.keys[i] = q.keys[i + 1]
          BY <1>5, <2>2, <3>3
        <4>2. CASE j = m  BY <1>5, <2>2, <4>2
        <4>3. CASE j # m
          <5>1. j \in 1 .. m - 1 /\ j + 1 \in 1 .. m /\ r.keys[j] = q.keys[j + 1]
            BY <2>2, <3>3, <4>3
          <5>2. i + 1 < j + 1  BY <1>1
          <5> QED BY <1>2, <4>1, <5>1, <5>2
        <4> QED BY <4>2, <4>3
      <3> QED BY <2>2, <3>2, <3>4 DEF Placed, old
    <2> QED BY <2>1, <2>2 DEF Pushed, m
  <1> QED BY <1>4, <1>5 DEF old

\* A bucket that is asked for: the current one, or one of the oldest.
LEMMA TouchTidy ==
    ASSUME NEW q \in Queue, NEW l \in Level, NEW t \in Nat, Tidy(q)
    PROVE  /\ Tidy(Touch(q, l, t)) /\ Key(l, t) \in DOMAIN Touch(q, l, t).data
           /\ \A k : /\ Placed(q, l, k)
                     /\ Key(l, t) = k \/ (Limit[l] >= 3 /\ Key(l, t) \in Oldest(l, k))
                     => /\ Placed(Touch(q, l, t), l, k)
                        /\ k \in DOMAIN q.data => k \in DOMAIN Touch(q, l, t).data
  <1>1. Limit[l] \in Nat \ {0} /\ Key(l, t) \in Nat /\ Zero \in Counts
    BY Levels, KeyBounds, AtMostOrder
  <1>2. CASE Key(l, t) \in DOMAIN q.data
    <2>1. Touch(q, l, t) = q  BY <1>2 DEF Touch
    <2> QED BY <1>2, <2>1
  <1>3. CASE Key(l, t) \notin DOMAIN q.data
    <2> DEFINE r == Touch(q, l, t)
               x == Key(l, t)
    <2>1. r = Push(q, Limit[l], x, Zero)  BY <1>3 DEF Touch
    <2>2. r \in Queue /\ Pushed(r, q, Limit[l], x)
      BY <1>1, <2>1, PushFacts, PushKeys
    <2> HIDE DEF r, x
    <2>3. Tidy(r) /\ x \in DOMAIN r.data
      BY <1>1, <1>3, <2>2, PushedTidy DEF x
    <2>4. ASSUME NEW k, Placed(q, l, k), x = k \/ (Limit[l] >= 3 /\ x \in Oldest(l, k))
          PROVE  Placed(r, l, k) /\ (k \in DOMAIN q.data => k \in DOMAIN r.data)
      BY <1>1, <1>3, <2>2, <2>4, PushedPlaced DEF x
    <2> QED BY <2>3, <2>4 DEF r, x
  <1> QED BY <1>2, <1>3
-----------------------------------------------------------------------------
(* The tables are exact                                                    *)

\* The call q will yet store the beats of the bucket k of a level.
Owes(q, l, k) ==
    /\ Key(l, q.t) = k
    /\ l \in InHand(q) \/ (q.at = "store" /\ q.level = l /\ q.write = Held(beats[l], k))

\* A level of the listed calculator is loaded, as far as there was a load.
Ready(l) == \A u \in User : user[u].at = "load" => l < user[u].level

\* The calls use what is listed, and a call that loads it is alone.
OneCalculator ==
    \A u \in User : /\ user[u].obj \in {None, listed}
                    /\ user[u].at = "load" => \A v \in User \ {u} : user[v] = Rest

\* They began, and stored the day, a minute ago at most.
RecentCall(q, n) ==
    /\ q.at \notin {"none", "clear"} => q.t \in n - 1 .. n
    /\ q.at = "prune" \/ (q.at \in {"bean", "store"} /\ q.level < Day) => q.date \in q.t .. n

Recent == \A u \in User : RecentCall(user[u], now)

KeysPast ==
    \A l \in Level : /\ DOMAIN rows[l] \subseteq Past(l, now)
                     /\ DOMAIN beats[l] \subseteq Past(l, now)
                     /\ listed # None => DOMAIN calc[listed][l].data \subseteq Past(l, now)

\* A queue, on a level: what it loses is not the current bucket, and that one
\* holds the beats b.
GoodQueue(q, l, ready, k, b) ==
    /\ Tidy(q)
    /\ ready => Placed(q, l, k) /\ Held(q.data, k) = Held(b, k)

QueuesGood ==
    listed # None => \A l \in Level : GoodQueue(calc[listed][l], l, Ready(l), Key(l, now), beats[l])

\* What a call has in hand are the beats of the bucket.
HandExact(q, c, bs, n) ==
    \A l \in InHand(q) :
        LET k == Key(l, q.t) IN
        IF q.frozen[l] # None THEN q.frozen[l] = Held(bs[l], k) /\ k < Key(l, n)
        ELSE c[l].data[k] = Held(bs[l], k)

HandsExact == \A u \in User : HandExact(user[u], calc[user[u].obj], beats, now)

\* A call that is to update a row finds it, and a bean that is saved has one.
StoresTrue ==
    \A u \in User : LET q == user[u] IN
        q.at = "store" /\ q.insert = FALSE => Key(q.level, q.t) \in DOMAIN rows[q.level]

BeansTrue ==
    listed # None => \A l \in Level :
        LET b == calc[listed][l].bean IN
        b.saved = TRUE /\ b.key >= Key(l, now - 1) => b.key \in DOMAIN rows[l]

\* Every bucket that is kept is in its table, or owed.
Accounted ==
    \A l \in Level : \A k \in DOMAIN beats[l] :
        k >= KeepFrom(l, now) =>
            \/ k \in DOMAIN rows[l] /\ rows[l][k] = beats[l][k]
            \/ \E u \in User : Owes(user[u], l, k)

NoneClears == \A u \in User : user[u].op # "clear"

AllExact ==
    /\ OneCalculator /\ Recent /\ KeysPast /\ QueuesGood /\ HandsExact /\ StoresTrue
    /\ NoneClears => Accounted /\ BeansTrue

ExactInv == ~hurt /\ ~mixed => AllExact

\* The queues of minutes and hours have room for the current bucket and the two
\* oldest (1440 and 720 in the code).
LongQueues == \A l \in Level : l < Day => Limit[l] >= 3

\* A call under way uses what is listed.
LEMMA UsesListed ==
    ASSUME Inv, OneCalculator, NEW u \in User, user[u].at \notin {"none", "clear"}
    PROVE  listed \in Object /\ user[u].obj = listed
  <1>1. Sound(user[u], calc, now)  BY DEF Inv, CallsSound
  <1>2. user[u].obj \in Object  BY <1>1 DEF Sound
  <1>3. user[u].obj # None  BY <1>2, Basics
  <1> QED BY <1>2, <1>3 DEF OneCalculator

\* While it is not loading, nobody is.
LEMMA NobodyLoads ==
    ASSUME OneCalculator, NEW u \in User, user[u] # Rest, user[u].at # "load"
    PROVE  /\ \A v \in User : user[v].at # "load"
           /\ \A l : Ready(l)
  <1>1. ASSUME NEW v \in User, user[v].at = "load" PROVE FALSE
    <2>1. \A w \in User \ {v} : user[w] = Rest  BY <1>1 DEF OneCalculator
    <2>2. u # v  BY <1>1
    <2> QED BY <2>1, <2>2
  <1> QED BY <1>1 DEF Ready

\* What a call without anything under way is.
LEMMA RestFields ==
    /\ Rest.at = "none" /\ Rest.op = "none" /\ Rest.obj = None /\ InHand(Rest) = {}
    /\ \A n : RecentCall(Rest, n)
    /\ \A c, bs, n : HandExact(Rest, c, bs, n)
    /\ \A l, k : ~Owes(Rest, l, k)
  <1>1. Rest.at = "none" /\ Rest.op = "none" /\ Rest.obj = None  BY DEF Rest
  <1>2. InHand(Rest) = {}  BY <1>1 DEF InHand
  <1> QED BY <1>1, <1>2 DEF RecentCall, HandExact, Owes

\* The oldest key that is kept rises with the time, and is before the key of
\* the minute before.
LEMMA KeptKeys ==
    ASSUME NEW l \in Level, NEW n \in Nat, NEW d \in Start .. n, n >= 1, d >= n - 1
    PROVE  /\ KeepFrom(l, d) <= KeepFrom(l, n) /\ KeepFrom(l, d) <= Key(l, n - 1)
           /\ KeepFrom(l, d) < Key(l, n)
           /\ KeepFrom(l, d) \in Oldest(l, Key(l, n))
           /\ KeepFrom(l, d) \in Nat /\ KeepFrom(l, n) \in Nat
  <1> DEFINE s == Width[l] * Limit[l]
             w == Width[l]
  <1>1. Start \in Nat /\ d \in Nat /\ Start <= d /\ Start <= n /\ d <= n /\ n - 1 \in Nat
    BY Basics
  <1>2. w \in Nat \ {0} /\ s \in Nat /\ w <= s  BY Levels
  <1>3. KeepFrom(l, d) = Key(l, d) - s /\ KeepFrom(l, n) = Key(l, n) - s
    BY <1>1, KeepFromKey
  <1>4. Key(l, d) <= Key(l, n) /\ Key(l, d) \in Nat /\ Key(l, n) \in Nat /\ Key(l, n - 1) \in Nat
    BY <1>1, KeyRises, KeyBounds
  <1>5. Key(l, n) - w <= Key(l, n - 1) /\ Key(l, n - 1) \in {Key(l, n), Key(l, n) - w}
    BY KeyBefore
  <1>6. d = n \/ d = n - 1  BY <1>1
  <1>7. KeepFrom(l, d) \in Nat /\ KeepFrom(l, n) \in Nat  BY <1>1, KeepFromNat
  <1>8. Key(l, d) \in {Key(l, n), Key(l, n) - w}  BY <1>5, <1>6
  <1> HIDE DEF s, w
  <1>9. KeepFrom(l, d) \in {Key(l, n) - s, Key(l, n) - s - w}
    <2>1. CASE Key(l, d) = Key(l, n)  BY <1>3, <2>1
    <2>2. CASE Key(l, d) = Key(l, n) - w
      <3>1. (Key(l, n) - w) - s = Key(l, n) - s - w  BY <1>2, <1>4
      <3> QED BY <1>3, <2>2, <3>1
    <2> QED BY <1>8, <2>1, <2>2
  <1>10. KeepFrom(l, d) \in Oldest(l, Key(l, n))  BY <1>9 DEF Oldest, s, w
  <1>11. KeepFrom(l, d) <= KeepFrom(l, n) /\ KeepFrom(l, d) <= Key(l, n - 1)
         /\ KeepFrom(l, d) < Key(l, n)
    BY <1>2, <1>3, <1>4, <1>5
  <1> QED BY <1>7, <1>10, <1>11

\* The time is positive.
LEMMA TimeFacts ==
    ASSUME TypeOK
    PROVE  now \in Nat /\ now >= 1 /\ Start \in Nat /\ Start <= now /\ now - 1 \in Nat
  <1>1. now \in Nat /\ Start \in Nat /\ Start <= now  BY Basics DEF TypeOK
  <1>2. 1 \in Level /\ Width[1] \in Nat \ {0} /\ Width[1] <= Width[1] * Limit[1]
        /\ Width[1] * Limit[1] \in Nat /\ Width[1] * Limit[1] <= Start
    BY Levels
  <1>3. Start >= 1  BY <1>1, <1>2
  <1> QED BY <1>1, <1>3

\* Time passes: the current bucket is the same, or one that is nowhere yet.
LEMMA TickExact == ASSUME Inv, MoreInv, ExactInv, Tick PROVE ExactInv'
  <1>1. /\ now' = now + 1
        /\ \A u \in User : user[u] # Rest /\ user[u].op # "clear" => user[u].t = now
        /\ UNCHANGED <<rows, calc, listed, user, told, events, beats, hurt, mixed>>
    BY DEF Tick
  <1> SUFFICES ASSUME ~hurt, ~mixed PROVE AllExact'  BY <1>1 DEF ExactInv
  <1>2. AllExact  BY DEF ExactInv
  <1>3. OneCalculator /\ Recent /\ KeysPast /\ QueuesGood /\ HandsExact /\ StoresTrue
        /\ (NoneClears => Accounted /\ BeansTrue)
    BY <1>2 DEF AllExact
  <1>4. TypeOK /\ CallsSound  BY DEF Inv
  <1>5. now \in Nat /\ now >= 1 /\ Start \in Nat /\ Start <= now /\ now - 1 \in Nat
        /\ now + 1 \in Nat
    BY <1>4, TimeFacts
  <1>6. OneCalculator' /\ StoresTrue' /\ (NoneClears' <=> NoneClears)
    BY <1>1, <1>3 DEF OneCalculator, StoresTrue, NoneClears
  <1>7. Recent'
    <2> SUFFICES ASSUME NEW u \in User PROVE RecentCall(user[u], now + 1)
      BY <1>1 DEF Recent
    <2> DEFINE q == user[u]
    <2>1. RecentCall(q, now) /\ Sound(q, calc, now)  BY <1>3, <1>4 DEF Recent, CallsSound
    <2>2. q.at \notin {"none", "clear"} => q.t = now
      <3> HAVE q.at \notin {"none", "clear"}
      <3>1. q # Rest  BY RestFields
      <3>2. q.op # "clear"  BY <2>1 DEF Sound
      <3> QED BY <1>1, <3>1, <3>2
    <2> HIDE DEF q
    <2>3. \A n : n \in now .. now => n \in now .. now + 1  BY <1>5
    <2>4. now \in (now + 1) - 1 .. now + 1  BY <1>5
    <2>5. RecentCall(q, now + 1)  BY <2>1, <2>2, <2>3, <2>4 DEF RecentCall
    <2> QED BY <2>5 DEF q
  <1>8. \A l \in Level : Past(l, now) \subseteq Past(l, now + 1)  BY <1>5, PastFacts
  <1>9. KeysPast'  BY <1>1, <1>3, <1>8 DEF KeysPast
  <1>10. \A l \in Level : Key(l, now) <= Key(l, now + 1)
                          /\ Key(l, now) \in Nat /\ Key(l, now + 1) \in Nat
    BY <1>5, PastFacts, KeyBounds
  <1>11. QueuesGood'
    <2> SUFFICES ASSUME listed # None, NEW l \in Level
                 PROVE  GoodQueue(calc[listed][l], l, Ready(l), Key(l, now + 1), beats[l])
      BY <1>1 DEF QueuesGood, Ready
    <2> DEFINE p == calc[listed][l]
               k == Key(l, now)
               n == Key(l, now + 1)
    <2>1. GoodQueue(p, l, Ready(l), k, beats[l])  BY <1>3 DEF QueuesGood
    <2>2. DOMAIN p.data \subseteq Past(l, now) /\ DOMAIN beats[l] \subseteq Past(l, now)
      BY <1>3 DEF KeysPast
    <2>3. n \in Past(l, now) => n = k  BY <1>5, PastFacts
    <2> HIDE DEF p, k, n
    <2>4. CASE n = k  BY <2>1, <2>4 DEF p, n
    <2>5. CASE n \notin Past(l, now)
      <3>1. n \notin DOMAIN p.data /\ n \notin DOMAIN beats[l]  BY <2>2, <2>5
      <3>2. Held(p.data, n) = Held(beats[l], n)  BY <3>1 DEF Held
      <3>3. Placed(p, l, n)  BY <2>1, <3>1 DEF Placed, GoodQueue, Tidy
      <3>4. GoodQueue(p, l, Ready(l), n, beats[l])  BY <2>1, <3>2, <3>3 DEF GoodQueue
      <3> QED BY <3>4 DEF p, n
    <2> QED BY <2>3, <2>4, <2>5
  <1>12. HandsExact'
    <2> SUFFICES ASSUME NEW u \in User
                 PROVE  HandExact(user[u], calc[user[u].obj], beats, now + 1)
      BY <1>1 DEF HandsExact
    <2> DEFINE q == user[u]
    <2>1. HandExact(q, calc[q.obj], beats, now)  BY <1>3 DEF HandsExact
    <2>2. q.t \in Nat  BY <1>4 DEF TypeOK, Call
    <2>3. \A l \in InHand(q) : l \in Level /\ Key(l, q.t) \in Nat
      <3> HIDE DEF q
      <3> QED BY <2>2, KeyBounds DEF InHand
    <2> HIDE DEF q
    <2>4. \A l \in InHand(q) : Key(l, q.t) < Key(l, now) => Key(l, q.t) < Key(l, now + 1)
      BY <1>10, <2>3
    <2>5. HandExact(q, calc[q.obj], beats, now + 1)  BY <2>1, <2>4 DEF HandExact
    <2> QED BY <2>5 DEF q
  <1>13. ASSUME NoneClears PROVE Accounted' /\ BeansTrue'
    <2>1. Accounted /\ BeansTrue  BY <1>3, <1>13
    <2>2. ASSUME NEW l \in Level
          PROVE  /\ KeepFrom(l, now) <= KeepFrom(l, now + 1)
                 /\ KeepFrom(l, now) \in Nat /\ KeepFrom(l, now + 1) \in Nat
      <3>1. now \in Start .. now + 1 /\ now + 1 >= 1 /\ now >= (now + 1) - 1  BY <1>5
      <3> QED BY <1>5, <3>1, KeptKeys
    <2>3. \A l \in Level : \A k \in DOMAIN beats[l] :
             k >= KeepFrom(l, now + 1) => k >= KeepFrom(l, now)
      <3> TAKE l \in Level
      <3>1. DOMAIN beats[l] \subseteq Nat
        <4>1. beats[l] \in Table  BY <1>4 DEF TypeOK
        <4> QED BY <4>1, TableByValue
      <3> QED BY <2>2, <3>1
    <2>4. Accounted'
      <3> SUFFICES ASSUME NEW l \in Level, NEW k \in DOMAIN beats[l], k >= KeepFrom(l, now + 1)
                   PROVE  \/ k \in DOMAIN rows[l] /\ rows[l][k] = beats[l][k]
                          \/ \E u \in User : Owes(user[u], l, k)
        BY <1>1 DEF Accounted, Owes
      <3>1. k >= KeepFrom(l, now)  BY <2>3
      <3> QED BY <2>1, <3>1 DEF Accounted
    <2>5. BeansTrue'
      <3> SUFFICES ASSUME listed # None, NEW l \in Level, calc[listed][l].bean.saved = TRUE,
                          calc[listed][l].bean.key >= Key(l, (now + 1) - 1)
                   PROVE  calc[listed][l].bean.key \in DOMAIN rows[l]
        BY <1>1 DEF BeansTrue
      <3>1. (now + 1) - 1 = now  BY <1>5
      <3>2. Key(l, now - 1) <= Key(l, now) /\ Key(l, now - 1) \in Nat /\ Key(l, now) \in Nat
        BY <1>5, KeyBefore, KeyBounds
      <3>3. calc[listed][l].bean.key \in Nat
        <4>1. listed \in Object  BY <1>4 DEF TypeOK
        <4>2. calc[listed][l] \in Queue  BY <1>4, <4>1 DEF TypeOK, Calculator
        <4> QED BY <4>2 DEF Queue, BeanType
      <3>4. calc[listed][l].bean.key >= Key(l, now - 1)  BY <3>1, <3>2, <3>3
      <3> QED BY <2>1, <3>4 DEF BeansTrue
    <2> QED BY <2>4, <2>5
  <1> QED BY <1>6, <1>7, <1>9, <1>11, <1>12, <1>13 DEF AllExact

\* A failing query is not forgotten.
LEMMA FailExact == ASSUME NEW u \in User, Fail(u) PROVE ExactInv'
  BY DEF Fail, ExactInv

\* When nothing is under way, nothing is owed.
LEMMA NothingOwed ==
    ASSUME Accounted, \A u \in User : user[u].at \notin {"bean", "store"}
    PROVE  \A l \in Level : \A k \in DOMAIN beats[l] :
              k >= KeepFrom(l, now) => k \in DOMAIN rows[l] /\ rows[l][k] = beats[l][k]
  <1>1. \A u \in User : \A l, k : ~Owes(user[u], l, k)  BY DEF Owes, InHand
  <1> QED BY <1>1 DEF Accounted

\* A restart while only readers are under way.
LEMMA RestartExact == ASSUME Inv, MoreInv, ExactInv, Restart PROVE ExactInv'
  <1>1. /\ listed' = None /\ user' = [u \in User |-> Rest]
        /\ hurt' = (hurt \/ \E u \in User : user[u].op \in {"update", "clear"})
        /\ UNCHANGED <<now, rows, told, beats, mixed>>
    BY DEF Restart
  <1> SUFFICES ASSUME ~hurt', ~mixed PROVE AllExact'  BY <1>1 DEF ExactInv
  <1>2. ~hurt /\ \A u \in User : user[u].op \notin {"update", "clear"}  BY <1>1
  <1>3. KeysPast /\ (NoneClears => Accounted)  BY <1>2 DEF ExactInv, AllExact
  <1>4. \A u \in User : user'[u] = Rest  BY <1>1
  <1>5. OneCalculator' /\ Recent' /\ HandsExact' /\ StoresTrue'
    <2>1. OneCalculator' /\ Recent' /\ StoresTrue'
      BY <1>4, RestFields DEF OneCalculator, Recent, StoresTrue
    <2>2. HandsExact'  BY <1>4, RestFields DEF HandsExact, HandExact
    <2> QED BY <2>1, <2>2
  <1>6. KeysPast'  BY <1>1, <1>3 DEF KeysPast
  <1>7. QueuesGood' /\ BeansTrue'  BY <1>1 DEF QueuesGood, BeansTrue
  <1>8. Accounted'
    <2>1. \A u \in User : user[u].at \notin {"bean", "store"}
      BY <1>2 DEF Inv, CallsSound, Sound
    <2>2. Accounted  BY <1>2, <1>3 DEF NoneClears
    <2>3. \A l \in Level : \A k \in DOMAIN beats[l] :
              k >= KeepFrom(l, now) => k \in DOMAIN rows[l] /\ rows[l][k] = beats[l][k]
      BY <2>1, <2>2, NothingOwed
    <2> QED BY <1>1, <2>3 DEF Accounted
  <1> QED BY <1>5, <1>6, <1>7, <1>8 DEF AllExact

\* A clear begins when nothing is under way.
LEMMA BeginClearExact == ASSUME Inv, MoreInv, ExactInv, NEW u \in User, BeginClear(u) PROVE ExactInv'
  <1> DEFINE r == [Rest EXCEPT !.op = "clear", !.at = "clear"]
  <1>1. /\ user' = [user EXCEPT ![u] = r] /\ user[u] = Rest
        /\ mixed' = (mixed \/ Others(u) # {})
        /\ UNCHANGED <<now, rows, calc, listed, told, beats, hurt>>
    BY DEF BeginClear
  <1> SUFFICES ASSUME ~hurt, ~mixed' PROVE AllExact'  BY <1>1 DEF ExactInv
  <1>2. ~mixed /\ \A v \in User : user[v] = Rest  BY <1>1 DEF Others
  <1>3. KeysPast /\ QueuesGood  BY <1>2 DEF ExactInv, AllExact
  <1>4. user \in [User -> Call]  BY DEF Inv, TypeOK
  <1>5. r.at = "clear" /\ r.op = "clear" /\ r.obj = None  BY DEF Rest
  <1> HIDE DEF r
  <1>6. user'[u] = r /\ \A v \in User \ {u} : user'[v] = Rest  BY <1>1, <1>2, <1>4
  <1>7. InHand(r) = {}  BY <1>5 DEF InHand
  <1>8. /\ OneCalculator' /\ Recent' /\ StoresTrue' /\ ~NoneClears'
        /\ \A v \in User : user'[v].at # "load"
    BY <1>5, <1>6, RestFields DEF OneCalculator, Recent, RecentCall, StoresTrue, NoneClears
  <1>9. HandsExact'
    <2>1. \A v \in User : InHand(user'[v]) = {}  BY <1>6, <1>7, RestFields
    <2> QED BY <2>1 DEF HandsExact, HandExact
  <1>10. QueuesGood'
    <2>1. \A v \in User : user[v].at # "load"  BY <1>2, RestFields
    <2>2. \A l \in Level : Ready(l)' = Ready(l)  BY <1>8, <2>1 DEF Ready
    <2> QED BY <1>1, <1>3, <2>2 DEF QueuesGood
  <1>11. KeysPast'  BY <1>1, <1>3 DEF KeysPast
  <1> QED BY <1>8, <1>9, <1>10, <1>11 DEF AllExact

\* And ends with nothing left.
LEMMA ClearTableExact == ASSUME Inv, MoreInv, ExactInv, NEW u \in User, ClearTable(u) PROVE ExactInv'
  <1> DEFINE q == user[u]
             l == q.level
  <1>1. /\ q.at = "clear"
        /\ rows' = [rows EXCEPT ![l] = Nowhere]
        /\ \/ /\ l = Day /\ Done(u) /\ listed' = None
              /\ beats' = [m \in Level |-> Nowhere]
           \/ /\ l # Day /\ user' = [user EXCEPT ![u].level = l + 1]
              /\ UNCHANGED <<calc, listed, beats>>
        /\ UNCHANGED <<now, hurt, mixed>>
    BY DEF ClearTable
  <1> SUFFICES ASSUME ~hurt, ~mixed PROVE AllExact'  BY <1>1 DEF ExactInv
  <1>2. AllExact /\ TypeOK /\ CallsSound /\ ClearAlone
    BY DEF ExactInv, MoreInv, AllUnder, Inv
  <1>3. /\ KeysPast /\ QueuesGood /\ rows \in [Level -> Table] /\ user \in [User -> Call]
        /\ q \in Call /\ Sound(q, calc, now)
    BY <1>2 DEF AllExact, TypeOK, CallsSound
  <1>4. q.op = "clear" /\ q.obj = None /\ l \in Level  BY <1>1, <1>3 DEF Sound, Call
  <1>5. \A v \in User \ {u} : user[v] = Rest  BY <1>2, <1>4 DEF ClearAlone
  <1>6. DOMAIN Nowhere = {}  BY DEF Nowhere
  <1>7. \A m \in Level : rows'[m] = rows[m] \/ rows'[m] = Nowhere  BY <1>1, <1>3
  <1>8. CASE l = Day
    <2>1. /\ user' = [user EXCEPT ![u] = Rest] /\ listed' = None
          /\ \A m \in Level : beats'[m] = Nowhere
      BY <1>1, <1>8 DEF Done
    <2>2. \A v \in User : user'[v] = Rest  BY <1>3, <1>5, <2>1
    <2>3. OneCalculator' /\ Recent' /\ StoresTrue'
      BY <1>1, <2>2, RestFields DEF OneCalculator, Recent, StoresTrue
    <2>4. HandsExact'  BY <2>2, RestFields DEF HandsExact, HandExact
    <2>5. KeysPast'  BY <1>1, <1>3, <1>6, <1>7, <2>1 DEF KeysPast
    <2>6. QueuesGood' /\ BeansTrue'  BY <2>1 DEF QueuesGood, BeansTrue
    <2>7. Accounted'  BY <1>6, <2>1 DEF Accounted
    <2> QED BY <2>3, <2>4, <2>5, <2>6, <2>7 DEF AllExact
  <1>9. CASE l # Day
    <2> DEFINE r == [q EXCEPT !.level = l + 1]
    <2>1. user' = [user EXCEPT ![u] = r] /\ UNCHANGED <<calc, listed, beats>>
      BY <1>1, <1>3, <1>9
    <2>2. r.at = "clear" /\ r.op = "clear" /\ r.obj = None
      <3> HIDE DEF q
      <3> QED BY <1>1, <1>3, <1>4 DEF Call
    <2> HIDE DEF r
    <2>3. user'[u] = r /\ \A v \in User \ {u} : user'[v] = Rest  BY <1>3, <1>5, <2>1
    <2>4. /\ OneCalculator' /\ Recent' /\ StoresTrue' /\ ~NoneClears'
          /\ \A v \in User : user'[v].at # "load"
      BY <2>2, <2>3, RestFields DEF OneCalculator, Recent, RecentCall, StoresTrue, NoneClears
    <2>5. HandsExact'
      <3>1. InHand(r) = {}  BY <2>2 DEF InHand
      <3>2. \A v \in User : InHand(user'[v]) = {}  BY <2>3, <3>1, RestFields
      <3> QED BY <3>2 DEF HandsExact, HandExact
    <2>6. QueuesGood'
      <3>1. \A v \in User : user[v].at # "load"  BY <1>1, <1>5, RestFields
      <3>2. \A m \in Level : Ready(m)' = Ready(m)  BY <2>4, <3>1 DEF Ready
      <3> QED BY <1>1, <1>3, <2>1, <3>2 DEF QueuesGood
    <2>7. KeysPast'  BY <1>1, <1>3, <1>6, <1>7, <2>1 DEF KeysPast
    <2> QED BY <2>4, <2>5, <2>6, <2>7 DEF AllExact
  <1> QED BY <1>1, <1>8, <1>9

\* At first everything is in the tables.
LEMMA InitExact == Init => ExactInv
  <1> HAVE Init
  <1>1. /\ now = Start /\ rows \in Starts /\ listed = None /\ user = [u \in User |-> Rest]
        /\ beats = rows
    BY DEF Init
  <1>2. \A u \in User : user[u] = Rest  BY <1>1
  <1>3. OneCalculator /\ Recent /\ StoresTrue
    BY <1>2, RestFields DEF OneCalculator, Recent, StoresTrue
  <1>4. HandsExact  BY <1>2, RestFields DEF HandsExact, HandExact
  <1>5. KeysPast
    <2>1. \A l \in Level : DOMAIN rows[l] \subseteq {Key(l, t) : t \in 0 .. Start}
      BY <1>1, UptimeAssumption
    <2> QED BY <1>1, <2>1 DEF KeysPast, Past
  <1>6. QueuesGood /\ BeansTrue  BY <1>1 DEF QueuesGood, BeansTrue
  <1>7. Accounted  BY <1>1 DEF Accounted
  <1> QED BY <1>3, <1>4, <1>5, <1>6, <1>7 DEF ExactInv, AllExact

\* A call takes a step with what it has in hand; the queues stay.
LEMMA CallSteps ==
    ASSUME Inv, OneCalculator, Recent, QueuesGood, HandsExact, NEW u \in User, NEW r,
           user' = [user EXCEPT ![u] = r], UNCHANGED <<now, listed, beats>>,
           user[u].at \notin {"none", "clear", "load"},
           r.at # "load", r.obj = user[u].obj, r.t = user[u].t, RecentCall(r, now),
           InHand(r) \subseteq InHand(user[u]),
           \A m \in InHand(r) : r.frozen[m] = user[u].frozen[m],
           \A p \in Object : \A m \in Level : /\ calc'[p][m].data = calc[p][m].data
                                              /\ calc'[p][m].keys = calc[p][m].keys
    PROVE  OneCalculator' /\ Recent' /\ QueuesGood' /\ HandsExact'
  <1>1. TypeOK /\ CallsSound /\ user \in [User -> Call]  BY DEF Inv, TypeOK
  <1>2. user'[u] = r /\ \A v \in User \ {u} : user'[v] = user[v]  BY <1>1
  <1>3. /\ \A v \in User : user[v].at # "load"
        /\ \A l : Ready(l)
    BY NobodyLoads, RestFields
  <1>4. \A v \in User : user'[v].at # "load"  BY <1>2, <1>3
  <1>5. OneCalculator'  BY <1>2, <1>4 DEF OneCalculator
  <1>6. Recent'  BY <1>2 DEF Recent
  <1>7. listed \in Object /\ user[u].obj = listed  BY UsesListed
  <1>8. QueuesGood'
    <2> SUFFICES ASSUME NEW l \in Level
                 PROVE  GoodQueue(calc'[listed][l], l, Ready(l)', Key(l, now), beats[l])
      BY DEF QueuesGood
    <2>1. Ready(l)' /\ Ready(l)  BY <1>3, <1>4 DEF Ready
    <2>2. GoodQueue(calc[listed][l], l, Ready(l), Key(l, now), beats[l])
      BY <1>7, Basics DEF QueuesGood
    <2>3. calc'[listed][l].data = calc[listed][l].data /\ calc'[listed][l].keys = calc[listed][l].keys
      BY <1>7
    <2> QED BY <2>1, <2>2, <2>3 DEF GoodQueue, Tidy, Placed
  <1>9. HandsExact'
    <2> SUFFICES ASSUME NEW v \in User
                 PROVE  HandExact(user'[v], calc'[user'[v].obj], beats, now)
      BY DEF HandsExact
    <2>1. HandExact(user[v], calc[user[v].obj], beats, now)  BY DEF HandsExact
    <2>2. /\ user'[v].obj = user[v].obj /\ user'[v].t = user[v].t
          /\ InHand(user'[v]) \subseteq InHand(user[v])
          /\ \A m \in InHand(user'[v]) : user'[v].frozen[m] = user[v].frozen[m]
      BY <1>2
    <2>3. \A m \in InHand(user[v]) : m \in Level /\ user[v].obj \in Object
      <3>1. Sound(user[v], calc, now)  BY <1>1 DEF CallsSound
      <3> QED BY <3>1 DEF InHand, Sound
    <2>4. \A m \in InHand(user[v]) : calc'[user[v].obj][m].data = calc[user[v].obj][m].data
      BY <2>3
    <2> QED BY <2>1, <2>2, <2>4 DEF HandExact
  <1> QED BY <1>5, <1>6, <1>8, <1>9

\* The bean of a call's bucket, if it is saved, has its row.
LEMMA BeanHasRow ==
    ASSUME Inv, OneCalculator, Recent, BeansTrue, NEW u \in User, user[u].at = "bean",
           BeanOf(u, user[u]).saved = TRUE
    PROVE  Key(user[u].level, user[u].t) \in DOMAIN rows[user[u].level]
  <1> DEFINE q == user[u]
             l == q.level
             k == Key(l, q.t)
             b == calc[q.obj][l].bean
  <1>1. TypeOK /\ q \in Call /\ Sound(q, calc, now)  BY DEF Inv, TypeOK, CallsSound
  <1>2. l \in Level /\ q.t \in Nat  BY <1>1 DEF Call
  <1>3. q.obj = listed /\ listed \in Object /\ listed # None
    BY UsesListed, Basics
  <1>4. now \in Nat /\ now >= 1 /\ now - 1 \in Nat  BY <1>1, TimeFacts
  <1>5. q.t >= now - 1
    <2>1. RecentCall(q, now)  BY DEF Recent
    <2>2. q.t \in now - 1 .. now  BY <2>1 DEF RecentCall
    <2> QED BY <1>2, <1>4, <2>2
  <1>6. k >= Key(l, now - 1)
    <2>1. Key(l, now - 1) <= Key(l, q.t) /\ Key(l, q.t) \in Nat /\ Key(l, now - 1) \in Nat
      <3> HIDE DEF q, l
      <3> QED BY <1>2, <1>4, <1>5, KeyRises, KeyBounds
    <2> QED BY <2>1
  <1>7. CASE b.key = k
    <2>1. BeanOf(u, q) = b  BY <1>7 DEF BeanOf
    <2>2. b.saved = TRUE  BY <2>1
    <2> QED BY <1>2, <1>3, <1>6, <1>7, <2>2 DEF BeansTrue
  <1>8. CASE b.key # k
    <2>1. BeanOf(u, q) = [key |-> k, saved |-> k \in DOMAIN rows[l], by |-> u]
      BY <1>8 DEF BeanOf
    <2> DEFINE s == k \in DOMAIN rows[l]
    <2>2. BeanOf(u, q).saved = s  BY <2>1
    <2> QED BY <2>2
  <1> QED BY <1>7, <1>8

\* A call that is owed for a bucket takes the beats of it.
LEMMA BeanExact == ASSUME Inv, MoreInv, ExactInv, NEW u \in User, Bean(u) PROVE ExactInv'
  <1> DEFINE q == user[u]
             l == q.level
             o == q.obj
             k == Key(l, q.t)
             b == BeanOf(u, q)
             w == Taken(q)
             i == ~b.saved
             r == [q EXCEPT !.at = "store", !.bean = b.by, !.insert = i, !.write = w]
  <1>1. /\ q.at = "bean" /\ o \in Object /\ l \in Level
        /\ b \in BeanType /\ b.key = k
        /\ calc' = WithBean(o, l, b)
        /\ w \in Counts
        /\ user' = [user EXCEPT ![u] = r]
        /\ UNCHANGED <<now, rows, listed, told, events, beats, hurt, mixed>>
    BY BeanFacts
  <1> SUFFICES ASSUME ~hurt, ~mixed PROVE AllExact'  BY <1>1 DEF ExactInv
  <1>2. /\ OneCalculator /\ Recent /\ KeysPast /\ QueuesGood /\ HandsExact /\ StoresTrue
        /\ (NoneClears => Accounted /\ BeansTrue)
        /\ ClearAlone /\ TypeOK /\ CallsSound
    BY DEF ExactInv, AllExact, MoreInv, AllUnder, Inv
  <1>3. NoneClears  BY <1>1, <1>2, NoClear DEF NoneClears
  <1>4. q \in Call /\ RecentCall(q, now) /\ user \in [User -> Call]
        /\ HandExact(q, calc[o], beats, now) /\ Sound(q, calc, now)
    BY <1>2 DEF TypeOK, Recent, HandsExact, CallsSound
  <1>5. w = Held(beats[l], k)
    <2>1. l \in InHand(q)  BY <1>1, Levels DEF InHand
    <2>2. IF q.frozen[l] # None THEN q.frozen[l] = Held(beats[l], k)
          ELSE calc[o][l].data[k] = Held(beats[l], k)
      BY <1>4, <2>1 DEF HandExact
    <2> QED BY <2>2 DEF Taken
  <1>6. b.saved = TRUE => k \in DOMAIN rows[l]
    BY <1>1, <1>2, <1>3, BeanHasRow
  <1>7. i = FALSE => b.saved = TRUE
    <2>1. b.saved \in BOOLEAN  BY <1>1 DEF BeanType
    <2> QED BY <2>1
  <1> HIDE DEF b, w, i
  <1>8. /\ r.at = "store" /\ r.op = q.op /\ r.t = q.t /\ r.level = l /\ r.obj = o
        /\ r.frozen = q.frozen /\ r.write = w /\ r.insert = i /\ r.date = q.date
    <2> HIDE DEF q
    <2> QED BY <1>4 DEF Call
  <1>9. InHand(r) \subseteq InHand(q) /\ InHand(q) = InHand(r) \cup {l}
    BY <1>1, <1>8, Levels DEF InHand
  <1>10. RecentCall(r, now)  BY <1>1, <1>4, <1>8 DEF RecentCall
  <1>11. /\ calc' \in [Object -> Calculator]
         /\ \A p \in Object : \A m \in Level :
               /\ calc'[p][m].data = calc[p][m].data
               /\ calc'[p][m].keys = calc[p][m].keys
               /\ calc'[p][m].bean = IF p = o /\ m = l THEN b ELSE calc[p][m].bean
    <2> HIDE DEF q
    <2> QED BY <1>1, <1>2, BeanOnly
  <1> HIDE DEF r
  <1>12. user'[u] = r /\ \A v \in User \ {u} : user'[v] = user[v]  BY <1>1, <1>4
  <1>13. OneCalculator' /\ Recent' /\ QueuesGood' /\ HandsExact'
    BY <1>1, <1>2, <1>8, <1>9, <1>10, <1>11, CallSteps
  <1>14. listed \in Object /\ o = listed  BY <1>1, <1>2, UsesListed
  <1>15. KeysPast'
    <2>1. \A m \in Level : DOMAIN calc'[listed][m].data = DOMAIN calc[listed][m].data
      BY <1>11, <1>14
    <2> QED BY <1>1, <1>2, <2>1 DEF KeysPast
  <1>16. StoresTrue'
    <2> SUFFICES ASSUME NEW v \in User, user'[v].at = "store", user'[v].insert = FALSE
                 PROVE  Key(user'[v].level, user'[v].t) \in DOMAIN rows[user'[v].level]
      BY <1>1 DEF StoresTrue
    <2>1. CASE v = u  BY <1>6, <1>7, <1>8, <1>12, <2>1
    <2>2. CASE v # u  BY <1>2, <1>12, <2>2 DEF StoresTrue
    <2> QED BY <2>1, <2>2
  <1>17. BeansTrue'
    <2> SUFFICES ASSUME NEW m \in Level, calc'[listed][m].bean.saved = TRUE,
                        calc'[listed][m].bean.key >= Key(m, now - 1)
                 PROVE  calc'[listed][m].bean.key \in DOMAIN rows[m]
      BY <1>1 DEF BeansTrue
    <2>1. calc'[listed][m].bean = IF m = l THEN b ELSE calc[listed][m].bean
      BY <1>11, <1>14
    <2>2. CASE m = l  BY <1>1, <1>6, <2>1, <2>2
    <2>3. CASE m # l
      <3>1. listed # None  BY <1>14, Basics
      <3> QED BY <1>2, <1>3, <2>1, <2>3, <3>1 DEF BeansTrue
    <2> QED BY <2>2, <2>3
  <1>18. Accounted'
    <2> SUFFICES ASSUME NEW m \in Level, NEW x \in DOMAIN beats[m], x >= KeepFrom(m, now)
                 PROVE  \/ x \in DOMAIN rows[m] /\ rows[m][x] = beats[m][x]
                        \/ \E v \in User : Owes(user'[v], m, x)
      BY <1>1 DEF Accounted, Owes
    <2>1. \/ x \in DOMAIN rows[m] /\ rows[m][x] = beats[m][x]
          \/ \E v \in User : Owes(user[v], m, x)
      BY <1>2, <1>3 DEF Accounted
    <2>2. ASSUME NEW v \in User, Owes(user[v], m, x) PROVE Owes(user'[v], m, x)
      <3>1. CASE v # u  BY <1>12, <2>2, <3>1
      <3>2. CASE v = u
        <4>1. Key(m, q.t) = x /\ m \in InHand(q)  BY <1>1, <2>2, <3>2 DEF Owes
        <4>2. CASE m \in InHand(r)  BY <1>8, <1>12, <3>2, <4>1, <4>2 DEF Owes
        <4>3. CASE m = l
          <5>1. r.write = Held(beats[m], x)  BY <1>5, <1>8, <4>1, <4>3
          <5> QED BY <1>8, <1>12, <3>2, <4>1, <4>3, <5>1 DEF Owes
        <4> QED BY <1>9, <4>1, <4>2, <4>3
      <3> QED BY <3>1, <3>2
    <2> QED BY <2>1, <2>2
  <1> QED BY <1>13, <1>15, <1>16, <1>17, <1>18 DEF AllExact

\* A row is stored: what it should say it says, or another call will see to it.
LEMMA StoreExact == ASSUME Inv, MoreInv, ExactInv, NEW u \in User, StoreRow(u) PROVE ExactInv'
  <1> DEFINE q == user[u]
             l == q.level
             o == q.obj
             k == Key(l, q.t)
             b == calc[o][l].bean
             r == StoredOf(q)
  <1>1. /\ q.at = "store" /\ o \in Object /\ l \in Level /\ k \in Nat /\ b \in BeanType
        /\ UNCHANGED <<now, listed, told, events, beats, mixed>>
    BY StoreFacts
  <1>2. \/ hurt' = TRUE
        \/ /\ q.insert = TRUE /\ k \notin DOMAIN rows[l]
           /\ rows' = [rows EXCEPT ![l] = With(@, k, q.write)]
           /\ calc' = IF b.key = k /\ b.by = q.bean THEN WithBean(o, l, Saved(o, l)) ELSE calc
           /\ user' = [user EXCEPT ![u] = r] /\ UNCHANGED hurt
        \/ /\ q.insert = FALSE
           /\ rows' = IF k \in DOMAIN rows[l] THEN [rows EXCEPT ![l] = With(@, k, q.write)]
                      ELSE rows
           /\ hurt' = (hurt \/ (k \in DOMAIN rows[l] /\ ~AtMost(rows[l][k], q.write)))
           /\ user' = [user EXCEPT ![u] = r]
           /\ UNCHANGED calc
    BY StoreFacts
  <1> SUFFICES ASSUME ~hurt', ~mixed PROVE AllExact'  BY <1>1 DEF ExactInv
  <1>3. ~hurt  BY <1>2
  <1>4. /\ OneCalculator /\ Recent /\ KeysPast /\ QueuesGood /\ HandsExact /\ StoresTrue
        /\ (NoneClears => Accounted /\ BeansTrue)
        /\ RowsUnder /\ CallsUnder /\ ClearAlone /\ TypeOK /\ CallsSound
    BY <1>3 DEF ExactInv, AllExact, MoreInv, AllUnder, Inv
  <1>5. NoneClears /\ Accounted /\ BeansTrue  BY <1>1, <1>4, NoClear DEF NoneClears
  <1>6. q \in Call /\ RecentCall(q, now) /\ user \in [User -> Call] /\ Sound(q, calc, now)
        /\ CallUnder(q, beats) /\ q.write \in Counts
        /\ rows \in [Level -> Table] /\ beats \in [Level -> Table]
        /\ calc \in [Object -> Calculator]
    BY <1>4 DEF TypeOK, Recent, CallsSound, CallsUnder, Call
  <1>7. q.insert = FALSE => k \in DOMAIN rows[l]  BY <1>1, <1>4 DEF StoresTrue
  <1>8. /\ rows' = [rows EXCEPT ![l] = With(@, k, q.write)]
        /\ user' = [user EXCEPT ![u] = r]
        /\ k \in DOMAIN rows[l] => AtMost(rows[l][k], q.write)
        /\ \/ calc' = calc
           \/ b.key = k /\ calc' = WithBean(o, l, Saved(o, l))
    BY <1>2, <1>7
  <1>9. /\ \A m \in Level \ {l} : rows'[m] = rows[m]
        /\ DOMAIN rows'[l] = DOMAIN rows[l] \cup {k}
        /\ \A x \in DOMAIN rows'[l] : rows'[l][x] = IF x = k THEN q.write ELSE rows[l][x]
    BY <1>1, <1>6, <1>8 DEF With
  <1>10. /\ r \in Call /\ r.at \in {"prune", "bean"} /\ r.op = "update"
         /\ (r.at = "prune" <=> l = 1)
         /\ (r.at = "bean" => r.level = l - 1)
         /\ r.t = q.t /\ r.obj = o
         /\ \A m \in Level : m < l => r.frozen[m] = q.frozen[m]
    BY <1>1, <1>4, <1>6, StoredFacts
  <1>11. r.date = IF l = Day THEN now ELSE q.date
    BY <1>6 DEF StoredOf, Call
  <1>12. InHand(r) = InHand(q) /\ \A m \in InHand(q) : m \in Level /\ m < l
    <2>1. InHand(q) = {m \in Level : m < l}  BY <1>1 DEF InHand
    <2>2. InHand(r) = {m \in Level : r.at = "bean" /\ m <= l - 1}  BY <1>10 DEF InHand
    <2>3. \A m \in Level : m < l <=> l # 1 /\ m <= l - 1  BY <1>1, Levels
    <2> QED BY <1>10, <2>1, <2>2, <2>3
  <1>13. RecentCall(r, now)
    <2>1. q.t \in now - 1 .. now  BY <1>1, <1>6 DEF RecentCall
    <2>2. now \in Nat /\ now >= 1  BY <1>4, TimeFacts
    <2>3. now \in q.t .. now  BY <2>1, <2>2
    <2>4. l # Day => l < Day  BY <1>1, Levels
    <2>5. l # Day => q.date \in q.t .. now  BY <1>1, <1>6, <2>4 DEF RecentCall
    <2> HIDE DEF q, r
    <2> QED BY <1>10, <1>11, <2>1, <2>3, <2>5 DEF RecentCall
  <1>14. /\ \A p \in Object : \A m \in Level :
               /\ calc'[p][m].data = calc[p][m].data
               /\ calc'[p][m].keys = calc[p][m].keys
               /\ calc'[p][m].bean.key = calc[p][m].bean.key
               /\ \/ calc'[p][m].bean = calc[p][m].bean
                  \/ p = o /\ m = l /\ b.key = k
    <2>1. CASE calc' = calc  BY <2>1
    <2>2. CASE b.key = k /\ calc' = WithBean(o, l, Saved(o, l))
      <3>1. Saved(o, l) \in BeanType /\ Saved(o, l).key = b.key  BY <1>1 DEF Saved, BeanType
      <3>2. \A p \in Object : \A m \in Level :
               /\ calc'[p][m].data = calc[p][m].data
               /\ calc'[p][m].keys = calc[p][m].keys
               /\ calc'[p][m].bean = IF p = o /\ m = l THEN Saved(o, l) ELSE calc[p][m].bean
        <4> HIDE DEF q
        <4> QED BY <1>1, <1>4, <2>2, <3>1, BeanOnly
      <3> QED BY <2>2, <3>1, <3>2
    <2> QED BY <1>8, <2>1, <2>2
  <1>15. user'[u] = r /\ \A v \in User \ {u} : user'[v] = user[v]  BY <1>6, <1>8
  <1>16. OneCalculator' /\ Recent' /\ QueuesGood' /\ HandsExact'
    <2>1. /\ \A m \in InHand(r) : r.frozen[m] = q.frozen[m]
          /\ r.at # "load"
      BY <1>10, <1>12
    <2> HIDE DEF r
    <2> QED BY <1>1, <1>4, <1>8, <1>10, <1>12, <1>13, <1>14, <2>1, CallSteps
  <1>17. listed \in Object /\ o = listed /\ listed # None
    BY <1>1, <1>4, UsesListed, Basics
  <1>18. k \in DOMAIN beats[l] /\ AtMost(q.write, beats[l][k])
    <2>1. l <= l  BY <1>1, Levels
    <2> QED BY <1>1, <1>6, <2>1 DEF CallUnder, Held
  <1>19. KeysPast'
    <2>1. \A m \in Level : DOMAIN calc'[listed][m].data = DOMAIN calc[listed][m].data
      BY <1>14, <1>17
    <2>2. \A m \in Level : DOMAIN rows'[m] \subseteq Past(m, now)
      <3> TAKE m \in Level
      <3>1. CASE m # l  BY <1>4, <1>9, <3>1 DEF KeysPast
      <3>2. CASE m = l
        <4>1. k \in Past(l, now)  BY <1>1, <1>4, <1>18 DEF KeysPast
        <4> QED BY <1>1, <1>4, <1>9, <3>2, <4>1 DEF KeysPast
      <3> QED BY <3>1, <3>2
    <2> QED BY <1>1, <1>4, <2>1, <2>2 DEF KeysPast
  <1>20. \A m \in Level : DOMAIN rows[m] \subseteq DOMAIN rows'[m]
    <2> TAKE m \in Level
    <2> QED BY <1>9
  <1>21. StoresTrue'
    <2> SUFFICES ASSUME NEW v \in User, user'[v].at = "store", user'[v].insert = FALSE
                 PROVE  Key(user'[v].level, user'[v].t) \in DOMAIN rows'[user'[v].level]
      BY DEF StoresTrue
    <2>1. v # u  BY <1>10, <1>15
    <2>2. user'[v] = user[v] /\ user[v] \in Call  BY <1>6, <1>15, <2>1
    <2>3. user[v].level \in Level  BY <2>2 DEF Call
    <2>4. Key(user[v].level, user[v].t) \in DOMAIN rows[user[v].level]
      BY <1>4, <2>2 DEF StoresTrue
    <2> QED BY <1>20, <2>2, <2>3, <2>4
  <1>22. BeansTrue'
    <2> SUFFICES ASSUME NEW m \in Level, calc'[listed][m].bean.saved = TRUE,
                        calc'[listed][m].bean.key >= Key(m, now - 1)
                 PROVE  calc'[listed][m].bean.key \in DOMAIN rows'[m]
      BY <1>1 DEF BeansTrue
    <2>1. calc'[listed][m].bean.key = calc[listed][m].bean.key  BY <1>14, <1>17
    <2>2. CASE calc'[listed][m].bean = calc[listed][m].bean
      <3>1. calc[listed][m].bean.key \in DOMAIN rows[m]
        BY <1>5, <1>17, <2>2 DEF BeansTrue
      <3> QED BY <1>20, <2>1, <3>1
    <2>3. CASE m = l /\ b.key = k  BY <1>9, <1>17, <2>1, <2>3
    <2> QED BY <1>14, <1>17, <2>2, <2>3
  <1>23. Accounted'
    <2> SUFFICES ASSUME NEW m \in Level, NEW x \in DOMAIN beats[m], x >= KeepFrom(m, now)
                 PROVE  \/ x \in DOMAIN rows'[m] /\ rows'[m][x] = beats[m][x]
                        \/ \E v \in User : Owes(user'[v], m, x)
      BY <1>1 DEF Accounted, Owes
    <2>1. \/ x \in DOMAIN rows[m] /\ rows[m][x] = beats[m][x]
          \/ \E v \in User : Owes(user[v], m, x)
      BY <1>5 DEF Accounted
    <2>2. ASSUME NEW v \in User, Owes(user[v], m, x), v # u \/ m \in InHand(q)
          PROVE  Owes(user'[v], m, x)
      <3>1. CASE v # u  BY <1>15, <2>2, <3>1
      <3>2. CASE v = u
        <4>1. Key(m, q.t) = x  BY <2>2, <3>2 DEF Owes
        <4> QED BY <1>10, <1>12, <1>15, <2>2, <3>2, <4>1 DEF Owes
      <3> QED BY <3>1, <3>2
    <2>3. CASE m = l /\ x = k
      <3>1. rows'[m][x] = q.write /\ x \in DOMAIN rows'[m]  BY <1>9, <2>3
      <3>2. beats[l][k] \in Counts  BY <1>1, <1>6, <1>18, TableOps
      <3>3. CASE q.write = beats[l][k]  BY <2>3, <3>1, <3>3
      <3>4. CASE q.write # beats[l][k]
        <4>1. ~(k \in DOMAIN rows[l] /\ rows[l][k] = beats[l][k])
          BY <1>6, <1>8, <1>18, <3>2, <3>4, AtMostOrder
        <4>2. PICK v \in User : Owes(user[v], m, x)  BY <2>1, <2>3, <4>1
        <4>3. v # u
          <5>1. SUFFICES ASSUME v = u PROVE FALSE  OBVIOUS
          <5>2. m \notin InHand(q)
            <6>1. ~(l < l)  BY <1>1, Levels
            <6> QED BY <1>12, <2>3, <6>1
          <5>3. q.write = Held(beats[m], x)  BY <4>2, <5>1, <5>2 DEF Owes
          <5> QED BY <1>18, <2>3, <3>4, <5>3 DEF Held
        <4> QED BY <2>2, <4>2, <4>3
      <3> QED BY <3>3, <3>4
    <2>4. CASE ~(m = l /\ x = k)
      <3>1. CASE x \in DOMAIN rows[m] /\ rows[m][x] = beats[m][x]
        BY <1>9, <2>4, <3>1
      <3>2. CASE \E v \in User : Owes(user[v], m, x)
        <4>1. PICK v \in User : Owes(user[v], m, x)  BY <3>2
        <4>2. v # u \/ m \in InHand(q)
          <5>1. SUFFICES ASSUME v = u, m \notin InHand(q) PROVE FALSE  OBVIOUS
          <5>2. Key(m, q.t) = x /\ q.level = m  BY <4>1, <5>1 DEF Owes
          <5> QED BY <2>4, <5>2
        <4> QED BY <2>2, <4>1, <4>2
      <3> QED BY <2>1, <3>1, <3>2
    <2> QED BY <2>3, <2>4
  <1> QED BY <1>16, <1>19, <1>21, <1>22, <1>23 DEF AllExact

\* The calculator o becomes c and the beats bs, and what is current is counted
\* in both: nothing else changes, but that buckets may go.
Follows(o, c, bs) ==
    \A l \in Level :
        LET k == Key(l, now)
            d == calc[o][l].data IN
        /\ \A x \in Nat : x # k => Held(bs[l], x) = Held(beats[l], x)
        /\ \A x \in DOMAIN c[l].data : x # k => c[l].data[x] = Held(d, x)
        /\ k \in DOMAIN d =>
              /\ k \in DOMAIN c[l].data
              /\ d[k] = Held(beats[l], k) => c[l].data[k] = Held(bs[l], k)

\* What calls have in hand stays exact: in the queue, or kept.
LEMMA HandsKept ==
    ASSUME Inv, HandsExact, NEW o \in Object, NEW c, NEW bs, Follows(o, c, bs),
           NEW v \in User, user[v].obj \in {None, o}
    PROVE  HandExact(Keeping(o, c, NoKeys)[v], c, bs, now)
  <1> DEFINE q == user[v]
             r == Keeping(o, c, NoKeys)[v]
  <1>1. /\ TypeOK /\ CallsSound /\ q \in Call /\ Sound(q, calc, now)
        /\ HandExact(q, calc[q.obj], beats, now)
    BY DEF Inv, TypeOK, CallsSound, HandsExact
  <1>2. Alike(r, q)  BY <1>1, KeepingFacts
  <1>3. InHand(r) = InHand(q) /\ r.t = q.t  BY <1>2 DEF Alike, InHand
  <1>4. now \in Nat  BY <1>1, TimeFacts
  <1> SUFFICES ASSUME NEW l \in InHand(q)
               PROVE  LET k == Key(l, q.t) IN
                      IF r.frozen[l] # None THEN r.frozen[l] = Held(bs[l], k) /\ k < Key(l, now)
                      ELSE c[l].data[k] = Held(bs[l], k)
    BY <1>3 DEF HandExact
  <1> DEFINE k == Key(l, q.t)
             d == calc[o][l].data
  <1>5. l \in Level /\ q.at \in {"bean", "store"}  BY DEF InHand
  <1>6. q.obj = o /\ q.t \in Start .. now /\ Has(q, calc[o])
    <2>1. q.obj \in Object /\ q.t \in Start .. now /\ Has(q, calc[q.obj])
      BY <1>1, <1>5 DEF Sound
    <2> QED BY <2>1, Basics
  <1>7. k \in Nat /\ k <= Key(l, now) /\ Key(l, now) \in Nat
    <2>1. q.t \in Nat /\ q.t <= now  BY <1>6, Basics
    <2> HIDE DEF q
    <2> QED BY <1>4, <1>5, <2>1, KeyRises, KeyBounds
  <1>8. r.frozen[l] = IF q.frozen[l] = None /\ k \notin DOMAIN c[l].data
                      THEN d[k] ELSE q.frozen[l]
    <2>1. r = [q EXCEPT !.frozen = [m \in Level |->
                 IF /\ m \in InHand(q) /\ @[m] = None
                    /\ Key(m, q.t) \in NoKeys[m] \/ Key(m, q.t) \notin DOMAIN c[m].data
                 THEN calc[o][m].data[Key(m, q.t)] ELSE @[m]]]
      BY <1>6 DEF Keeping
    <2> HIDE DEF q, r
    <2>2. r.frozen = [m \in Level |->
                 IF /\ m \in InHand(q) /\ q.frozen[m] = None
                    /\ Key(m, q.t) \in NoKeys[m] \/ Key(m, q.t) \notin DOMAIN c[m].data
                 THEN calc[o][m].data[Key(m, q.t)] ELSE q.frozen[m]]
      BY <1>1, <2>1 DEF Call
    <2>3. NoKeys[l] = {}  BY <1>5 DEF NoKeys
    <2> QED BY <1>5, <2>2, <2>3
  <1>9. IF q.frozen[l] # None THEN q.frozen[l] = Held(beats[l], k) /\ k < Key(l, now)
        ELSE d[k] = Held(beats[l], k)
    BY <1>1, <1>6 DEF HandExact
  <1>10. k # Key(l, now) => Held(bs[l], k) = Held(beats[l], k)
    BY <1>5, <1>7 DEF Follows
  <1>11. q.frozen[l] = None => k \in DOMAIN d  BY <1>6 DEF Has
  <1> HIDE DEF q, r
  <1>12. CASE q.frozen[l] # None
    <2>1. r.frozen[l] = q.frozen[l]  BY <1>8, <1>12
    <2> QED BY <1>7, <1>9, <1>10, <1>12, <2>1
  <1>13. CASE q.frozen[l] = None /\ k \notin DOMAIN c[l].data
    <2>1. r.frozen[l] = d[k] /\ d[k] = Held(beats[l], k) /\ k \in DOMAIN d
      BY <1>8, <1>9, <1>11, <1>13
    <2>2. k # Key(l, now)  BY <1>5, <1>13, <2>1 DEF Follows
    <2>3. d[k] # None
      <3>1. calc[o][l] \in Queue  BY <1>1, <1>5 DEF TypeOK, Calculator
      <3>2. d \in Table  BY <3>1 DEF Queue
      <3> HIDE DEF d, k
      <3>3. d[k] \in Counts  BY <2>1, <3>2, TableOps
      <3> QED BY <3>3, AtMostOrder
    <2> QED BY <1>7, <1>10, <2>1, <2>2, <2>3
  <1>14. CASE q.frozen[l] = None /\ k \in DOMAIN c[l].data
    <2>1. r.frozen[l] = None /\ d[k] = Held(beats[l], k) /\ k \in DOMAIN d
      BY <1>8, <1>9, <1>11, <1>14
    <2>2. CASE k = Key(l, now)
      <3>1. c[l].data[k] = Held(bs[l], k)  BY <1>5, <2>1, <2>2 DEF Follows
      <3> QED BY <2>1, <3>1
    <2>3. CASE k # Key(l, now)
      <3>1. c[l].data[k] = Held(d, k)  BY <1>5, <1>14, <2>3 DEF Follows
      <3>2. Held(d, k) = d[k]  BY <2>1 DEF Held
      <3> QED BY <1>10, <2>1, <2>3, <3>1, <3>2
    <2> QED BY <2>2, <2>3
  <1> QED BY <1>12, <1>13, <1>14

\* A call changes the listed calculator and becomes r.
LEMMA CalculatorSteps ==
    ASSUME Inv, OneCalculator, Recent, HandsExact, NEW u \in User, NEW o \in Object, listed = o,
           NEW c \in Calculator, NEW r, UNCHANGED <<now, listed>>,
           calc' = [calc EXCEPT ![o] = c],
           user' = [Keeping(o, c, NoKeys) EXCEPT ![u] = r],
           user[u].at # "load", r.at # "load", r.obj \in {None, o}, RecentCall(r, now),
           \A v \in User : user[v].at = "load" => r = Rest,
           Follows(o, c, beats'), HandExact(r, c, beats', now), r.obj # o => InHand(r) = {}
    PROVE  /\ OneCalculator' /\ Recent' /\ HandsExact'
           /\ \A l : Ready(l)' = Ready(l)
           /\ user'[u] = r
           /\ \A v \in User \ {u} : /\ Alike(user'[v], user[v]) /\ InHand(user'[v]) = InHand(user[v])
                                    /\ user[v] = Rest => user'[v] = Rest
  <1>1. TypeOK /\ CallsSound  BY DEF Inv
  <1>2. Keeping(o, c, NoKeys) = [v \in User |-> Keeping(o, c, NoKeys)[v]]  BY DEF Keeping
  <1>3. user'[u] = r /\ \A v \in User \ {u} : user'[v] = Keeping(o, c, NoKeys)[v]
    BY <1>2
  <1>4. ASSUME NEW v \in User \ {u}
        PROVE  /\ Alike(user'[v], user[v]) /\ InHand(user'[v]) = InHand(user[v])
               /\ user[v] = Rest => user'[v] = Rest
    <2>1. Alike(user'[v], user[v])  BY <1>1, <1>3, KeepingFacts
    <2>2. user[v].obj # o => user'[v] = user[v]  BY <1>1, <1>3, KeepingFacts
    <2>3. Rest.obj # o  BY RestFields, Basics
    <2>4. InHand(user'[v]) = InHand(user[v])  BY <2>1 DEF Alike, InHand
    <2> QED BY <2>1, <2>2, <2>3, <2>4
  <1>5. \A v \in User : /\ user'[v].at = "load" <=> user[v].at = "load"
                        /\ user'[v].at = "load" => user'[v].level = user[v].level
    BY <1>3, <1>4 DEF Alike
  <1>6. ASSUME NEW l PROVE Ready(l)' = Ready(l)  BY <1>5 DEF Ready
  <1>7. OneCalculator'
    <2>1. \A v \in User : user'[v].obj \in {None, listed}
      BY <1>3, <1>4 DEF OneCalculator, Alike
    <2>2. ASSUME NEW v \in User, user'[v].at = "load", NEW w \in User \ {v}
          PROVE  user'[w] = Rest
      <3>1. user[v].at = "load" /\ user[w] = Rest  BY <1>5, <2>2 DEF OneCalculator
      <3> QED BY <1>3, <1>4, <3>1
    <2> QED BY <2>1, <2>2 DEF OneCalculator
  <1>8. Recent'
    <2> SUFFICES ASSUME NEW v \in User PROVE RecentCall(user'[v], now)  BY DEF Recent
    <2>1. RecentCall(user[v], now)  BY DEF Recent
    <2> QED BY <1>3, <1>4, <2>1 DEF RecentCall, Alike
  <1>9. HandsExact'
    <2> SUFFICES ASSUME NEW v \in User
                 PROVE  HandExact(user'[v], calc'[user'[v].obj], beats', now)
      BY DEF HandsExact
    <2>1. calc'[o] = c  BY <1>1 DEF TypeOK
    <2>2. user'[v].obj \in {None, o} /\ HandExact(user'[v], c, beats', now)
      <3>1. CASE v = u  BY <1>3, <3>1
      <3>2. CASE v # u
        <4>1. user[v].obj \in {None, o}  BY DEF OneCalculator
        <4>2. user'[v].obj = user[v].obj  BY <1>4, <3>2 DEF Alike
        <4> QED BY <1>3, <3>2, <4>1, <4>2, HandsKept
      <3> QED BY <3>1, <3>2
    <2>3. CASE user'[v].obj = o  BY <2>1, <2>2, <2>3
    <2>4. CASE user'[v].obj # o
      <3>1. user'[v].obj = None  BY <2>2, <2>4
      <3>2. InHand(user'[v]) = {}
        <4>1. CASE v # u
          <5>1. Sound(user[v], calc, now) /\ user[v].obj \notin Object
            BY <1>1, <1>4, <3>1, <4>1, Basics DEF CallsSound, Alike
          <5>2. InHand(user[v]) = {}  BY <5>1 DEF Sound, InHand
          <5> QED BY <1>4, <4>1, <5>2
        <4>2. CASE v = u  BY <1>3, <3>1, <4>2, Basics
        <4> QED BY <4>1, <4>2
      <3> QED BY <3>2 DEF HandExact
    <2> QED BY <2>3, <2>4
  <1> QED BY <1>3, <1>4, <1>6, <1>7, <1>8, <1>9

\* A bucket that is asked for, current or one of the oldest, does not change
\* what the current one holds.
LEMMA TouchGood ==
    ASSUME NEW q \in Queue, NEW l \in Level, NEW t \in Nat, Tidy(q), NEW k,
           Placed(q, l, k), Key(l, t) = k \/ (Limit[l] >= 3 /\ Key(l, t) \in Oldest(l, k))
    PROVE  /\ Tidy(Touch(q, l, t)) /\ Placed(Touch(q, l, t), l, k)
           /\ Held(Touch(q, l, t).data, k) = Held(q.data, k)
           /\ k \in DOMAIN q.data => k \in DOMAIN Touch(q, l, t).data
  <1> DEFINE r == Touch(q, l, t)
  <1>1. /\ Tidy(r) /\ Placed(r, l, k)
        /\ k \in DOMAIN q.data => k \in DOMAIN r.data
    BY TouchTidy
  <1>2. \A x \in DOMAIN r.data : r.data[x] = Held(q.data, x)  BY TouchFacts
  <1> HIDE DEF r
  <1>3. Held(r.data, k) = Held(q.data, k)  BY <1>1, <1>2 DEF Held
  <1> QED BY <1>1, <1>3 DEF r

\* Old rows go; the key of the oldest takes no current bucket's place.
LEMMA PruneExact ==
    ASSUME LongQueues, Inv, MoreInv, ExactInv, NEW u \in User, Prune(u)
    PROVE  ExactInv'
  <1> DEFINE q == user[u]
             l == q.level
             o == q.obj
             old == q.date - Width[l] * Limit[l]
             c == [calc[o] EXCEPT ![l] = Touch(@, l, old)]
             r == IF l = Day - 1 THEN Rest ELSE [q EXCEPT !.level = l + 1]
             S == {k \in DOMAIN rows[l] : k >= KeepFrom(l, q.date)}
  <1>1. /\ q.at = "prune" /\ o \in Object /\ l \in Level /\ q.date \in Start .. now
        /\ old \in Nat /\ q.date \in Nat
        /\ calc' = [calc EXCEPT ![o] = c] /\ c \in Calculator
        /\ c[l] = Touch(calc[o][l], l, old)
        /\ \A m \in Level \ {l} : c[m] = calc[o][m]
        /\ rows' = [rows EXCEPT ![l] = Only(@, {k \in DOMAIN @ : k >= KeepFrom(l, q.date)})]
        /\ user' = [Keeping(o, c, NoKeys) EXCEPT ![u] = r]
        /\ r \in Call /\ InHand(r) = {}
        /\ UNCHANGED <<now, listed, told, events, beats, hurt, mixed>>
    BY PruneFacts
  <1> SUFFICES ASSUME ~hurt, ~mixed PROVE AllExact'  BY <1>1 DEF ExactInv
  <1>2. /\ OneCalculator /\ Recent /\ KeysPast /\ QueuesGood /\ HandsExact /\ StoresTrue
        /\ (NoneClears => Accounted /\ BeansTrue)
        /\ ClearAlone /\ TypeOK /\ CallsSound
    BY DEF ExactInv, AllExact, MoreInv, AllUnder, Inv
  <1>3. NoneClears /\ Accounted /\ BeansTrue  BY <1>1, <1>2, NoClear DEF NoneClears
  <1>4. /\ q \in Call /\ RecentCall(q, now) /\ Sound(q, calc, now)
        /\ calc[o] \in Calculator /\ calc \in [Object -> Calculator]
        /\ rows \in [Level -> Table] /\ beats \in [Level -> Table]
    BY <1>1, <1>2 DEF TypeOK, Recent, CallsSound
  <1>5. now \in Nat /\ now >= 1 /\ now - 1 \in Nat /\ Start \in Nat /\ Start <= now
    BY <1>2, TimeFacts
  <1>6. q.date >= now - 1
    <2>1. q.t \in now - 1 .. now /\ q.date \in q.t .. now  BY <1>1, <1>4 DEF RecentCall
    <2>2. PICK n, t, d : n = now /\ t = q.t /\ d = q.date  OBVIOUS
    <2>3. n \in Nat /\ t \in n - 1 .. n /\ d \in t .. n  BY <1>5, <2>1, <2>2
    <2>4. d >= n - 1  BY <2>3
    <2> QED BY <2>2, <2>4
  <1>7. l < Day  BY <1>1, <1>4 DEF Sound
  <1>8. listed \in Object /\ o = listed /\ listed # None
    BY <1>1, <1>2, UsesListed, Basics
  <1>9. /\ \A v \in User : user[v].at # "load"
        /\ \A m : Ready(m)
    BY <1>1, <1>2, NobodyLoads, RestFields
  <1>10. /\ KeepFrom(l, q.date) <= KeepFrom(l, now) /\ KeepFrom(l, q.date) <= Key(l, now - 1)
         /\ KeepFrom(l, q.date) < Key(l, now) /\ KeepFrom(l, q.date) \in Oldest(l, Key(l, now))
         /\ KeepFrom(l, q.date) \in Nat /\ KeepFrom(l, now) \in Nat
    <2> HIDE DEF q
    <2> QED BY <1>1, <1>5, <1>6, KeptKeys
  <1>11. Key(l, old) = KeepFrom(l, q.date)  BY DEF KeepFrom
  <1>12. /\ r.at # "load" /\ r.obj \in {None, o} /\ RecentCall(r, now)
         /\ r.at \notin {"store", "bean"} /\ r.op # "clear"
    <2>1. CASE l = Day - 1
      <3>1. r = Rest  BY <2>1
      <3> HIDE DEF r
      <3> QED BY <3>1, RestFields
    <2>2. CASE l # Day - 1
      <3>1. r = [q EXCEPT !.level = l + 1]  BY <2>2
      <3>2. q.op = "update"  BY <1>1, <1>4 DEF Sound
      <3> HIDE DEF q, r
      <3>3. r.at = q.at /\ r.obj = q.obj /\ r.t = q.t /\ r.date = q.date /\ r.op = q.op
        BY <1>4, <3>1 DEF Call
      <3> QED BY <1>1, <1>4, <3>2, <3>3 DEF RecentCall
    <2> QED BY <2>1, <2>2
  <1> HIDE DEF r, c
  <1>13. ASSUME NEW m \in Level
         PROVE  LET k == Key(m, now) IN
                /\ GoodQueue(c[m], m, TRUE, k, beats[m])
                /\ k \in DOMAIN calc[o][m].data => k \in DOMAIN c[m].data
                /\ \A x \in DOMAIN c[m].data : c[m].data[x] = Held(calc[o][m].data, x)
                /\ DOMAIN c[m].data \subseteq Past(m, now)
    <2> DEFINE p == calc[o][m]
               k == Key(m, now)
    <2>1. /\ Tidy(p) /\ Placed(p, m, k) /\ Held(p.data, k) = Held(beats[m], k)
          /\ DOMAIN p.data \subseteq Past(m, now) /\ p \in Queue
      BY <1>2, <1>4, <1>8, <1>9 DEF QueuesGood, GoodQueue, KeysPast, Calculator
    <2>2. CASE m # l
      <3>1. c[m] = p  BY <1>1, <2>2
      <3>2. \A x \in DOMAIN p.data : p.data[x] = Held(p.data, x)  BY DEF Held
      <3> QED BY <2>1, <3>1, <3>2 DEF GoodQueue
    <2>3. CASE m = l
      <3>1. Limit[l] >= 3  BY <1>1, <1>7 DEF LongQueues
      <3>2. c[l] = Touch(p, l, old)  BY <1>1, <2>3
      <3> HIDE DEF p, old, l
      <3>3. /\ Tidy(Touch(p, l, old)) /\ Placed(Touch(p, l, old), l, Key(l, now))
            /\ Held(Touch(p, l, old).data, Key(l, now)) = Held(p.data, Key(l, now))
            /\ Key(l, now) \in DOMAIN p.data => Key(l, now) \in DOMAIN Touch(p, l, old).data
        BY <1>1, <1>10, <1>11, <2>1, <2>3, <3>1, TouchGood
      <3>4. /\ \A x \in DOMAIN Touch(p, l, old).data : Touch(p, l, old).data[x] = Held(p.data, x)
            /\ DOMAIN Touch(p, l, old).data \subseteq DOMAIN p.data \cup {Key(l, old)}
        BY <1>1, <2>1, <2>3, TouchFacts
      <3>5. Key(l, old) \in Past(l, now)
        <4>1. old <= now
          <5>1. \A s \in Nat : q.date - s <= now  BY <1>1, <1>5
          <5>2. Width[l] * Limit[l] \in Nat  BY <1>1, Levels
          <5> QED BY <5>1, <5>2 DEF old, l
        <4>2. old \in 0 .. now  BY <1>1, <1>5, <4>1
        <4> QED BY <1>1, <1>5, <4>2, PastFacts
      <3> QED BY <2>1, <2>3, <3>2, <3>3, <3>4, <3>5 DEF GoodQueue, p
    <2> QED BY <2>2, <2>3
  <1>14. Follows(o, c, beats')
    <2> SUFFICES ASSUME NEW m \in Level
                 PROVE  LET k == Key(m, now)
                            d == calc[o][m].data IN
                        /\ \A x \in DOMAIN c[m].data : x # k => c[m].data[x] = Held(d, x)
                        /\ k \in DOMAIN d =>
                              /\ k \in DOMAIN c[m].data
                              /\ d[k] = Held(beats[m], k) => c[m].data[k] = Held(beats[m], k)
      BY <1>1 DEF Follows
    <2> QED BY <1>13 DEF Held
  <1>15. HandExact(r, c, beats', now)  BY <1>1 DEF HandExact
  <1>16. /\ OneCalculator' /\ Recent' /\ HandsExact'
         /\ \A m : Ready(m)' = Ready(m)
         /\ user'[u] = r
         /\ \A v \in User \ {u} : /\ Alike(user'[v], user[v]) /\ InHand(user'[v]) = InHand(user[v])
                                  /\ user[v] = Rest => user'[v] = Rest
    <2> HIDE DEF q
    <2> QED BY <1>1, <1>2, <1>8, <1>9, <1>12, <1>14, <1>15, CalculatorSteps DEF Inv, q
  <1>17. calc'[listed] = c  BY <1>1, <1>4, <1>8
  <1>18. QueuesGood'
    <2> SUFFICES ASSUME NEW m \in Level
                 PROVE  GoodQueue(calc'[listed][m], m, Ready(m)', Key(m, now), beats[m])
      BY <1>1 DEF QueuesGood
    <2> QED BY <1>13, <1>17 DEF GoodQueue
  <1>19. /\ \A m \in Level \ {l} : rows'[m] = rows[m]
         /\ DOMAIN rows'[l] = S /\ \A x \in S : rows'[l][x] = rows[l][x]
    <2>1. rows' = [rows EXCEPT ![l] = Only(rows[l], S)]  BY <1>1, <1>4
    <2> HIDE DEF S, q
    <2> QED BY <1>1, <1>4, <2>1 DEF Only
  <1>20. KeysPast'
    <2>1. \A m \in Level : DOMAIN rows'[m] \subseteq DOMAIN rows[m]
      <3> TAKE m \in Level
      <3>1. S \subseteq DOMAIN rows[l]  OBVIOUS
      <3> HIDE DEF S
      <3> QED BY <1>19, <3>1
    <2> QED BY <1>1, <1>2, <1>13, <1>17, <2>1 DEF KeysPast
  <1>21. \A m \in Level : \A x \in DOMAIN rows[m] :
            x >= KeepFrom(m, now) \/ x >= Key(m, now - 1) => x \in DOMAIN rows'[m] /\ rows'[m][x] = rows[m][x]
    <2> TAKE m \in Level
    <2> TAKE x \in DOMAIN rows[m]
    <2> HAVE x >= KeepFrom(m, now) \/ x >= Key(m, now - 1)
    <2>1. CASE m # l  BY <1>19, <2>1
    <2>2. CASE m = l
      <3>1. x \in Nat  BY <1>4, TableOps
      <3>2. Key(l, now - 1) \in Nat  BY <1>1, <1>5, KeyBounds
      <3>3. x >= KeepFrom(l, q.date)  BY <1>10, <2>2, <3>1, <3>2
      <3>4. x \in S  BY <2>2, <3>3
      <3> HIDE DEF S
      <3> QED BY <1>19, <2>2, <3>4
    <2> QED BY <2>1, <2>2
  <1>22. StoresTrue'
    <2> SUFFICES ASSUME NEW v \in User, user'[v].at = "store", user'[v].insert = FALSE
                 PROVE  Key(user'[v].level, user'[v].t) \in DOMAIN rows'[user'[v].level]
      BY DEF StoresTrue
    <2>1. v # u  BY <1>12, <1>16
    <2> DEFINE p == user[v]
    <2>2. Alike(user'[v], p)  BY <1>16, <2>1
    <2>3. p.at = "store" /\ p.insert = FALSE /\ user'[v].level = p.level /\ user'[v].t = p.t
      BY <2>2 DEF Alike
    <2>4. Key(p.level, p.t) \in DOMAIN rows[p.level]  BY <1>2, <2>3 DEF StoresTrue
    <2>5. p \in Call /\ RecentCall(p, now)  BY <1>2 DEF TypeOK, Recent
    <2>6. p.t \in now - 1 .. now /\ p.t \in Nat /\ p.level \in Level
      BY <2>3, <2>5 DEF RecentCall, Call
    <2> HIDE DEF p
    <2>7. Key(p.level, p.t) >= Key(p.level, now - 1)
      <3>1. now - 1 <= p.t  BY <1>5, <2>6
      <3>2. Key(p.level, now - 1) <= Key(p.level, p.t)  BY <1>5, <2>6, <3>1, KeyRises
      <3>3. Key(p.level, now - 1) \in Nat /\ Key(p.level, p.t) \in Nat  BY <1>5, <2>6, KeyBounds
      <3> QED BY <3>2, <3>3
    <2> QED BY <1>21, <2>3, <2>4, <2>6, <2>7
  <1>23. BeansTrue'
    <2> SUFFICES ASSUME NEW m \in Level, c[m].bean.saved = TRUE, c[m].bean.key >= Key(m, now - 1)
                 PROVE  c[m].bean.key \in DOMAIN rows'[m]
      BY <1>1, <1>17 DEF BeansTrue
    <2>1. c[m].bean = calc[o][m].bean
      <3>1. CASE m # l  BY <1>1, <3>1
      <3>2. CASE m = l
        <4>1. calc[o][l] \in Queue  BY <1>1, <1>4 DEF Calculator
        <4> HIDE DEF old, l, o
        <4> QED BY <1>1, <3>2, <4>1, TouchFacts
      <3> QED BY <3>1, <3>2
    <2>2. c[m].bean.key \in DOMAIN rows[m]  BY <1>3, <1>8, <2>1 DEF BeansTrue
    <2> QED BY <1>21, <2>2
  <1>24. Accounted'
    <2>0. beats' = beats /\ now' = now  BY <1>1
    <2> HIDE DEF q, S, old
    <2> SUFFICES ASSUME NEW m \in Level, NEW x \in DOMAIN beats[m], x >= KeepFrom(m, now)
                 PROVE  \/ x \in DOMAIN rows'[m] /\ rows'[m][x] = beats[m][x]
                        \/ \E v \in User : Owes(user'[v], m, x)
      BY <2>0 DEF Accounted, Owes
    <2>1. CASE x \in DOMAIN rows[m] /\ rows[m][x] = beats[m][x]
      BY <1>21, <2>1
    <2>2. CASE \E v \in User : Owes(user[v], m, x)
      <3>1. PICK v \in User : Owes(user[v], m, x)  BY <2>2
      <3>2. v # u  BY <1>1, <3>1 DEF Owes, InHand, q
      <3>3. Owes(user'[v], m, x)  BY <1>16, <3>1, <3>2 DEF Owes, Alike
      <3> QED BY <3>3
    <2> QED BY <1>3, <2>1, <2>2 DEF Accounted
  <1> QED BY <1>16, <1>18, <1>20, <1>22, <1>23, <1>24 DEF AllExact

\* A beat is one more in its bucket of each level.
LEMMA BeatsCounted ==
    ASSUME TypeOK, NEW u \in User, NEW o \in Object, NEW q \in Call, q.op = "update", Use(u, o, q)
    PROVE  /\ beats' \in [Level -> Table]
           /\ \A l \in Level : /\ DOMAIN beats'[l] = DOMAIN beats[l] \cup {Key(l, now)}
                               /\ \A k : Held(beats'[l], k) =
                                    IF k = Key(l, now) THEN Inc(Held(beats[l], k), q.status)
                                    ELSE Held(beats[l], k)
  <1> DEFINE s == q.status
  <1>0. now \in Nat /\ beats \in [Level -> Table]  BY DEF TypeOK
  <1>2. s \in Status  BY DEF Call, Status
  <1>3. \A l \in Level : beats'[l] = With(beats[l], Key(l, now), Inc(Held(beats[l], Key(l, now)), s))
    BY DEF Use, Inc, Held, Flat
  <1>4. beats' = [l \in Level |-> beats'[l]]  BY DEF Use
  <1>5. \A l \in Level : /\ Key(l, now) \in Nat
                         /\ Inc(Held(beats[l], Key(l, now)), s) \in Counts
                         /\ beats[l] \in Table
    BY <1>0, <1>2, TableOps, IncFacts, KeyBounds
  <1>6. beats' \in [Level -> Table]
    <2>1. \A l \in Level : beats'[l] \in Table  BY <1>3, <1>5, TableOps
    <2> QED BY <1>4, <2>1
  <1>7. ASSUME NEW l \in Level
        PROVE  /\ DOMAIN beats'[l] = DOMAIN beats[l] \cup {Key(l, now)}
               /\ \A k : Held(beats'[l], k) =
                    IF k = Key(l, now) THEN Inc(Held(beats[l], k), s)
                    ELSE Held(beats[l], k)
    <2>1. PICK f, g, key, d : /\ f = beats[l] /\ g = beats'[l] /\ key = Key(l, now)
                              /\ d = Inc(Held(beats[l], Key(l, now)), s)
      OBVIOUS
    <2>2. g = With(f, key, d)  BY <1>3, <2>1
    <2>3. /\ DOMAIN g = DOMAIN f \cup {key}
          /\ \A x : Held(g, x) = IF x = key THEN d ELSE Held(f, x)
      <3>1. /\ DOMAIN g = DOMAIN f \cup {key}
            /\ \A x \in DOMAIN f \cup {key} : g[x] = IF x = key THEN d ELSE f[x]
        BY <2>2 DEF With
      <3> QED BY <3>1 DEF Held
    <2> HIDE DEF s
    <2> QED BY <2>1, <2>3
  <1> QED BY <1>6, <1>7

\* The call r has just counted a beat, and no call loads.
JustCounted(r, o) ==
    /\ r.at = "bean" /\ r.obj = o /\ r.t = now /\ r.level = Day
    /\ \A l \in Level : r.frozen[l] = None
    /\ \A v \in User : user[v].at # "load"

\* The calculator o becomes c: the current buckets are there, and count what
\* is counted.
Replaces(o, c) ==
    \A l \in Level :
       LET k == Key(l, now)
           p == calc[o][l] IN
       /\ Tidy(c[l]) /\ c[l].bean = p.bean
       /\ k \in DOMAIN c[l].data /\ DOMAIN c[l].data \subseteq DOMAIN p.data \cup {k}
       /\ \A x \in DOMAIN c[l].data : x # k => c[l].data[x] = Held(p.data, x)
       /\ Held(p.data, k) = Held(beats[l], k) => c[l].data[k] = Held(beats'[l], k)
       /\ Placed(p, l, k) => Placed(c[l], l, k)
       /\ DOMAIN beats[l] \subseteq DOMAIN beats'[l]
       /\ DOMAIN beats'[l] \subseteq DOMAIN beats[l] \cup {k}
       /\ \A x : x # k => Held(beats'[l], x) = Held(beats[l], x)

\* The listed calculator o becomes c, which has the current bucket of every
\* level: r is over, or has a beat in hand.
LEMMA UsedExact ==
    ASSUME Inv, AllExact, NoneClears, NEW u \in User, NEW o \in Object, listed = o,
           NEW c \in Calculator, NEW r, UNCHANGED <<now, listed, rows>>,
           calc' = [calc EXCEPT ![o] = c],
           user' = [Keeping(o, c, NoKeys) EXCEPT ![u] = r],
           user[u].at \notin {"load", "bean", "store"},
           (r = Rest /\ beats' = beats) \/ JustCounted(r, o),
           Replaces(o, c)
    PROVE  AllExact'
  <1> USE DEF Replaces
  <1>1. /\ OneCalculator /\ Recent /\ KeysPast /\ QueuesGood /\ HandsExact /\ StoresTrue
        /\ Accounted /\ BeansTrue /\ TypeOK /\ CallsSound
    BY DEF AllExact, Inv
  <1>2. now \in Nat /\ now >= 1 /\ calc \in [Object -> Calculator] /\ o # None
        /\ beats \in [Level -> Table]
    BY <1>1, TimeFacts, Basics DEF TypeOK
  <1>3. Follows(o, c, beats')
    <2> SUFFICES ASSUME NEW l \in Level
                 PROVE  LET k == Key(l, now)
                            d == calc[o][l].data IN
                        /\ \A x \in Nat : x # k => Held(beats'[l], x) = Held(beats[l], x)
                        /\ \A x \in DOMAIN c[l].data : x # k => c[l].data[x] = Held(d, x)
                        /\ k \in DOMAIN d =>
                              /\ k \in DOMAIN c[l].data
                              /\ d[k] = Held(beats[l], k) => c[l].data[k] = Held(beats'[l], k)
      BY DEF Follows
    <2>1. Key(l, now) \in DOMAIN calc[o][l].data =>
             Held(calc[o][l].data, Key(l, now)) = calc[o][l].data[Key(l, now)]
      BY DEF Held
    <2> QED BY <2>1
  <1>4. ASSUME NEW l \in Level, Ready(l)
        PROVE  /\ Placed(c[l], l, Key(l, now))
               /\ c[l].data[Key(l, now)] = Held(beats'[l], Key(l, now))
    BY <1>1, <1>2, <1>4 DEF QueuesGood, GoodQueue
  <1>5. /\ r.at \in {"none", "bean"} /\ r.obj \in {None, o} /\ RecentCall(r, now)
        /\ \A v \in User : user[v].at = "load" => r = Rest
        /\ HandExact(r, c, beats', now)
        /\ r.obj # o => InHand(r) = {}
    <2>1. CASE r = Rest  BY <2>1, RestFields
    <2>2. CASE JustCounted(r, o)
      <3> USE <2>2 DEF JustCounted
      <3>1. RecentCall(r, now)
        <4>1. now \in now - 1 .. now /\ ~(Day < Day)  BY <1>2, Levels
        <4> QED BY <2>2, <4>1 DEF RecentCall
      <3>2. \A l \in Level : Ready(l)  BY <2>2 DEF Ready
      <3>3. \A l \in Level : c[l].data[Key(l, r.t)] = Held(beats'[l], Key(l, r.t))
        BY <1>4, <2>2, <3>2
      <3>4. HandExact(r, c, beats', now)
        <4>1. \A l \in InHand(r) : l \in Level  BY DEF InHand
        <4> QED BY <2>2, <3>3, <4>1 DEF HandExact
      <3> QED BY <2>2, <3>1, <3>4
    <2> QED BY <2>1, <2>2
  <1>6. /\ OneCalculator' /\ Recent' /\ HandsExact'
        /\ \A l : Ready(l)' = Ready(l)
        /\ user'[u] = r
        /\ \A v \in User \ {u} : /\ Alike(user'[v], user[v]) /\ InHand(user'[v]) = InHand(user[v])
                                 /\ user[v] = Rest => user'[v] = Rest
    BY <1>1, <1>3, <1>5, CalculatorSteps
  <1>7. calc'[listed] = c  BY <1>2
  <1>8. QueuesGood'
    <2> SUFFICES ASSUME NEW l \in Level
                 PROVE  GoodQueue(calc'[listed][l], l, Ready(l)', Key(l, now), beats'[l])
      BY DEF QueuesGood
    <2>1. CASE Ready(l)
      <3>1. Held(c[l].data, Key(l, now)) = c[l].data[Key(l, now)]  BY DEF Held
      <3> QED BY <1>4, <1>7, <2>1, <3>1 DEF GoodQueue
    <2>2. CASE ~Ready(l)
      <3>1. ~Ready(l)'  BY <1>6, <2>2
      <3> QED BY <1>7, <3>1 DEF GoodQueue
    <2> QED BY <2>1, <2>2
  <1>9. KeysPast'
    <2>1. \A l \in Level : Key(l, now) \in Past(l, now)
      <3> TAKE l \in Level
      <3>1. now \in 0 .. now  BY <1>2
      <3> QED BY <1>2, <3>1, PastFacts
    <2> QED BY <1>1, <1>2, <1>7, <2>1 DEF KeysPast
  <1>10. StoresTrue'
    <2> SUFFICES ASSUME NEW v \in User, user'[v].at = "store", user'[v].insert = FALSE
                 PROVE  Key(user'[v].level, user'[v].t) \in DOMAIN rows[user'[v].level]
      BY DEF StoresTrue
    <2>1. v # u  BY <1>5, <1>6
    <2>2. Alike(user'[v], user[v])  BY <1>6, <2>1
    <2> QED BY <1>1, <2>2 DEF StoresTrue, Alike
  <1>11. BeansTrue'
    <2> SUFFICES ASSUME NEW l \in Level, c[l].bean.saved = TRUE, c[l].bean.key >= Key(l, now - 1)
                 PROVE  c[l].bean.key \in DOMAIN rows[l]
      BY <1>7 DEF BeansTrue
    <2>1. c[l].bean = calc[o][l].bean  OBVIOUS
    <2> QED BY <1>1, <1>2, <2>1 DEF BeansTrue
  <1>12. Accounted'
    <2> SUFFICES ASSUME NEW l \in Level, NEW x \in DOMAIN beats'[l], x >= KeepFrom(l, now)
                 PROVE  \/ x \in DOMAIN rows[l] /\ rows[l][x] = beats'[l][x]
                        \/ \E v \in User : /\ Key(l, user'[v].t) = x
                                           /\ \/ l \in InHand(user'[v])
                                              \/ /\ user'[v].at = "store" /\ user'[v].level = l
                                                 /\ user'[v].write = Held(beats'[l], x)
      BY DEF Accounted, Owes
    <2>1. CASE x = Key(l, now) /\ r # Rest
      <3>1. Key(l, r.t) = x /\ l \in InHand(r)  BY <2>1, Levels DEF InHand, JustCounted
      <3> QED BY <1>6, <3>1
    <2>2. CASE x # Key(l, now) \/ r = Rest
      <3>1. x \in DOMAIN beats[l] /\ Held(beats'[l], x) = Held(beats[l], x)
        <4>1. CASE x # Key(l, now)  BY <4>1
        <4>2. CASE r = Rest
          <5>1. Rest.at # "bean"  BY RestFields
          <5>2. beats' = beats  BY <4>2, <5>1 DEF JustCounted
          <5> QED BY <5>2
        <4> QED BY <2>2, <4>1, <4>2
      <3>2. beats'[l][x] = beats[l][x]  BY <3>1 DEF Held
      <3>3. CASE x \in DOMAIN rows[l] /\ rows[l][x] = beats[l][x]  BY <3>2, <3>3
      <3>4. CASE \E v \in User : Owes(user[v], l, x)
        <4>1. PICK v \in User : Owes(user[v], l, x)  BY <3>4
        <4>2. v # u  BY <4>1 DEF Owes, InHand
        <4>3. Alike(user'[v], user[v]) /\ InHand(user'[v]) = InHand(user[v])  BY <1>6, <4>2
        <4> QED BY <3>1, <4>1, <4>3 DEF Owes, Alike
      <3> QED BY <1>1, <3>1, <3>3, <3>4 DEF Accounted
    <2> QED BY <2>1, <2>2
  <1> QED BY <1>6, <1>8, <1>9, <1>10, <1>11, <1>12 DEF AllExact

\* What is said of the keys of a queue does not depend on its counts.
LEMMA SameKeys ==
    ASSUME NEW q, NEW r, NEW l, NEW k, r.keys = q.keys, DOMAIN r.data = DOMAIN q.data
    PROVE  (Tidy(q) => Tidy(r)) /\ (Placed(q, l, k) => Placed(r, l, k))
  <1>1. Tidy(q) => Tidy(r)  BY DEF Tidy
  <1>2. Placed(q, l, k) => Placed(r, l, k)  BY DEF Placed
  <1> QED BY <1>1, <1>2

\* A call that finds a calculator: it reads, or counts in memory and for the
\* tables.
LEMMA UseExact ==
    ASSUME Inv, AllExact, NoneClears, ~hurt', NEW u \in User, NEW o \in Object, listed = o,
           NEW q \in Call, q.op \in {"read", "update"}, q.frozen = NotFrozen,
           user[u].at \notin {"load", "bean", "store"},
           UNCHANGED <<now, listed, rows>>, Use(u, o, q)
    PROVE  AllExact'
  <1>1. /\ TypeOK /\ CallsSound /\ OneCalculator /\ QueuesGood
        /\ calc[o] \in Calculator /\ now \in Nat /\ beats \in [Level -> Table] /\ o # None
        /\ \A l \in Level : calc[o][l] \in Queue
    BY Basics DEF AllExact, Inv, TypeOK, Calculator
  <1>2. \A l \in Level : Tidy(calc[o][l])  BY <1>1 DEF QueuesGood, GoodQueue
  <1>3. ASSUME NEW l \in Level
        PROVE  LET p == calc[o][l]
                   d == Touch(p, l, now)
                   k == Key(l, now) IN
               /\ Tidy(d) /\ k \in DOMAIN d.data /\ d.bean = p.bean
               /\ DOMAIN d.data \subseteq DOMAIN p.data \cup {k}
               /\ \A x \in DOMAIN d.data : d.data[x] = Held(p.data, x)
               /\ Placed(p, l, k) => Placed(d, l, k)
    BY <1>1, <1>2, TouchTidy, TouchFacts
  <1>4. CASE q.op = "read"
    <2> DEFINE c == Touched(calc[o], now)
    <2>1. /\ calc' = [calc EXCEPT ![o] = c]
          /\ user' = [Keeping(o, c, NoKeys) EXCEPT ![u] = Rest]
          /\ beats' = beats
      BY <1>4 DEF Use
    <2>2. c \in Calculator /\ \A l \in Level : c[l] = Touch(calc[o][l], l, now)
      BY <1>1, TouchedFacts
    <2> HIDE DEF c
    <2>3. ASSUME NEW l \in Level
          PROVE  LET k == Key(l, now)
                     p == calc[o][l] IN
                 /\ Tidy(c[l]) /\ c[l].bean = p.bean
                 /\ k \in DOMAIN c[l].data /\ DOMAIN c[l].data \subseteq DOMAIN p.data \cup {k}
                 /\ \A x \in DOMAIN c[l].data : x # k => c[l].data[x] = Held(p.data, x)
                 /\ Held(p.data, k) = Held(beats[l], k) => c[l].data[k] = Held(beats'[l], k)
                 /\ Placed(p, l, k) => Placed(c[l], l, k)
                 /\ DOMAIN beats[l] \subseteq DOMAIN beats'[l]
                 /\ DOMAIN beats'[l] \subseteq DOMAIN beats[l] \cup {k}
                 /\ \A x : x # k => Held(beats'[l], x) = Held(beats[l], x)
      BY <1>3, <2>1, <2>2
    <2>4. Replaces(o, c)  BY <2>3 DEF Replaces
    <2> QED BY <2>1, <2>2, <2>4, UsedExact
  <1>5. CASE q.op = "update"
    <2> DEFINE s == q.status
               c == Counted(calc[o], s, now)
               b == [q EXCEPT !.at = "bean", !.obj = o, !.t = now, !.level = Day]
               r == IF Broken(calc[o], now) # {} THEN Rest ELSE b
    <2>1. /\ calc' = [calc EXCEPT ![o] = c]
          /\ user' = [Keeping(o, c, NoKeys) EXCEPT ![u] = r]
          /\ hurt' = (hurt \/ Loading(o) \/ Broken(calc[o], now) # {})
      BY <1>5 DEF Use
    <2>2. s \in Status  BY DEF Call, Status
    <2>3. Broken(calc[o], now) = {} /\ r = b /\ ~Loading(o)  BY <2>1
    <2>4. c \in Calculator /\ \A l \in Level : c[l] = CountedOne(calc[o][l], l, s, now)
      <3> HIDE DEF s, b, r
      <3>1. /\ Counted(calc[o], s, now) \in Calculator
            /\ \A l \in Level : Counted(calc[o], s, now)[l] = CountedOne(calc[o][l], l, s, now)
        <4>1. PICK f : f = calc[o]  OBVIOUS
        <4>2. f \in Calculator /\ Broken(f, now) = {}  BY <1>1, <2>3, <4>1
        <4>3. /\ Counted(f, s, now) \in Calculator
              /\ \A l \in Level : Counted(f, s, now)[l] = CountedOne(f[l], l, s, now)
          BY <1>1, <2>2, <4>2, CountedFacts
        <4> QED BY <4>1, <4>3
      <3> QED BY <3>1
    <2>5. /\ b.at = "bean" /\ b.obj = o /\ b.t = now /\ b.level = Day
          /\ \A l \in Level : b.frozen[l] = None
      BY DEF Call, NotFrozen
    <2>6. \A v \in User : user[v].at # "load"
      <3>1. ASSUME NEW v \in User, user[v].at = "load" PROVE FALSE
        <4>1. user[v].obj = o  BY <1>1, <3>1, UsesListed
        <4> QED BY <2>3, <3>1, <4>1 DEF Loading
      <3> QED BY <3>1
    <2>7. \A l \in Level : /\ DOMAIN beats'[l] = DOMAIN beats[l] \cup {Key(l, now)}
                           /\ \A x : Held(beats'[l], x) =
                                IF x = Key(l, now) THEN Inc(Held(beats[l], x), s)
                                ELSE Held(beats[l], x)
      BY <1>1, <1>5, BeatsCounted
    <2>8. ASSUME NEW l \in Level
          PROVE  LET k == Key(l, now)
                     p == calc[o][l]
                     d == Touch(p, l, now) IN
                 /\ c[l].bean = p.bean /\ c[l].keys = d.keys /\ DOMAIN c[l].data = DOMAIN d.data
                 /\ \A x \in DOMAIN c[l].data :
                       c[l].data[x] = IF x = k THEN Inc(Held(p.data, x), s) ELSE Held(p.data, x)
      BY <1>1, <1>3, <2>2, <2>4, CountedOneFacts
    <2> HIDE DEF c, s, b, r
    <2>9. ASSUME NEW l \in Level
          PROVE  LET k == Key(l, now)
                     p == calc[o][l] IN
                 /\ Tidy(c[l]) /\ c[l].bean = p.bean
                 /\ k \in DOMAIN c[l].data /\ DOMAIN c[l].data \subseteq DOMAIN p.data \cup {k}
                 /\ \A x \in DOMAIN c[l].data : x # k => c[l].data[x] = Held(p.data, x)
                 /\ Held(p.data, k) = Held(beats[l], k) => c[l].data[k] = Held(beats'[l], k)
                 /\ Placed(p, l, k) => Placed(c[l], l, k)
                 /\ DOMAIN beats[l] \subseteq DOMAIN beats'[l]
                 /\ DOMAIN beats'[l] \subseteq DOMAIN beats[l] \cup {k}
                 /\ \A x : x # k => Held(beats'[l], x) = Held(beats[l], x)
      <3> DEFINE p == calc[o][l]
                 d == Touch(p, l, now)
                 k == Key(l, now)
      <3>1. Tidy(c[l]) /\ (Placed(p, l, k) => Placed(c[l], l, k))
        <4>1. Tidy(d) /\ (Placed(p, l, k) => Placed(d, l, k))  BY <1>3
        <4>2. c[l].keys = d.keys /\ DOMAIN c[l].data = DOMAIN d.data  BY <2>8
        <4> HIDE DEF p, d, k
        <4> QED BY <4>1, <4>2, SameKeys
      <3>2. k \in DOMAIN c[l].data /\ DOMAIN c[l].data \subseteq DOMAIN p.data \cup {k}
        BY <1>3, <2>8
      <3>3. c[l].data[k] = Inc(Held(p.data, k), s) /\ Held(beats'[l], k) = Inc(Held(beats[l], k), s)
        BY <2>7, <2>8, <3>2
      <3>4. \A x \in DOMAIN c[l].data : x # k => c[l].data[x] = Held(p.data, x)
        BY <2>8
      <3> HIDE DEF p, d, k
      <3> QED BY <2>7, <2>8, <3>1, <3>2, <3>3, <3>4 DEF p, k
    <2>10. user' = [Keeping(o, c, NoKeys) EXCEPT ![u] = b]  BY <2>1, <2>3
    <2>11. JustCounted(b, o)  BY <2>5, <2>6 DEF JustCounted
    <2>12. c \in Calculator  BY <2>4
    <2>13. calc' = [calc EXCEPT ![o] = c]  BY <2>1
    <2>14. Replaces(o, c)  BY <2>9 DEF Replaces
    <2> QED BY <2>10, <2>11, <2>12, <2>13, <2>14, UsedExact
  <1> QED BY <1>4, <1>5

\* A call whose calculator is loaded finds it in the list.
LEMMA AfterInitExact == ASSUME Inv, MoreInv, ExactInv, NEW u \in User, AfterInit(u) PROVE ExactInv'
  <1>1. /\ user[u].at = "loaded"
        /\ IF listed = None THEN hurt' = hurt ELSE Use(u, listed, user[u])
        /\ UNCHANGED <<now, rows, listed, mixed>>
    BY DEF AfterInit
  <1>2. hurt => hurt'
    <2>1. CASE listed = None  BY <1>1, <2>1
    <2>2. CASE listed # None  BY <1>1, <2>2 DEF Use
    <2> QED BY <2>1, <2>2
  <1> SUFFICES ASSUME ~hurt', ~mixed PROVE AllExact'  BY <1>1 DEF ExactInv
  <1>3. AllExact /\ OneCalculator /\ ClearAlone
    BY <1>2 DEF ExactInv, AllExact, MoreInv, AllUnder
  <1>4. listed \in Object /\ listed # None  BY <1>1, <1>3, UsesListed, Basics
  <1>5. user[u] \in Call /\ Sound(user[u], calc, now)  BY DEF Inv, TypeOK, CallsSound
  <1>6. user[u].frozen = NotFrozen /\ user[u].op \in {"read", "update"}
    BY <1>1, <1>5 DEF Sound
  <1>7. NoneClears  BY <1>1, <1>3, NoClear DEF NoneClears
  <1>8. Use(u, listed, user[u])  BY <1>1, <1>4
  <1> QED BY <1>1, <1>3, <1>4, <1>5, <1>6, <1>7, <1>8, UseExact

\* A call begins: it uses what is listed, or is the first to ask.
LEMMA BeginExact == ASSUME Inv, MoreInv, ExactInv, NEW u \in User, Begin(u) PROVE ExactInv'
  <1>1. PICK op \in {"update", "read"}, s \in Statuses :
           /\ user[u] = Rest
           /\ LET q == [Rest EXCEPT !.op = op, !.t = now,
                                    !.status = IF op = "read" THEN @ ELSE s] IN
              IF listed # None THEN Use(u, listed, q) /\ UNCHANGED listed
              ELSE \E o \in Unused :
                     /\ listed' = o
                     /\ calc' = [calc EXCEPT ![o] =
                           [Empty EXCEPT ![1] = Touch(@, 1, now - Width[1] * Limit[1])]]
                     /\ user' = [user EXCEPT ![u] = [q EXCEPT !.at = "load", !.obj = o]]
                     /\ UNCHANGED <<beats, hurt>>
           /\ mixed' = (mixed \/ \E v \in User : user[v].op = "clear")
           /\ UNCHANGED <<now, rows>>
    BY DEF Begin
  <1> DEFINE q == [Rest EXCEPT !.op = op, !.t = now, !.status = IF op = "read" THEN @ ELSE s]
  <1>2. hurt => hurt'
    <2>1. CASE listed = None  BY <1>1, <2>1
    <2>2. CASE listed # None
      <3>1. Use(u, listed, q)  BY <1>1, <2>2
      <3> HIDE DEF q
      <3> QED BY <3>1 DEF Use
    <2> QED BY <2>1, <2>2
  <1> SUFFICES ASSUME ~hurt', ~mixed' PROVE AllExact'  BY DEF ExactInv
  <1>3. ~mixed /\ NoneClears  BY <1>1 DEF NoneClears
  <1>4. AllExact  BY <1>2, <1>3 DEF ExactInv
  <1>5. TypeOK /\ CallsSound  BY DEF Inv
  <1>6. now \in Nat /\ Start <= now /\ Start \in Nat  BY <1>5, TimeFacts
  <1>7. /\ q \in Call /\ q.op = op /\ q.frozen = NotFrozen /\ q.at = "none" /\ q.t = now
        /\ q.level = 1
    BY <1>6, RestSound, Basics DEF Call, Rest
  <1>8. CASE listed # None
    <2>1. Use(u, listed, q) /\ listed' = listed  BY <1>1, <1>8
    <2>2. listed \in Object  BY <1>5, <1>8 DEF TypeOK
    <2>3. q.op \in {"read", "update"} /\ user[u].at \notin {"load", "bean", "store"}
      BY <1>1, <1>7, RestFields
    <2> HIDE DEF q
    <2> QED BY <1>1, <1>3, <1>4, <1>7, <2>1, <2>2, <2>3, UseExact
  <1>9. CASE listed = None
    <2> DEFINE old == now - Width[1] * Limit[1]
               d == Touch(EmptyQueue, 1, old)
               c == [Empty EXCEPT ![1] = d]
    <2>1. PICK o \in Unused :
             /\ listed' = o
             /\ calc' = [calc EXCEPT ![o] = c]
             /\ user' = [user EXCEPT ![u] = [q EXCEPT !.at = "load", !.obj = o]]
             /\ beats' = beats
      <3>1. Empty[1] = EmptyQueue  BY Levels, EmptyIsCalculator
      <3> HIDE DEF q
      <3> QED BY <1>1, <1>9, <3>1 DEF q
    <2> DEFINE r == [q EXCEPT !.at = "load", !.obj = o]
    <2>2. o \in Object /\ calc \in [Object -> Calculator] /\ user \in [User -> Call]
      BY <1>5 DEF Unused, TypeOK
    <2>3. r.at = "load" /\ r.obj = o /\ r.t = now /\ r.level = 1 /\ r.op = op
      BY <1>7 DEF Call
    <2>4. \A v \in User : user[v] = Rest
      <3> TAKE v \in User
      <3>1. user[v].at \in {"none", "clear"}
        BY <1>4, <1>9, UsesListed, Basics DEF AllExact
      <3>2. Sound(user[v], calc, now) /\ user[v].op # "clear"  BY <1>3, <1>5 DEF CallsSound, NoneClears
      <3> QED BY <3>1, <3>2 DEF Sound
    <2>5. old \in Nat /\ 1 \in Level /\ old \in 0 .. now  BY <1>6, Levels
    <2>6. EmptyQueue \in Queue /\ Tidy(EmptyQueue) /\ EmptyQueue.bean.saved = FALSE
          /\ DOMAIN EmptyQueue.data = {}
      <3>1. EmptyQueue \in Queue  BY <2>5, EmptyIsCalculator DEF Calculator
      <3>2. DOMAIN EmptyQueue.keys = {} /\ DOMAIN EmptyQueue.data = {}
        BY DEF EmptyQueue, Nowhere
      <3> QED BY <3>1, <3>2 DEF Tidy, EmptyQueue, NoBean
    <2>7. Tidy(d) /\ d.bean = EmptyQueue.bean /\ DOMAIN d.data \subseteq {Key(1, old)}
      BY <2>5, <2>6, TouchTidy, TouchFacts
    <2>8. \A l \in Level : c[l] = IF l = 1 THEN d ELSE EmptyQueue
      BY <2>5, EmptyIsCalculator DEF Calculator
    <2>9. Key(1, old) \in Past(1, now)  BY <1>6, <2>5, PastFacts
    <2> HIDE DEF d, c, old, r, q
    <2>10. /\ calc'[o] = c /\ listed' = o /\ user'[u] = r
           /\ \A v \in User \ {u} : user'[v] = Rest
           /\ beats' = beats /\ now' = now /\ rows' = rows
      BY <1>1, <2>1, <2>2, <2>4 DEF r
    <2>11. \A l \in Level : /\ Tidy(c[l]) /\ c[l].bean.saved = FALSE
                            /\ DOMAIN c[l].data \subseteq Past(l, now)
      BY <2>6, <2>7, <2>8, <2>9
    <2>12. InHand(r) = {} /\ RecentCall(r, now)
      <3>1. InHand(r) = {}  BY <2>3 DEF InHand
      <3>2. now \in now - 1 .. now  BY <1>6
      <3> QED BY <2>3, <3>1, <3>2 DEF RecentCall
    <2>13. OneCalculator'  BY <2>3, <2>10, RestFields DEF OneCalculator
    <2>14. Recent'  BY <2>10, <2>12, RestFields DEF Recent
    <2>15. KeysPast'
      <3>1. KeysPast  BY <1>4 DEF AllExact
      <3> QED BY <2>10, <2>11, <3>1 DEF KeysPast
    <2>16. QueuesGood'
      <3>1. \A l \in Level : ~Ready(l)'
        <4>1. \A l \in Level : ~(l < 1)  BY Levels
        <4> QED BY <2>3, <2>10, <4>1 DEF Ready
      <3> QED BY <2>10, <2>11, <3>1 DEF QueuesGood, GoodQueue
    <2>17. HandsExact'
      <3>1. \A v \in User : InHand(user'[v]) = {}  BY <2>10, <2>12, RestFields
      <3> QED BY <3>1 DEF HandsExact, HandExact
    <2>18. StoresTrue'  BY <2>3, <2>10, RestFields DEF StoresTrue
    <2>19. Accounted'
      <3>1. Accounted  BY <1>3, <1>4 DEF AllExact
      <3>2. \A v \in User : user[v].at \notin {"bean", "store"}  BY <2>4, RestFields
      <3> QED BY <2>10, <3>1, <3>2, NothingOwed DEF Accounted
    <2>20. BeansTrue'  BY <2>10, <2>11 DEF BeansTrue
    <2> QED BY <2>13, <2>14, <2>15, <2>16, <2>17, <2>18, <2>19, <2>20 DEF AllExact
  <1> QED BY <1>8, <1>9

\* The rows up to n are pushed, and k is the last of all: if it is there, it is
\* at the end.
LastIn(r, l, t, k, n) ==
    /\ Tidy(r)
    /\ \A i \in DOMAIN r.keys : r.keys[i] = k => i = Len(r.keys)
    /\ k \in Found(l, t) /\ k <= n => k \in DOMAIN r.data

\* Row after row.
LEMMA LoadedTidyTo ==
    ASSUME NEW q \in Queue, NEW l \in Level, NEW t, KeepFrom(l, t) \in Nat,
           now \in Nat, rows[l] \in Table, Tidy(q), DOMAIN q.data = {KeepFrom(l, t)},
           NEW k \in Nat, KeepFrom(l, t) < k, \A x \in Found(l, t) : x <= k,
           NEW g, Trace(g, q, l, t, now), NEW n \in 0 .. now
    PROVE  LastIn(g[n], l, t, k, n)
  <1> DEFINE S == {x \in 0 .. now : ~LastIn(g[x], l, t, k, x)}
  <1>0. /\ Found(l, t) \subseteq Nat /\ \A x \in Found(l, t) : x # KeepFrom(l, t)
        /\ \A x \in Found(l, t) : rows[l][x] \in Counts
    <2>1. DOMAIN rows[l] \subseteq Nat /\ rows[l] \in [DOMAIN rows[l] -> Counts]
      BY TableByValue
    <2> QED BY <2>1 DEF Found
  <1>1. SUFFICES ASSUME n \in S PROVE FALSE  OBVIOUS
  <1>2. PICK m \in S : \A x \in S : m <= x
    <2>1. S \in SUBSET Nat /\ S # {}  BY <1>1
    <2> HIDE DEF S
    <2> QED BY <2>1, LeastNat
  <1>3. m \in 0 .. now /\ ~LastIn(g[m], l, t, k, m)  BY <1>2
  <1>4. ASSUME NEW x \in 0 .. now, x < k PROVE k \notin DOMAIN g[x].data
    <2>1. HoldsRows(g[x], q, l, t, x)  BY LoadedFacts
    <2>2. ~(k <= x)  BY <1>4
    <2> QED BY <2>1, <2>2 DEF HoldsRows
  <1>5. CASE m = 0
    <2>1. g[0] = q  BY DEF Trace
    <2>2. \A i \in DOMAIN q.keys : q.keys[i] # k  BY DEF Tidy
    <2>3. ~(k <= 0)  OBVIOUS
    <2> QED BY <1>3, <1>5, <2>1, <2>2, <2>3 DEF LastIn
  <1>6. CASE m # 0
    <2>1. m \in Nat /\ m - 1 \in 0 .. now /\ m \in 1 .. now /\ m - 1 \notin S
      BY <1>2, <1>6
    <2>2. LastIn(g[m - 1], l, t, k, m - 1) /\ HoldsRows(g[m - 1], q, l, t, m - 1)
          /\ HoldsRows(g[m], q, l, t, m)
      BY <1>3, <2>1, LoadedFacts
    <2>3. g[m] = Row(l, t, m, g[m - 1])  BY <2>1 DEF Trace
    <2>4. CASE m \notin Found(l, t)
      <3>1. g[m] = g[m - 1]  BY <2>3, <2>4 DEF Row
      <3>2. k \in Found(l, t) /\ k <= m => k <= m - 1  BY <2>1, <2>4
      <3> QED BY <1>3, <2>2, <3>1, <3>2 DEF LastIn
    <2>5. CASE m \in Found(l, t)
      <3> DEFINE p == g[m - 1]
                 r == g[m]
                 v == rows[l][m]
                 limit == Limit[l]
      <3>1. r = Push(p, limit, m, v)  BY <2>3, <2>5 DEF Row, Loaded
      <3>2. p \in Queue /\ r \in Queue /\ limit \in Nat \ {0} /\ v \in Counts /\ Tidy(p)
        BY <1>0, <2>2, <2>5, Levels DEF HoldsRows, LastIn
      <3>3. m \notin DOMAIN p.data
        <4>1. ~(m <= m - 1) /\ m # KeepFrom(l, t)  BY <1>0, <2>1, <2>5
        <4> QED BY <2>2, <4>1 DEF HoldsRows
      <3> HIDE DEF p, r, v, limit
      <3>4. Pushed(r, p, limit, m)  BY <2>1, <3>1, <3>2, PushKeys
      <3>5. /\ Tidy(r) /\ m \in DOMAIN r.data
            /\ r.keys # <<>> /\ r.keys[Len(r.keys)] = m
        BY <2>1, <3>2, <3>3, <3>4, PushedTidy
      <3>6. CASE m = k
        <4>1. Len(r.keys) \in DOMAIN r.keys
          <5>1. r.keys \in Seq(Nat)  BY <3>2 DEF Queue
          <5> QED BY <3>5, <5>1
        <4>2. \A i \in DOMAIN r.keys : r.keys[i] = k => i = Len(r.keys)
          BY <3>5, <3>6, <4>1 DEF Tidy
        <4>3. LastIn(r, l, t, k, m)  BY <3>5, <3>6, <4>2 DEF LastIn
        <4> QED BY <1>3, <4>3 DEF r
      <3>7. CASE m # k
        <4>1. m < k  BY <2>1, <2>5, <3>7
        <4>2. k \notin DOMAIN r.data  BY <1>3, <1>4, <4>1 DEF r
        <4>3. ~(k <= m)  BY <2>1, <4>1
        <4>4. LastIn(r, l, t, k, m)  BY <3>5, <4>2, <4>3 DEF LastIn, Tidy
        <4> QED BY <1>3, <4>4 DEF r
      <3> QED BY <3>6, <3>7
    <2> QED BY <2>4, <2>5
  <1> QED BY <1>5, <1>6

\* The last row that init finds is the last in the queue.
LEMMA LoadedTidy ==
    ASSUME NEW q \in Queue, NEW l \in Level, NEW t, KeepFrom(l, t) \in Nat,
           now \in Nat, rows[l] \in Table, Tidy(q), DOMAIN q.data = {KeepFrom(l, t)},
           NEW k \in Nat, KeepFrom(l, t) < k, k <= now, \A x \in Found(l, t) : x <= k
    PROVE  /\ Tidy(LoadedAll(q, l, t)) /\ Placed(LoadedAll(q, l, t), l, k)
           /\ k \in Found(l, t) => k \in DOMAIN LoadedAll(q, l, t).data
  <1>1. PICK g : Trace(g, q, l, t, now) /\ LoadedAll(q, l, t) = g[now]
    BY LoadedAllTrace
  <1>2. now \in 0 .. now  OBVIOUS
  <1> DEFINE r == g[now]
  <1>3. LastIn(r, l, t, k, now) /\ r \in Queue
    BY <1>1, <1>2, LoadedTidyTo, LoadedFacts DEF HoldsRows
  <1> HIDE DEF r
  <1>4. \A j \in DOMAIN r.keys : ~(Len(r.keys) < j)
    <2>1. r.keys \in Seq(Nat)  BY <1>3 DEF Queue
    <2>2. DOMAIN r.keys = 1 .. Len(r.keys) /\ Len(r.keys) \in Nat  BY <2>1
    <2> QED BY <2>2
  <1>5. Placed(r, l, k)  BY <1>3, <1>4 DEF LastIn, Placed
  <1>6. Tidy(r) /\ (k \in Found(l, t) => k \in DOMAIN r.data)  BY <1>3 DEF LastIn
  <1> QED BY <1>1, <1>5, <1>6 DEF r

\* The level that is loaded: its current bucket holds the beats.
LEMMA LevelLoaded ==
    ASSUME Inv, MoreInv, AllExact, ~mixed, NEW u \in User, user[u].at = "load",
           NEW l \in Level, l = user[u].level, NEW o \in Object, o = user[u].obj,
           DOMAIN calc[o][l].data = {KeepFrom(l, user[u].t)},
           NEW p, p = LoadedAll(calc[o][l], l, user[u].t)
    PROVE  /\ p \in Queue /\ GoodQueue(p, l, TRUE, Key(l, now), beats[l])
           /\ p.bean = calc[o][l].bean /\ DOMAIN p.data \subseteq Past(l, now)
  <1> DEFINE t == user[u].t
             k == Key(l, now)
             q == calc[o][l]
  <1>1. /\ TypeOK /\ OneCalculator /\ Recent /\ KeysPast /\ QueuesGood /\ Accounted
        /\ RowsUnder
    <2>1. ClearAlone /\ RowsUnder  BY DEF MoreInv, AllUnder
    <2>2. NoneClears  BY <2>1, NoClear DEF NoneClears
    <2> QED BY <2>1, <2>2 DEF AllExact, Inv
  <1>2. now \in Nat /\ now >= 1 /\ now - 1 \in Nat /\ Start <= now /\ Start \in Nat
    BY <1>1, TimeFacts
  <1>3. /\ listed = o /\ listed # None
        /\ \A v \in User \ {u} : user[v] = Rest
        /\ t \in Start .. now /\ t >= now - 1 /\ user[u] \in Call
    <2>1. user[u] \in Call /\ Sound(user[u], calc, now)  BY DEF Inv, TypeOK, CallsSound
    <2>2. t \in now - 1 .. now  BY <1>1 DEF Recent, RecentCall
    <2>3. t \in Start .. now  BY <2>1 DEF Sound
    <2>4. \A v \in User \ {u} : user[v] = Rest  BY <1>1 DEF OneCalculator
    <2> HIDE DEF t
    <2>5. t >= now - 1  BY <1>2, <2>2
    <2> QED BY <1>1, <2>1, <2>3, <2>4, <2>5, UsesListed, Basics
  <1>4. /\ q \in Queue /\ rows[l] \in Table /\ beats[l] \in Table
        /\ k \in Nat /\ k <= now
    BY <1>1, <1>2, KeyBounds DEF TypeOK, Calculator
  <1>5. KeepFrom(l, t) \in Nat /\ KeepFrom(l, t) < k
    <2> HIDE DEF t
    <2> QED BY <1>2, <1>3, KeptKeys
  <1>6. KeepFrom(l, now) \in Nat /\ KeepFrom(l, now) < k
    <2>1. now \in Start .. now /\ now >= now - 1  BY <1>2
    <2> QED BY <1>2, <2>1, KeptKeys
  <1>7. DOMAIN rows[l] \subseteq Past(l, now) /\ DOMAIN q.data \subseteq Past(l, now)
    BY <1>1, <1>3 DEF KeysPast
  <1>8. \A x \in Found(l, t) : x <= k  BY <1>2, <1>7, PastFacts DEF Found
  <1>9. Tidy(q)  BY <1>1, <1>3 DEF QueuesGood, GoodQueue
  <1> HIDE DEF t, k, q
  <1>10. DOMAIN q.data = {KeepFrom(l, t)} /\ p = LoadedAll(q, l, t)  BY DEF q, t
  <1>11. HoldsRows(p, q, l, t, now)  BY <1>2, <1>4, <1>5, <1>10, LoadedAllFacts
  <1>12. Tidy(p) /\ Placed(p, l, k) /\ (k \in Found(l, t) => k \in DOMAIN p.data)
    BY <1>2, <1>4, <1>5, <1>8, <1>9, <1>10, LoadedTidy
  <1>13. k \in DOMAIN beats[l] => k \in DOMAIN rows[l] /\ rows[l][k] = beats[l][k]
    <2>1. \A v \in User : user[v].at \notin {"bean", "store"}  BY <1>3, RestFields
    <2>2. k >= KeepFrom(l, now)  BY <1>4, <1>6
    <2> QED BY <1>1, <2>1, <2>2, NothingOwed
  <1>14. k \in DOMAIN rows[l] => k \in DOMAIN beats[l]  BY <1>1 DEF RowsUnder
  <1>15. Held(p.data, k) = Held(beats[l], k)
    <2>1. CASE k \in DOMAIN rows[l]
      <3>1. k \in Found(l, t)  BY <1>4, <1>5, <2>1 DEF Found
      <3>2. k \in DOMAIN p.data /\ p.data[k] = rows[l][k]
        BY <1>4, <1>11, <1>12, <3>1 DEF HoldsRows
      <3> QED BY <1>13, <1>14, <2>1, <3>2 DEF Held
    <2>2. CASE k \notin DOMAIN rows[l]
      <3>1. k \notin Found(l, t) /\ k # KeepFrom(l, t)  BY <1>4, <1>5, <2>2 DEF Found
      <3>2. k \notin DOMAIN p.data  BY <1>10, <1>11, <3>1 DEF HoldsRows
      <3> QED BY <1>13, <2>2, <3>2 DEF Held
    <2> QED BY <2>1, <2>2
  <1>16. DOMAIN p.data \subseteq Past(l, now)
    BY <1>7, <1>11 DEF HoldsRows, Found
  <1> QED BY <1>11, <1>12, <1>15, <1>16 DEF HoldsRows, GoodQueue, k, q

\* A level is loaded by a call that is alone; the next one's oldest bucket is
\* asked for.
LEMMA LoadLevelExact == ASSUME Inv, MoreInv, ExactInv, NEW u \in User, LoadLevel(u) PROVE ExactInv'
  <1>0. TypeOK /\ CallsSound  BY DEF Inv
  <1> DEFINE q == user[u]
             o == q.obj
             l == q.level
             n == l + 1
             p == LoadedAll(calc[o][l], l, q.t)
             c == [calc[o] EXCEPT ![l] = p]
             d == IF l = Day THEN c
                  ELSE [c EXCEPT ![n] = Touch(@, n, q.t - Width[n] * Limit[n])]
             r == IF l = Day THEN [q EXCEPT !.at = "loaded", !.level = 1]
                  ELSE [q EXCEPT !.level = n]
             over == [NoKeys EXCEPT ![l] = Found(l, q.t)]
  <1>1. /\ q.at = "load"
        /\ calc' = [calc EXCEPT ![o] = d]
        /\ user' = [Keeping(o, d, over) EXCEPT ![u] = r]
        /\ hurt' = (hurt \/ DOMAIN calc[o][l].data # {KeepFrom(l, q.t)})
        /\ UNCHANGED <<now, rows, listed, told, events, beats, mixed>>
    BY DEF LoadLevel
  <1> SUFFICES ASSUME ~hurt', ~mixed PROVE AllExact'  BY <1>1 DEF ExactInv
  <1>2. ~hurt /\ DOMAIN calc[o][l].data = {KeepFrom(l, q.t)}  BY <1>1
  <1>3. AllExact /\ ClearAlone  BY <1>2 DEF ExactInv, MoreInv, AllUnder
  <1>4. OneCalculator /\ Recent /\ KeysPast /\ QueuesGood /\ (NoneClears => Accounted /\ BeansTrue)
    BY <1>3 DEF AllExact
  <1>5. NoneClears  BY <1>1, <1>3, NoClear DEF NoneClears
  <1>6. q \in Call /\ Sound(q, calc, now)  BY <1>0 DEF TypeOK, CallsSound
  <1>7. o \in Object /\ q.t \in Start .. now /\ l \in Level  BY <1>1, <1>6 DEF Sound, Call
  <1>8. listed = o /\ listed # None /\ \A v \in User \ {u} : user[v] = Rest
    BY <1>1, <1>4, UsesListed, Basics DEF OneCalculator
  <1>9. now \in Nat /\ Start \in Nat /\ q.t \in Nat /\ Start <= q.t /\ q.t <= now
        /\ calc[o] \in Calculator /\ \A m \in Level : calc[o][m] \in Queue
    BY <1>0, <1>7, TimeFacts DEF TypeOK, Calculator
  <1>10. /\ p \in Queue /\ GoodQueue(p, l, TRUE, Key(l, now), beats[l])
         /\ p.bean = calc[o][l].bean /\ DOMAIN p.data \subseteq Past(l, now)
    <2> HIDE DEF p, l, o
    <2> QED BY <1>1, <1>2, <1>3, <1>7, LevelLoaded DEF p, l, o
  <1>11. /\ r.at \in {"load", "loaded"} /\ r.obj = o /\ r.t = q.t
         /\ r.at = "load" => l # Day /\ r.level = n
         /\ r.at = "loaded" => l = Day
    BY <1>1, <1>6 DEF Call
  <1>12. \A m \in Level : c[m] = IF m = l THEN p ELSE calc[o][m]
    <2> HIDE DEF p, l, o
    <2> QED BY <1>9 DEF Calculator
  <1>13. ASSUME NEW m \in Level
         PROVE  /\ m = l => d[m] = p
                /\ m < l => d[m] = calc[o][m]
                /\ m # l => /\ d[m].bean = calc[o][m].bean
                            /\ DOMAIN d[m].data \subseteq Past(m, now)
                            /\ Tidy(d[m])
    <2>1. m # l => Tidy(calc[o][m]) /\ DOMAIN calc[o][m].data \subseteq Past(m, now)
      BY <1>4, <1>8 DEF QueuesGood, GoodQueue, KeysPast
    <2>2. CASE l = Day
      <3>1. d = c  BY <2>2
      <3> HIDE DEF d, c, p, l, o
      <3>2. c[m] = IF m = l THEN p ELSE calc[o][m]  BY <1>12
      <3>3. m < l => m # l  BY <1>7, Levels
      <3> QED BY <2>1, <3>1, <3>2, <3>3
    <2>3. CASE l # Day
      <3>1. n \in Level /\ l \in Nat /\ m \in Nat /\ n = l + 1  BY <1>7, <2>3, Levels
      <3> DEFINE t == q.t - Width[n] * Limit[n]
      <3>2. t \in Nat /\ t \in 0 .. now
        <4> HIDE DEF n, q
        <4> DEFINE w == Width[n] * Limit[n]
        <4>1. w \in Nat /\ w <= Start  BY <3>1, Levels
        <4> HIDE DEF w
        <4>2. q.t - w \in Nat /\ q.t - w \in 0 .. now  BY <1>9, <4>1
        <4> QED BY <4>2 DEF w
      <3>3. DOMAIN c = Level  BY <1>9 DEF Calculator
      <3>4. d = [c EXCEPT ![n] = Touch(c[n], n, t)]  BY <2>3
      <3> HIDE DEF c, d, t, n, l, o, p
      <3>5. d[m] = IF m = n THEN Touch(c[n], n, t) ELSE c[m]  BY <3>1, <3>3, <3>4
      <3>6. c[n] = calc[o][n]  BY <1>12, <3>1
      <3>7. CASE m = n
        <4>1. Touch(c[n], n, t) = d[m] /\ m # l /\ ~(m < l)  BY <3>1, <3>5, <3>7
        <4>2. calc[o][n] \in Queue /\ Tidy(calc[o][n])
              /\ DOMAIN calc[o][n].data \subseteq Past(n, now)
          BY <1>9, <2>1, <3>1, <3>7, <4>1
        <4>3. Key(n, t) \in Past(n, now)  BY <1>9, <3>1, <3>2, PastFacts
        <4>4. /\ Tidy(Touch(calc[o][n], n, t))
              /\ Touch(calc[o][n], n, t).bean = calc[o][n].bean
              /\ DOMAIN Touch(calc[o][n], n, t).data \subseteq DOMAIN calc[o][n].data \cup {Key(n, t)}
          BY <3>1, <3>2, <4>2, TouchTidy, TouchFacts
        <4> QED BY <3>6, <3>7, <4>1, <4>2, <4>3, <4>4
      <3>8. CASE m # n
        <4>1. d[m] = IF m = l THEN p ELSE calc[o][m]  BY <1>12, <3>5, <3>8
        <4>2. m < l => m # l  BY <1>7, Levels
        <4> QED BY <2>1, <4>1, <4>2
      <3> QED BY <3>7, <3>8
    <2> QED BY <2>2, <2>3
  <1> HIDE DEF d, r, over, o, c, p
  <1>14. /\ calc'[o] = d /\ listed' = o /\ user'[u] = r
         /\ \A v \in User \ {u} : user'[v] = Rest
         /\ beats' = beats /\ now' = now /\ rows' = rows
    <2>1. calc \in [Object -> Calculator]  BY <1>0 DEF TypeOK
    <2>2. Keeping(o, d, over) = [v \in User |-> Keeping(o, d, over)[v]]  BY DEF Keeping
    <2>3. \A v \in User \ {u} : Keeping(o, d, over)[v] = Rest
      <3>1. \A v \in User \ {u} : user[v] = Rest /\ user[v].obj # o  BY <1>8, RestFields
      <3> QED BY <1>0, <1>7, <3>1, KeepingFacts
    <2> QED BY <1>1, <1>7, <1>8, <2>1, <2>2, <2>3
  <1>15. InHand(r) = {} /\ RecentCall(r, now)
    <2>1. InHand(r) = {}  BY <1>11 DEF InHand
    <2>2. q.t \in now - 1 .. now  BY <1>1, <1>4 DEF Recent, RecentCall
    <2> QED BY <1>11, <2>1, <2>2 DEF RecentCall
  <1>16. OneCalculator'  BY <1>11, <1>14, RestFields DEF OneCalculator
  <1>17. Recent'  BY <1>14, <1>15, RestFields DEF Recent
  <1>18. KeysPast'  BY <1>4, <1>10, <1>13, <1>14 DEF KeysPast
  <1>19. QueuesGood'
    <2> SUFFICES ASSUME NEW m \in Level
                 PROVE  GoodQueue(d[m], m, Ready(m)', Key(m, now), beats[m])
      BY <1>14 DEF QueuesGood
    <2>1. m \in Nat /\ l \in Nat /\ Day \in Nat /\ m <= Day  BY <1>7, Levels
    <2>2. Ready(m)' => m <= l
      <3> HAVE Ready(m)'
      <3>1. r.at = "load" => m < r.level  BY <1>14 DEF Ready
      <3> QED BY <1>11, <2>1, <3>1
    <2>3. CASE m = l  BY <1>10, <1>13, <2>3 DEF GoodQueue
    <2>4. CASE m < l
      <3>1. Ready(m)
        <4>1. \A v \in User : user[v].at = "load" => v = u  BY <1>8, RestFields
        <4> QED BY <2>4, <4>1 DEF Ready
      <3>2. GoodQueue(calc[o][m], m, Ready(m), Key(m, now), beats[m])
        BY <1>4, <1>8 DEF QueuesGood
      <3>3. d[m] = calc[o][m]  BY <1>13, <2>4
      <3> QED BY <3>1, <3>2, <3>3 DEF GoodQueue
    <2>5. CASE m # l /\ ~(m < l)
      <3>1. ~Ready(m)'  BY <2>1, <2>2, <2>5
      <3> QED BY <1>13, <2>5, <3>1 DEF GoodQueue
    <2> QED BY <2>3, <2>4, <2>5
  <1>20. HandsExact'
    <2>1. \A v \in User : InHand(user'[v]) = {}  BY <1>14, <1>15, RestFields
    <2> QED BY <2>1 DEF HandsExact, HandExact
  <1>21. StoresTrue'  BY <1>11, <1>14, RestFields DEF StoresTrue
  <1>22. Accounted'
    <2>1. \A v \in User : user[v].at \notin {"bean", "store"}  BY <1>1, <1>8, RestFields
    <2> QED BY <1>4, <1>5, <1>14, <2>1, NothingOwed DEF Accounted
  <1>23. BeansTrue'
    <2>1. \A m \in Level : d[m].bean = calc[o][m].bean  BY <1>10, <1>13
    <2>2. BeansTrue  BY <1>4, <1>5
    <2> QED BY <1>8, <1>14, <2>1, <2>2 DEF BeansTrue
  <1> QED BY <1>16, <1>17, <1>18, <1>19, <1>20, <1>21, <1>22, <1>23 DEF AllExact

\* Every step keeps the tables exact, or owed.
LEMMA NextExact == ASSUME LongQueues, Inv, MoreInv, ExactInv, [Next]_vars PROVE ExactInv'
  <1>1. CASE Next
    <2>1. ASSUME NEW u \in User,
                 \/ Begin(u) \/ LoadLevel(u) \/ AfterInit(u) \/ Bean(u)
                 \/ StoreRow(u) \/ Prune(u) \/ BeginClear(u) \/ ClearTable(u) \/ Fail(u)
          PROVE  ExactInv'
      BY <2>1, BeginExact, LoadLevelExact, AfterInitExact, BeanExact, StoreExact, PruneExact,
         BeginClearExact, ClearTableExact, FailExact
    <2> QED BY <1>1, <2>1, RestartExact, TickExact DEF Next
  <1>2. CASE UNCHANGED vars
    <2>1. UNCHANGED <<now, rows, calc, listed, user, beats, hurt, mixed>>  BY <1>2 DEF vars
    <2>2. ASSUME AllExact PROVE AllExact'
      <3>1. /\ OneCalculator /\ Recent /\ KeysPast /\ QueuesGood /\ HandsExact /\ StoresTrue
            /\ NoneClears => Accounted /\ BeansTrue
        BY <2>2 DEF AllExact
      <3>2. OneCalculator' /\ Recent' /\ KeysPast' /\ HandsExact' /\ StoresTrue'
        BY <2>1, <3>1 DEF OneCalculator, Recent, KeysPast, HandsExact, StoresTrue
      <3>3. QueuesGood'  BY <2>1, <3>1 DEF QueuesGood, Ready
      <3>4. NoneClears' => Accounted' /\ BeansTrue'
        BY <2>1, <3>1 DEF NoneClears, Accounted, Owes, BeansTrue
      <3> QED BY <3>2, <3>3, <3>4 DEF AllExact
    <2> QED BY <2>1, <2>2 DEF ExactInv
  <1> QED BY <1>1, <1>2

\* At rest nothing is owed.
LEMMA ExactAtRest == ASSUME MoreInv, ExactInv PROVE TablesExact
  <1> SUFFICES ASSUME Resting, ~hurt, ~mixed, NEW l \in Level
               PROVE  /\ DOMAIN rows[l] \subseteq DOMAIN beats[l]
                      /\ \A k \in DOMAIN beats[l] :
                            k >= KeepFrom(l, now) =>
                                k \in DOMAIN rows[l] /\ rows[l][k] = beats[l][k]
    BY DEF TablesExact
  <1>1. DOMAIN rows[l] \subseteq DOMAIN beats[l]  BY DEF MoreInv, AllUnder, RowsUnder
  <1>2. \A u \in User : user[u] = Rest  BY DEF Resting
  <1>3. NoneClears /\ \A u \in User : user[u].at \notin {"bean", "store"}
    BY <1>2, RestFields DEF NoneClears
  <1>4. Accounted  BY <1>3 DEF ExactInv, AllExact
  <1> QED BY <1>1, <1>3, <1>4, NothingOwed

-----------------------------------------------------------------------------
\* Once the calls are answered, the tables hold every beat, unless something
\* happened that is known to lose some (update, init, the stores and the
\* deletion of old rows).
THEOREM TablesAreExact == ASSUME LongQueues PROVE Spec => []TablesExact
  <1>1. Init => Inv /\ MoreInv /\ ExactInv  BY InitInv, InitMore, InitExact
  <1>2. Inv /\ MoreInv /\ ExactInv /\ [Next]_vars => (Inv /\ MoreInv /\ ExactInv)'
    BY NextInv, NextMore, NextExact
  <1>3. MoreInv /\ ExactInv => TablesExact  BY ExactAtRest
  <1> QED BY <1>1, <1>2, <1>3, PTL DEF Spec

-----------------------------------------------------------------------------
(* The buckets that are sure to be in memory                               *)

\* Those of the window, on a level whose current bucket is n.
SureKeys(l, n) == {x \in Begins(l) : x <= n /\ n < x + Width[l] * Sure(l)}

\* What may come after the key k in a queue: later buckets, and the oldest that
\* a prune has asked for since.
Later(l, k, n) == {x \in Begins(l) : k < x /\ x <= n}
Older(l, k, n) == {x \in Begins(l) : /\ l # Day
                                     /\ k <= x + Width[l] * Limit[l] + Width[l]
                                     /\ x + Width[l] * Limit[l] <= n}
After(l, k, n) == Later(l, k, n) \cup Older(l, k, n)

Trails(q, k, T) == \A i, j \in DOMAIN q.keys : q.keys[i] = k /\ i < j => q.keys[j] \in T

\* There are fewer of them than fit into the queue.
Room(T, limit) == \E f : \A x \in T : \E j \in 1 .. limit - 1 : f[j] = x

\* So the key stays.
LEMMA PushedTrails ==
    ASSUME NEW q \in Queue, NEW r \in Queue, NEW limit \in Nat \ {0}, NEW x \in Nat,
           NEW k, NEW T,
           Tidy(q), Trails(q, k, T), x \notin DOMAIN q.data, Pushed(r, q, limit, x),
           x = k \/ (x \in T /\ Room(T, limit))
    PROVE  /\ Trails(r, k, T)
           /\ k \in DOMAIN q.data => k \in DOMAIN r.data
  <1> DEFINE m == Len(q.keys)
  <1>1. m \in Nat /\ DOMAIN q.keys = 1 .. m  BY DEF Queue
  <1>2. /\ \A i \in 1 .. m : q.keys[i] \in DOMAIN q.data /\ q.keys[i] # x
        /\ \A y \in DOMAIN q.data : \E i \in 1 .. m : q.keys[i] = y
        /\ \A i, j \in 1 .. m : q.keys[i] = q.keys[j] => i = j
        /\ \A i, j \in 1 .. m : q.keys[i] = k /\ i < j => q.keys[j] \in T
    BY <1>1 DEF Tidy, Trails
  <1> HIDE DEF m
  <1>3. CASE x = k
    <2>1. \A i \in 1 .. m : q.keys[i] # k  BY <1>2, <1>3
    <2>2. k \notin DOMAIN q.data  BY <1>3
    <2>3. CASE /\ DOMAIN r.keys = 1 .. m + 1 /\ r.keys[m + 1] = x
               /\ \A i \in 1 .. m : r.keys[i] = q.keys[i]
      <3>1. \A i \in 1 .. m + 1 : i \in 1 .. m \/ i = m + 1  BY <1>1
      <3>2. \A i \in 1 .. m + 1 : r.keys[i] = k => i = m + 1  BY <2>1, <2>3, <3>1
      <3>3. \A j \in 1 .. m + 1 : ~(m + 1 < j)  BY <1>1
      <3> QED BY <2>2, <2>3, <3>2, <3>3 DEF Trails
    <2>4. CASE /\ limit <= m
               /\ DOMAIN r.keys = 1 .. m /\ r.keys[m] = x
               /\ \A i \in 1 .. m - 1 : r.keys[i] = q.keys[i + 1]
      <3>1. \A i \in 1 .. m : (i \in 1 .. m - 1 /\ i + 1 \in 1 .. m) \/ i = m  BY <1>1
      <3>2. \A i \in 1 .. m : r.keys[i] = k => i = m  BY <2>1, <2>4, <3>1
      <3>3. \A j \in 1 .. m : ~(m < j)  BY <1>1
      <3> QED BY <2>2, <2>4, <3>2, <3>3 DEF Trails
    <2> QED BY <2>3, <2>4 DEF Pushed, m
  <1>4. CASE x \in T /\ Room(T, limit) /\ x # k
    <2>1. CASE /\ m < limit
               /\ DOMAIN r.keys = 1 .. m + 1 /\ r.keys[m + 1] = x
               /\ \A i \in 1 .. m : r.keys[i] = q.keys[i]
               /\ DOMAIN r.data = DOMAIN q.data \cup {x}
      <3>1. \A i \in 1 .. m + 1 : i \in 1 .. m \/ i = m + 1  BY <1>1
      <3>2. \A i, j \in 1 .. m + 1 : r.keys[i] = k /\ i < j => r.keys[j] \in T
        BY <1>1, <1>2, <1>4, <2>1, <3>1
      <3> QED BY <2>1, <3>2 DEF Trails
    <2>2. CASE /\ limit <= m
               /\ DOMAIN r.keys = 1 .. m /\ r.keys[m] = x
               /\ \A i \in 1 .. m - 1 : r.keys[i] = q.keys[i + 1]
               /\ DOMAIN r.data = (DOMAIN q.data \cup {x}) \ {q.keys[1]}
      <3>1. q.keys[1] # k
        <4>1. SUFFICES ASSUME q.keys[1] = k PROVE FALSE  OBVIOUS
        <4>2. \A i \in 1 .. limit : i # limit => i + 1 \in 1 .. m /\ 1 < i + 1
          BY <1>1, <2>2
        <4>3. 1 \in 1 .. m  BY <1>1, <2>2
        <4> DEFINE e == [i \in 1 .. limit |-> IF i = limit THEN x ELSE q.keys[i + 1]]
        <4>4. \A i \in 1 .. limit : e[i] \in T
          BY <1>2, <1>4, <4>1, <4>2, <4>3
        <4>5. \A i, j \in 1 .. limit : e[i] = e[j] => i = j
          <5> TAKE i, j \in 1 .. limit
          <5> HAVE e[i] = e[j]
          <5>1. CASE i # limit /\ j # limit
            <6>1. q.keys[i + 1] = q.keys[j + 1]  BY <5>1
            <6>2. i + 1 = j + 1  BY <1>2, <4>2, <5>1, <6>1
            <6> QED BY <6>2
          <5>2. CASE i = limit \/ j = limit
            BY <1>2, <4>2, <5>2
          <5> QED BY <5>1, <5>2
        <4>6. PICK f : \A y \in T : \E j \in 1 .. limit - 1 : f[j] = y  BY <1>4 DEF Room
        <4> DEFINE g == [i \in 1 .. limit |-> CHOOSE j \in 1 .. limit - 1 : f[j] = e[i]]
        <4> HIDE DEF e
        <4>7. \A i \in 1 .. limit : g[i] \in 1 .. limit - 1 /\ f[g[i]] = e[i]
          <5> TAKE i \in 1 .. limit
          <5>1. \E j \in 1 .. limit - 1 : f[j] = e[i]  BY <4>4, <4>6
          <5> QED BY <5>1
        <4>8. g \in [1 .. limit -> 1 .. limit - 1]  BY <4>7
        <4> HIDE DEF g
        <4>9. /\ IsFiniteSet(1 .. limit) /\ IsFiniteSet(1 .. limit - 1)
              /\ Cardinality(1 .. limit - 1) < Cardinality(1 .. limit)
          <5>1. /\ IsFiniteSet(1 .. limit) /\ IsFiniteSet(1 .. limit - 1)
                /\ Cardinality(1 .. limit) = IF 1 > limit THEN 0 ELSE limit - 1 + 1
                /\ Cardinality(1 .. limit - 1) = IF 1 > limit - 1 THEN 0 ELSE (limit - 1) - 1 + 1
            <6>1. 1 \in Int /\ limit \in Int /\ limit - 1 \in Int  OBVIOUS
            <6> QED BY <6>1, FS_Interval
          <5> QED BY <5>1
        <4>10. \E a, b \in 1 .. limit : a # b /\ g[a] = g[b]
          <5> DEFINE A == 1 .. limit
                     B == 1 .. limit - 1
          <5>1. IsFiniteSet(A) /\ IsFiniteSet(B) /\ Cardinality(B) < Cardinality(A) /\ g \in [A -> B]
            BY <4>8, <4>9
          <5> HIDE DEF A, B
          <5>2. \E a, b \in A : a # b /\ g[a] = g[b]  BY <5>1, FS_PigeonHole
          <5> QED BY <5>2 DEF A
        <4> QED BY <4>5, <4>7, <4>10
      <3>2. \A i \in 1 .. m : (i \in 1 .. m - 1 /\ i + 1 \in 1 .. m) \/ i = m  BY <1>1
      <3>3. \A i, j \in 1 .. m : r.keys[i] = k /\ i < j => r.keys[j] \in T
        <4> SUFFICES ASSUME NEW i \in 1 .. m, NEW j \in 1 .. m, r.keys[i] = k, i < j
                     PROVE  r.keys[j] \in T
          OBVIOUS
        <4>1. i \in 1 .. m - 1 /\ i + 1 \in 1 .. m /\ r.keys[i] = q.keys[i + 1]
          BY <1>4, <2>2, <3>2
        <4>2. CASE j = m  BY <1>4, <2>2, <4>2
        <4>3. CASE j # m
          <5>1. j \in 1 .. m - 1 /\ j + 1 \in 1 .. m /\ r.keys[j] = q.keys[j + 1]
            BY <2>2, <3>2, <4>3
          <5>2. i + 1 < j + 1  BY <1>1
          <5> QED BY <1>2, <4>1, <5>1, <5>2
        <4> QED BY <4>2, <4>3
      <3> QED BY <2>2, <3>1, <3>3 DEF Trails
    <2> QED BY <2>1, <2>2 DEF Pushed, m
  <1> QED BY <1>3, <1>4

\* Multiples of a width.
LEMMA Times ==
    ASSUME NEW w \in Nat \ {0}, NEW a \in Nat, NEW b \in Nat
    PROVE  /\ w * a \in Nat /\ w * b \in Nat
           /\ a <= b <=> w * a <= w * b
           /\ a < b <=> w * a < w * b
  <1>0. w * a \in Nat /\ w * b \in Nat  OBVIOUS
  <1>1. ASSUME NEW x \in Nat, NEW y \in Nat, x < y PROVE w * x < w * y
    <2>1. PICK d \in Nat : y = x + 1 + d
      <3>1. y - x - 1 \in Nat /\ y = x + 1 + (y - x - 1)  BY <1>1
      <3> QED BY <3>1
    <2>2. w * y = w * x + w + w * d /\ w * d \in Nat /\ w * x \in Nat  BY <2>1
    <2> QED BY <2>2
  <1>2. a < b => w * a < w * b  BY <1>1
  <1>3. b < a => w * b < w * a  BY <1>1
  <1> QED BY <1>0, <1>2, <1>3

\* Half the queue, or the days all.
LEMMA SureFacts ==
    ASSUME NEW l \in Level
    PROVE  /\ Sure(l) \in Nat /\ Sure(l) <= Limit[l]
           /\ l # Day => 2 * Sure(l) <= Limit[l] - 1
  <1>1. \A n \in Nat \ {0} : (n - 1) \div 2 \in Nat /\ 2 * ((n - 1) \div 2) <= n - 1
    OBVIOUS
  <1>2. Limit[l] \in Nat \ {0}  BY Levels
  <1>3. PICK n : n = Limit[l]  OBVIOUS
  <1>4. n \in Nat \ {0} /\ (n - 1) \div 2 \in Nat /\ 2 * ((n - 1) \div 2) <= n - 1
    BY <1>1, <1>2, <1>3
  <1>5. Sure(l) = IF l = Day THEN n ELSE (n - 1) \div 2  BY <1>3 DEF Sure
  <1> QED BY <1>3, <1>4, <1>5

\* What may come after a bucket of the window fits into the queue beside it.
LEMMA SureRoom ==
    ASSUME NEW l \in Level, NEW n \in Begins(l), NEW k \in SureKeys(l, n)
    PROVE  Room(After(l, k, n), Limit[l])
  <1> DEFINE w == Width[l]
             L == Limit[l]
             S == Sure(l)
  <1>1. w \in Nat \ {0} /\ L \in Nat \ {0}  BY Levels
  <1>2. S \in Nat /\ S <= L /\ (l # Day => 2 * S <= L - 1)  BY SureFacts
  <1> HIDE DEF w, L, S
  <1>3. PICK a \in Nat, b \in Nat : k = w * a /\ n = w * b  BY DEF SureKeys, Begins, w
  <1>4. b < a + S
    <2>1. n < k + w * S  BY DEF SureKeys, w, S
    <2>2. k + w * S = w * (a + S) /\ a + S \in Nat  BY <1>1, <1>2, <1>3
    <2> QED BY <1>1, <1>3, <2>1, <2>2, Times
  <1>5. S >= 1
    <2>1. k <= n  BY DEF SureKeys
    <2>2. a <= b  BY <1>1, <1>3, <2>1, Times
    <2> QED BY <1>2, <1>4, <2>2
  <1> DEFINE f == [j \in 1 .. L - 1 |->
                    IF j < S THEN w * (a + j) ELSE w * (j + a - S - L - 1)]
  <1>6. ASSUME NEW x \in Later(l, k, n) PROVE \E j \in 1 .. L - 1 : f[j] = x
    <2>1. PICK c \in Nat : x = w * c  BY DEF Later, Begins, w
    <2>2. a < c /\ c <= b
      <3>1. k < x /\ x <= n  BY DEF Later
      <3> QED BY <1>1, <1>3, <2>1, <3>1, Times
    <2>3. PICK j : j = c - a  OBVIOUS
    <2>4. j \in 1 .. L - 1 /\ j < S /\ a + j = c  BY <1>1, <1>2, <1>4, <2>2, <2>3
    <2>5. f[j] = w * (a + j)  BY <2>4
    <2> QED BY <2>1, <2>4, <2>5
  <1>7. ASSUME NEW x \in Older(l, k, n) PROVE \E j \in 1 .. L - 1 : f[j] = x
    <2>1. PICK c \in Nat : x = w * c  BY DEF Older, Begins, w
    <2>2. /\ l # Day
          /\ w * a <= w * c + w * L + w /\ w * c + w * L <= w * b
      BY <1>3, <2>1 DEF Older, w, L
    <2>3. a <= c + L + 1
      <3>1. w * c + w * L + w = w * (c + L + 1) /\ c + L + 1 \in Nat  BY <1>1
      <3> QED BY <1>1, <2>2, <3>1, Times
    <2>4. c + L <= b
      <3>1. w * c + w * L = w * (c + L) /\ c + L \in Nat  BY <1>1
      <3> QED BY <1>1, <2>2, <3>1, Times
    <2>5. PICK j : j = c + L + 1 + S - a  OBVIOUS
    <2>6. j \in 1 .. L - 1 /\ ~(j < S) /\ j + a - S - L - 1 = c
      BY <1>1, <1>2, <1>4, <1>5, <2>2, <2>3, <2>4, <2>5
    <2>7. f[j] = w * (j + a - S - L - 1)  BY <2>6
    <2> QED BY <2>1, <2>6, <2>7
  <1> HIDE DEF f
  <1>8. \A x \in After(l, k, n) : \E j \in 1 .. Limit[l] - 1 : f[j] = x
    BY <1>6, <1>7 DEF After, L
  <1> QED BY <1>8 DEF Room

\* The window follows the time, and what may come after a bucket grows.
LEMMA SureBefore ==
    ASSUME NEW l \in Level, NEW n \in Begins(l), NEW m \in Begins(l), n <= m,
           NEW k \in SureKeys(l, m), k <= n
    PROVE  /\ k \in SureKeys(l, n)
           /\ After(l, k, n) \subseteq After(l, k, m)
  <1>1. Width[l] \in Nat \ {0} /\ Sure(l) \in Nat  BY Levels, SureFacts
  <1>2. \A x \in Begins(l) : x \in Nat  BY <1>1 DEF Begins
  <1>3. Width[l] * Sure(l) \in Nat /\ Width[l] * Limit[l] \in Nat
    <2>1. \A w \in Nat : \A s \in Nat : w * s \in Nat  OBVIOUS
    <2> QED BY <1>1, <2>1, Levels
  <1>4. PICK s, z : s = Width[l] * Sure(l) /\ z = Width[l] * Limit[l]  OBVIOUS
  <1>5. k \in Begins(l) /\ k <= m /\ m < k + s  BY <1>4 DEF SureKeys
  <1>6. n < k + s  BY <1>2, <1>3, <1>4, <1>5
  <1>7. k \in SureKeys(l, n)  BY <1>4, <1>5, <1>6 DEF SureKeys
  <1>8. Later(l, k, n) \subseteq Later(l, k, m)  BY <1>2 DEF Later
  <1>9. Older(l, k, n) \subseteq Older(l, k, m)
    <2>1. \A x \in Begins(l) : x + z <= n => x + z <= m  BY <1>2, <1>3, <1>4
    <2> QED BY <1>4, <2>1 DEF Older
  <1> QED BY <1>7, <1>8, <1>9 DEF After

\* The queue q holds what b says of each bucket of the window, and keeps it.
SureQueue(q, l, n, b) ==
    \A k \in SureKeys(l, n) : Trails(q, k, After(l, k, n)) /\ Held(q.data, k) = Held(b, k)

\* The current bucket, and the oldest that a prune asks for.
Asked(l, n) == {x \in Begins(l) : \/ x = n
                                  \/ /\ l # Day
                                     /\ n <= x + Width[l] * Limit[l] + Width[l]
                                     /\ x + Width[l] * Limit[l] <= n}

\* What is asked for may come after a bucket of the window, or is that bucket.
LEMMA AskedAfter ==
    ASSUME NEW l \in Level, NEW n \in Begins(l), NEW k \in SureKeys(l, n), NEW x \in Asked(l, n)
    PROVE  x = k \/ (x \in After(l, k, n) /\ Room(After(l, k, n), Limit[l]))
  <1>1. Room(After(l, k, n), Limit[l])  BY SureRoom
  <1>2. Width[l] \in Nat \ {0} /\ Width[l] * Limit[l] \in Nat  BY Levels
  <1>3. \A y \in Begins(l) : y \in Nat  BY <1>2 DEF Begins
  <1>4. k \in Begins(l) /\ k <= n  BY DEF SureKeys
  <1>5. CASE x = n
    <2>1. k < n => n \in Later(l, k, n)  BY <1>3, <1>4 DEF Later
    <2> QED BY <1>1, <1>3, <1>4, <1>5, <2>1 DEF After
  <1>6. CASE x # n
    <2>1. PICK s, w : s = Width[l] * Limit[l] /\ w = Width[l]  OBVIOUS
    <2>2. x \in Begins(l) /\ l # Day /\ n <= x + s + w /\ x + s <= n  BY <1>6, <2>1 DEF Asked
    <2>3. k <= x + s + w  BY <1>2, <1>3, <1>4, <2>1, <2>2
    <2>4. x \in Older(l, k, n)  BY <2>1, <2>2, <2>3 DEF Older
    <2> QED BY <1>1, <2>4 DEF After
  <1> QED BY <1>5, <1>6

\* A bucket that is asked for takes no place of the window's.
LEMMA TouchSure ==
    ASSUME NEW q \in Queue, NEW l \in Level, NEW t \in Nat, Tidy(q), NEW n \in Begins(l), NEW b,
           Key(l, t) \in Asked(l, n), SureQueue(q, l, n, b)
    PROVE  /\ SureQueue(Touch(q, l, t), l, n, b)
           /\ \A k \in SureKeys(l, n) : k \in DOMAIN q.data => k \in DOMAIN Touch(q, l, t).data
  <1> DEFINE r == Touch(q, l, t)
             x == Key(l, t)
  <1>1. Limit[l] \in Nat \ {0} /\ x \in Nat /\ Zero \in Counts
    BY Levels, KeyBounds, AtMostOrder
  <1>2. CASE x \in DOMAIN q.data
    <2>1. r = q  BY <1>2 DEF Touch
    <2> QED BY <2>1
  <1>3. CASE x \notin DOMAIN q.data
    <2>1. r = Push(q, Limit[l], x, Zero)  BY <1>3 DEF Touch
    <2>2. r \in Queue /\ Pushed(r, q, Limit[l], x)
      BY <1>1, <2>1, PushFacts, PushKeys
    <2>3. \A y \in DOMAIN r.data : r.data[y] = Held(q.data, y)  BY TouchFacts
    <2>4. x \in Asked(l, n)  OBVIOUS
    <2> HIDE DEF r, x
    <2>5. ASSUME NEW k \in SureKeys(l, n)
          PROVE  /\ Trails(r, k, After(l, k, n)) /\ Held(r.data, k) = Held(b, k)
                 /\ k \in DOMAIN q.data => k \in DOMAIN r.data
      <3>1. Trails(q, k, After(l, k, n)) /\ Held(q.data, k) = Held(b, k)  BY DEF SureQueue
      <3>2. x = k \/ (x \in After(l, k, n) /\ Room(After(l, k, n), Limit[l]))
        BY <2>4, AskedAfter
      <3>3. Trails(r, k, After(l, k, n)) /\ (k \in DOMAIN q.data => k \in DOMAIN r.data)
        BY <1>1, <1>3, <2>2, <3>1, <3>2, PushedTrails
      <3>4. Held(r.data, k) = Held(q.data, k)  BY <2>3, <3>3 DEF Held
      <3> QED BY <3>1, <3>3, <3>4
    <2> QED BY <2>5 DEF SureQueue, r, x
  <1> QED BY <1>2, <1>3

\* A beat that is counted in the queue and in what happened.
LEMMA CountSure ==
    ASSUME NEW q \in Queue, NEW l \in Level, NEW t \in Nat, Tidy(q), NEW b, NEW d, NEW s \in Status,
           Key(l, t) \in DOMAIN Touch(q, l, t).data, SureQueue(q, l, Key(l, t), b),
           \A x : Held(d, x) = IF x = Key(l, t) THEN Inc(Held(b, x), s) ELSE Held(b, x)
    PROVE  SureQueue(CountedOne(q, l, s, t), l, Key(l, t), d)
  <1> DEFINE r == Touch(q, l, t)
             p == CountedOne(q, l, s, t)
             n == Key(l, t)
  <1>1. n \in Begins(l) /\ n \in Asked(l, n)  BY KeyBegins DEF Asked
  <1>2. SureQueue(r, l, n, b)
    <2>1. SureQueue(q, l, n, b)  OBVIOUS
    <2> HIDE DEF n
    <2>2. n = Key(l, t)  BY DEF n
    <2> QED BY <1>1, <2>1, <2>2, TouchSure
  <1>3. p.keys = r.keys /\ DOMAIN p.data = DOMAIN r.data
        /\ \A x \in DOMAIN r.data :
              p.data[x] = IF x = n THEN Inc(Held(q.data, x), s) ELSE Held(q.data, x)
    BY CountedOneFacts
  <1>4. \A x \in DOMAIN r.data : r.data[x] = Held(q.data, x)  BY TouchFacts
  <1>5. n \in DOMAIN r.data  OBVIOUS
  <1>6. \A x : Held(d, x) = IF x = n THEN Inc(Held(b, x), s) ELSE Held(b, x)  OBVIOUS
  <1> HIDE DEF r, p, n
  <1> SUFFICES ASSUME NEW k \in SureKeys(l, n)
               PROVE  Trails(p, k, After(l, k, n)) /\ Held(p.data, k) = Held(d, k)
    BY DEF SureQueue, p, n
  <1>7. Trails(r, k, After(l, k, n)) /\ Held(r.data, k) = Held(b, k)  BY <1>2 DEF SureQueue
  <1>8. Trails(p, k, After(l, k, n))  BY <1>3, <1>7 DEF Trails
  <1>9. CASE k = n
    <2>1. Held(p.data, k) = Inc(Held(q.data, k), s) /\ Held(r.data, k) = Held(q.data, k)
      BY <1>3, <1>4, <1>5, <1>9 DEF Held
    <2> QED BY <1>6, <1>7, <1>8, <1>9, <2>1
  <1>10. CASE k # n
    <2>1. Held(p.data, k) = Held(r.data, k)  BY <1>3, <1>4, <1>10 DEF Held
    <2> QED BY <1>6, <1>7, <1>8, <1>10, <2>1
  <1> QED BY <1>9, <1>10

\* What is deleted is before the window.
LEMMA SureKept ==
    ASSUME NEW l \in Level, NEW m \in Nat, NEW t \in Start .. m, NEW k \in SureKeys(l, Key(l, m))
    PROVE  /\ k \in Nat /\ KeepFrom(l, t) < k /\ KeepFrom(l, t) \in Nat
           /\ k \in Begins(l) /\ k <= Key(l, m)
  <1> DEFINE w == Width[l]
             z == w * Limit[l]
             s == w * Sure(l)
             n == Key(l, m)
  <1>1. w \in Nat \ {0} /\ Limit[l] \in Nat /\ Sure(l) \in Nat /\ Sure(l) <= Limit[l]
    BY Levels, SureFacts
  <1>2. z \in Nat /\ s \in Nat /\ s <= z
    <2> HIDE DEF w
    <2> QED BY <1>1, Times
  <1>3. k \in Begins(l) /\ k <= n /\ n < k + s  BY DEF SureKeys
  <1>4. k \in Nat
    <2>1. \A x \in Begins(l) : x \in Nat  BY <1>1 DEF Begins
    <2> QED BY <1>3, <2>1
  <1>5. t \in Nat /\ Start <= t /\ t <= m  BY Basics
  <1>6. KeepFrom(l, t) = Key(l, t) - z /\ KeepFrom(l, t) \in Nat
    BY <1>5, KeepFromKey, KeepFromNat
  <1>7. Key(l, t) <= n /\ Key(l, t) \in Nat /\ n \in Nat  BY <1>5, KeyRises, KeyBounds
  <1> HIDE DEF z, s, n
  <1>8. KeepFrom(l, t) < k  BY <1>2, <1>3, <1>4, <1>6, <1>7
  <1> QED BY <1>3, <1>4, <1>6, <1>8 DEF n

\* The rows up to n are pushed: what is behind k is in T, and k is there if it
\* is among the rows.
TrailsIn(r, l, t, k, T, n) ==
    /\ Tidy(r) /\ Trails(r, k, T)
    /\ k \in Found(l, t) /\ k <= n => k \in DOMAIN r.data

\* Row after row.
LEMMA LoadedTrailsTo ==
    ASSUME NEW q \in Queue, NEW l \in Level, NEW t, KeepFrom(l, t) \in Nat,
           now \in Nat, rows[l] \in Table, Tidy(q), DOMAIN q.data = {KeepFrom(l, t)},
           NEW k \in Nat, KeepFrom(l, t) < k,
           NEW T, Room(T, Limit[l]), \A x \in Found(l, t) : k < x => x \in T,
           NEW g, Trace(g, q, l, t, now), NEW n \in 0 .. now
    PROVE  TrailsIn(g[n], l, t, k, T, n)
  <1> DEFINE S == {x \in 0 .. now : ~TrailsIn(g[x], l, t, k, T, x)}
  <1>0. /\ Found(l, t) \subseteq Nat /\ \A x \in Found(l, t) : x # KeepFrom(l, t)
        /\ \A x \in Found(l, t) : rows[l][x] \in Counts
    <2>1. DOMAIN rows[l] \subseteq Nat /\ rows[l] \in [DOMAIN rows[l] -> Counts]
      BY TableByValue
    <2> QED BY <2>1 DEF Found
  <1>1. SUFFICES ASSUME n \in S PROVE FALSE  OBVIOUS
  <1>2. PICK m \in S : \A x \in S : m <= x
    <2>1. S \in SUBSET Nat /\ S # {}  BY <1>1
    <2> HIDE DEF S
    <2> QED BY <2>1, LeastNat
  <1>3. m \in 0 .. now /\ ~TrailsIn(g[m], l, t, k, T, m)  BY <1>2
  <1>4. ASSUME NEW x \in 0 .. now, x < k PROVE k \notin DOMAIN g[x].data
    <2>1. HoldsRows(g[x], q, l, t, x)  BY LoadedFacts
    <2>2. ~(k <= x)  BY <1>4
    <2> QED BY <2>1, <2>2 DEF HoldsRows
  <1>5. CASE m = 0
    <2>1. g[0] = q  BY DEF Trace
    <2>2. \A i \in DOMAIN q.keys : q.keys[i] # k  BY DEF Tidy
    <2>3. ~(k <= 0)  OBVIOUS
    <2> QED BY <1>3, <1>5, <2>1, <2>2, <2>3 DEF TrailsIn, Trails
  <1>6. CASE m # 0
    <2>1. m \in Nat /\ m - 1 \in 0 .. now /\ m \in 1 .. now /\ m - 1 \notin S
      BY <1>2, <1>6
    <2>2. TrailsIn(g[m - 1], l, t, k, T, m - 1) /\ HoldsRows(g[m - 1], q, l, t, m - 1)
          /\ HoldsRows(g[m], q, l, t, m)
      BY <1>3, <2>1, LoadedFacts
    <2>3. g[m] = Row(l, t, m, g[m - 1])  BY <2>1 DEF Trace
    <2>4. CASE m \notin Found(l, t)
      <3>1. g[m] = g[m - 1]  BY <2>3, <2>4 DEF Row
      <3>2. k \in Found(l, t) /\ k <= m => k <= m - 1  BY <2>1, <2>4
      <3> QED BY <1>3, <2>2, <3>1, <3>2 DEF TrailsIn
    <2>5. CASE m \in Found(l, t)
      <3> DEFINE p == g[m - 1]
                 r == g[m]
                 v == rows[l][m]
                 limit == Limit[l]
      <3>1. r = Push(p, limit, m, v)  BY <2>3, <2>5 DEF Row, Loaded
      <3>2. /\ p \in Queue /\ r \in Queue /\ limit \in Nat \ {0} /\ v \in Counts
            /\ Tidy(p) /\ Trails(p, k, T)
            /\ k \in Found(l, t) /\ k <= m - 1 => k \in DOMAIN p.data
        BY <1>0, <2>2, <2>5, Levels DEF HoldsRows, TrailsIn
      <3>3. m \notin DOMAIN p.data
        <4>1. ~(m <= m - 1) /\ m # KeepFrom(l, t)  BY <1>0, <2>1, <2>5
        <4> QED BY <2>2, <4>1 DEF HoldsRows
      <3>4. Room(T, limit)  OBVIOUS
      <3> HIDE DEF p, r, v, limit
      <3>5. Pushed(r, p, limit, m)  BY <2>1, <3>1, <3>2, PushKeys
      <3>6. Tidy(r) /\ m \in DOMAIN r.data
        BY <2>1, <3>2, <3>3, <3>5, PushedTidy
      <3>7. CASE m < k
        <4>1. k \notin DOMAIN r.data  BY <1>3, <1>4, <3>7 DEF r
        <4>2. ~(k <= m)  BY <2>1, <3>7
        <4>3. TrailsIn(r, l, t, k, T, m)  BY <3>6, <4>1, <4>2 DEF TrailsIn, Trails, Tidy
        <4> QED BY <1>3, <4>3 DEF r
      <3>8. CASE m = k \/ k < m
        <4>1. m = k \/ (m \in T /\ Room(T, limit))  BY <2>5, <3>4, <3>8
        <4>2. Trails(r, k, T) /\ (k \in DOMAIN p.data => k \in DOMAIN r.data)
          BY <2>1, <3>2, <3>3, <3>5, <4>1, PushedTrails
        <4>3. k \in Found(l, t) => k \in DOMAIN r.data
          <5>1. CASE m = k  BY <3>6, <5>1
          <5>2. CASE k < m
            <6>1. k <= m - 1  BY <2>1, <5>2
            <6> QED BY <3>2, <4>2, <6>1
          <5> QED BY <3>8, <5>1, <5>2
        <4>4. TrailsIn(r, l, t, k, T, m)  BY <3>6, <4>2, <4>3 DEF TrailsIn
        <4> QED BY <1>3, <4>4 DEF r
      <3> QED BY <2>1, <3>7, <3>8
    <2> QED BY <2>4, <2>5
  <1> QED BY <1>5, <1>6

\* The same for init, from its first row to its last.
LEMMA LoadedTrails ==
    ASSUME NEW q \in Queue, NEW l \in Level, NEW t, KeepFrom(l, t) \in Nat,
           now \in Nat, rows[l] \in Table, Tidy(q), DOMAIN q.data = {KeepFrom(l, t)},
           NEW k \in Nat, KeepFrom(l, t) < k, k <= now,
           NEW T, Room(T, Limit[l]), \A x \in Found(l, t) : k < x => x \in T
    PROVE  /\ Trails(LoadedAll(q, l, t), k, T)
           /\ k \in Found(l, t) => k \in DOMAIN LoadedAll(q, l, t).data
  <1>1. PICK g : Trace(g, q, l, t, now) /\ LoadedAll(q, l, t) = g[now]
    BY LoadedAllTrace
  <1>2. now \in 0 .. now  OBVIOUS
  <1>3. TrailsIn(g[now], l, t, k, T, now)  BY <1>1, <1>2, LoadedTrailsTo
  <1> QED BY <1>1, <1>3 DEF TrailsIn

\* The level that is loaded holds the beats of its window.
LEMMA LevelSure ==
    ASSUME Inv, MoreInv, AllExact, ~mixed, NEW u \in User, user[u].at = "load",
           NEW l \in Level, l = user[u].level, NEW o \in Object, o = user[u].obj,
           DOMAIN calc[o][l].data = {KeepFrom(l, user[u].t)},
           NEW p, p = LoadedAll(calc[o][l], l, user[u].t)
    PROVE  SureQueue(p, l, Key(l, now), beats[l])
  <1> DEFINE t == user[u].t
             n == Key(l, now)
             q == calc[o][l]
  <1>1. /\ TypeOK /\ OneCalculator /\ Recent /\ KeysPast /\ QueuesGood /\ Accounted
        /\ RowsUnder
    <2>1. ClearAlone /\ RowsUnder  BY DEF MoreInv, AllUnder
    <2>2. NoneClears  BY <2>1, NoClear DEF NoneClears
    <2> QED BY <2>1, <2>2 DEF AllExact, Inv
  <1>2. now \in Nat /\ Start <= now /\ Start \in Nat  BY <1>1, TimeFacts
  <1>3. /\ listed = o /\ listed # None
        /\ \A v \in User \ {u} : user[v] = Rest
        /\ t \in Start .. now
    <2>1. user[u] \in Call /\ Sound(user[u], calc, now)  BY DEF Inv, TypeOK, CallsSound
    <2>2. t \in Start .. now  BY <2>1 DEF Sound
    <2>3. \A v \in User \ {u} : user[v] = Rest  BY <1>1 DEF OneCalculator
    <2> QED BY <1>1, <2>2, <2>3, UsesListed, Basics
  <1>4. /\ q \in Queue /\ rows[l] \in Table /\ beats[l] \in Table
        /\ n \in Nat /\ n <= now /\ n \in Begins(l)
    BY <1>1, <1>2, KeyBounds, KeyBegins DEF TypeOK, Calculator
  <1>5. DOMAIN rows[l] \subseteq Past(l, now)  BY <1>1 DEF KeysPast
  <1>6. \A x \in Found(l, t) : x \in Begins(l) /\ x <= n
    <2>1. \A x \in Past(l, now) : x \in Begins(l)
      <3>1. \A s \in 0 .. now : s \in Nat  OBVIOUS
      <3> QED BY <3>1, KeyBegins DEF Past
    <2> QED BY <1>2, <1>5, <2>1, PastFacts DEF Found
  <1>7. Tidy(q)  BY <1>1, <1>3 DEF QueuesGood, GoodQueue
  <1>8. now \in Start .. now  BY <1>2
  <1>9. \A k \in SureKeys(l, n) :
           /\ k \in Nat /\ k \in Begins(l) /\ k <= n
           /\ KeepFrom(l, t) < k /\ KeepFrom(l, t) \in Nat
           /\ KeepFrom(l, now) < k /\ KeepFrom(l, now) \in Nat
    <2> HIDE DEF t
    <2> QED BY <1>2, <1>3, <1>8, SureKept
  <1> HIDE DEF t, n, q
  <1>10. DOMAIN q.data = {KeepFrom(l, t)} /\ p = LoadedAll(q, l, t)  BY DEF q, t
  <1> SUFFICES ASSUME NEW k \in SureKeys(l, n)
               PROVE  Trails(p, k, After(l, k, n)) /\ Held(p.data, k) = Held(beats[l], k)
    BY DEF SureQueue, n
  <1>11. k <= now /\ k \in Nat /\ KeepFrom(l, t) < k /\ KeepFrom(l, t) \in Nat  BY <1>2, <1>4, <1>9
  <1>12. \A x \in Found(l, t) : k < x => x \in After(l, k, n)
    BY <1>6 DEF After, Later
  <1>13. Room(After(l, k, n), Limit[l])  BY <1>4, SureRoom
  <1>14. Trails(p, k, After(l, k, n)) /\ (k \in Found(l, t) => k \in DOMAIN p.data)
    BY <1>2, <1>4, <1>7, <1>10, <1>11, <1>12, <1>13, LoadedTrails
  <1>15. HoldsRows(p, q, l, t, now)  BY <1>2, <1>4, <1>10, <1>11, LoadedAllFacts
  <1>16. k \in DOMAIN beats[l] => k \in DOMAIN rows[l] /\ rows[l][k] = beats[l][k]
    <2>1. \A v \in User : user[v].at \notin {"bean", "store"}  BY <1>3, RestFields
    <2>2. k >= KeepFrom(l, now)  BY <1>9
    <2> QED BY <1>1, <2>1, <2>2, NothingOwed
  <1>17. k \in DOMAIN rows[l] => k \in DOMAIN beats[l]  BY <1>1 DEF RowsUnder
  <1>18. Held(p.data, k) = Held(beats[l], k)
    <2>1. CASE k \in DOMAIN rows[l]
      <3>1. k \in Found(l, t)  BY <1>11, <2>1 DEF Found
      <3>2. k \in DOMAIN p.data /\ p.data[k] = rows[l][k]
        BY <1>11, <1>14, <1>15, <3>1 DEF HoldsRows
      <3> QED BY <1>16, <1>17, <2>1, <3>2 DEF Held
    <2>2. CASE k \notin DOMAIN rows[l]
      <3>1. k \notin Found(l, t) /\ k # KeepFrom(l, t)  BY <1>11, <2>2 DEF Found
      <3>2. k \notin DOMAIN p.data  BY <1>10, <1>15, <3>1 DEF HoldsRows
      <3> QED BY <1>16, <2>2, <3>2 DEF Held
    <2> QED BY <2>1, <2>2
  <1> QED BY <1>14, <1>18

\* Every level that is loaded, of the listed calculator, holds its window.
Sures ==
    listed # None => \A l \in Level :
        Ready(l) => SureQueue(calc[listed][l], l, Key(l, now), beats[l])

WindowInv == ~hurt /\ ~mixed => Sures

\* Nothing is said of what is not in a queue.
LEMMA SuresStay ==
    ASSUME Inv, Sures, UNCHANGED <<now, listed, beats>>,
           \A l \in Level : Ready(l)' => Ready(l),
           \A o \in Object : \A l \in Level : /\ calc'[o][l].data = calc[o][l].data
                                              /\ calc'[o][l].keys = calc[o][l].keys
    PROVE  Sures'
  <1> SUFFICES ASSUME listed # None, NEW l \in Level, Ready(l)'
               PROVE  SureQueue(calc'[listed][l], l, Key(l, now), beats[l])
    BY DEF Sures
  <1>1. listed \in Object  BY DEF Inv, TypeOK
  <1>2. SureQueue(calc[listed][l], l, Key(l, now), beats[l])  BY DEF Sures
  <1>3. PICK p, q, n, b : p = calc'[listed][l] /\ q = calc[listed][l] /\ n = Key(l, now) /\ b = beats[l]
    OBVIOUS
  <1>4. p.data = q.data /\ p.keys = q.keys  BY <1>1, <1>3
  <1>5. SureQueue(p, l, n, b)  BY <1>2, <1>3, <1>4 DEF SureQueue, Trails
  <1> QED BY <1>3, <1>5

\* A call that finds a calculator: it reads, or counts in the window.
LEMMA UseSure ==
    ASSUME Inv, AllExact, Sures, ~hurt', NEW u \in User, NEW o \in Object, listed = o,
           NEW q \in Call, q.op \in {"read", "update"}, user[u].at # "load",
           UNCHANGED <<now, listed>>, Use(u, o, q)
    PROVE  Sures'
  <1>1. /\ TypeOK /\ CallsSound /\ OneCalculator /\ QueuesGood
        /\ calc \in [Object -> Calculator] /\ calc[o] \in Calculator /\ now \in Nat
        /\ beats \in [Level -> Table] /\ o # None
        /\ \A l \in Level : calc[o][l] \in Queue
    BY Basics DEF AllExact, Inv, TypeOK, Calculator
  <1>2. \A l \in Level : Tidy(calc[o][l])  BY <1>1 DEF QueuesGood, GoodQueue
  <1>3. \A l \in Level : Key(l, now) \in Begins(l) /\ Key(l, now) \in Asked(l, Key(l, now))
    BY <1>1, KeyBegins DEF Asked
  <1>4. \A l \in Level : Ready(l) => SureQueue(calc[o][l], l, Key(l, now), beats[l])
    BY <1>1 DEF Sures
  <1>5. CASE q.op = "read"
    <2> DEFINE c == Touched(calc[o], now)
    <2>1. /\ calc' = [calc EXCEPT ![o] = c]
          /\ user' = [Keeping(o, c, NoKeys) EXCEPT ![u] = Rest]
          /\ beats' = beats
      BY <1>5 DEF Use
    <2>2. \A l \in Level : c[l] = Touch(calc[o][l], l, now)
      BY <1>1, TouchedFacts
    <2> HIDE DEF c
    <2>3. \A l \in Level : Ready(l)' => Ready(l)
      <3>1. Keeping(o, c, NoKeys) = [v \in User |-> Keeping(o, c, NoKeys)[v]]  BY DEF Keeping
      <3>2. \A v \in User : Alike(Keeping(o, c, NoKeys)[v], user[v])  BY <1>1, KeepingFacts
      <3>3. \A v \in User \ {u} : Alike(user'[v], user[v])  BY <2>1, <3>1, <3>2
      <3> QED BY <3>3 DEF Ready, Alike
    <2> SUFFICES ASSUME NEW l \in Level, Ready(l)
                 PROVE  SureQueue(calc'[o][l], l, Key(l, now), beats[l])
      BY <2>1, <2>3 DEF Sures
    <2>4. SureQueue(Touch(calc[o][l], l, now), l, Key(l, now), beats[l])
      BY <1>1, <1>2, <1>3, <1>4, TouchSure
    <2>5. calc'[o][l] = Touch(calc[o][l], l, now)  BY <1>1, <2>1, <2>2
    <2> QED BY <2>4, <2>5
  <1>6. CASE q.op = "update"
    <2> DEFINE s == q.status
               c == Counted(calc[o], s, now)
               r == IF Broken(calc[o], now) # {} THEN Rest
                    ELSE [q EXCEPT !.at = "bean", !.obj = o, !.t = now, !.level = Day]
    <2>1. /\ calc' = [calc EXCEPT ![o] = c]
          /\ user' = [Keeping(o, c, NoKeys) EXCEPT ![u] = r]
          /\ hurt' = (hurt \/ Loading(o) \/ Broken(calc[o], now) # {})
      BY <1>6 DEF Use
    <2>2. s \in Status  BY DEF Call, Status
    <2>3. Broken(calc[o], now) = {} /\ ~Loading(o)  BY <2>1
    <2>4. \A l \in Level : /\ Key(l, now) \in DOMAIN Touch(calc[o][l], l, now).data
                           /\ c[l] = CountedOne(calc[o][l], l, s, now)
      <3>1. PICK f, z : f = calc[o] /\ z = s  OBVIOUS
      <3>2. f \in Calculator /\ Broken(f, now) = {} /\ z \in Status  BY <1>1, <2>2, <2>3, <3>1
      <3>3. \A l \in Level : /\ Key(l, now) \in DOMAIN Touch(f[l], l, now).data
                             /\ Counted(f, z, now)[l] = CountedOne(f[l], l, z, now)
        BY <1>1, <3>2, CountedFacts
      <3> QED BY <3>1, <3>3
    <2>5. \A v \in User : user[v].at # "load"
      <3>1. ASSUME NEW v \in User, user[v].at = "load" PROVE FALSE
        <4>1. user[v].obj = o  BY <1>1, <3>1, UsesListed
        <4> QED BY <2>3, <3>1, <4>1 DEF Loading
      <3> QED BY <3>1
    <2>6. \A l \in Level : \A x : Held(beats'[l], x) =
                                IF x = Key(l, now) THEN Inc(Held(beats[l], x), s)
                                ELSE Held(beats[l], x)
      BY <1>1, <1>6, BeatsCounted
    <2> HIDE DEF c, s, r
    <2> SUFFICES ASSUME NEW l \in Level
                 PROVE  SureQueue(calc'[o][l], l, Key(l, now), beats'[l])
      BY DEF Sures
    <2>7. SureQueue(calc[o][l], l, Key(l, now), beats[l])  BY <1>4, <2>5 DEF Ready
    <2>8. SureQueue(CountedOne(calc[o][l], l, s, now), l, Key(l, now), beats'[l])
      <3>1. PICK p, b, d : p = calc[o][l] /\ b = beats[l] /\ d = beats'[l]  OBVIOUS
      <3>2. /\ p \in Queue /\ Tidy(p) /\ Key(l, now) \in DOMAIN Touch(p, l, now).data
            /\ SureQueue(p, l, Key(l, now), b)
            /\ \A x : Held(d, x) = IF x = Key(l, now) THEN Inc(Held(b, x), s) ELSE Held(b, x)
        BY <1>1, <1>2, <2>4, <2>6, <2>7, <3>1
      <3>3. SureQueue(CountedOne(p, l, s, now), l, Key(l, now), d)
        BY <1>1, <2>2, <3>2, CountSure
      <3> QED BY <3>1, <3>3
    <2>9. calc'[o][l] = CountedOne(calc[o][l], l, s, now)  BY <1>1, <2>1, <2>4
    <2> QED BY <2>8, <2>9
  <1> QED BY <1>5, <1>6

\* A call begins.
LEMMA BeginSure ==
    ASSUME Inv, MoreInv, ExactInv, WindowInv, NEW u \in User, Begin(u)
    PROVE  WindowInv'
  <1>1. PICK op \in {"update", "read"}, s \in Statuses :
           /\ user[u] = Rest
           /\ LET q == [Rest EXCEPT !.op = op, !.t = now,
                                    !.status = IF op = "read" THEN @ ELSE s] IN
              IF listed # None THEN Use(u, listed, q) /\ UNCHANGED listed
              ELSE \E o \in Unused :
                     /\ listed' = o
                     /\ calc' = [calc EXCEPT ![o] =
                           [Empty EXCEPT ![1] = Touch(@, 1, now - Width[1] * Limit[1])]]
                     /\ user' = [user EXCEPT ![u] = [q EXCEPT !.at = "load", !.obj = o]]
                     /\ UNCHANGED <<beats, hurt>>
           /\ mixed' = (mixed \/ \E v \in User : user[v].op = "clear")
           /\ UNCHANGED <<now, rows>>
    BY DEF Begin
  <1> DEFINE q == [Rest EXCEPT !.op = op, !.t = now, !.status = IF op = "read" THEN @ ELSE s]
  <1>2. hurt => hurt'
    <2>1. CASE listed = None  BY <1>1, <2>1
    <2>2. CASE listed # None
      <3>1. Use(u, listed, q)  BY <1>1, <2>2
      <3> HIDE DEF q
      <3> QED BY <3>1 DEF Use
    <2> QED BY <2>1, <2>2
  <1> SUFFICES ASSUME ~hurt', ~mixed' PROVE Sures'  BY DEF WindowInv
  <1>3. AllExact /\ Sures  BY <1>1, <1>2 DEF ExactInv, WindowInv
  <1>4. TypeOK  BY DEF Inv
  <1>5. now \in Nat  BY <1>4, TimeFacts
  <1>6. q \in Call /\ q.op = op
    BY <1>5, RestSound, Basics DEF Call, Rest
  <1>7. CASE listed # None
    <2>1. Use(u, listed, q) /\ listed' = listed  BY <1>1, <1>7
    <2>2. listed \in Object  BY <1>4, <1>7 DEF TypeOK
    <2>3. q.op \in {"read", "update"} /\ user[u].at # "load"  BY <1>1, <1>6, RestFields
    <2> HIDE DEF q
    <2> QED BY <1>1, <1>3, <1>6, <2>1, <2>2, <2>3, UseSure
  <1>8. CASE listed = None
    <2>1. PICK o : user' = [user EXCEPT ![u] = [q EXCEPT !.at = "load", !.obj = o]]
      <3> HIDE DEF q
      <3> QED BY <1>1, <1>8 DEF q
    <2> DEFINE r == [q EXCEPT !.at = "load", !.obj = o]
    <2>2. r.at = "load" /\ r.level = 1  BY DEF Rest
    <2>3. user'[u] = r  BY <1>4, <2>1 DEF TypeOK
    <2> HIDE DEF r
    <2>4. \A l \in Level : ~Ready(l)'
      <3>1. \A l \in Level : ~(l < 1)  BY Levels
      <3> QED BY <2>2, <2>3, <3>1 DEF Ready
    <2> QED BY <2>4 DEF Sures
  <1> QED BY <1>7, <1>8

\* A call whose calculator is loaded finds it in the list.
LEMMA AfterInitSure ==
    ASSUME Inv, MoreInv, ExactInv, WindowInv, NEW u \in User, AfterInit(u)
    PROVE  WindowInv'
  <1>1. /\ user[u].at = "loaded"
        /\ IF listed = None THEN hurt' = hurt ELSE Use(u, listed, user[u])
        /\ UNCHANGED <<now, rows, listed, mixed>>
    BY DEF AfterInit
  <1>2. hurt => hurt'
    <2>1. CASE listed = None  BY <1>1, <2>1
    <2>2. CASE listed # None  BY <1>1, <2>2 DEF Use
    <2> QED BY <2>1, <2>2
  <1> SUFFICES ASSUME ~hurt', ~mixed PROVE Sures'  BY <1>1 DEF WindowInv
  <1>3. AllExact /\ OneCalculator /\ Sures  BY <1>2 DEF ExactInv, AllExact, WindowInv
  <1>4. listed \in Object /\ listed # None  BY <1>1, <1>3, UsesListed, Basics
  <1>5. user[u] \in Call /\ Sound(user[u], calc, now)  BY DEF Inv, TypeOK, CallsSound
  <1>6. user[u].op \in {"read", "update"}  BY <1>1, <1>5 DEF Sound
  <1>7. Use(u, listed, user[u])  BY <1>1, <1>4
  <1> QED BY <1>1, <1>3, <1>4, <1>5, <1>6, <1>7, UseSure

\* Nobody loads while a call takes a bean or stores.
LEMMA BeanSure ==
    ASSUME Inv, MoreInv, ExactInv, WindowInv, NEW u \in User, Bean(u)
    PROVE  WindowInv'
  <1> DEFINE q == user[u]
             b == BeanOf(u, q)
  <1>1. /\ q.at = "bean" /\ q.obj \in Object /\ q.level \in Level /\ b \in BeanType
        /\ calc' = WithBean(q.obj, q.level, b)
        /\ UNCHANGED <<now, listed, beats, hurt, mixed>>
    BY BeanFacts
  <1> SUFFICES ASSUME ~hurt, ~mixed PROVE Sures'  BY <1>1 DEF WindowInv
  <1>2. Sures /\ OneCalculator /\ TypeOK  BY DEF ExactInv, AllExact, WindowInv, Inv
  <1>3. \A l : Ready(l)  BY <1>1, <1>2, NobodyLoads, RestFields
  <1>4. \A o \in Object : \A l \in Level : /\ calc'[o][l].data = calc[o][l].data
                                           /\ calc'[o][l].keys = calc[o][l].keys
    <2> HIDE DEF q, b
    <2> QED BY <1>1, <1>2, BeanOnly
  <1> QED BY <1>1, <1>2, <1>3, <1>4, SuresStay

\* A store changes a bean at most.
LEMMA StoreSure ==
    ASSUME Inv, MoreInv, ExactInv, WindowInv, NEW u \in User, StoreRow(u)
    PROVE  WindowInv'
  <1> DEFINE q == user[u]
             o == q.obj
             l == q.level
             b == calc[o][l].bean
  <1>1. /\ q.at = "store" /\ o \in Object /\ l \in Level /\ b \in BeanType
        /\ UNCHANGED <<now, listed, beats, mixed>>
        /\ hurt => hurt'
        /\ calc' = calc \/ calc' = WithBean(o, l, Saved(o, l))
    BY StoreFacts
  <1> SUFFICES ASSUME ~hurt', ~mixed PROVE Sures'  BY <1>1 DEF WindowInv
  <1>2. Sures /\ OneCalculator /\ TypeOK  BY <1>1 DEF ExactInv, AllExact, WindowInv, Inv
  <1>3. \A m : Ready(m)  BY <1>1, <1>2, NobodyLoads, RestFields
  <1>4. Saved(o, l) \in BeanType
    <2>1. Saved(o, l) = [key |-> b.key, saved |-> TRUE, by |-> b.by]  BY DEF Saved
    <2> HIDE DEF b
    <2> QED BY <1>1, <2>1 DEF BeanType
  <1>5. \A p \in Object : \A m \in Level : /\ calc'[p][m].data = calc[p][m].data
                                           /\ calc'[p][m].keys = calc[p][m].keys
    <2> HIDE DEF q, o, l, b
    <2>1. CASE calc' = calc  BY <2>1
    <2>2. CASE calc' = WithBean(o, l, Saved(o, l))  BY <1>1, <1>2, <1>4, <2>2, BeanOnly
    <2> QED BY <1>1, <2>1, <2>2
  <1> QED BY <1>1, <1>2, <1>3, <1>5, SuresStay

\* What a prune asks for comes after the window's buckets, and takes none of
\* their places.
LEMMA PruneSure ==
    ASSUME Inv, MoreInv, ExactInv, WindowInv, NEW u \in User, Prune(u)
    PROVE  WindowInv'
  <1> DEFINE q == user[u]
             l == q.level
             o == q.obj
             old == q.date - Width[l] * Limit[l]
             c == [calc[o] EXCEPT ![l] = Touch(@, l, old)]
  <1>1. /\ q.at = "prune" /\ o \in Object /\ l \in Level /\ q.date \in Start .. now
        /\ old \in Nat /\ q.date \in Nat
        /\ calc' = [calc EXCEPT ![o] = c]
        /\ c[l] = Touch(calc[o][l], l, old)
        /\ \A m \in Level \ {l} : c[m] = calc[o][m]
        /\ UNCHANGED <<now, listed, beats, hurt, mixed>>
    BY PruneFacts
  <1> SUFFICES ASSUME ~hurt, ~mixed PROVE Sures'  BY <1>1 DEF WindowInv
  <1>2. /\ OneCalculator /\ Recent /\ QueuesGood /\ TypeOK /\ CallsSound /\ Sures
    BY DEF ExactInv, AllExact, Inv, WindowInv
  <1>3. /\ q \in Call /\ RecentCall(q, now) /\ Sound(q, calc, now)
        /\ calc[o] \in Calculator /\ calc \in [Object -> Calculator]
    BY <1>1, <1>2 DEF TypeOK, Recent, CallsSound
  <1>4. now \in Nat /\ now >= 1 /\ now - 1 \in Nat /\ Start \in Nat /\ Start <= now
    BY <1>2, TimeFacts
  <1>5. q.date >= now - 1
    <2>1. q.t \in now - 1 .. now /\ q.date \in q.t .. now  BY <1>1, <1>3 DEF RecentCall
    <2>2. PICK n, t, d : n = now /\ t = q.t /\ d = q.date  OBVIOUS
    <2>3. n \in Nat /\ t \in n - 1 .. n /\ d \in t .. n  BY <1>4, <2>1, <2>2
    <2>4. d >= n - 1  BY <2>3
    <2> QED BY <2>2, <2>4
  <1>6. l # Day
    <2>1. l < Day  BY <1>1, <1>3 DEF Sound
    <2> HIDE DEF l
    <2> QED BY <1>1, <2>1, Levels
  <1>7. listed = o /\ listed # None  BY <1>1, <1>2, UsesListed, Basics
  <1>8. \A m : Ready(m)  BY <1>1, <1>2, NobodyLoads, RestFields
  <1>9. Key(l, old) = KeepFrom(l, q.date)  BY DEF KeepFrom
  <1>10. KeepFrom(l, q.date) \in Asked(l, Key(l, now))
    <2>1. PICK d : d = q.date  OBVIOUS
    <2>2. d \in Nat /\ Start <= d /\ d <= now /\ d >= now - 1  BY <1>1, <1>4, <1>5, <2>1
    <2> HIDE DEF l, old
    <2> DEFINE z == Width[l] * Limit[l]
               w == Width[l]
               n == Key(l, now)
               e == Key(l, d)
    <2>3. z \in Nat /\ w \in Nat /\ n \in Nat /\ e \in Nat  BY <1>1, <1>4, <2>2, Levels, KeyBounds
    <2>4. KeepFrom(l, d) = e - z /\ KeepFrom(l, d) \in Nat  BY <1>1, <2>2, KeepFromKey, KeepFromNat
    <2>5. e <= n /\ n - w <= e
      <3>1. d = now \/ d = now - 1  BY <1>4, <2>2
      <3>2. n - w <= Key(l, now - 1) /\ Key(l, now - 1) <= n  BY <1>1, <1>4, KeyBefore
      <3>3. CASE d = now  BY <2>3, <3>3
      <3>4. CASE d = now - 1  BY <3>2, <3>4
      <3> QED BY <3>1, <3>3, <3>4
    <2>6. KeepFrom(l, d) \in Begins(l)
      <3>1. d - z \in Nat  BY <1>1, <2>2, KeepFromNat
      <3> QED BY <1>1, <3>1, KeyBegins DEF KeepFrom
    <2> HIDE DEF z, w, n, e
    <2>7. n <= (e - z) + z + w /\ (e - z) + z <= n  BY <2>3, <2>5
    <2>8. KeepFrom(l, d) \in Asked(l, n)
      <3>1. PICK x : x = KeepFrom(l, d)  OBVIOUS
      <3>2. x \in Begins(l) /\ n <= x + z + w /\ x + z <= n  BY <2>4, <2>6, <2>7, <3>1
      <3>3. x \in Asked(l, n)  BY <1>6, <3>2 DEF Asked, z, w
      <3> QED BY <3>1, <3>3
    <2> QED BY <2>1, <2>8 DEF n
  <1> SUFFICES ASSUME NEW m \in Level
               PROVE  SureQueue(calc'[o][m], m, Key(m, now), beats[m])
    BY <1>1, <1>7 DEF Sures
  <1>11. calc'[o] = c  BY <1>1, <1>3
  <1>12. SureQueue(calc[o][m], m, Key(m, now), beats[m])  BY <1>2, <1>7, <1>8 DEF Sures
  <1>13. CASE m # l  BY <1>1, <1>11, <1>12, <1>13
  <1>14. CASE m = l
    <2>1. calc[o][l] \in Queue /\ Tidy(calc[o][l])
      BY <1>1, <1>2, <1>3, <1>7 DEF Calculator, QueuesGood, GoodQueue
    <2>2. Key(l, now) \in Begins(l)  BY <1>1, <1>4, KeyBegins
    <2>3. SureQueue(calc[o][l], l, Key(l, now), beats[l])  BY <1>12, <1>14
    <2>4. Key(l, old) \in Asked(l, Key(l, now))  BY <1>9, <1>10
    <2> HIDE DEF l, old, o, c
    <2>5. SureQueue(Touch(calc[o][l], l, old), l, Key(l, now), beats[l])
      BY <1>1, <2>1, <2>2, <2>3, <2>4, TouchSure
    <2> QED BY <1>1, <1>11, <1>14, <2>5
  <1> QED BY <1>13, <1>14

\* A level is loaded: it holds its window, those before it still do.
LEMMA LoadLevelSure ==
    ASSUME Inv, MoreInv, ExactInv, WindowInv, NEW u \in User, LoadLevel(u)
    PROVE  WindowInv'
  <1>0. TypeOK /\ CallsSound  BY DEF Inv
  <1> DEFINE q == user[u]
             o == q.obj
             l == q.level
             n == l + 1
             p == LoadedAll(calc[o][l], l, q.t)
             c == [calc[o] EXCEPT ![l] = p]
             d == IF l = Day THEN c
                  ELSE [c EXCEPT ![n] = Touch(@, n, q.t - Width[n] * Limit[n])]
             r == IF l = Day THEN [q EXCEPT !.at = "loaded", !.level = 1]
                  ELSE [q EXCEPT !.level = n]
             over == [NoKeys EXCEPT ![l] = Found(l, q.t)]
  <1>1. /\ q.at = "load"
        /\ calc' = [calc EXCEPT ![o] = d]
        /\ user' = [Keeping(o, d, over) EXCEPT ![u] = r]
        /\ hurt' = (hurt \/ DOMAIN calc[o][l].data # {KeepFrom(l, q.t)})
        /\ UNCHANGED <<now, rows, listed, told, events, beats, mixed>>
    BY DEF LoadLevel
  <1> SUFFICES ASSUME ~hurt', ~mixed PROVE Sures'  BY <1>1 DEF WindowInv
  <1>2. ~hurt /\ DOMAIN calc[o][l].data = {KeepFrom(l, q.t)}  BY <1>1
  <1>3. AllExact /\ OneCalculator /\ Sures  BY <1>2 DEF ExactInv, AllExact, WindowInv
  <1>4. q \in Call /\ Sound(q, calc, now)  BY <1>0 DEF TypeOK, CallsSound
  <1>5. o \in Object /\ l \in Level  BY <1>1, <1>4 DEF Sound, Call
  <1>6. listed = o /\ listed # None /\ \A v \in User \ {u} : user[v] = Rest
    BY <1>1, <1>3, UsesListed, Basics DEF OneCalculator
  <1>7. calc \in [Object -> Calculator] /\ calc[o] \in Calculator  BY <1>0, <1>5 DEF TypeOK
  <1>8. SureQueue(p, l, Key(l, now), beats[l])
    <2> HIDE DEF p, l, o
    <2> QED BY <1>1, <1>2, <1>3, <1>5, LevelSure DEF p, l, o
  <1>9. /\ r.at = "load" \/ l = Day
        /\ r.at = "load" => l # Day /\ r.level = n
    BY <1>1, <1>4 DEF Call
  <1>10. \A m \in Level : m < l => m # l /\ m # n /\ l \in Nat
    BY <1>5, Levels
  <1>11. ASSUME NEW m \in Level, m = l \/ m < l
         PROVE  d[m] = IF m = l THEN p ELSE calc[o][m]
    <2>1. c[m] = IF m = l THEN p ELSE calc[o][m]
      <3> HIDE DEF p, l, o
      <3> QED BY <1>7 DEF Calculator
    <2>2. m # n
      <3>1. l \in Nat  BY <1>5, Levels
      <3> HIDE DEF l
      <3>2. l # n  BY <3>1
      <3> QED BY <1>10, <1>11, <3>2
    <2>3. d[m] = c[m]
      <3> HIDE DEF c, n
      <3>1. CASE l = Day  BY <3>1
      <3>2. CASE l # Day
        <4>1. d = [c EXCEPT ![n] = Touch(@, n, q.t - Width[n] * Limit[n])]  BY <3>2
        <4> HIDE DEF d, q, l
        <4> QED BY <2>2, <4>1
      <3> QED BY <3>1, <3>2
    <2> QED BY <2>1, <2>3
  <1> HIDE DEF d, r, over, c, p
  <1>12. calc'[o] = d /\ user'[u] = r  BY <1>1, <1>5, <1>7 DEF Keeping
  <1> SUFFICES ASSUME NEW m \in Level, Ready(m)'
               PROVE  SureQueue(d[m], m, Key(m, now), beats[m])
    BY <1>1, <1>6, <1>12 DEF Sures
  <1>13. m = l \/ m < l
    <2>1. r.at = "load" => m < r.level  BY <1>12 DEF Ready
    <2>2. m \in Nat /\ l \in Nat /\ m <= Day  BY <1>5, Levels
    <2> HIDE DEF l
    <2>3. CASE r.at = "load"
      <3>1. m < l + 1  BY <1>9, <2>1, <2>3
      <3> QED BY <2>2, <3>1
    <2>4. CASE l = Day
      <3>1. Day \in Nat  BY Levels
      <3> QED BY <2>2, <2>4, <3>1
    <2> QED BY <1>9, <2>3, <2>4
  <1>14. CASE m = l  BY <1>8, <1>11, <1>14
  <1>15. CASE m # l
    <2>1. m < l /\ d[m] = calc[o][m]  BY <1>11, <1>13, <1>15
    <2>2. Ready(m)
      <3>1. \A v \in User : user[v].at = "load" => v = u  BY <1>6, RestFields
      <3> QED BY <2>1, <3>1 DEF Ready
    <2>3. SureQueue(calc[o][m], m, Key(m, now), beats[m])  BY <1>3, <1>6, <2>2 DEF Sures
    <2> QED BY <2>1, <2>3
  <1> QED BY <1>14, <1>15

\* Time passes: buckets leave the window, and what is new in it is nowhere yet.
LEMMA TickSure ==
    ASSUME Inv, MoreInv, ExactInv, WindowInv, Tick
    PROVE  WindowInv'
  <1>1. /\ now' = now + 1
        /\ UNCHANGED <<rows, calc, listed, user, beats, hurt, mixed>>
    BY DEF Tick
  <1> SUFFICES ASSUME ~hurt, ~mixed PROVE Sures'  BY <1>1 DEF WindowInv
  <1>2. KeysPast /\ QueuesGood /\ TypeOK /\ Sures  BY DEF ExactInv, AllExact, Inv, WindowInv
  <1>3. now \in Nat /\ now + 1 \in Nat  BY <1>2, TimeFacts
  <1> SUFFICES ASSUME listed # None, NEW l \in Level, Ready(l)
               PROVE  SureQueue(calc[listed][l], l, Key(l, now + 1), beats[l])
    BY <1>1 DEF Sures, Ready
  <1> DEFINE p == calc[listed][l]
             n == Key(l, now)
             m == Key(l, now + 1)
  <1>4. SureQueue(p, l, n, beats[l])  BY <1>2 DEF Sures
  <1>5. /\ Tidy(p)
        /\ DOMAIN p.data \subseteq Past(l, now) /\ DOMAIN beats[l] \subseteq Past(l, now)
    BY <1>2 DEF KeysPast, QueuesGood, GoodQueue
  <1>6. /\ m \in Past(l, now) => m = n
        /\ n <= m
    BY <1>3, PastFacts
  <1>7. n \in Begins(l) /\ m \in Begins(l)  BY <1>3, KeyBegins
  <1>8. m <= now + 1  BY <1>3, KeyBounds
  <1>9. \A x \in Begins(l) : x <= now => x <= n
    <2> TAKE x \in Begins(l)
    <2> HAVE x <= now
    <2>1. Width[l] \in Nat \ {0}  BY Levels
    <2>2. x \in Nat  BY <2>1 DEF Begins
    <2>3. x <= x /\ x < x + Width[l]  BY <2>1, <2>2
    <2>4. Key(l, x) = x  BY <2>2, <2>3, KeyUnique
    <2>5. Key(l, x) <= n  BY <1>3, <2>2, KeyRises
    <2> QED BY <2>4, <2>5
  <1>10. \A x \in Begins(l) : x \in Nat
    <2>1. Width[l] \in Nat \ {0}  BY Levels
    <2> QED BY <2>1 DEF Begins
  <1> HIDE DEF p, n, m
  <1>11. CASE m = n  BY <1>4, <1>11 DEF p, m
  <1>12. CASE m # n
    <2>1. m \notin DOMAIN p.data /\ m \notin DOMAIN beats[l]  BY <1>5, <1>6, <1>12
    <2>2. ASSUME NEW k \in SureKeys(l, m)
          PROVE  Trails(p, k, After(l, k, m)) /\ Held(p.data, k) = Held(beats[l], k)
      <3>1. k \in Begins(l) /\ k <= m  BY DEF SureKeys
      <3>2. CASE k = m
        <4>1. \A i \in DOMAIN p.keys : p.keys[i] # k  BY <1>5, <2>1, <3>2 DEF Tidy
        <4>2. Trails(p, k, After(l, k, m))  BY <4>1 DEF Trails
        <4>3. Held(p.data, k) = Held(beats[l], k)  BY <2>1, <3>2 DEF Held
        <4> QED BY <4>2, <4>3
      <3>3. CASE k # m
        <4>1. k <= now  BY <1>3, <1>7, <1>8, <1>10, <3>1, <3>3
        <4>2. k <= n  BY <1>9, <3>1, <4>1
        <4>3. k \in SureKeys(l, n) /\ After(l, k, n) \subseteq After(l, k, m)
          BY <1>6, <1>7, <4>2, SureBefore
        <4>4. Trails(p, k, After(l, k, n)) /\ Held(p.data, k) = Held(beats[l], k)
          BY <1>4, <4>3 DEF SureQueue
        <4> QED BY <4>3, <4>4 DEF Trails
      <3> QED BY <3>2, <3>3
    <2>3. SureQueue(p, l, m, beats[l])  BY <2>2 DEF SureQueue
    <2> QED BY <2>3 DEF p, m
  <1> QED BY <1>11, <1>12

\* A clear leaves the queues alone, until it takes the calculator off the list.
LEMMA ClearSure ==
    ASSUME Inv, WindowInv, NEW u \in User, BeginClear(u) \/ ClearTable(u)
    PROVE  WindowInv'
  <1>1. user \in [User -> Call] /\ user[u] \in Call  BY DEF Inv, TypeOK
  <1>2. CASE BeginClear(u)
    <2> DEFINE r == [Rest EXCEPT !.op = "clear", !.at = "clear"]
    <2>1. /\ user' = [user EXCEPT ![u] = r] /\ user[u] = Rest
          /\ mixed' = (mixed \/ Others(u) # {})
          /\ UNCHANGED <<now, calc, listed, beats, hurt>>
      BY <1>2 DEF BeginClear
    <2>2. user'[u] = r /\ \A v \in User \ {u} : user'[v] = user[v]  BY <1>1, <2>1
    <2>3. \A l \in Level : Ready(l)' => Ready(l)
      BY <2>1, <2>2, RestFields DEF Ready
    <2>4. ~hurt' /\ ~mixed' => ~hurt /\ ~mixed  BY <2>1
    <2>5. ASSUME Sures PROVE Sures'  BY <2>1, <2>3, <2>5, SuresStay
    <2> QED BY <2>4, <2>5 DEF WindowInv
  <1>3. CASE ClearTable(u)
    <2> DEFINE l == user[u].level
    <2>1. /\ user[u].at = "clear"
          /\ \/ l = Day /\ listed' = None
             \/ /\ l # Day /\ user' = [user EXCEPT ![u].level = l + 1]
                /\ UNCHANGED <<calc, listed, beats>>
          /\ UNCHANGED <<now, hurt, mixed>>
      BY <1>3 DEF ClearTable
    <2>2. CASE listed' = None  BY <2>1, <2>2 DEF WindowInv, Sures
    <2>3. CASE /\ user' = [user EXCEPT ![u].level = l + 1]
               /\ UNCHANGED <<calc, listed, beats>>
      <3>1. \A v \in User \ {u} : user'[v] = user[v]  BY <1>1, <2>3
      <3>2. \A m \in Level : Ready(m)' => Ready(m)  BY <2>1, <3>1 DEF Ready
      <3>3. ASSUME Sures PROVE Sures'  BY <2>1, <2>3, <3>2, <3>3, SuresStay
      <3> QED BY <2>1, <3>3 DEF WindowInv
    <2> QED BY <2>1, <2>2, <2>3
  <1> QED BY <1>2, <1>3

\* Every step keeps the window in memory.
LEMMA NextSure ==
    ASSUME Inv, MoreInv, ExactInv, WindowInv, [Next]_vars
    PROVE  WindowInv'
  <1>1. CASE Next
    <2>1. ASSUME NEW u \in User, Fail(u) PROVE WindowInv'  BY <2>1 DEF Fail, WindowInv
    <2>2. ASSUME Restart PROVE WindowInv'  BY <2>2 DEF Restart, WindowInv, Sures
    <2>3. ASSUME NEW u \in User,
                 \/ Begin(u) \/ LoadLevel(u) \/ AfterInit(u) \/ Bean(u)
                 \/ StoreRow(u) \/ Prune(u) \/ BeginClear(u) \/ ClearTable(u) \/ Fail(u)
          PROVE  WindowInv'
      BY <2>1, <2>3, BeginSure, LoadLevelSure, AfterInitSure, BeanSure, StoreSure, PruneSure,
         ClearSure
    <2> QED BY <1>1, <2>2, <2>3, TickSure DEF Next
  <1>2. CASE UNCHANGED vars
    <2>1. UNCHANGED <<now, calc, listed, user, beats, hurt, mixed>>  BY <1>2 DEF vars
    <2>2. \A l \in Level : Ready(l)' => Ready(l)  BY <2>1 DEF Ready
    <2>3. ASSUME Sures PROVE Sures'  BY <2>1, <2>2, <2>3, SuresStay
    <2> QED BY <2>1, <2>3 DEF WindowInv
  <1> QED BY <1>1, <1>2

\* Nothing is listed at first.
LEMMA InitSure == Init => WindowInv
  BY DEF Init, WindowInv, Sures

-----------------------------------------------------------------------------
(* What getData says                                                      *)

\* The buckets that getData sums up are among those of the window.
LEMMA WindowSure ==
    ASSUME Inv, NEW l \in Level, NEW num \in 1 .. Sure(l)
    PROVE  Window(l, num) \subseteq SureKeys(l, Key(l, now)) /\ IsFiniteSet(Window(l, num))
  <1> DEFINE w == Width[l]
             n == Key(l, now)
             s == Sure(l)
  <1>1. now \in Nat /\ Start <= now /\ Start \in Nat  BY Basics DEF Inv, TypeOK
  <1>2. w \in Nat \ {0} /\ s \in Nat /\ s <= Limit[l] /\ Limit[l] \in Nat
    BY Levels, SureFacts
  <1>3. n \in Nat /\ w * Limit[l] \in Nat /\ w * Limit[l] <= n
    <2>1. KeepFrom(l, now) = n - w * Limit[l] /\ KeepFrom(l, now) \in Nat
      BY <1>1, KeepFromKey, KeepFromNat
    <2>2. n \in Nat /\ w * Limit[l] \in Nat  BY <1>1, KeyBounds, Levels
    <2> HIDE DEF n, w
    <2>3. PICK z : z = w * Limit[l]  OBVIOUS
    <2>4. n - z \in Nat /\ z \in Nat  BY <2>1, <2>2, <2>3
    <2>5. z <= n  BY <2>2, <2>4
    <2> QED BY <2>2, <2>3, <2>5
  <1>4. ASSUME NEW x \in Window(l, num) PROVE x \in SureKeys(l, n) /\ x \in 0 .. n
    <2>1. PICK i \in 0 .. num - 1 : x = n - i * w  BY <1>4 DEF Window
    <2>2. i \in Nat /\ i < s /\ i <= Limit[l]  BY <1>2
    <2>3. i * w = w * i /\ w * i \in Nat
      <3> HIDE DEF w
      <3> QED BY <1>2, <2>2
    <2>4. w * i < w * s /\ w * i <= w * Limit[l] /\ w * s \in Nat
      <3> HIDE DEF w, s
      <3> QED BY <1>2, <2>2, Times
    <2>5. x = n - w * i  BY <2>1, <2>3
    <2>6. x \in Begins(l)
      <3>1. w * i <= n
        <4> HIDE DEF n
        <4>1. PICK a, b : a = w * i /\ b = w * Limit[l]  OBVIOUS
        <4>2. a \in Nat /\ b \in Nat /\ a <= b /\ b <= n  BY <1>3, <2>3, <2>4, <4>1
        <4>3. a <= n  BY <1>3, <4>2
        <4> QED BY <4>1, <4>3
      <3> QED BY <1>1, <2>2, <2>5, <3>1, KeyBegins
    <2>7. x <= n /\ n < x + w * s /\ x \in Nat
      <3>1. PICK a, b, c : a = w * i /\ b = w * Limit[l] /\ c = w * s  OBVIOUS
      <3>2. a \in Nat /\ b \in Nat /\ c \in Nat /\ a <= b /\ a < c /\ b <= n /\ x = n - a
        BY <1>3, <2>3, <2>4, <2>5, <3>1
      <3> HIDE DEF n, w, s
      <3>3. x <= n /\ n < x + c /\ x \in Nat  BY <1>3, <3>2
      <3> QED BY <3>1, <3>3
    <2> HIDE DEF n
    <2> QED BY <1>3, <2>6, <2>7 DEF SureKeys
  <1>5. IsFiniteSet(Window(l, num))
    <2>1. Window(l, num) \in SUBSET (0 .. n)  BY <1>4
    <2> HIDE DEF n
    <2>2. 0 \in Int /\ n \in Int  BY <1>3
    <2>3. IsFiniteSet(0 .. n)  BY <2>2, FS_Interval
    <2> QED BY <2>1, <2>3, FS_Subset
  <1> QED BY <1>4, <1>5

\* What getData says is what happened.
LEMMA WindowTells ==
    ASSUME Inv, ExactInv, WindowInv, Fits
    PROVE  WindowCounted
  <1>1. \A o \in Object, l \in Level :
           /\ Len(calc[o][l].keys) <= Limit[l]
           /\ DOMAIN calc[o][l].data \subseteq ToSet(calc[o][l].keys)
    BY DEF Fits, CalculatorFits, FitsIn
  <1>2. ASSUME listed # None, ~Loading(listed), ~hurt, ~mixed,
               NEW l \in Level, NEW num \in 1 .. Sure(l)
        PROVE  Tells(l, num)
    <2>1. Sures /\ OneCalculator  BY <1>2 DEF ExactInv, AllExact, WindowInv
    <2>2. Ready(l)
      <3>1. \A u \in User : user[u].at # "load"  BY <1>2, <2>1, UsesListed DEF Loading
      <3> QED BY <3>1 DEF Ready
    <2> DEFINE f == calc[listed][l].data
               g == beats[l]
               W == Window(l, num)
    <2>3. SureQueue(calc[listed][l], l, Key(l, now), g)  BY <1>2, <2>1, <2>2 DEF Sures
    <2>4. W \subseteq SureKeys(l, Key(l, now)) /\ IsFiniteSet(W)  BY <1>2, WindowSure
    <2>5. \A k \in W : Held(f, k) = Held(g, k)  BY <2>3, <2>4 DEF SureQueue
    <2>6. f \in Table /\ g \in Table  BY <1>2 DEF Inv, TypeOK, Calculator, Queue
    <2>7. Total(f, W) = Total(g, W)
      <3> HIDE DEF f, g, W
      <3> QED BY <2>4, <2>5, <2>6, TotalAgree
    <2> QED BY <2>7 DEF Tells, GetData
  <1> QED BY <1>1, <1>2 DEF WindowCounted

-----------------------------------------------------------------------------
\* What getData says of a window is what happened in it, and the queues keep to
\* their lengths (push, getKey, update, init, clear and the deletion of old rows).
THEOREM WindowIsCounted == ASSUME LongQueues PROVE Spec => []WindowCounted
  <1> DEFINE I == Inv /\ MoreInv /\ ExactInv /\ WindowInv /\ Fits
  <1>1. Init => I  BY InitInv, InitMore, InitExact, InitSure, InitFits
  <1>2. I /\ [Next]_vars => I'
    BY NextInv, NextMore, NextExact, NextSure, NextFits
  <1>3. I => WindowCounted  BY WindowTells
  <1> QED BY <1>1, <1>2, <1>3, PTL DEF Spec
=============================================================================
