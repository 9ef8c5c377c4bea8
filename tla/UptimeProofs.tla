---------------------------- MODULE UptimeProofs ----------------------------
(***************************************************************************)
(* What is proved of the statistics, whatever the widths, the limits, the  *)
(* levels, the calls and what the tables hold at first: the types of the   *)
(* state and where the calls are (Inv), and that no row ever says more     *)
(* than there was (NeverMore).                                             *)
(*                                                                         *)
(* The second needs more than the rows: what the queues hold, what a call  *)
(* has kept of a bucket that was pushed out, and what it is about to store *)
(* are under the beats as well (AllUnder), and a clear is alone unless     *)
(* mixed says otherwise.                                                   *)
(*                                                                         *)
(* And two results that TablesProofs needs: the queues keep to their       *)
(* lengths (Fits), and what a total, a fold over buckets, depends on.      *)
(***************************************************************************)
EXTENDS UptimeCalculator, FiniteSetTheorems, WellFoundedInduction, TLAPS

(* Types                                                                   *)

Table == UNION {[K -> Counts] : K \in SUBSET Nat}
BeanType == [key : Nat, saved : BOOLEAN, by : User \cup {None}]
Queue == [keys : Seq(Nat), data : Table, last : Counts, bean : BeanType]
Call == [op : {"none", "update", "read", "clear"},
         at : {"none", "load", "loaded", "bean", "store", "prune", "clear"},
         obj : Object \cup {None},
         status : {"up", "down", "pending", "maintenance"},
         t : Nat, level : Level, frozen : [Level -> Counts \cup {None}],
         bean : User \cup {None}, insert : BOOLEAN, write : Counts, date : Nat]

\* A table is a function from numbers to counts.
LEMMA TableByValue ==
    ASSUME NEW f
    PROVE  f \in Table <=> f \in [DOMAIN f -> Counts] /\ DOMAIN f \subseteq Nat
  <1>1. ASSUME f \in Table PROVE f \in [DOMAIN f -> Counts] /\ DOMAIN f \subseteq Nat
    <2>1. PICK K \in SUBSET Nat : f \in [K -> Counts]  BY <1>1 DEF Table
    <2> QED BY <2>1
  <1>2. ASSUME f \in [DOMAIN f -> Counts], DOMAIN f \subseteq Nat PROVE f \in Table
    BY <1>2 DEF Table
  <1> QED BY <1>1, <1>2

\* The assumptions of no level, as the proofs use them.
LEMMA Basics ==
    /\ Start \in Nat /\ End \in Nat
    /\ None \notin Object /\ None \notin Counts
    /\ Statuses \subseteq {"up", "down", "pending", "maintenance"}
  BY UptimeAssumption

\* The assumptions, as the proofs use them.
LEMMA Levels ==
    /\ Day \in Nat /\ Day >= 2 /\ Level = 1 .. Day /\ 1 \in Level /\ Day \in Level
    /\ \A l \in Level : /\ l \in Nat /\ Width[l] \in Nat \ {0} /\ Limit[l] \in Nat \ {0}
                        /\ Width[l] * Limit[l] \in Nat /\ Width[l] * Limit[l] <= Start
                        /\ Width[l] <= Width[l] * Limit[l]
  <1> USE UptimeAssumption DEF Day, Level
  <1>1. Day \in Nat /\ Day >= 2 /\ Level = 1 .. Day /\ 1 \in Level /\ Day \in Level
    OBVIOUS
  <1>2. ASSUME NEW l \in Level
        PROVE  l \in Nat /\ Width[l] \in Nat \ {0} /\ Limit[l] \in Nat \ {0}
    BY <1>2
  <1>3. \A w, n \in Nat \ {0} : w * n \in Nat /\ w <= w * n
    OBVIOUS
  <1> QED BY <1>1, <1>2, <1>3

\* A bucket begins less than its width before the times in it.
LEMMA KeyBounds ==
    ASSUME NEW l \in Level, NEW t \in Nat
    PROVE  Key(l, t) \in Nat /\ Key(l, t) <= t /\ t < Key(l, t) + Width[l]
  <1>1. Width[l] \in Nat \ {0}  BY Levels
  <1>2. t % Width[l] \in 0 .. Width[l] - 1 /\ t % Width[l] <= t
    BY <1>1
  <1> QED BY <1>1, <1>2 DEF Key

-----------------------------------------------------------------------------
(* Queues                                                                  *)

\* push: the new bucket is in, unless it is at once shifted out; the others
\* stay as they are.
LEMMA PushFacts ==
    ASSUME NEW q \in Queue, NEW limit \in Nat \ {0}, NEW k \in Nat, NEW v \in Counts
    PROVE  /\ Push(q, limit, k, v) \in Queue
           /\ Push(q, limit, k, v).last = q.last
           /\ Push(q, limit, k, v).bean = q.bean
           /\ DOMAIN Push(q, limit, k, v).data \subseteq DOMAIN q.data \cup {k}
           /\ \A x \in DOMAIN Push(q, limit, k, v).data :
                 Push(q, limit, k, v).data[x] = IF x = k THEN v ELSE q.data[x]
  <1> DEFINE keys == Append(q.keys, k)
             data == With(q.data, k, v)
             rest == Only(data, DOMAIN data \ {Head(keys)})
  <1>1. q.keys \in Seq(Nat) /\ q.data \in Table  BY DEF Queue
  <1>2. keys \in Seq(Nat) /\ Len(keys) = Len(q.keys) + 1 /\ Tail(keys) \in Seq(Nat)
    BY <1>1
  <1>3. q.data \in [DOMAIN q.data -> Counts] /\ DOMAIN q.data \subseteq Nat
    BY <1>1, TableByValue
  <1>4. /\ DOMAIN data = DOMAIN q.data \cup {k}
        /\ \A x \in DOMAIN data : data[x] = IF x = k THEN v ELSE q.data[x]
        /\ data \in [DOMAIN data -> Counts]
    BY <1>3 DEF With
  <1>5. /\ DOMAIN rest \subseteq DOMAIN data
        /\ \A x \in DOMAIN rest : rest[x] = data[x]
        /\ rest \in [DOMAIN rest -> Counts]
    BY <1>4 DEF Only
  <1>6. data \in Table /\ rest \in Table
    <2> HIDE DEF data, rest
    <2> QED BY <1>3, <1>4, <1>5, TableByValue
  <1>7. Push(q, limit, k, v) = IF Len(keys) <= limit THEN [q EXCEPT !.keys = keys, !.data = data]
                               ELSE [q EXCEPT !.keys = Tail(keys), !.data = rest]
    BY DEF Push
  <1> HIDE DEF keys, data, rest
  <1>8. CASE Len(keys) <= limit
    <2>1. Push(q, limit, k, v) = [q EXCEPT !.keys = keys, !.data = data]  BY <1>7, <1>8
    <2> QED BY <2>1, <1>2, <1>4, <1>6 DEF Queue
  <1>9. CASE ~(Len(keys) <= limit)
    <2>1. Push(q, limit, k, v) = [q EXCEPT !.keys = Tail(keys), !.data = rest]  BY <1>7, <1>9
    <2> QED BY <2>1, <1>2, <1>4, <1>5, <1>6 DEF Queue
  <1> QED BY <1>8, <1>9

\* The bucket of x, empty if there is none.
Held(f, x) == IF x \in DOMAIN f THEN f[x] ELSE Zero

\* getMinutelyKey and its like: what is there stays, or is shifted out.
LEMMA TouchFacts ==
    ASSUME NEW q \in Queue, NEW l \in Level, NEW t \in Nat
    PROVE  /\ Touch(q, l, t) \in Queue
           /\ Touch(q, l, t).last = q.last /\ Touch(q, l, t).bean = q.bean
           /\ DOMAIN Touch(q, l, t).data \subseteq DOMAIN q.data \cup {Key(l, t)}
           /\ \A x \in DOMAIN Touch(q, l, t).data :
                 Touch(q, l, t).data[x] = Held(q.data, x)
  <1>1. Limit[l] \in Nat \ {0} /\ Key(l, t) \in Nat  BY Levels, KeyBounds
  <1>2. Zero \in Counts  BY DEF Zero, Counts
  <1>3. CASE Key(l, t) \in DOMAIN q.data
    BY <1>3 DEF Touch, Held
  <1>4. CASE Key(l, t) \notin DOMAIN q.data
    <2>1. Touch(q, l, t) = Push(q, Limit[l], Key(l, t), Zero)  BY <1>4 DEF Touch
    <2>2. \A x \in DOMAIN Touch(q, l, t).data :
             Touch(q, l, t).data[x] = IF x = Key(l, t) THEN Zero ELSE q.data[x]
      BY <2>1, <1>1, <1>2, PushFacts
    <2>3. DOMAIN Touch(q, l, t).data \subseteq DOMAIN q.data \cup {Key(l, t)}
      BY <2>1, <1>1, <1>2, PushFacts
    <2>4. \A x \in DOMAIN Touch(q, l, t).data : Touch(q, l, t).data[x] = Held(q.data, x)
      BY <2>2, <2>3, <1>4 DEF Held
    <2> QED BY <2>1, <2>3, <2>4, <1>1, <1>2, PushFacts
  <1> QED BY <1>3, <1>4

Status == {"up", "down", "pending", "maintenance"}
Inc(c, s) == [c EXCEPT ![Flat(s)] = @ + 1]

\* One beat more in a bucket.
LEMMA IncFacts ==
    ASSUME NEW c \in Counts, NEW d \in Counts, NEW s \in Status
    PROVE  /\ Inc(c, s) \in Counts
           /\ AtMost(c, d) => AtMost(Inc(c, s), Inc(d, s)) /\ AtMost(c, Inc(d, s))
  <1>1. /\ c = [up |-> c.up, down |-> c.down, maintenance |-> c.maintenance]
        /\ c.up \in Nat /\ c.down \in Nat /\ c.maintenance \in Nat
        /\ d = [up |-> d.up, down |-> d.down, maintenance |-> d.maintenance]
        /\ d.up \in Nat /\ d.down \in Nat /\ d.maintenance \in Nat
    BY DEF Counts
  <1>2. Flat(s) \in {"up", "down", "maintenance"}  BY DEF Flat, Status
  <1>3. /\ DOMAIN c = {"up", "down", "maintenance"}
        /\ DOMAIN Inc(c, s) = {"up", "down", "maintenance"}
    BY <1>1 DEF Inc
  <1>4. \A f \in {"up", "down", "maintenance"} :
            /\ Inc(c, s)[f] = IF f = Flat(s) THEN c[f] + 1 ELSE c[f]
            /\ Inc(d, s)[f] = IF f = Flat(s) THEN d[f] + 1 ELSE d[f]
            /\ c[f] \in Nat /\ d[f] \in Nat
    BY <1>1, <1>2 DEF Inc
  <1>5. Inc(c, s) \in Counts
    BY <1>1, <1>2 DEF Inc, Counts
  <1>6. ASSUME AtMost(c, d)
        PROVE  AtMost(Inc(c, s), Inc(d, s)) /\ AtMost(c, Inc(d, s))
    BY <1>3, <1>4, <1>6 DEF AtMost
  <1> QED BY <1>5, <1>6

\* AtMost is an order, and nothing is less than zero.
LEMMA AtMostOrder ==
    /\ \A c \in Counts : AtMost(Zero, c) /\ AtMost(c, c)
    /\ \A c, d, e \in Counts : AtMost(c, d) /\ AtMost(d, e) => AtMost(c, e)
    /\ \A c, d \in Counts : AtMost(c, d) /\ AtMost(d, c) => c = d
    /\ Zero \in Counts /\ None \notin Counts
  <1>1. \A c \in Counts : /\ c = [up |-> c.up, down |-> c.down, maintenance |-> c.maintenance]
                          /\ c.up \in Nat /\ c.down \in Nat /\ c.maintenance \in Nat
    BY DEF Counts
  <1>2. \A c, d \in Counts : AtMost(c, d) <=> /\ c.up <= d.up /\ c.down <= d.down
                                              /\ c.maintenance <= d.maintenance
    <2>1. \A c \in Counts : /\ DOMAIN c = {"up", "down", "maintenance"}
                            /\ c["up"] = c.up /\ c["down"] = c.down
                            /\ c["maintenance"] = c.maintenance
      BY DEF Counts
    <2> QED BY <2>1 DEF AtMost
  <1>3. Zero \in Counts /\ Zero.up = 0 /\ Zero.down = 0 /\ Zero.maintenance = 0
    BY DEF Zero, Counts
  <1>4. \A c \in Counts : AtMost(Zero, c) /\ AtMost(c, c)  BY <1>1, <1>2, <1>3
  <1>5. \A c, d, e \in Counts : AtMost(c, d) /\ AtMost(d, e) => AtMost(c, e)
    BY <1>1, <1>2
  <1>6. \A c, d \in Counts : AtMost(c, d) /\ AtMost(d, c) => c = d
    <2> TAKE c, d \in Counts
    <2> HAVE AtMost(c, d) /\ AtMost(d, c)
    <2>1. c.up = d.up /\ c.down = d.down /\ c.maintenance = d.maintenance  BY <1>1, <1>2
    <2> QED BY <1>1, <2>1
  <1> QED BY <1>3, <1>4, <1>5, <1>6, Basics

Calculator == [Level -> Queue]

\* getKey on every level.
LEMMA TouchedFacts ==
    ASSUME NEW c \in Calculator, NEW t \in Nat
    PROVE  /\ Touched(c, t) \in Calculator
           /\ \A l \in Level : Touched(c, t)[l] = Touch(c[l], l, t)
  <1>1. \A l \in Level : c[l] \in Queue  BY DEF Calculator
  <1>2. \A l \in Level : Touch(c[l], l, t) \in Queue  BY <1>1, TouchFacts
  <1> QED BY <1>2 DEF Touched, Calculator

\* A beat counted on one level.
LEMMA CountedOneFacts ==
    ASSUME NEW q \in Queue, NEW l \in Level, NEW s \in Status, NEW t \in Nat,
           Key(l, t) \in DOMAIN Touch(q, l, t).data
    PROVE  /\ CountedOne(q, l, s, t) \in Queue
           /\ CountedOne(q, l, s, t).bean = q.bean
           /\ CountedOne(q, l, s, t).keys = Touch(q, l, t).keys
           /\ DOMAIN CountedOne(q, l, s, t).data = DOMAIN Touch(q, l, t).data
           /\ \A x \in DOMAIN CountedOne(q, l, s, t).data :
                 CountedOne(q, l, s, t).data[x] =
                    IF x = Key(l, t) THEN Inc(Held(q.data, x), s) ELSE Held(q.data, x)
  <1> DEFINE r == Touch(q, l, t)
             k == Key(l, t)
             c == Inc(r.data[k], s)
             data == [r.data EXCEPT ![k] = c]
  <1>1. /\ r \in Queue /\ r.bean = q.bean
        /\ \A x \in DOMAIN r.data : r.data[x] = Held(q.data, x)
    BY TouchFacts
  <1>2. r.data \in [DOMAIN r.data -> Counts] /\ DOMAIN r.data \subseteq Nat
    <2> HIDE DEF r
    <2>1. r.data \in Table  BY <1>1 DEF Queue
    <2> QED BY <2>1, TableByValue
  <1>3. c \in Counts
    <2>1. r.data[k] \in Counts  BY <1>2
    <2> QED BY <2>1, IncFacts
  <1>4. CountedOne(q, l, s, t) = [r EXCEPT !.data = data, !.last = c]
    <2>1. CountedOne(q, l, s, t) = [r EXCEPT !.data[k] = c, !.last = c]
      BY DEF CountedOne, Inc
    <2> HIDE DEF r, k, c
    <2> QED BY <2>1, <1>1 DEF Queue
  <1>5. k \in DOMAIN r.data  OBVIOUS
  <1>6. c = Inc(Held(q.data, k), s)  BY <1>1, <1>5
  <1> HIDE DEF r, k, c
  <1>7. data \in [DOMAIN r.data -> Counts] /\ DOMAIN data = DOMAIN r.data
    BY <1>2, <1>3
  <1>8. \A x \in DOMAIN data : data[x] = IF x = k THEN c ELSE r.data[x]
    BY <1>2, <1>5
  <1> HIDE DEF data
  <1>9. data \in Table  BY <1>2, <1>7, TableByValue
  <1>10. /\ CountedOne(q, l, s, t) \in Queue
         /\ CountedOne(q, l, s, t).bean = r.bean
         /\ CountedOne(q, l, s, t).keys = r.keys
         /\ CountedOne(q, l, s, t).data = data
    BY <1>1, <1>3, <1>4, <1>9 DEF Queue
  <1>11. \A x \in DOMAIN data : data[x] = IF x = k THEN Inc(Held(q.data, x), s)
                                          ELSE Held(q.data, x)
    BY <1>1, <1>6, <1>7, <1>8
  <1> QED BY <1>1, <1>7, <1>10, <1>11 DEF r, k

\* A beat counted: on every level, or up to the first whose bucket is lost.
LEMMA CountedFacts ==
    ASSUME NEW c \in Calculator, NEW s \in Status, NEW t \in Nat
    PROVE  /\ Counted(c, s, t) \in Calculator
           /\ \A l \in Level :
                 /\ Counted(c, s, t)[l].bean = c[l].bean
                 /\ DOMAIN Counted(c, s, t)[l].data = DOMAIN Touch(c[l], l, t).data
                 /\ \A x \in DOMAIN Counted(c, s, t)[l].data :
                       \/ Counted(c, s, t)[l].data[x] = Held(c[l].data, x)
                       \/ /\ x = Key(l, t)
                          /\ Counted(c, s, t)[l].data[x] = Inc(Held(c[l].data, x), s)
           /\ Broken(c, t) = {} =>
                 \A l \in Level : /\ Key(l, t) \in DOMAIN Touch(c[l], l, t).data
                                  /\ Counted(c, s, t)[l] = CountedOne(c[l], l, s, t)
  <1>1. \A l \in Level : c[l] \in Queue  BY DEF Calculator
  <1>2. \A l \in Level : Touched(c, t)[l] = Touch(c[l], l, t)  BY TouchedFacts
  <1>3. Counted(c, s, t) = [l \in Level |-> Counted(c, s, t)[l]]  BY DEF Counted
  <1>4. ASSUME NEW l \in Level
        PROVE  /\ Counted(c, s, t)[l] \in Queue
               /\ Counted(c, s, t)[l].bean = c[l].bean
               /\ DOMAIN Counted(c, s, t)[l].data = DOMAIN Touch(c[l], l, t).data
               /\ \A x \in DOMAIN Counted(c, s, t)[l].data :
                     \/ Counted(c, s, t)[l].data[x] = Held(c[l].data, x)
                     \/ /\ x = Key(l, t)
                        /\ Counted(c, s, t)[l].data[x] = Inc(Held(c[l].data, x), s)
               /\ Broken(c, t) = {} =>
                     /\ Key(l, t) \in DOMAIN Touch(c[l], l, t).data
                     /\ Counted(c, s, t)[l] = CountedOne(c[l], l, s, t)
    <2>1. c[l] \in Queue  BY <1>1
    <2>2. CASE \E m \in Broken(c, t) : m <= l
      <3>1. Counted(c, s, t)[l] = Touch(c[l], l, t)  BY <2>2, <1>2 DEF Counted
      <3> QED BY <3>1, <2>1, <2>2, TouchFacts
    <2>3. CASE ~(\E m \in Broken(c, t) : m <= l)
      <3>1. l \notin Broken(c, t)  BY <2>3, Levels
      <3>2. Key(l, t) \in DOMAIN Touch(c[l], l, t).data  BY <3>1, <1>2 DEF Broken
      <3> DEFINE d == CountedOne(c[l], l, s, t)
      <3>3. d \in Queue /\ d.bean = c[l].bean
        BY <3>2, <2>1, CountedOneFacts
      <3>4. DOMAIN d.data = DOMAIN Touch(c[l], l, t).data
        BY <3>2, <2>1, CountedOneFacts
      <3>5. \A x \in DOMAIN d.data :
               d.data[x] = IF x = Key(l, t) THEN Inc(Held(c[l].data, x), s)
                           ELSE Held(c[l].data, x)
        BY <3>2, <2>1, CountedOneFacts
      <3>6. \/ Counted(c, s, t)[l] = d
            \/ Broken(c, t) # {} /\ Counted(c, s, t)[l] = [d EXCEPT !.last = c[l].last]
        BY <2>3 DEF Counted
      <3>7. Broken(c, t) = {} => Counted(c, s, t)[l] = d
        BY DEF Counted
      <3> HIDE DEF d
      <3>8. /\ Counted(c, s, t)[l] \in Queue /\ Counted(c, s, t)[l].bean = d.bean
            /\ Counted(c, s, t)[l].data = d.data
        BY <3>3, <3>6, <2>1 DEF Queue
      <3> QED BY <3>2, <3>3, <3>4, <3>5, <3>7, <3>8 DEF d
    <2> QED BY <2>2, <2>3
  <1>5. \A l \in Level : Counted(c, s, t)[l] \in Queue  BY <1>4
  <1>6. Counted(c, s, t) \in Calculator  BY <1>3, <1>5 DEF Calculator
  <1> QED BY <1>4, <1>6

\* A set of numbers that is not empty has a least one.
LEMMA LeastNat ==
    ASSUME NEW T \in SUBSET Nat, T # {}
    PROVE  \E x \in T : \A y \in T : x <= y
  <1> DEFINE R == StrictSubsetOrdering(Nat)
             S == FiniteSubsetsOf(Nat)
             U == {0 .. n : n \in T}
  <1>1. IsWellFoundedOn(R, S)  BY FS_StrictSubsetOrderingWellFounded
  <1>2. U \subseteq S
    <2> SUFFICES ASSUME NEW n \in T  PROVE 0 .. n \in S
      OBVIOUS
    <2>1. IsFiniteSet(0 .. n)  BY FS_Interval
    <2> QED BY <2>1 DEF FiniteSubsetsOf
  <1>3. \A x, y \in T : y < x => <<0 .. y, 0 .. x>> \in R
    <2> SUFFICES ASSUME NEW x \in T, NEW y \in T, y < x
                 PROVE  <<0 .. y, 0 .. x>> \in R
      OBVIOUS
    <2>1. 0 .. y \subseteq 0 .. x /\ x \in 0 .. x /\ x \notin 0 .. y
      OBVIOUS
    <2>2. 0 .. x \subseteq Nat /\ 0 .. y \subseteq Nat
      OBVIOUS
    <2> QED BY <2>1, <2>2 DEF StrictSubsetOrdering
  <1>4. U # {}  OBVIOUS
  <1> HIDE DEF R, S
  <1>5. PICK u \in U : \A v \in U : ~ (<<v, u>> \in R)
    <2> HIDE DEF U
    <2> QED BY <1>1, <1>2, <1>4, WFMin
  <1>6. PICK x \in T : u = 0 .. x  BY <1>5
  <1>7. \A y \in T : ~ (y < x)  BY <1>3, <1>5, <1>6
  <1>8. \A y \in T : x <= y  BY <1>7
  <1> QED BY <1>8

-----------------------------------------------------------------------------
(* Loading, row after row                                                  *)

\* What the row of k, if there is one, makes of the queue r.
Row(l, t, k, r) ==
    IF k \in Found(l, t) THEN Loaded(r, Limit[l], k, rows[l][k]) ELSE r

\* The queues after the rows up to n, when q was there before.
Trace(g, q, l, t, n) ==
    /\ g = [k \in 0 .. n |-> g[k]] /\ g[0] = q
    /\ \A k \in 1 .. n : g[k] = Row(l, t, k, g[k - 1])

\* There are such queues, for as many rows as one likes.
LEMMA TracesExist ==
    ASSUME NEW q, NEW l, NEW t, NEW n \in Nat
    PROVE  \E g : Trace(g, q, l, t, n)
  <1> DEFINE S == {m \in Nat : ~(\E g : Trace(g, q, l, t, m))}
  <1>1. SUFFICES ASSUME n \in S PROVE FALSE  OBVIOUS
  <1>2. PICK m \in S : \A k \in S : m <= k
    <2>1. S \in SUBSET Nat /\ S # {}  BY <1>1
    <2> HIDE DEF S
    <2> QED BY <2>1, LeastNat
  <1>3. CASE m = 0
    <2>1. Trace([k \in 0 .. 0 |-> q], q, l, t, 0)  BY DEF Trace
    <2> QED BY <2>1, <1>3, <1>2
  <1>4. CASE m # 0
    <2>1. m \in Nat /\ m - 1 \in Nat /\ m - 1 \notin S  BY <1>2, <1>4
    <2>2. PICK g : Trace(g, q, l, t, m - 1)  BY <2>1
    <2> DEFINE h == [k \in 0 .. m |-> IF k = m THEN Row(l, t, m, g[m - 1]) ELSE g[k]]
    <2>3. h = [k \in 0 .. m |-> h[k]] /\ h[0] = g[0] /\ h[m] = Row(l, t, m, g[m - 1])
      BY <2>1, <1>4
    <2>4. \A k \in 0 .. m - 1 : h[k] = g[k]  BY <2>1
    <2>5. \A k \in 1 .. m - 1 : g[k] = Row(l, t, k, g[k - 1])  BY <2>2 DEF Trace
    <2>6. g[0] = q  BY <2>2 DEF Trace
    <2> HIDE DEF h
    <2>7. ASSUME NEW k \in 1 .. m PROVE h[k] = Row(l, t, k, h[k - 1])
      <3>1. CASE k = m
        <4>1. h[m - 1] = g[m - 1]  BY <2>1, <2>4
        <4> QED BY <3>1, <4>1, <2>3
      <3>2. CASE k # m
        <4>1. k \in 1 .. m - 1 /\ k - 1 \in 0 .. m - 1 /\ k \in 0 .. m - 1  BY <3>2, <2>1
        <4> QED BY <4>1, <2>4, <2>5
      <3> QED BY <3>1, <3>2
    <2>8. Trace(h, q, l, t, m)  BY <2>3, <2>6, <2>7 DEF Trace
    <2> QED BY <2>8, <1>2
  <1> QED BY <1>3, <1>4

\* init goes through them.
LEMMA LoadedAllTrace ==
    ASSUME NEW q, NEW l, NEW t, now \in Nat
    PROVE  \E g : Trace(g, q, l, t, now) /\ LoadedAll(q, l, t) = g[now]
  <1> DEFINE F(f) == [k \in 0 .. now |->
                        IF k = 0 THEN q
                        ELSE IF k \in Found(l, t)
                             THEN Loaded(f[k - 1], Limit[l], k, rows[l][k])
                             ELSE f[k - 1]]
             c == CHOOSE f : f = F(f)
  <1>1. PICK g : Trace(g, q, l, t, now)  BY TracesExist
  <1>2. g = F(g)
    <2>1. g = [k \in 0 .. now |-> g[k]]  BY <1>1 DEF Trace
    <2>2. \A k \in 0 .. now : g[k] = IF k = 0 THEN q ELSE Row(l, t, k, g[k - 1])
      BY <1>1 DEF Trace
    <2>3. [k \in 0 .. now |-> g[k]] = [k \in 0 .. now |-> IF k = 0 THEN q ELSE Row(l, t, k, g[k - 1])]
      BY <2>2
    <2> QED BY <2>1, <2>3 DEF Row
  <1>3. c = F(c)
    <2> HIDE DEF F
    <2> QED BY <1>2
  <1>4. LoadedAll(q, l, t) = c[now]  BY DEF LoadedAll
  <1> HIDE DEF c
  <1>5. Trace(c, q, l, t, now)
    <2>1. c = [k \in 0 .. now |-> c[k]]  BY <1>3
    <2>2. \A k \in 0 .. now : c[k] = IF k = 0 THEN q ELSE Row(l, t, k, c[k - 1])
      BY <1>3 DEF Row
    <2>3. 0 \in 0 .. now /\ \A k \in 1 .. now : k \in 0 .. now /\ k # 0  OBVIOUS
    <2> QED BY <2>1, <2>2, <2>3 DEF Trace
  <1> QED BY <1>4, <1>5

\* What a queue holds once the rows up to n are pushed onto q.
HoldsRows(r, q, l, t, n) ==
    /\ r \in Queue /\ r.last = q.last /\ r.bean = q.bean
    /\ \A x \in DOMAIN r.data :
          IF x \in Found(l, t) /\ x <= n THEN r.data[x] = rows[l][x]
          ELSE x \in DOMAIN q.data /\ r.data[x] = q.data[x]

\* Of each bucket the row that was found, or what was there before.
LEMMA LoadedFacts ==
    ASSUME NEW q \in Queue, NEW l \in Level, NEW t, KeepFrom(l, t) \in Nat,
           now \in Nat, rows[l] \in Table, NEW g, Trace(g, q, l, t, now), NEW n \in 0 .. now
    PROVE  HoldsRows(g[n], q, l, t, n)
  <1> DEFINE S == {k \in 0 .. now : ~HoldsRows(g[k], q, l, t, k)}
  <1>0. /\ Found(l, t) \subseteq DOMAIN rows[l] /\ DOMAIN rows[l] \subseteq Nat
        /\ \A k \in Found(l, t) : rows[l][k] \in Counts
        /\ DOMAIN q.data \subseteq Nat
    <2>1. q.data \in Table  BY DEF Queue
    <2> QED BY <2>1, TableByValue DEF Found
  <1>1. SUFFICES ASSUME n \in S PROVE FALSE  OBVIOUS
  <1>2. PICK m \in S : \A k \in S : m <= k
    <2>1. S \in SUBSET Nat /\ S # {}  BY <1>1
    <2> HIDE DEF S
    <2> QED BY <2>1, LeastNat
  <1>3. m \in 0 .. now /\ ~HoldsRows(g[m], q, l, t, m)  BY <1>2
  <1>4. CASE m = 0
    <2>1. g[0] = q  BY DEF Trace
    <2>2. \A x \in Found(l, t) : x > KeepFrom(l, t) /\ x \in Nat
      BY <1>0 DEF Found
    <2>3. \A x \in Found(l, t) : ~(x <= 0)  BY <2>2
    <2> QED BY <1>3, <1>4, <2>1, <2>3 DEF HoldsRows
  <1>5. CASE m # 0
    <2>1. m \in Nat /\ m - 1 \in 0 .. now /\ m \in 1 .. now /\ m - 1 \notin S
      BY <1>2, <1>5
    <2>2. HoldsRows(g[m - 1], q, l, t, m - 1)  BY <2>1
    <2>3. g[m] = Row(l, t, m, g[m - 1])  BY <2>1 DEF Trace
    <2>4. CASE m \notin Found(l, t)
      <3>1. g[m] = g[m - 1]  BY <2>3, <2>4 DEF Row
      <3>2. \A x \in Nat : x \in Found(l, t) => (x <= m <=> x <= m - 1)
        BY <2>1, <2>4
      <3>3. \A x \in DOMAIN g[m].data : x \in Nat
        <4>1. g[m].data \in Table  BY <2>2, <3>1 DEF HoldsRows, Queue
        <4> QED BY <4>1, TableByValue
      <3> QED BY <1>3, <2>2, <3>1, <3>2, <3>3 DEF HoldsRows
    <2>5. CASE m \in Found(l, t)
      <3>1. g[m] = Push(g[m - 1], Limit[l], m, rows[l][m])
        BY <2>3, <2>5 DEF Row, Loaded
      <3> DEFINE p == g[m - 1]
      <3>2. p \in Queue /\ p.last = q.last /\ p.bean = q.bean  BY <2>2 DEF HoldsRows
      <3>3. Limit[l] \in Nat \ {0} /\ rows[l][m] \in Counts  BY <1>0, <2>5, Levels
      <3>4. /\ g[m] \in Queue /\ g[m].last = p.last /\ g[m].bean = p.bean
            /\ DOMAIN g[m].data \subseteq DOMAIN p.data \cup {m}
            /\ \A x \in DOMAIN g[m].data :
                  g[m].data[x] = IF x = m THEN rows[l][m] ELSE p.data[x]
        <4> DEFINE v == rows[l][m]
                   limit == Limit[l]
        <4>1. g[m] = Push(p, limit, m, v) /\ m \in Nat  BY <2>1, <3>1
        <4>2. p \in Queue /\ limit \in Nat \ {0} /\ v \in Counts  BY <3>2, <3>3
        <4> HIDE DEF p, v, limit
        <4>3. /\ Push(p, limit, m, v) \in Queue
              /\ Push(p, limit, m, v).last = p.last
              /\ Push(p, limit, m, v).bean = p.bean
              /\ DOMAIN Push(p, limit, m, v).data \subseteq DOMAIN p.data \cup {m}
              /\ \A x \in DOMAIN Push(p, limit, m, v).data :
                    Push(p, limit, m, v).data[x] = IF x = m THEN v ELSE p.data[x]
          BY <4>1, <4>2, PushFacts
        <4> QED BY <4>1, <4>3 DEF v
      <3>5. ASSUME NEW x \in DOMAIN g[m].data
            PROVE  IF x \in Found(l, t) /\ x <= m THEN g[m].data[x] = rows[l][x]
                   ELSE x \in DOMAIN q.data /\ g[m].data[x] = q.data[x]
        <4>1. CASE x = m  BY <2>1, <2>5, <3>4, <4>1
        <4>2. CASE x # m
          <5>1. x \in DOMAIN p.data /\ g[m].data[x] = p.data[x]  BY <3>4, <4>2
          <5>2. IF x \in Found(l, t) /\ x <= m - 1 THEN p.data[x] = rows[l][x]
                ELSE x \in DOMAIN q.data /\ p.data[x] = q.data[x]
            BY <2>2, <5>1 DEF HoldsRows
          <5>3. x \in Nat
            <6>1. g[m].data \in Table  BY <3>4 DEF Queue
            <6> QED BY <6>1, TableByValue
          <5>4. x <= m <=> x <= m - 1  BY <2>1, <4>2, <5>3
          <5> QED BY <5>1, <5>2, <5>4
        <4> QED BY <4>1, <4>2
      <3>6. HoldsRows(g[m], q, l, t, m)  BY <3>2, <3>4, <3>5 DEF HoldsRows
      <3> QED BY <1>3, <3>6
    <2> QED BY <2>4, <2>5
  <1> QED BY <1>4, <1>5

\* The same for init, from its first row to its last.
LEMMA LoadedAllFacts ==
    ASSUME NEW q \in Queue, NEW l \in Level, NEW t, KeepFrom(l, t) \in Nat,
           now \in Nat, rows[l] \in Table
    PROVE  HoldsRows(LoadedAll(q, l, t), q, l, t, now)
  <1>1. PICK g : Trace(g, q, l, t, now) /\ LoadedAll(q, l, t) = g[now]
    BY LoadedAllTrace
  <1>2. now \in 0 .. now  OBVIOUS
  <1> QED BY <1>1, <1>2, LoadedFacts

-----------------------------------------------------------------------------
(* Types of the state, and what a call has in hand                         *)

TypeOK ==
    /\ now \in Nat /\ Start <= now
    /\ rows \in [Level -> Table] /\ beats \in [Level -> Table]
    /\ calc \in [Object -> Calculator]
    /\ listed \in Object \cup {None}
    /\ user \in [User -> Call]
    /\ told \in Nat /\ events \in Nat
    /\ hurt \in BOOLEAN /\ mixed \in BOOLEAN

\* A bucket in hand is in the queue, or the call has kept it.
Has(q, c) == \A l \in InHand(q) :
                q.frozen[l] # None \/ Key(l, q.t) \in DOMAIN c[l].data

\* Where a call is goes with what it is, whose calculator it uses, and since
\* when; cs are the calculators, n is the time.
Sound(q, cs, n) ==
    /\ q.at = "none" => q = Rest
    /\ q.at = "clear" <=> q.op = "clear"
    /\ q.at \in {"none", "clear"} => q.obj = None
    /\ q.at \notin {"none", "clear"} =>
          q.obj \in Object /\ q.t \in Start .. n /\ Has(q, cs[q.obj])
    /\ q.at \in {"load", "loaded"} => q.frozen = NotFrozen /\ q.op \in {"update", "read"}
    /\ q.at \in {"bean", "store", "prune"} => q.op = "update"
    /\ q.at = "prune" => q.level < Day
    /\ q.at = "prune" \/ (q.at \in {"bean", "store"} /\ q.level < Day) =>
          q.date \in Start .. n

CallsSound == \A u \in User : Sound(user[u], calc, now)

\* Calls that differ in what they have kept.
Alike(a, b) ==
    /\ a.op = b.op /\ a.at = b.at /\ a.obj = b.obj /\ a.status = b.status
    /\ a.t = b.t /\ a.level = b.level /\ a.bean = b.bean /\ a.insert = b.insert
    /\ a.write = b.write /\ a.date = b.date

\* What Keeping leaves of a call, and what it keeps for it.
LEMMA KeepingFacts ==
    ASSUME TypeOK, CallsSound, NEW o \in Object, NEW c, NEW over, NEW v \in User
    PROVE  /\ Keeping(o, c, over)[v] \in Call
           /\ Alike(Keeping(o, c, over)[v], user[v])
           /\ user[v].obj # o => Keeping(o, c, over)[v] = user[v]
           /\ user[v].obj = o => \A l \in Level :
                 LET k == Key(l, user[v].t)
                     f == Keeping(o, c, over)[v].frozen[l] IN
                 \/ f = user[v].frozen[l]
                 \/ /\ f \in Counts /\ l \in InHand(user[v]) /\ user[v].frozen[l] = None
                    /\ k \in DOMAIN calc[o][l].data
                    /\ f = calc[o][l].data[k]
           /\ user[v].obj = o => \A l \in InHand(user[v]) :
                 LET k == Key(l, user[v].t) IN
                 Keeping(o, c, over)[v].frozen[l] = None =>
                     /\ k \in DOMAIN c[l].data /\ k \notin over[l]
                     /\ user[v].frozen[l] = None
  <1> DEFINE q == user[v]
             k(l) == Key(l, q.t)
             goes(l) == /\ l \in InHand(q) /\ q.frozen[l] = None
                        /\ k(l) \in over[l] \/ k(l) \notin DOMAIN c[l].data
             fr == [l \in Level |-> IF goes(l) THEN calc[o][l].data[k(l)] ELSE q.frozen[l]]
  <1>1. q \in Call /\ q.frozen \in [Level -> Counts \cup {None}]
    BY DEF TypeOK, Call
  <1>2. CASE q.obj # o
    <2>1. Keeping(o, c, over)[v] = q  BY <1>2 DEF Keeping
    <2> HIDE DEF q
    <2>2. Alike(q, q)  BY DEF Alike
    <2> QED BY <1>1, <1>2, <2>1, <2>2 DEF q
  <1>3. CASE q.obj = o
    <2>1. Keeping(o, c, over)[v] = [q EXCEPT !.frozen = fr]
      BY <1>3 DEF Keeping
    <2>2. q.at \notin {"none", "clear"} /\ Has(q, calc[o])
      BY <1>3, Basics DEF CallsSound, Sound
    <2>3. \A l \in Level : DOMAIN calc[o][l].data \subseteq Nat
                           /\ \A x \in DOMAIN calc[o][l].data : calc[o][l].data[x] \in Counts
      <3> TAKE l \in Level
      <3>1. calc[o][l].data \in Table  BY DEF TypeOK, Calculator, Queue
      <3> QED BY <3>1, TableByValue
    <2>4. \A l \in Level : goes(l) => k(l) \in DOMAIN calc[o][l].data
      BY <2>2 DEF Has
    <2>5. \A l \in Level : IF goes(l) THEN fr[l] = calc[o][l].data[k(l)] /\ fr[l] \in Counts
                           ELSE fr[l] = q.frozen[l]
      BY <2>3, <2>4
    <2>6. fr \in [Level -> Counts \cup {None}]
      <3>1. \A l \in Level : fr[l] \in Counts \cup {None}  BY <2>5, <1>1
      <3>2. fr = [l \in Level |-> fr[l]]  OBVIOUS
      <3> HIDE DEF fr
      <3> QED BY <3>1, <3>2
    <2> HIDE DEF q, fr
    <2>7. /\ Keeping(o, c, over)[v] \in Call
          /\ Keeping(o, c, over)[v].frozen = fr
          /\ Alike(Keeping(o, c, over)[v], q)
      BY <1>1, <2>1, <2>6 DEF Call, Alike
    <2>8. \A l \in InHand(q) : l \in Level  BY DEF InHand
    <2>9. \A l \in InHand(q) : fr[l] = None => k(l) \in DOMAIN c[l].data /\ k(l) \notin over[l]
                                               /\ q.frozen[l] = None
      <3> TAKE l \in InHand(q)
      <3> HAVE fr[l] = None
      <3>1. ~goes(l) /\ q.frozen[l] = None  BY <2>5, <2>8, AtMostOrder
      <3> QED BY <3>1
    <2>10. \A l \in Level : \/ fr[l] = q.frozen[l]
                            \/ /\ fr[l] \in Counts /\ l \in InHand(q) /\ q.frozen[l] = None
                               /\ k(l) \in DOMAIN calc[o][l].data
                               /\ fr[l] = calc[o][l].data[k(l)]
      BY <2>4, <2>5
    <2> QED BY <1>3, <2>1, <2>7, <2>9, <2>10 DEF q
  <1> QED BY <1>2, <1>3

\* A call keeps what it has in hand while another call changes the calculator.
LEMMA SoundKept ==
    ASSUME TypeOK, CallsSound, NEW o \in Object, NEW c \in Calculator, NEW over,
           NEW v \in User
    PROVE  Sound(Keeping(o, c, over)[v], [calc EXCEPT ![o] = c], now)
  <1> DEFINE q == user[v]
             r == Keeping(o, c, over)[v]
             cs == [calc EXCEPT ![o] = c]
  <1>1. q \in Call /\ r \in Call /\ Alike(r, q)
    <2>1. q \in Call  BY DEF TypeOK
    <2> QED BY <2>1, KeepingFacts
  <1>2. Sound(q, calc, now)  BY DEF CallsSound
  <1>3. calc \in [Object -> Calculator]  BY DEF TypeOK
  <1>4. CASE q.obj # o
    <2>1. r = q  BY <1>4, KeepingFacts
    <2>2. q.obj \in Object => cs[q.obj] = calc[q.obj]  BY <1>3, <1>4
    <2> HIDE DEF q, r, cs
    <2>3. Sound(r, cs, now)  BY <1>2, <2>1, <2>2 DEF Sound
    <2> QED BY <2>3 DEF r, cs
  <1>5. CASE q.obj = o
    <2>1. cs[o] = c  BY <1>3
    <2>2. q.at \notin {"none", "clear"}  BY <1>2, <1>5, Basics DEF Sound
    <2>3. \A l \in InHand(q) : r.frozen[l] = None => Key(l, q.t) \in DOMAIN c[l].data
      BY <1>5, KeepingFacts
    <2>4. \A l \in Level : l \notin InHand(q) => r.frozen[l] = q.frozen[l]
      BY <1>5, KeepingFacts
    <2> HIDE DEF q, r, cs
    <2>5. /\ r.op = q.op /\ r.at = q.at /\ r.obj = q.obj /\ r.t = q.t
          /\ r.level = q.level /\ r.date = q.date
      BY <1>1 DEF Alike
    <2>6. InHand(r) = InHand(q)  BY <2>5 DEF InHand
    <2>7. Has(r, c)  BY <2>3, <2>5, <2>6 DEF Has
    <2>8. q.at \in {"load", "loaded"} => r.frozen = NotFrozen
      <3> HAVE q.at \in {"load", "loaded"}
      <3>1. InHand(q) = {}  BY DEF InHand
      <3>2. \A l \in Level : r.frozen[l] = q.frozen[l]  BY <2>4, <3>1
      <3>3. q.frozen \in [Level -> Counts \cup {None}] /\ r.frozen \in [Level -> Counts \cup {None}]
        BY <1>1 DEF Call
      <3>4. r.frozen = q.frozen  BY <3>2, <3>3
      <3> QED BY <1>2, <3>4 DEF Sound
    <2>9. Sound(r, cs, now)
      <3>1. q.at \in {"load", "loaded"} => r.frozen = NotFrozen  BY <2>8
      <3>2. q # Rest /\ q.obj = o /\ Has(r, cs[r.obj])
        BY <1>5, <2>1, <2>2, <2>5, <2>7 DEF Rest
      <3> QED BY <1>2, <2>2, <2>5, <3>1, <3>2 DEF Sound
    <2> QED BY <2>9 DEF r, cs
  <1> QED BY <1>4, <1>5

\* A call is sound as long as the buckets it has in hand are there.
LEMMA SoundStays ==
    ASSUME NEW q \in Call, NEW cs, NEW n \in Nat, Sound(q, cs, n), NEW ds, NEW m \in Nat,
           n <= m, Start \in Nat,
           q.obj \in Object => \A l \in Level :
              DOMAIN cs[q.obj][l].data \subseteq DOMAIN ds[q.obj][l].data
    PROVE  Sound(q, ds, m)
  <1>1. \A l \in InHand(q) : l \in Level  BY DEF InHand
  <1>2. q.obj \in Object /\ Has(q, cs[q.obj]) => Has(q, ds[q.obj])
    BY <1>1 DEF Has
  <1>3. \A t : t \in Start .. n => t \in Start .. m  OBVIOUS
  <1> QED BY <1>2, <1>3 DEF Sound

\* A call that is over.
LEMMA RestSound ==
    /\ Rest \in Call
    /\ \A cs, n : Sound(Rest, cs, n)
  <1>1. Rest \in Call
    <2>1. NotFrozen \in [Level -> Counts \cup {None}]  BY DEF NotFrozen
    <2>2. 1 \in Level /\ Zero \in Counts  BY Levels, AtMostOrder
    <2> QED BY <2>1, <2>2 DEF Rest, Call
  <1>2. Rest.at = "none" /\ Rest.op = "none" /\ Rest.obj = None  BY DEF Rest
  <1> QED BY <1>1, <1>2 DEF Sound

\* The oldest time that is kept.
LEMMA KeepFromNat ==
    ASSUME NEW l \in Level, NEW t \in Nat, Start <= t
    PROVE  /\ t - Width[l] * Limit[l] \in Nat
           /\ KeepFrom(l, t) \in Nat /\ KeepFrom(l, t) <= t - Width[l] * Limit[l]
  <1>1. Width[l] * Limit[l] \in Nat /\ Width[l] * Limit[l] <= Start /\ Start \in Nat
    BY Levels, UptimeAssumption
  <1>2. t - Width[l] * Limit[l] \in Nat  BY <1>1
  <1> QED BY <1>2, KeyBounds DEF KeepFrom

\* The calls, when one of them changes a calculator and becomes r.
LEMMA CallsKept ==
    ASSUME TypeOK, CallsSound, NEW o \in Object, NEW c \in Calculator, NEW over,
           NEW u \in User, NEW r \in Call, now' = now,
           calc' = [calc EXCEPT ![o] = c],
           user' = [Keeping(o, c, over) EXCEPT ![u] = r],
           Sound(r, calc', now)
    PROVE  /\ calc' \in [Object -> Calculator] /\ user' \in [User -> Call]
           /\ CallsSound'
  <1>1. calc' \in [Object -> Calculator]  BY DEF TypeOK
  <1>2. Keeping(o, c, over) = [v \in User |-> Keeping(o, c, over)[v]]  BY DEF Keeping
  <1>3. \A v \in User : Keeping(o, c, over)[v] \in Call  BY KeepingFacts
  <1>4. Keeping(o, c, over) \in [User -> Call]  BY <1>2, <1>3
  <1>5. /\ user' \in [User -> Call] /\ user'[u] = r
        /\ \A v \in User \ {u} : user'[v] = Keeping(o, c, over)[v]
    BY <1>4
  <1>6. \A v \in User : Sound(Keeping(o, c, over)[v], calc', now)  BY SoundKept
  <1>7. \A v \in User : Sound(user'[v], calc', now')  BY <1>5, <1>6
  <1> QED BY <1>1, <1>5, <1>7 DEF CallsSound

\* A table with one bucket more, or fewer.
LEMMA TableOps ==
    ASSUME NEW f \in Table
    PROVE  /\ \A k \in Nat : \A c \in Counts : With(f, k, c) \in Table
           /\ \A S \in SUBSET DOMAIN f : Only(f, S) \in Table
           /\ \A k \in DOMAIN f : f[k] \in Counts /\ k \in Nat
           /\ \A k : Held(f, k) \in Counts
           /\ Nowhere \in Table
  <1>1. f \in [DOMAIN f -> Counts] /\ DOMAIN f \subseteq Nat  BY TableByValue
  <1>2. ASSUME NEW k \in Nat, NEW c \in Counts PROVE With(f, k, c) \in Table
    <2>1. /\ DOMAIN With(f, k, c) = DOMAIN f \cup {k}
          /\ With(f, k, c) \in [DOMAIN f \cup {k} -> Counts]
      BY <1>1 DEF With
    <2> QED BY <1>1, <2>1, TableByValue
  <1>3. ASSUME NEW S \in SUBSET DOMAIN f PROVE Only(f, S) \in Table
    <2>1. DOMAIN Only(f, S) = S /\ Only(f, S) \in [S -> Counts]  BY <1>1 DEF Only
    <2> QED BY <1>1, <2>1, TableByValue
  <1>4. Nowhere \in Table
    <2>1. DOMAIN Nowhere = {} /\ Nowhere \in [{} -> Counts]  BY DEF Nowhere
    <2> QED BY <2>1, TableByValue
  <1>5. \A k : Held(f, k) \in Counts  BY <1>1, AtMostOrder DEF Held
  <1> QED BY <1>1, <1>2, <1>3, <1>4, <1>5

\* A calculator that nobody has used.
LEMMA EmptyIsCalculator == Empty \in Calculator /\ \A l \in Level : Empty[l] = EmptyQueue
  <1>1. Nowhere \in Table
    <2>1. DOMAIN Nowhere = {} /\ Nowhere \in [{} -> Counts]  BY DEF Nowhere
    <2> QED BY <2>1, TableByValue
  <1>2. NoBean \in BeanType  BY DEF NoBean, BeanType
  <1>3. EmptyQueue \in Queue  BY <1>1, <1>2, AtMostOrder DEF EmptyQueue, Queue
  <1> QED BY <1>3 DEF Empty, Calculator

\* A call that finds a calculator.
LEMMA UseTypes ==
    ASSUME TypeOK, CallsSound, NEW u \in User, NEW o \in Object, NEW q \in Call,
           q.op \in {"read", "update"}, q.frozen = NotFrozen, now' = now, Use(u, o, q)
    PROVE  /\ calc' \in [Object -> Calculator] /\ user' \in [User -> Call]
           /\ CallsSound' /\ beats' \in [Level -> Table] /\ hurt' \in BOOLEAN
  <1>0. /\ calc[o] \in Calculator /\ now \in Nat /\ Start \in Nat /\ Start <= now
        /\ beats \in [Level -> Table] /\ hurt \in BOOLEAN
    BY Basics DEF TypeOK
  <1>1. CASE q.op = "read"
    <2> DEFINE c == Touched(calc[o], now)
    <2>1. /\ calc' = [calc EXCEPT ![o] = c]
          /\ user' = [Keeping(o, c, NoKeys) EXCEPT ![u] = Rest]
          /\ UNCHANGED <<beats, hurt>>
      BY <1>1 DEF Use
    <2>2. c \in Calculator  BY <1>0, TouchedFacts
    <2> HIDE DEF c
    <2> QED BY <1>0, <2>1, <2>2, RestSound, CallsKept
  <1>2. CASE q.op = "update"
    <2> DEFINE c == Counted(calc[o], q.status, now)
               b == [q EXCEPT !.at = "bean", !.obj = o, !.t = now, !.level = Day]
               r == IF Broken(calc[o], now) # {} THEN Rest ELSE b
               f == IF q.status = "pending" THEN "down" ELSE q.status
               old(l) == IF Key(l, now) \in DOMAIN beats[l] THEN beats[l][Key(l, now)] ELSE Zero
    <2>1. /\ calc' = [calc EXCEPT ![o] = c]
          /\ user' = [Keeping(o, c, NoKeys) EXCEPT ![u] = r]
          /\ beats' = [l \in Level |-> With(beats[l], Key(l, now), [old(l) EXCEPT ![f] = @ + 1])]
          /\ hurt' \in BOOLEAN
      BY <1>0, <1>2 DEF Use
    <2>2. q.status \in Status  BY DEF Call, Status
    <2>3. c \in Calculator  BY <1>0, <2>2, CountedFacts
    <2>4. \A l \in Level : Broken(calc[o], now) = {} => Key(l, now) \in DOMAIN c[l].data
      BY <1>0, <2>2, CountedFacts
    <2>5. Sound(r, [calc EXCEPT ![o] = c], now)
      <3>1. CASE Broken(calc[o], now) # {}  BY <3>1, RestSound
      <3>2. CASE Broken(calc[o], now) = {}
        <4>1. /\ b.at = "bean" /\ b.op = "update" /\ b.obj = o /\ b.t = now /\ b.level = Day
          BY <1>2 DEF Call
        <4>2. [calc EXCEPT ![o] = c][o] = c  BY DEF TypeOK
        <4>3. now \in Start .. now /\ ~(Day < Day)  BY <1>0, Levels, Basics
        <4>4. r = b  BY <3>2
        <4>5. \A l \in Level : Key(l, b.t) \in DOMAIN c[l].data  BY <2>4, <3>2, <4>1
        <4> HIDE DEF b, c, r
        <4>6. Has(b, c)  BY <4>5 DEF Has, InHand
        <4> QED BY <4>1, <4>2, <4>3, <4>4, <4>6 DEF Sound
      <3> QED BY <3>1, <3>2
    <2>6. r \in Call
      <3>1. b \in Call  BY <1>0, Levels DEF Call
      <3> QED BY <3>1, RestSound
    <2>7. \A l \in Level : [old(l) EXCEPT ![f] = @ + 1] \in Counts
      <3> TAKE l \in Level
      <3>1. old(l) \in Counts /\ old(l) = Held(beats[l], Key(l, now))
        BY <1>0, TableOps DEF Held
      <3>2. f = Flat(q.status)  BY DEF Flat
      <3> HIDE DEF f, old
      <3> QED BY <2>2, <3>1, <3>2, IncFacts DEF Inc
    <2>8. beats' \in [Level -> Table]
      <3> HIDE DEF old, f
      <3>1. \A l \in Level : With(beats[l], Key(l, now), [old(l) EXCEPT ![f] = @ + 1]) \in Table
        BY <1>0, <2>7, TableOps, KeyBounds
      <3> QED BY <2>1, <3>1
    <2> HIDE DEF c, r
    <2> QED BY <1>0, <2>1, <2>3, <2>5, <2>6, <2>8, CallsKept
  <1> QED BY <1>1, <1>2

\* The calls, when one of them becomes r and the buckets in use stay.
LEMMA CallsStay ==
    ASSUME TypeOK, CallsSound, NEW u \in User, NEW r \in Call, now' = now,
           user' = [user EXCEPT ![u] = r], Sound(r, calc', now),
           \A v \in User \ {u} : user[v].obj \in Object => \A l \in Level :
              DOMAIN calc[user[v].obj][l].data \subseteq DOMAIN calc'[user[v].obj][l].data
    PROVE  user' \in [User -> Call] /\ CallsSound'
  <1>1. user' \in [User -> Call] /\ user'[u] = r /\ \A v \in User \ {u} : user'[v] = user[v]
    BY DEF TypeOK
  <1>2. ASSUME NEW v \in User \ {u} PROVE Sound(user[v], calc', now)
    <2>1. user[v] \in Call /\ Sound(user[v], calc, now) /\ now \in Nat /\ Start \in Nat
      BY Basics DEF TypeOK, CallsSound
    <2>2. user[v].obj \in Object => \A l \in Level :
             DOMAIN calc[user[v].obj][l].data \subseteq DOMAIN calc'[user[v].obj][l].data
      BY <1>2
    <2>3. now <= now  BY <2>1
    <2> DEFINE q == user[v]
    <2> HIDE DEF q
    <2>4. q \in Call /\ Sound(q, calc, now)  BY <2>1 DEF q
    <2>5. q.obj \in Object => \A l \in Level :
             DOMAIN calc[q.obj][l].data \subseteq DOMAIN calc'[q.obj][l].data
      BY <2>2 DEF q
    <2>6. Sound(q, calc', now)  BY <2>1, <2>3, <2>4, <2>5, SoundStays
    <2> QED BY <2>6 DEF q
  <1>3. \A v \in User : Sound(user'[v], calc', now')  BY <1>1, <1>2
  <1> QED BY <1>1, <1>3 DEF CallsSound

Inv == TypeOK /\ CallsSound

\* Begin keeps the types, and the calls sound.
LEMMA BeginTypes == ASSUME Inv, NEW u \in User, Begin(u) PROVE Inv'
  <1>0. TypeOK /\ CallsSound  BY DEF Inv
  <1>1. PICK op \in {"update", "read"}, s \in Statuses :
           /\ user[u] = Rest
           /\ IF op = "update" THEN told' = told + 1 /\ UNCHANGED events
              ELSE events' = events + 1 /\ UNCHANGED told
           /\ LET q == [Rest EXCEPT !.op = op, !.t = now,
                                    !.status = IF op = "read" THEN @ ELSE s] IN
              IF listed # None THEN Use(u, listed, q) /\ UNCHANGED listed
              ELSE \E o \in Unused :
                     /\ listed' = o
                     /\ calc' = [calc EXCEPT ![o] =
                           [Empty EXCEPT ![1] = Touch(@, 1, now - Width[1] * Limit[1])]]
                     /\ user' = [user EXCEPT ![u] = [q EXCEPT !.at = "load", !.obj = o]]
                     /\ UNCHANGED <<beats, hurt>>
           /\ mixed' = (mixed \/ \E v \in User : user[v].op = "clear")
           /\ UNCHANGED <<now, rows>>
    BY DEF Begin
  <1> DEFINE q == [Rest EXCEPT !.op = op, !.t = now, !.status = IF op = "read" THEN @ ELSE s]
  <1>2. /\ q \in Call /\ q.op = op /\ q.frozen = NotFrozen /\ q.at = "none" /\ q.t = now
        /\ Start <= now /\ now \in Nat /\ Start \in Nat
    BY <1>0, <1>1, RestSound, Basics DEF TypeOK, Call, Rest
  <1>3. /\ now' \in Nat /\ Start <= now' /\ rows' \in [Level -> Table]
        /\ told' \in Nat /\ events' \in Nat /\ mixed' \in BOOLEAN
    <2>1. mixed' \in BOOLEAN  BY <1>1
    <2>2. told' \in Nat /\ events' \in Nat
      <3>1. told \in Nat /\ events \in Nat  BY <1>0 DEF TypeOK
      <3>2. \/ told' = told + 1 /\ events' = events
            \/ events' = events + 1 /\ told' = told
        BY <1>1
      <3> QED BY <3>1, <3>2
    <2> QED BY <1>0, <1>1, <2>1, <2>2 DEF TypeOK
  <1>4. CASE listed # None
    <2>1. Use(u, listed, q) /\ UNCHANGED listed /\ now' = now  BY <1>1, <1>4
    <2>2. listed \in Object  BY <1>0, <1>4 DEF TypeOK
    <2> HIDE DEF q
    <2>3. /\ calc' \in [Object -> Calculator] /\ user' \in [User -> Call]
          /\ CallsSound' /\ beats' \in [Level -> Table] /\ hurt' \in BOOLEAN
      BY <1>0, <1>2, <2>1, <2>2, UseTypes
    <2> QED BY <1>3, <2>1, <2>2, <2>3 DEF Inv, TypeOK
  <1>5. CASE listed = None
    <2> DEFINE c == [Empty EXCEPT ![1] = Touch(@, 1, now - Width[1] * Limit[1])]
    <2>1. PICK o \in Unused :
             /\ listed' = o
             /\ calc' = [calc EXCEPT ![o] = c]
             /\ user' = [user EXCEPT ![u] = [q EXCEPT !.at = "load", !.obj = o]]
             /\ UNCHANGED <<beats, hurt>>
      BY <1>1, <1>5
    <2> DEFINE r == [q EXCEPT !.at = "load", !.obj = o]
    <2>2. o \in Object /\ \A v \in User : user[v].obj # o  BY DEF Unused
    <2>3. c \in Calculator
      <3>1. 1 \in Level /\ now - Width[1] * Limit[1] \in Nat  BY <1>2, Levels, KeepFromNat
      <3>2. Touch(EmptyQueue, 1, now - Width[1] * Limit[1]) \in Queue
        BY <3>1, EmptyIsCalculator, TouchFacts DEF Calculator
      <3> QED BY <3>1, <3>2, EmptyIsCalculator DEF Calculator
    <2> HIDE DEF c
    <2>4. /\ calc' \in [Object -> Calculator]
          /\ \A v \in User : calc'[user[v].obj] = calc[user[v].obj]
      BY <1>0, <2>1, <2>2, <2>3 DEF TypeOK
    <2>5. /\ r \in Call /\ r.at = "load" /\ r.op = op /\ r.obj = o /\ r.t = now
          /\ r.frozen = NotFrozen
      BY <1>2, <2>2 DEF Call
    <2>6. user' = [user EXCEPT ![u] = r]  BY <2>1
    <2> HIDE DEF r, q
    <2>7. Sound(r, calc', now)
      <3>1. InHand(r) = {}  BY <2>5 DEF InHand
      <3>2. Has(r, calc'[o])  BY <3>1 DEF Has
      <3>3. now \in Start .. now  BY <1>2
      <3> QED BY <2>2, <2>5, <3>2, <3>3 DEF Sound
    <2>8. user' \in [User -> Call] /\ CallsSound'
      BY <1>0, <1>1, <2>4, <2>5, <2>6, <2>7, CallsStay
    <2>9. listed' \in Object \cup {None} /\ beats' \in [Level -> Table] /\ hurt' \in BOOLEAN
      BY <1>0, <2>1, <2>2 DEF TypeOK
    <2> QED BY <1>3, <2>4, <2>8, <2>9 DEF Inv, TypeOK
  <1> QED BY <1>4, <1>5

\* init, too.
LEMMA LoadLevelTypes == ASSUME Inv, NEW u \in User, LoadLevel(u) PROVE Inv'
  <1>0. TypeOK /\ CallsSound  BY DEF Inv
  <1> DEFINE q == user[u]
             o == q.obj
             l == q.level
             n == l + 1
             c == [calc[o] EXCEPT ![l] = LoadedAll(@, l, q.t)]
             d == IF l = Day THEN c
                  ELSE [c EXCEPT ![n] = Touch(@, n, q.t - Width[n] * Limit[n])]
             r == IF l = Day THEN [q EXCEPT !.at = "loaded", !.level = 1]
                  ELSE [q EXCEPT !.level = n]
  <1>1. /\ q.at = "load"
        /\ calc' = [calc EXCEPT ![o] = d]
        /\ user' = [Keeping(o, d, [NoKeys EXCEPT ![l] = Found(l, q.t)]) EXCEPT ![u] = r]
        /\ hurt' = (hurt \/ DOMAIN calc[o][l].data # {KeepFrom(l, q.t)})
        /\ UNCHANGED <<now, rows, listed, told, events, beats, mixed>>
    BY DEF LoadLevel
  <1>2. q \in Call /\ Sound(q, calc, now)  BY <1>0 DEF TypeOK, CallsSound
  <1>3. /\ o \in Object /\ q.t \in Start .. now /\ q.frozen = NotFrozen /\ l \in Level
        /\ q.op \in {"update", "read"}
    BY <1>1, <1>2 DEF Sound, Call
  <1>4. /\ calc[o] \in Calculator /\ rows[l] \in Table /\ now \in Nat /\ Start \in Nat
        /\ q.t \in Nat /\ Start <= q.t
    BY <1>0, <1>3, Basics DEF TypeOK
  <1>5. c \in Calculator
    <2>1. KeepFrom(l, q.t) \in Nat /\ calc[o][l] \in Queue
      BY <1>3, <1>4, KeepFromNat DEF Calculator
    <2>2. LoadedAll(calc[o][l], l, q.t) \in Queue
      BY <1>3, <1>4, <2>1, LoadedAllFacts DEF HoldsRows
    <2> QED BY <1>3, <1>4, <2>2 DEF Calculator
  <1>6. l # Day => n \in Level  BY <1>3, Levels
  <1>7. d \in Calculator
    <2>1. ASSUME l # Day PROVE Touch(c[n], n, q.t - Width[n] * Limit[n]) \in Queue
      <3>1. n \in Level /\ q.t - Width[n] * Limit[n] \in Nat  BY <1>4, <1>6, <2>1, KeepFromNat
      <3>2. c[n] \in Queue  BY <1>5, <3>1 DEF Calculator
      <3> HIDE DEF c, n, q
      <3> QED BY <3>1, <3>2, TouchFacts
    <2> HIDE DEF c
    <2> QED BY <1>5, <1>6, <2>1 DEF Calculator
  <1>8. /\ r \in Call /\ r.at \in {"load", "loaded"} /\ r.op = q.op /\ r.obj = o /\ r.t = q.t
        /\ r.frozen = NotFrozen
    BY <1>1, <1>2, <1>3, <1>6, Levels DEF Call
  <1> HIDE DEF d, r
  <1>9. Sound(r, calc', now)
    <2>1. InHand(r) = {}  BY <1>8 DEF InHand
    <2>2. Has(r, calc'[o])  BY <2>1 DEF Has
    <2>3. q.op # "clear"  BY <1>3
    <2> QED BY <1>3, <1>8, <2>2, <2>3 DEF Sound
  <1>10. /\ calc' \in [Object -> Calculator] /\ user' \in [User -> Call]
         /\ CallsSound'
    BY <1>0, <1>1, <1>3, <1>7, <1>8, <1>9, CallsKept
  <1> QED BY <1>0, <1>1, <1>10 DEF Inv, TypeOK

\* And what follows init.
LEMMA AfterInitTypes == ASSUME Inv, NEW u \in User, AfterInit(u) PROVE Inv'
  <1>0. TypeOK /\ CallsSound  BY DEF Inv
  <1>1. /\ user[u].at = "loaded"
        /\ IF listed = None THEN Done(u) /\ UNCHANGED <<calc, beats, hurt>>
           ELSE Use(u, listed, user[u])
        /\ UNCHANGED <<now, rows, listed, told, events, mixed>>
    BY DEF AfterInit
  <1>2. user[u] \in Call /\ Sound(user[u], calc, now)  BY <1>0 DEF TypeOK, CallsSound
  <1>3. CASE listed = None
    <2>1. user' = [user EXCEPT ![u] = Rest] /\ UNCHANGED calc /\ now' = now
      BY <1>1, <1>3 DEF Done
    <2>2. user' \in [User -> Call] /\ CallsSound'
      BY <1>0, <2>1, RestSound, CallsStay
    <2> QED BY <1>0, <1>1, <1>3, <2>2 DEF Inv, TypeOK
  <1>4. CASE listed # None
    <2>1. Use(u, listed, user[u]) /\ listed \in Object /\ now' = now
      BY <1>0, <1>1, <1>4 DEF TypeOK
    <2>2. user[u].op \in {"read", "update"} /\ user[u].frozen = NotFrozen
      BY <1>1, <1>2 DEF Sound, Call
    <2>3. /\ calc' \in [Object -> Calculator] /\ user' \in [User -> Call]
          /\ CallsSound' /\ beats' \in [Level -> Table] /\ hurt' \in BOOLEAN
      BY <1>0, <1>2, <2>1, <2>2, UseTypes
    <2> QED BY <1>0, <1>1, <2>3 DEF Inv, TypeOK
  <1> QED BY <1>3, <1>4

\* A bean of a queue takes the place of another.
WithBean(o, l, b) == [calc EXCEPT ![o][l].bean = b]

LEMMA BeanOnly ==
    ASSUME TypeOK, NEW o \in Object, NEW l \in Level, NEW b \in BeanType,
           NEW cs, cs = WithBean(o, l, b)
    PROVE  /\ cs \in [Object -> Calculator]
           /\ \A p \in Object : \A m \in Level :
                 /\ cs[p][m].data = calc[p][m].data
                 /\ cs[p][m].keys = calc[p][m].keys
                 /\ cs[p][m].bean = IF p = o /\ m = l THEN b ELSE calc[p][m].bean
           /\ \A p \in Object \ {o} : cs[p] = calc[p]
  <1>1. calc \in [Object -> Calculator] /\ calc[o] \in [Level -> Queue] /\ calc[o][l] \in Queue
    BY DEF TypeOK, Calculator
  <1> DEFINE q == [calc[o][l] EXCEPT !.bean = b]
             c == [calc[o] EXCEPT ![l] = q]
  <1>2. cs = [calc EXCEPT ![o] = c]  BY <1>1 DEF WithBean
  <1>3. /\ q \in Queue /\ q.data = calc[o][l].data /\ q.keys = calc[o][l].keys /\ q.bean = b
    BY <1>1 DEF Queue
  <1> HIDE DEF q
  <1>4. c \in Calculator /\ c[l] = q /\ \A m \in Level \ {l} : c[m] = calc[o][m]
    BY <1>1, <1>3 DEF Calculator
  <1> HIDE DEF c
  <1>5. cs \in [Object -> Calculator] /\ cs[o] = c /\ \A p \in Object \ {o} : cs[p] = calc[p]
    BY <1>1, <1>2, <1>4
  <1>6. ASSUME NEW p \in Object, NEW m \in Level
        PROVE  /\ cs[p][m].data = calc[p][m].data
               /\ cs[p][m].keys = calc[p][m].keys
               /\ cs[p][m].bean = IF p = o /\ m = l THEN b ELSE calc[p][m].bean
    <2>1. CASE p # o  BY <1>5, <2>1
    <2>2. CASE p = o /\ m # l  BY <1>4, <1>5, <2>2
    <2>3. CASE p = o /\ m = l
      <3>1. cs[p][m] = q  BY <1>4, <1>5, <2>3
      <3> QED BY <1>3, <2>3, <3>1
    <2> QED BY <2>1, <2>2, <2>3
  <1> QED BY <1>5, <1>6

\* The counts that a call is about to store.
Taken(q) == LET l == q.level IN
            IF q.frozen[l] # None THEN q.frozen[l] ELSE calc[q.obj][l].data[Key(l, q.t)]

\* The bean of a level, as getDailyStatBean and its like return it.
BeanOf(u, q) == LET l == q.level
                    k == Key(l, q.t) IN
                IF calc[q.obj][l].bean.key = k THEN calc[q.obj][l].bean
                ELSE [key |-> k, saved |-> k \in DOMAIN rows[l], by |-> u]

\* A step of a call with a bean.
LEMMA BeanFacts ==
    ASSUME Inv, NEW u \in User, Bean(u)
    PROVE  LET q == user[u]
               l == q.level IN
           /\ q.at = "bean" /\ q.obj \in Object /\ l \in Level /\ q.t \in Start .. now
           /\ BeanOf(u, q) \in BeanType /\ BeanOf(u, q).key = Key(l, q.t)
           /\ calc' = WithBean(q.obj, l, BeanOf(u, q))
           /\ Taken(q) \in Counts
           /\ q.frozen[l] = None => Key(l, q.t) \in DOMAIN calc[q.obj][l].data
           /\ user' = [user EXCEPT ![u] = [q EXCEPT !.at = "store", !.bean = BeanOf(u, q).by,
                          !.insert = ~BeanOf(u, q).saved, !.write = Taken(q)]]
           /\ UNCHANGED <<now, rows, listed, told, events, beats, hurt, mixed>>
  <1> DEFINE q == user[u]
             l == q.level
             k == Key(l, q.t)
             b == BeanOf(u, q)
  <1>1. TypeOK /\ CallsSound  BY DEF Inv
  <1>2. /\ q.at = "bean"
        /\ calc' = WithBean(q.obj, l, b)
        /\ user' = [user EXCEPT ![u] = [q EXCEPT !.at = "store", !.bean = b.by,
                          !.insert = ~b.saved, !.write = Taken(q)]]
        /\ UNCHANGED <<now, rows, listed, told, events, beats, hurt, mixed>>
    BY DEF Bean, BeanOf, Taken, WithBean
  <1>3. q \in Call /\ Sound(q, calc, now)  BY <1>1 DEF TypeOK, CallsSound
  <1>4. q.obj \in Object /\ l \in Level /\ q.t \in Start .. now /\ Has(q, calc[q.obj])
    BY <1>2, <1>3 DEF Sound, Call
  <1>5. /\ q.t \in Nat /\ k \in Nat /\ calc[q.obj][l] \in Queue
    <2>1. q.t \in Nat  BY <1>4, Basics
    <2>2. calc[q.obj][l] \in Queue  BY <1>1, <1>4 DEF TypeOK, Calculator
    <2> HIDE DEF q
    <2> QED BY <1>4, <2>1, <2>2, KeyBounds
  <1>6. b \in BeanType /\ b.key = k
    <2>1. calc[q.obj][l].bean \in BeanType  BY <1>5 DEF Queue
    <2> DEFINE s == k \in DOMAIN rows[l]
    <2>2. s \in BOOLEAN  OBVIOUS
    <2>3. b = IF calc[q.obj][l].bean.key = k THEN calc[q.obj][l].bean
              ELSE [key |-> k, saved |-> s, by |-> u]
      BY DEF BeanOf
    <2> HIDE DEF s, q, l, k, b
    <2>4. CASE calc[q.obj][l].bean.key = k
      <3>1. b = calc[q.obj][l].bean  BY <2>3, <2>4
      <3> QED BY <2>1, <2>4, <3>1
    <2>5. CASE calc[q.obj][l].bean.key # k
      <3>1. b = [key |-> k, saved |-> s, by |-> u]  BY <2>3, <2>5
      <3> QED BY <1>5, <2>2, <3>1 DEF BeanType
    <2> QED BY <2>4, <2>5
  <1>7. q.frozen[l] = None => k \in DOMAIN calc[q.obj][l].data
    <2>1. l \in InHand(q)  BY <1>2, <1>4, Levels DEF InHand
    <2> QED BY <1>4, <2>1 DEF Has
  <1>8. Taken(q) \in Counts
    <2>1. q.frozen[l] \in Counts \cup {None}  BY <1>3, <1>4 DEF Call
    <2>2. k \in DOMAIN calc[q.obj][l].data => calc[q.obj][l].data[k] \in Counts
      BY <1>5, TableOps DEF Queue
    <2> QED BY <1>7, <2>1, <2>2 DEF Taken
  <1> QED BY <1>2, <1>4, <1>6, <1>7, <1>8

\* The bean is found or looked for.
LEMMA BeanTypes == ASSUME Inv, NEW u \in User, Bean(u) PROVE Inv'
  <1> DEFINE q == user[u]
             l == q.level
             b == BeanOf(u, q)
             w == Taken(q)
             i == ~b.saved
             r == [q EXCEPT !.at = "store", !.bean = b.by, !.insert = i, !.write = w]
  <1>0. TypeOK /\ CallsSound  BY DEF Inv
  <1>1. /\ q.at = "bean" /\ q.obj \in Object /\ l \in Level /\ q.t \in Start .. now
        /\ b \in BeanType
        /\ calc' = WithBean(q.obj, l, b)
        /\ w \in Counts
        /\ user' = [user EXCEPT ![u] = r]
        /\ UNCHANGED <<now, rows, listed, told, events, beats, hurt, mixed>>
    BY BeanFacts
  <1>2. q \in Call /\ Sound(q, calc, now)  BY <1>0 DEF TypeOK, CallsSound
  <1>3. i \in BOOLEAN /\ b.by \in User \cup {None}  BY <1>1 DEF BeanType
  <1> HIDE DEF b, w, i
  <1>4. /\ r \in Call /\ r.at = "store" /\ r.op = q.op /\ r.obj = q.obj /\ r.t = q.t
        /\ r.frozen = q.frozen /\ r.level = l /\ r.date = q.date
    <2> HIDE DEF q
    <2> QED BY <1>1, <1>2, <1>3 DEF Call
  <1>5. /\ calc' \in [Object -> Calculator]
        /\ \A p \in Object : \A m \in Level : calc'[p][m].data = calc[p][m].data
    <2> HIDE DEF q
    <2> QED BY <1>0, <1>1, BeanOnly
  <1>6. Sound(r, calc', now)
    <2>1. Has(q, calc[q.obj])  BY <1>1, <1>2 DEF Sound
    <2>2. InHand(r) \subseteq InHand(q) /\ \A m \in InHand(r) : m \in Level
      BY <1>1, <1>4, Levels DEF InHand
    <2>3. Has(r, calc'[q.obj])  BY <1>1, <1>4, <1>5, <2>1, <2>2 DEF Has
    <2> HIDE DEF q, r
    <2> QED BY <1>1, <1>2, <1>4, <2>3 DEF Sound
  <1> HIDE DEF r
  <1>7. user' \in [User -> Call] /\ CallsSound'
    BY <1>0, <1>1, <1>4, <1>5, <1>6, CallsStay
  <1> QED BY <1>0, <1>1, <1>5, <1>7 DEF Inv, TypeOK

\* The call after a row of it is stored.
StoredOf(q) ==
    [q EXCEPT !.at = IF q.level = 1 THEN "prune" ELSE "bean",
              !.level = IF q.level = 1 THEN 1 ELSE q.level - 1,
              !.bean = None, !.insert = FALSE, !.write = Zero,
              !.frozen[q.level] = None,
              !.date = IF q.level = Day THEN now ELSE q.date]

\* What that call has still to store it has still in hand.
LEMMA StoredFacts ==
    ASSUME TypeOK, CallsSound, NEW q \in Call, Sound(q, calc, now), q.at = "store"
    PROVE  /\ StoredOf(q) \in Call /\ Sound(StoredOf(q), calc, now)
           /\ StoredOf(q).at \in {"prune", "bean"} /\ StoredOf(q).op = "update"
           /\ StoredOf(q).at = "prune" <=> q.level = 1
           /\ StoredOf(q).at = "bean" => StoredOf(q).level = q.level - 1
           /\ StoredOf(q).obj = q.obj /\ StoredOf(q).t = q.t
           /\ \A m \in Level : m < q.level => StoredOf(q).frozen[m] = q.frozen[m]
  <1> DEFINE l == q.level
             r == StoredOf(q)
             fr == [q.frozen EXCEPT ![l] = None]
             at == IF l = 1 THEN "prune" ELSE "bean"
             level == IF l = 1 THEN 1 ELSE l - 1
             date == IF l = Day THEN now ELSE q.date
  <1>1. /\ l \in Level /\ q.frozen \in [Level -> Counts \cup {None}] /\ now \in Nat
        /\ Start <= now /\ Start \in Nat
    BY Basics DEF TypeOK, Call
  <1>2. r = [q EXCEPT !.at = at, !.level = level, !.bean = None, !.insert = FALSE,
                      !.write = Zero, !.frozen = fr, !.date = date]
    BY DEF StoredOf, Call
  <1>3. /\ fr \in [Level -> Counts \cup {None}] /\ level \in Level /\ Zero \in Counts
        /\ date \in Nat /\ at \in {"prune", "bean"}
        /\ \A m \in Level : m < l => fr[m] = q.frozen[m]
    BY <1>1, Levels, AtMostOrder DEF Call
  <1>4. at = "prune" <=> l = 1  OBVIOUS
  <1>5. /\ at = "bean" => level = l - 1
        /\ at = "prune" => level < Day
    BY Levels
  <1>6. date \in Start .. now
    <2>1. CASE l = Day  BY <1>1, <2>1
    <2>2. CASE l # Day
      <3>1. l < Day  BY <1>1, <2>2, Levels
      <3> QED BY <2>2, <3>1 DEF Sound
    <2> QED BY <2>1, <2>2
  <1> HIDE DEF fr, at, level, date, r
  <1>7. /\ r \in Call /\ r.at = at /\ r.op = q.op /\ r.obj = q.obj /\ r.t = q.t
        /\ r.frozen = fr /\ r.level = level /\ r.date = date
    BY <1>2, <1>3 DEF Call
  <1>8. q.op = "update" /\ q.obj \in Object /\ q.t \in Start .. now /\ Has(q, calc[q.obj])
    BY DEF Sound
  <1>9. Has(r, calc[q.obj])
    <2>1. \A m \in InHand(r) : m \in InHand(q) /\ m \in Level /\ m < l
      BY <1>1, <1>3, <1>4, <1>5, <1>7, Levels DEF InHand
    <2> QED BY <1>3, <1>7, <1>8, <2>1 DEF Has
  <1>10. Sound(r, calc, now)
    BY <1>3, <1>5, <1>6, <1>7, <1>8, <1>9 DEF Sound
  <1> QED BY <1>3, <1>4, <1>5, <1>7, <1>8, <1>10 DEF r

\* The bean of the call, saved.
Saved(o, l) == LET b == calc[o][l].bean IN [key |-> b.key, saved |-> TRUE, by |-> b.by]

\* A row is refused, inserted or updated.
LEMMA StoreFacts ==
    ASSUME Inv, NEW u \in User, StoreRow(u)
    PROVE  LET q == user[u]
               o == q.obj
               l == q.level
               k == Key(l, q.t)
               b == calc[o][l].bean
           IN
           /\ q.at = "store" /\ o \in Object /\ l \in Level /\ q.t \in Start .. now
           /\ k \in Nat /\ b \in BeanType
           /\ \/ /\ q.insert = TRUE /\ k \in DOMAIN rows[l]
                 /\ user' = [user EXCEPT ![u] = Rest] /\ hurt' = TRUE
                 /\ UNCHANGED <<rows, calc>>
              \/ /\ q.insert = TRUE /\ k \notin DOMAIN rows[l]
                 /\ rows' = [rows EXCEPT ![l] = With(@, k, q.write)]
                 /\ calc' = IF b.key = k /\ b.by = q.bean THEN WithBean(o, l, Saved(o, l)) ELSE calc
                 /\ user' = [user EXCEPT ![u] = StoredOf(q)]
                 /\ UNCHANGED hurt
              \/ /\ q.insert = FALSE
                 /\ rows' = IF k \in DOMAIN rows[l] THEN [rows EXCEPT ![l] = With(@, k, q.write)]
                            ELSE rows
                 /\ hurt' = (hurt \/ (k \in DOMAIN rows[l] /\ ~AtMost(rows[l][k], q.write)))
                 /\ user' = [user EXCEPT ![u] = StoredOf(q)]
                 /\ UNCHANGED calc
           /\ UNCHANGED <<now, listed, told, events, beats, mixed>>
  <1> DEFINE q == user[u]
             o == q.obj
             l == q.level
             k == Key(l, q.t)
             b == calc[o][l].bean
  <1>0. TypeOK /\ CallsSound  BY DEF Inv
  <1>1. q.at = "store"  BY DEF StoreRow
  <1>2. q \in Call /\ Sound(q, calc, now)  BY <1>0 DEF TypeOK, CallsSound
  <1>3. o \in Object /\ l \in Level /\ q.t \in Start .. now /\ q.insert \in BOOLEAN
    BY <1>1, <1>2 DEF Sound, Call
  <1>4. k \in Nat /\ calc[o] \in Calculator /\ calc[o][l] \in Queue /\ rows[l] \in Table
        /\ b \in BeanType /\ rows \in [Level -> Table]
    <2>1. q.t \in Nat  BY <1>3, Basics
    <2>2. calc[o] \in Calculator /\ calc[o][l] \in Queue /\ rows[l] \in Table /\ rows \in [Level -> Table]
      BY <1>0, <1>3 DEF TypeOK, Calculator
    <2>3. b \in BeanType  BY <2>2 DEF Queue
    <2> HIDE DEF q
    <2> QED BY <1>3, <2>1, <2>2, <2>3, KeyBounds
  <1>5. [calc EXCEPT ![o][l].bean.saved = TRUE] = WithBean(o, l, Saved(o, l))
    <2>1. [b EXCEPT !.saved = TRUE] = Saved(o, l)
      <3>1. Saved(o, l) = [key |-> b.key, saved |-> TRUE, by |-> b.by]  BY DEF Saved
      <3> HIDE DEF b
      <3>2. ASSUME NEW yes
            PROVE  [b EXCEPT !.saved = yes] = [key |-> b.key, saved |-> yes, by |-> b.by]
        BY <1>4 DEF BeanType
      <3> QED BY <3>1, <3>2, Zenon
    <2>2. [calc EXCEPT ![o][l].bean.saved = TRUE] =
            [calc EXCEPT ![o] = [calc[o] EXCEPT ![l] = [calc[o][l] EXCEPT !.bean = [b EXCEPT !.saved = TRUE]]]]
      BY <1>0, <1>3, <1>4 DEF TypeOK, Calculator, Queue
    <2>3. [calc EXCEPT ![o][l].bean = Saved(o, l)] =
            [calc EXCEPT ![o] = [calc[o] EXCEPT ![l] = [calc[o][l] EXCEPT !.bean = Saved(o, l)]]]
      BY <1>0, <1>3, <1>4 DEF TypeOK, Calculator, Queue
    <2> QED BY <2>1, <2>2, <2>3 DEF WithBean
  <1>6. \A x \in Nat : x \in DOMAIN rows[l] => [rows[l] EXCEPT ![x] = q.write] = With(rows[l], x, q.write)
    <2>1. rows[l] \in [DOMAIN rows[l] -> Counts]  BY <1>4, TableByValue
    <2> QED BY <2>1 DEF With
  <1>7. k \in DOMAIN rows[l] =>
           [rows EXCEPT ![l][k] = q.write] = [rows EXCEPT ![l] = With(@, k, q.write)]
    <2>1. [rows EXCEPT ![l][k] = q.write] = [rows EXCEPT ![l] = [rows[l] EXCEPT ![k] = q.write]]
      OBVIOUS
    <2> QED BY <1>4, <1>6, <2>1
  <1>8. Stored(u) => user' = [user EXCEPT ![u] = StoredOf(q)]
    BY DEF Stored, StoredOf
  <1>9. UNCHANGED <<now, listed, told, events, beats, mixed>>  BY DEF StoreRow
  <1>10. CASE q.insert /\ k \in DOMAIN rows[l] /\ Done(u) /\ hurt' = TRUE /\ UNCHANGED <<rows, calc>>
    BY <1>1, <1>3, <1>4, <1>9, <1>10 DEF Done
  <1>11. CASE /\ q.insert /\ k \notin DOMAIN rows[l]
              /\ rows' = [rows EXCEPT ![l] = With(@, k, q.write)]
              /\ calc' = IF b.key = k /\ b.by = q.bean
                         THEN [calc EXCEPT ![q.obj][l].bean.saved = TRUE] ELSE calc
              /\ Stored(u) /\ UNCHANGED hurt
    <2>1. calc' = IF b.key = k /\ b.by = q.bean THEN WithBean(o, l, Saved(o, l)) ELSE calc
      BY <1>5, <1>11
    <2>2. q.insert = TRUE  BY <1>3, <1>11
    <2>3. /\ rows' = [rows EXCEPT ![l] = With(@, k, q.write)] /\ k \notin DOMAIN rows[l]
          /\ UNCHANGED hurt /\ user' = [user EXCEPT ![u] = StoredOf(q)]
      BY <1>8, <1>11
    <2> QED BY <1>1, <1>3, <1>4, <1>9, <2>1, <2>2, <2>3
  <1>12. CASE /\ ~q.insert
              /\ rows' = IF k \in DOMAIN rows[l] THEN [rows EXCEPT ![l][k] = q.write] ELSE rows
              /\ hurt' = (hurt \/ (k \in DOMAIN rows[l] /\ ~AtMost(rows[l][k], q.write)))
              /\ Stored(u) /\ UNCHANGED calc
    <2>1. rows' = IF k \in DOMAIN rows[l] THEN [rows EXCEPT ![l] = With(@, k, q.write)] ELSE rows
      BY <1>7, <1>12
    <2>2. q.insert = FALSE  BY <1>3, <1>12
    <2>3. /\ hurt' = (hurt \/ (k \in DOMAIN rows[l] /\ ~AtMost(rows[l][k], q.write)))
          /\ UNCHANGED calc /\ user' = [user EXCEPT ![u] = StoredOf(q)]
      BY <1>8, <1>12
    <2> QED BY <1>1, <1>3, <1>4, <1>9, <2>1, <2>2, <2>3
  <1> QED BY <1>10, <1>11, <1>12 DEF StoreRow

\* A row is stored, or refused.
LEMMA StoreTypes == ASSUME Inv, NEW u \in User, StoreRow(u) PROVE Inv'
  <1> DEFINE q == user[u]
             o == q.obj
             l == q.level
             k == Key(l, q.t)
  <1>0. TypeOK /\ CallsSound  BY DEF Inv
  <1>1. /\ q.at = "store" /\ o \in Object /\ l \in Level /\ k \in Nat
        /\ calc[o][l].bean \in BeanType
        /\ rows' = rows \/ rows' = [rows EXCEPT ![l] = With(@, k, q.write)]
        /\ calc' = calc \/ calc' = WithBean(o, l, Saved(o, l))
        /\ \/ user' = [user EXCEPT ![u] = StoredOf(q)]
           \/ user' = [user EXCEPT ![u] = Rest]
        /\ UNCHANGED <<now, listed, told, events, beats, mixed>>
    BY StoreFacts
  <1>2. hurt' \in BOOLEAN
    <2>1. hurt \in BOOLEAN  BY <1>0 DEF TypeOK
    <2>2. \/ hurt' = TRUE \/ hurt' = hurt
          \/ hurt' = (hurt \/ (k \in DOMAIN rows[l] /\ ~AtMost(rows[l][k], q.write)))
      BY StoreFacts
    <2> QED BY <2>1, <2>2
  <1>3. q \in Call /\ Sound(q, calc, now) /\ q.write \in Counts
    BY <1>0 DEF TypeOK, CallsSound, Call
  <1> HIDE DEF q, k
  <1>4. rows' \in [Level -> Table]
    <2>1. rows[l] \in Table /\ rows \in [Level -> Table]  BY <1>0, <1>1 DEF TypeOK
    <2>2. With(rows[l], k, q.write) \in Table  BY <1>1, <1>3, <2>1, TableOps
    <2> QED BY <1>1, <2>1, <2>2
  <1>5. /\ calc' \in [Object -> Calculator]
        /\ \A p \in Object : \A m \in Level : calc'[p][m].data = calc[p][m].data
    <2>1. CASE calc' = calc  BY <1>0, <2>1 DEF TypeOK
    <2>2. CASE calc' = WithBean(o, l, Saved(o, l))
      <3>1. Saved(o, l) \in BeanType  BY <1>1 DEF Saved, BeanType
      <3> QED BY <1>0, <1>1, <2>2, <3>1, BeanOnly
    <2> QED BY <1>1, <2>1, <2>2
  <1>6. user' \in [User -> Call] /\ CallsSound'
    <2>1. CASE user' = [user EXCEPT ![u] = StoredOf(q)]
      <3> DEFINE r == StoredOf(q)
      <3>1. r \in Call /\ Sound(r, calc, now)  BY <1>0, <1>1, <1>3, StoredFacts
      <3>2. user' = [user EXCEPT ![u] = r]  BY <2>1
      <3> HIDE DEF r
      <3>3. r.obj \in Object => \A m \in Level :
               DOMAIN calc[r.obj][m].data \subseteq DOMAIN calc'[r.obj][m].data
        BY <1>5
      <3>4. now \in Nat /\ now <= now /\ Start \in Nat  BY <1>0, Basics DEF TypeOK
      <3>5. Sound(r, calc', now)  BY <3>1, <3>3, <3>4, SoundStays
      <3> QED BY <1>0, <1>1, <1>5, <3>1, <3>2, <3>5, CallsStay
    <2>2. CASE user' = [user EXCEPT ![u] = Rest]
      BY <1>0, <1>1, <1>5, <2>2, RestSound, CallsStay
    <2> QED BY <1>1, <2>1, <2>2
  <1> QED BY <1>0, <1>1, <1>2, <1>4, <1>5, <1>6 DEF Inv, TypeOK

\* Old rows are deleted.
LEMMA PruneFacts ==
    ASSUME Inv, NEW u \in User, Prune(u)
    PROVE  LET q == user[u]
               l == q.level
               o == q.obj
               old == q.date - Width[l] * Limit[l]
               c == [calc[o] EXCEPT ![l] = Touch(@, l, old)]
               r == IF l = Day - 1 THEN Rest ELSE [q EXCEPT !.level = l + 1]
           IN
           /\ q.at = "prune" /\ o \in Object /\ l \in Level /\ q.date \in Start .. now
           /\ old \in Nat /\ q.date \in Nat
           /\ calc' = [calc EXCEPT ![o] = c] /\ c \in Calculator
           /\ c[l] = Touch(calc[o][l], l, old)
           /\ \A m \in Level \ {l} : c[m] = calc[o][m]
           /\ rows' = [rows EXCEPT ![l] =
                 Only(@, {k \in DOMAIN @ : k >= KeepFrom(l, q.date)})]
           /\ rows' \in [Level -> Table]
           /\ user' = [Keeping(o, c, NoKeys) EXCEPT ![u] = r]
           /\ r \in Call /\ InHand(r) = {} /\ Sound(r, [calc EXCEPT ![o] = c], now)
           /\ UNCHANGED <<now, listed, told, events, beats, hurt, mixed>>
  <1> DEFINE q == user[u]
             l == q.level
             o == q.obj
             old == q.date - Width[l] * Limit[l]
             c == [calc[o] EXCEPT ![l] = Touch(@, l, old)]
             r == IF l = Day - 1 THEN Rest ELSE [q EXCEPT !.level = l + 1]
  <1>0. TypeOK /\ CallsSound  BY DEF Inv
  <1>1. /\ q.at = "prune"
        /\ calc' = [calc EXCEPT ![o] = c]
        /\ rows' = [rows EXCEPT ![l] =
                 Only(@, {k \in DOMAIN @ : k >= KeepFrom(l, q.date)})]
        /\ user' = [Keeping(o, c, NoKeys) EXCEPT ![u] = r]
        /\ UNCHANGED <<now, listed, told, events, beats, hurt, mixed>>
    BY DEF Prune
  <1>2. q \in Call /\ Sound(q, calc, now)  BY <1>0 DEF TypeOK, CallsSound
  <1>3. /\ o \in Object /\ l \in Level /\ q.date \in Start .. now /\ q.op = "update"
        /\ q.t \in Start .. now
    BY <1>1, <1>2 DEF Sound, Call
  <1>4. q.date \in Nat /\ Start <= q.date  BY <1>3, Basics
  <1>5. old \in Nat  BY <1>3, <1>4, KeepFromNat
  <1>6. calc[o] \in [Level -> Queue] /\ calc[o][l] \in Queue /\ rows[l] \in Table
        /\ rows \in [Level -> Table] /\ calc[o] \in Calculator
    BY <1>0, <1>3 DEF TypeOK, Calculator
  <1>7. Touch(calc[o][l], l, old) \in Queue
    <2> HIDE DEF old, l, o
    <2> QED BY <1>3, <1>5, <1>6, TouchFacts
  <1>8. /\ c \in Calculator /\ c[l] = Touch(calc[o][l], l, old)
        /\ \A m \in Level \ {l} : c[m] = calc[o][m]
    BY <1>3, <1>6, <1>7 DEF Calculator
  <1>9. rows' \in [Level -> Table]
    <2> DEFINE S == {k \in DOMAIN rows[l] : k >= KeepFrom(l, q.date)}
    <2>1. rows' = [rows EXCEPT ![l] = Only(rows[l], S)]  BY <1>1, <1>6
    <2>2. S \subseteq DOMAIN rows[l]  OBVIOUS
    <2> HIDE DEF S, l
    <2>3. Only(rows[l], S) \in Table  BY <1>6, <2>2, TableOps
    <2> QED BY <1>6, <2>1, <2>3
  <1>10. /\ r \in Call /\ InHand(r) = {} /\ Sound(r, [calc EXCEPT ![o] = c], now)
    <2>1. CASE l = Day - 1
      <3>1. r = Rest  BY <2>1
      <3>2. InHand(Rest) = {}  BY DEF InHand, Rest
      <3> HIDE DEF r, c
      <3> QED BY <3>1, <3>2, RestSound
    <2>2. CASE l # Day - 1
      <3>1. l + 1 \in Level
        <4>1. l < Day  BY <1>1, <1>2 DEF Sound
        <4> QED BY <1>3, <4>1, Levels
      <3>2. r = [q EXCEPT !.level = l + 1]  BY <2>2
      <3>3. /\ r \in Call /\ r.at = "prune" /\ r.op = "update" /\ r.obj = o /\ r.t = q.t
            /\ r.date = q.date /\ r.level = l + 1
        <4> HIDE DEF q
        <4> QED BY <1>1, <1>2, <1>3, <3>1, <3>2 DEF Call
      <3>6. l + 1 < Day  BY <2>2, <3>1, <1>3, Levels
      <3> HIDE DEF r, c, q
      <3>4. InHand(r) = {}  BY <3>3 DEF InHand
      <3>5. Has(r, [calc EXCEPT ![o] = c][o])  BY <3>4 DEF Has
      <3> QED BY <1>3, <3>3, <3>4, <3>5, <3>6 DEF Sound
    <2> QED BY <2>1, <2>2
  <1> QED BY <1>1, <1>3, <1>4, <1>5, <1>8, <1>9, <1>10

\* Old rows go.
LEMMA PruneTypes == ASSUME Inv, NEW u \in User, Prune(u) PROVE Inv'
  <1> DEFINE q == user[u]
             l == q.level
             o == q.obj
             c == [calc[o] EXCEPT ![l] = Touch(@, l, q.date - Width[l] * Limit[l])]
             r == IF l = Day - 1 THEN Rest ELSE [q EXCEPT !.level = l + 1]
  <1>0. TypeOK /\ CallsSound  BY DEF Inv
  <1>1. /\ o \in Object /\ c \in Calculator /\ r \in Call
        /\ calc' = [calc EXCEPT ![o] = c] /\ rows' \in [Level -> Table]
        /\ user' = [Keeping(o, c, NoKeys) EXCEPT ![u] = r]
        /\ Sound(r, [calc EXCEPT ![o] = c], now)
        /\ UNCHANGED <<now, listed, told, events, beats, hurt, mixed>>
    BY PruneFacts
  <1> HIDE DEF c, r, o
  <1>2. /\ calc' \in [Object -> Calculator] /\ user' \in [User -> Call] /\ CallsSound'
    BY <1>0, <1>1, CallsKept
  <1> QED BY <1>0, <1>1, <1>2 DEF Inv, TypeOK

\* A clear begins.
LEMMA BeginClearTypes == ASSUME Inv, NEW u \in User, BeginClear(u) PROVE Inv'
  <1> DEFINE r == [Rest EXCEPT !.op = "clear", !.at = "clear"]
  <1>0. TypeOK /\ CallsSound  BY DEF Inv
  <1>1. /\ user[u] = Rest /\ events' = events + 1
        /\ user' = [user EXCEPT ![u] = r]
        /\ mixed' = (mixed \/ Others(u) # {})
        /\ UNCHANGED <<now, rows, calc, listed, told, beats, hurt>>
    BY DEF BeginClear
  <1>2. /\ r \in Call /\ r.at = "clear" /\ r.op = "clear" /\ r.obj = None
    BY RestSound DEF Call, Rest
  <1>3. mixed' \in BOOLEAN  BY <1>1
  <1> HIDE DEF r
  <1>4. Sound(r, calc', now)  BY <1>2 DEF Sound
  <1>5. user' \in [User -> Call] /\ CallsSound'
    BY <1>0, <1>1, <1>2, <1>4, CallsStay
  <1> QED BY <1>0, <1>1, <1>3, <1>5 DEF Inv, TypeOK

\* A table is emptied.
LEMMA ClearTableTypes == ASSUME Inv, NEW u \in User, ClearTable(u) PROVE Inv'
  <1> DEFINE q == user[u]
             l == q.level
  <1>0. TypeOK /\ CallsSound  BY DEF Inv
  <1>1. /\ q.at = "clear"
        /\ rows' = [rows EXCEPT ![l] = Nowhere]
        /\ \/ /\ l = Day /\ listed' = None /\ Done(u)
              /\ beats' = [m \in Level |-> Nowhere]
              /\ calc' = [o \in Object |->
                             IF \E v \in User : user[v].obj = o THEN calc[o] ELSE Empty]
           \/ /\ l # Day /\ user' = [user EXCEPT ![u].level = l + 1]
              /\ UNCHANGED <<calc, listed, beats>>
        /\ UNCHANGED <<now, told, events, hurt, mixed>>
    BY DEF ClearTable
  <1>2. q \in Call /\ Sound(q, calc, now)  BY <1>0 DEF TypeOK, CallsSound
  <1>3. l \in Level /\ q.obj = None /\ q.op = "clear"  BY <1>1, <1>2 DEF Call, Sound
  <1>4. Nowhere \in Table /\ rows \in [Level -> Table]
    BY <1>0, <1>3, TableOps DEF TypeOK
  <1>5. rows' \in [Level -> Table]  BY <1>1, <1>3, <1>4
  <1>6. CASE l = Day
    <2>1. /\ listed' = None /\ user' = [user EXCEPT ![u] = Rest]
          /\ beats' = [m \in Level |-> Nowhere]
          /\ calc' = [o \in Object |->
                         IF \E v \in User : user[v].obj = o THEN calc[o] ELSE Empty]
      BY <1>1, <1>6 DEF Done
    <2>2. calc' \in [Object -> Calculator]
      BY <1>0, <2>1, EmptyIsCalculator DEF TypeOK
    <2>3. \A v \in User : user[v].obj \in Object => calc'[user[v].obj] = calc[user[v].obj]
      BY <2>1
    <2>4. user' \in [User -> Call] /\ CallsSound'
      BY <1>0, <1>1, <2>1, <2>3, RestSound, CallsStay
    <2>5. beats' \in [Level -> Table]  BY <1>4, <2>1
    <2> QED BY <1>0, <1>1, <1>5, <2>1, <2>2, <2>4, <2>5 DEF Inv, TypeOK
  <1>7. CASE l # Day
    <2> DEFINE r == [q EXCEPT !.level = l + 1]
    <2>1. user' = [user EXCEPT ![u] = r] /\ UNCHANGED <<calc, listed, beats>>
      BY <1>0, <1>1, <1>7 DEF TypeOK
    <2>2. l + 1 \in Level  BY <1>3, <1>7, Levels
    <2>3. r \in Call /\ r.at = "clear" /\ r.op = "clear" /\ r.obj = None
      <3> HIDE DEF q
      <3> QED BY <1>1, <1>2, <1>3, <2>2 DEF Call
    <2> HIDE DEF r
    <2>4. Sound(r, calc', now)  BY <2>3 DEF Sound
    <2>5. user' \in [User -> Call] /\ CallsSound'
      BY <1>0, <1>1, <2>1, <2>3, <2>4, CallsStay
    <2> QED BY <1>0, <1>1, <1>5, <2>1, <2>5 DEF Inv, TypeOK
  <1> QED BY <1>1, <1>6, <1>7

\* A query fails.
LEMMA FailTypes == ASSUME Inv, NEW u \in User, Fail(u) PROVE Inv'
  <1>0. TypeOK /\ CallsSound  BY DEF Inv
  <1>1. /\ events' = events + 1 /\ user' = [user EXCEPT ![u] = Rest] /\ hurt' = TRUE
        /\ UNCHANGED <<now, rows, calc, listed, told, beats, mixed>>
    BY DEF Fail, Done
  <1>2. user' \in [User -> Call] /\ CallsSound'
    BY <1>0, <1>1, RestSound, CallsStay
  <1> QED BY <1>0, <1>1, <1>2 DEF Inv, TypeOK

\* The server starts again.
LEMMA RestartTypes == ASSUME Inv, Restart PROVE Inv'
  <1>0. TypeOK /\ CallsSound  BY DEF Inv
  <1>1. /\ events' = events + 1 /\ listed' = None
        /\ calc' = [o \in Object |-> Empty] /\ user' = [u \in User |-> Rest]
        /\ hurt' = (hurt \/ \E u \in User : user[u].op \in {"update", "clear"})
        /\ UNCHANGED <<now, rows, told, beats, mixed>>
    BY DEF Restart
  <1>2. calc' \in [Object -> Calculator]  BY <1>1, EmptyIsCalculator
  <1>3. user' \in [User -> Call] /\ CallsSound'  BY <1>1, RestSound DEF CallsSound
  <1>4. hurt' \in BOOLEAN  BY <1>1
  <1> QED BY <1>0, <1>1, <1>2, <1>3, <1>4 DEF Inv, TypeOK

\* Time passes.
LEMMA TickTypes == ASSUME Inv, Tick PROVE Inv'
  <1>0. TypeOK /\ CallsSound  BY DEF Inv
  <1>1. /\ now' = now + 1
        /\ UNCHANGED <<rows, calc, listed, user, told, events, beats, hurt, mixed>>
    BY DEF Tick
  <1>2. now \in Nat /\ now' \in Nat /\ now <= now' /\ Start <= now' /\ Start \in Nat
    BY <1>0, <1>1, Basics DEF TypeOK
  <1>3. \A u \in User : Sound(user[u], calc, now')
    <2> TAKE u \in User
    <2> DEFINE q == user[u]
    <2>1. q \in Call /\ Sound(q, calc, now)  BY <1>0 DEF TypeOK, CallsSound
    <2> HIDE DEF q
    <2>2. Sound(q, calc, now')  BY <1>0, <1>2, <2>1, SoundStays DEF TypeOK
    <2> QED BY <2>2 DEF q
  <1> QED BY <1>0, <1>1, <1>2, <1>3 DEF Inv, TypeOK, CallsSound

\* Every step keeps the types, and the calls sound.
LEMMA NextInv == ASSUME Inv, [Next]_vars PROVE Inv'
  <1>1. CASE Next
    <2>1. ASSUME NEW u \in User,
                 \/ Begin(u) \/ LoadLevel(u) \/ AfterInit(u) \/ Bean(u)
                 \/ StoreRow(u) \/ Prune(u) \/ BeginClear(u) \/ ClearTable(u) \/ Fail(u)
          PROVE  Inv'
      BY <2>1, BeginTypes, LoadLevelTypes, AfterInitTypes, BeanTypes, StoreTypes, PruneTypes,
         BeginClearTypes, ClearTableTypes, FailTypes
    <2> QED BY <1>1, <2>1, RestartTypes, TickTypes DEF Next
  <1>2. CASE UNCHANGED vars
    BY <1>2 DEF vars, Inv, TypeOK, CallsSound, Sound, Has
  <1> QED BY <1>1, <1>2

\* At first nobody has asked for anything.
LEMMA InitInv == Init => Inv
  <1> HAVE Init
  <1>1. /\ now = Start /\ rows \in Starts /\ calc = [o \in Object |-> Empty]
        /\ listed = None /\ user = [u \in User |-> Rest] /\ told = 0 /\ events = 0
        /\ beats = rows /\ hurt = FALSE /\ mixed = FALSE
    BY DEF Init
  <1>2. rows \in [Level -> Table]
    <2>1. rows = [l \in Level |-> rows[l]]  BY <1>1, UptimeAssumption
    <2>2. ASSUME NEW l \in Level PROVE rows[l] \in Table
      <3>1. /\ DOMAIN rows[l] \subseteq {Key(l, t) : t \in 0 .. Start}
            /\ rows[l] \in [DOMAIN rows[l] -> Counts]
        BY <1>1, UptimeAssumption
      <3>2. \A t \in 0 .. Start : Key(l, t) \in Nat  BY KeyBounds, Basics
      <3> QED BY <3>1, <3>2, TableByValue
    <2> QED BY <2>1, <2>2
  <1>3. calc \in [Object -> Calculator]  BY <1>1, EmptyIsCalculator
  <1>4. user \in [User -> Call] /\ CallsSound  BY <1>1, RestSound DEF CallsSound
  <1>5. now \in Nat /\ Start <= now  BY <1>1, Basics
  <1> QED BY <1>1, <1>2, <1>3, <1>4, <1>5 DEF Inv, TypeOK

-----------------------------------------------------------------------------
(* No row says more than there was                                         *)

\* What a queue, or a calculator, holds is at most what the beats bs say.
QueueUnder(q, b) == \A k \in DOMAIN q.data : AtMost(q.data[k], Held(b, k))
Under(c, bs) == \A l \in Level : QueueUnder(c[l], bs[l])

\* And what a call has kept, or is about to store.
CallUnder(q, bs) ==
    /\ q.at \in {"bean", "store"} =>
          \A l \in Level : l <= q.level => Key(l, q.t) \in DOMAIN bs[l]
    /\ \A l \in InHand(q) :
          q.frozen[l] # None => AtMost(q.frozen[l], Held(bs[l], Key(l, q.t)))
    /\ q.at = "store" => AtMost(q.write, Held(bs[q.level], Key(q.level, q.t)))

RowsUnder == \A l \in Level : \A k \in DOMAIN rows[l] :
                k \in DOMAIN beats[l] /\ AtMost(rows[l][k], beats[l][k])

CalcsUnder == \A o \in Object : Under(calc[o], beats)
CallsUnder == \A u \in User : CallUnder(user[u], beats)

\* A clear is alone, and has emptied the tables before the one it is at.
ClearAlone ==
    \A u \in User : user[u].op = "clear" =>
        /\ \A v \in User \ {u} : user[v] = Rest
        /\ \A l \in Level : l < user[u].level => rows[l] = Nowhere

AllUnder == RowsUnder /\ CalcsUnder /\ CallsUnder /\ ClearAlone

MoreInv == ~mixed => AllUnder

\* The beats bs are among the beats cs.
Among(bs, cs) ==
    \A l \in Level : /\ DOMAIN bs[l] \subseteq DOMAIN cs[l]
                     /\ \A k : AtMost(Held(bs[l], k), Held(cs[l], k))

\* What is under some beats is under more.
LEMMA UnderMore ==
    ASSUME NEW bs \in [Level -> Table], NEW cs \in [Level -> Table], Among(bs, cs)
    PROVE  /\ \A c \in Calculator : Under(c, bs) => Under(c, cs)
           /\ \A q \in Call : CallUnder(q, bs) => CallUnder(q, cs)
  <1>1. \A l \in Level : \A k : Held(bs[l], k) \in Counts /\ Held(cs[l], k) \in Counts
                               /\ AtMost(Held(bs[l], k), Held(cs[l], k))
    BY TableOps DEF Among
  <1>2. ASSUME NEW c \in Calculator, Under(c, bs) PROVE Under(c, cs)
    <2> SUFFICES ASSUME NEW l \in Level, NEW k \in DOMAIN c[l].data
                 PROVE  AtMost(c[l].data[k], Held(cs[l], k))
      BY DEF Under, QueueUnder
    <2>1. c[l].data[k] \in Counts  BY TableOps DEF Calculator, Queue
    <2>2. AtMost(c[l].data[k], Held(bs[l], k))  BY <1>2 DEF Under, QueueUnder
    <2> QED BY <1>1, <2>1, <2>2, AtMostOrder
  <1>3. ASSUME NEW q \in Call, CallUnder(q, bs) PROVE CallUnder(q, cs)
    <2>1. q.at \in {"bean", "store"} =>
             \A l \in Level : l <= q.level => Key(l, q.t) \in DOMAIN cs[l]
      BY <1>3 DEF CallUnder, Among
    <2>2. ASSUME NEW l \in InHand(q), q.frozen[l] # None
          PROVE  AtMost(q.frozen[l], Held(cs[l], Key(l, q.t)))
      <3>1. l \in Level  BY DEF InHand
      <3>2. q.frozen[l] \in Counts  BY <2>2, <3>1 DEF Call
      <3>3. AtMost(q.frozen[l], Held(bs[l], Key(l, q.t)))  BY <1>3, <2>2 DEF CallUnder
      <3> QED BY <1>1, <3>1, <3>2, <3>3, AtMostOrder
    <2>3. ASSUME q.at = "store"
          PROVE  AtMost(q.write, Held(cs[q.level], Key(q.level, q.t)))
      <3>1. q.level \in Level /\ q.write \in Counts  BY DEF Call
      <3>2. AtMost(q.write, Held(bs[q.level], Key(q.level, q.t)))  BY <1>3, <2>3 DEF CallUnder
      <3> QED BY <1>1, <3>1, <3>2, AtMostOrder
    <2> QED BY <2>1, <2>2, <2>3 DEF CallUnder
  <1> QED BY <1>2, <1>3

\* A bucket that is kept says no more in the call than it did in the queue.
LEMMA KeepingUnder ==
    ASSUME Inv, CalcsUnder, CallsUnder, NEW o \in Object, NEW c, NEW over, NEW v \in User
    PROVE  CallUnder(Keeping(o, c, over)[v], beats)
  <1> DEFINE q == user[v]
             r == Keeping(o, c, over)[v]
  <1>1. TypeOK /\ CallsSound  BY DEF Inv
  <1>2. r \in Call /\ Alike(r, q)  BY <1>1, KeepingFacts
  <1>3. CallUnder(q, beats)  BY DEF CallsUnder
  <1>4. CASE q.obj # o
    <2>1. r = q  BY <1>1, <1>4, KeepingFacts
    <2> QED BY <1>3, <2>1
  <1>5. CASE q.obj = o
    <2>1. \A l \in Level : \/ r.frozen[l] = q.frozen[l]
                           \/ /\ Key(l, q.t) \in DOMAIN calc[o][l].data
                              /\ r.frozen[l] = calc[o][l].data[Key(l, q.t)]
      BY <1>1, <1>5, KeepingFacts
    <2>2. Under(calc[o], beats)  BY DEF CalcsUnder
    <2> HIDE DEF q, r
    <2>3. InHand(r) = InHand(q) /\ \A l \in InHand(q) : l \in Level
      BY <1>2 DEF Alike, InHand
    <2>4. ASSUME NEW l \in InHand(r), r.frozen[l] # None
          PROVE  AtMost(r.frozen[l], Held(beats[l], Key(l, r.t)))
      <3>1. l \in InHand(q) /\ l \in Level /\ r.t = q.t  BY <1>2, <2>3 DEF Alike
      <3>2. CASE r.frozen[l] = q.frozen[l]
        BY <1>3, <2>4, <3>1, <3>2 DEF CallUnder
      <3>3. CASE /\ Key(l, q.t) \in DOMAIN calc[o][l].data
                 /\ r.frozen[l] = calc[o][l].data[Key(l, q.t)]
        BY <2>2, <3>1, <3>3 DEF Under, QueueUnder
      <3> QED BY <2>1, <3>1, <3>2, <3>3
    <2>5. CallUnder(r, beats)  BY <1>2, <1>3, <2>4 DEF CallUnder, Alike
    <2> QED BY <2>5 DEF r
  <1> QED BY <1>4, <1>5

\* A call that is over has nothing in hand.
LEMMA RestUnder == \A bs : CallUnder(Rest, bs)
  BY DEF CallUnder, Rest, InHand

\* All of it, when a call changes a calculator and becomes r.
LEMMA UnderKept ==
    ASSUME Inv, CalcsUnder, CallsUnder, NEW o \in Object, NEW c \in Calculator, NEW over,
           NEW u \in User, NEW r,
           calc' = [calc EXCEPT ![o] = c],
           user' = [Keeping(o, c, over) EXCEPT ![u] = r],
           Among(beats, beats'), beats' \in [Level -> Table],
           Under(c, beats'), CallUnder(r, beats')
    PROVE  CalcsUnder' /\ CallsUnder'
  <1>0. TypeOK /\ CallsSound  BY DEF Inv
  <1>1. beats \in [Level -> Table] /\ calc \in [Object -> Calculator]  BY <1>0 DEF TypeOK
  <1>2. \A p \in Object : Under(calc'[p], beats')
    <2> TAKE p \in Object
    <2>1. CASE p = o  BY <1>1, <2>1
    <2>2. CASE p # o
      <3>1. calc'[p] = calc[p] /\ calc[p] \in Calculator  BY <1>1, <2>2
      <3> QED BY <1>1, <3>1, UnderMore DEF CalcsUnder
    <2> QED BY <2>1, <2>2
  <1>3. Keeping(o, c, over) = [v \in User |-> Keeping(o, c, over)[v]]  BY DEF Keeping
  <1>4. user'[u] = r /\ \A v \in User \ {u} : user'[v] = Keeping(o, c, over)[v]
    BY <1>3
  <1>5. \A v \in User : CallUnder(user'[v], beats')
    <2> TAKE v \in User
    <2>1. CASE v = u  BY <1>4, <2>1
    <2>2. CASE v # u
      <3>1. Keeping(o, c, over)[v] \in Call  BY <1>0, KeepingFacts
      <3>2. CallUnder(Keeping(o, c, over)[v], beats)  BY KeepingUnder
      <3> QED BY <1>1, <1>4, <2>2, <3>1, <3>2, UnderMore
    <2> QED BY <2>1, <2>2
  <1> QED BY <1>2, <1>5 DEF CalcsUnder, CallsUnder

\* Beats are among themselves.
LEMMA AmongSelf == ASSUME NEW bs \in [Level -> Table] PROVE Among(bs, bs)
  BY TableOps, AtMostOrder DEF Among

\* A bucket that is made, or that stays, says nothing new.
LEMMA TouchUnder ==
    ASSUME NEW q \in Queue, NEW l \in Level, NEW t \in Nat, NEW b \in Table, QueueUnder(q, b)
    PROVE  QueueUnder(Touch(q, l, t), b)
  <1> SUFFICES ASSUME NEW k \in DOMAIN Touch(q, l, t).data
               PROVE  AtMost(Touch(q, l, t).data[k], Held(b, k))
    BY DEF QueueUnder
  <1>1. Touch(q, l, t).data[k] = Held(q.data, k)  BY TouchFacts
  <1>2. Held(b, k) \in Counts  BY TableOps
  <1> QED BY <1>1, <1>2, AtMostOrder DEF QueueUnder, Held

\* A call that finds a calculator counts what there was.
LEMMA UseUnder ==
    ASSUME Inv, CalcsUnder, CallsUnder, NEW u \in User, NEW o \in Object, NEW q \in Call,
           q.op \in {"read", "update"}, q.frozen = NotFrozen, Use(u, o, q)
    PROVE  /\ CalcsUnder' /\ CallsUnder'
           /\ Among(beats, beats') /\ beats' \in [Level -> Table]
           /\ \E over, c, r : /\ user' = [Keeping(o, c, over) EXCEPT ![u] = r]
                              /\ r.op # "clear"
  <1>0. /\ TypeOK /\ CallsSound /\ calc[o] \in Calculator /\ now \in Nat
        /\ beats \in [Level -> Table] /\ Under(calc[o], beats)
    BY DEF Inv, TypeOK, CalcsUnder
  <1>1. CASE q.op = "read"
    <2> DEFINE c == Touched(calc[o], now)
    <2>1. /\ calc' = [calc EXCEPT ![o] = c]
          /\ user' = [Keeping(o, c, NoKeys) EXCEPT ![u] = Rest]
          /\ beats' = beats
      BY <1>1 DEF Use
    <2>2. c \in Calculator /\ \A l \in Level : c[l] = Touch(calc[o][l], l, now)
      BY <1>0, TouchedFacts
    <2> HIDE DEF c
    <2>3. Under(c, beats)
      <3> SUFFICES ASSUME NEW l \in Level PROVE QueueUnder(c[l], beats[l])
        BY DEF Under
      <3>1. calc[o][l] \in Queue /\ beats[l] \in Table /\ QueueUnder(calc[o][l], beats[l])
        BY <1>0 DEF Calculator, Under
      <3> QED BY <1>0, <2>2, <3>1, TouchUnder
    <2>4. Among(beats, beats') /\ beats' \in [Level -> Table] /\ Under(c, beats')
      BY <1>0, <2>1, <2>3, AmongSelf
    <2>5. Rest.op # "clear"  BY DEF Rest
    <2> QED BY <2>1, <2>2, <2>4, <2>5, RestUnder, UnderKept
  <1>2. CASE q.op = "update"
    <2> DEFINE c == Counted(calc[o], q.status, now)
               s == q.status
               b == [q EXCEPT !.at = "bean", !.obj = o, !.t = now, !.level = Day]
               r == IF Broken(calc[o], now) # {} THEN Rest ELSE b
    <2>1. /\ calc' = [calc EXCEPT ![o] = c]
          /\ user' = [Keeping(o, c, NoKeys) EXCEPT ![u] = r]
      BY <1>2 DEF Use
    <2>2. s \in Status  BY DEF Call, Status
    <2>3. \A l \in Level : beats'[l] = With(beats[l], Key(l, now), Inc(Held(beats[l], Key(l, now)), s))
      BY <1>2 DEF Use, Inc, Held, Flat
    <2>4. beats' = [l \in Level |-> beats'[l]]  BY <1>2 DEF Use
    <2>5. \A l \in Level : /\ Key(l, now) \in Nat
                           /\ Inc(Held(beats[l], Key(l, now)), s) \in Counts
                           /\ beats[l] \in Table
      BY <1>0, <2>2, TableOps, IncFacts, KeyBounds
    <2>6. beats' \in [Level -> Table]
      <3>1. \A l \in Level : beats'[l] \in Table  BY <2>3, <2>5, TableOps
      <3> QED BY <2>4, <3>1
    <2>7. \A l \in Level : /\ DOMAIN beats'[l] = DOMAIN beats[l] \cup {Key(l, now)}
                           /\ \A k : Held(beats'[l], k) =
                                IF k = Key(l, now) THEN Inc(Held(beats[l], k), s)
                                ELSE Held(beats[l], k)
      <3> SUFFICES ASSUME NEW l \in Level
                   PROVE  /\ DOMAIN beats'[l] = DOMAIN beats[l] \cup {Key(l, now)}
                          /\ \A k : Held(beats'[l], k) =
                               IF k = Key(l, now) THEN Inc(Held(beats[l], k), s)
                               ELSE Held(beats[l], k)
        OBVIOUS
      <3>1. PICK f, g, key, d : /\ f = beats[l] /\ g = beats'[l] /\ key = Key(l, now)
                                /\ d = Inc(Held(beats[l], Key(l, now)), s)
        OBVIOUS
      <3>2. g = With(f, key, d)  BY <2>3, <3>1
      <3>3. /\ DOMAIN g = DOMAIN f \cup {key}
            /\ \A x : Held(g, x) = IF x = key THEN d ELSE Held(f, x)
        <4>1. /\ DOMAIN g = DOMAIN f \cup {key}
              /\ \A x \in DOMAIN f \cup {key} : g[x] = IF x = key THEN d ELSE f[x]
          BY <3>2 DEF With
        <4> QED BY <4>1 DEF Held
      <3> HIDE DEF s
      <3> QED BY <3>1, <3>3
    <2>8. \A l \in Level : \A k : Held(beats[l], k) \in Counts
      BY <2>5, TableOps
    <2>9. Among(beats, beats')
      <3>1. \A l \in Level : \A k : AtMost(Held(beats[l], k), Inc(Held(beats[l], k), s))
                                    /\ AtMost(Held(beats[l], k), Held(beats[l], k))
        BY <2>2, <2>8, IncFacts, AtMostOrder
      <3> QED BY <2>7, <3>1 DEF Among
    <2>10. c \in Calculator  BY <1>0, <2>2, CountedFacts
    <2>11. Under(c, beats')
      <3> SUFFICES ASSUME NEW l \in Level, NEW k \in DOMAIN c[l].data
                   PROVE  AtMost(c[l].data[k], Held(beats'[l], k))
        BY DEF Under, QueueUnder
      <3>1. \/ c[l].data[k] = Held(calc[o][l].data, k)
            \/ /\ k = Key(l, now)
               /\ c[l].data[k] = Inc(Held(calc[o][l].data, k), s)
        BY <1>0, <2>2, CountedFacts
      <3>2. calc[o][l].data \in Table  BY <1>0 DEF Calculator, Queue
      <3>3. Held(calc[o][l].data, k) \in Counts  BY <3>2, TableOps
      <3>4. AtMost(Held(calc[o][l].data, k), Held(beats[l], k))
        <4>1. QueueUnder(calc[o][l], beats[l])  BY <1>0 DEF Under
        <4> QED BY <2>8, <4>1, AtMostOrder DEF QueueUnder, Held
      <3> HIDE DEF c, s
      <3>5. CASE c[l].data[k] = Held(calc[o][l].data, k)
        BY <2>2, <2>7, <2>8, <3>3, <3>4, <3>5, IncFacts
      <3>6. CASE k = Key(l, now) /\ c[l].data[k] = Inc(Held(calc[o][l].data, k), s)
        BY <2>2, <2>7, <2>8, <3>3, <3>4, <3>6, IncFacts
      <3> QED BY <3>1, <3>5, <3>6
    <2>12. CallUnder(r, beats') /\ r.op # "clear"
      <3>1. CASE Broken(calc[o], now) # {}
        <4>1. r = Rest /\ Rest.op # "clear"  BY <3>1 DEF Rest
        <4> QED BY <4>1, RestUnder
      <3>2. CASE Broken(calc[o], now) = {}
        <4>1. /\ r = b /\ b.at = "bean" /\ b.t = now /\ b.op = "update" /\ b.frozen = NotFrozen
          BY <1>2, <3>2 DEF Call
        <4> HIDE DEF b, r
        <4>2. \A l \in Level : Key(l, b.t) \in DOMAIN beats'[l]  BY <2>7, <4>1
        <4>3. \A l \in InHand(b) : b.frozen[l] = None  BY <4>1 DEF InHand, NotFrozen
        <4> QED BY <4>1, <4>2, <4>3 DEF CallUnder
      <3> QED BY <3>1, <3>2
    <2> HIDE DEF c, r
    <2> QED BY <2>1, <2>6, <2>9, <2>10, <2>11, <2>12, UnderKept
  <1> QED BY <1>1, <1>2

\* No clear is under way where a call is.
LEMMA NoClear ==
    ASSUME Inv, ClearAlone, NEW u \in User, user[u].at \notin {"none", "clear"}
    PROVE  \A v \in User : user[v].op # "clear"
  <1>1. Sound(user[u], calc, now)  BY DEF Inv, CallsSound
  <1>2. user[u].op # "clear" /\ user[u] # Rest  BY <1>1 DEF Sound, Rest
  <1> QED BY <1>2 DEF ClearAlone

\* Keeping buckets is no clear.
LEMMA KeepingNoClear ==
    ASSUME Inv, NEW o \in Object, NEW c, NEW over, NEW u \in User, NEW r, r.op # "clear",
           user' = [Keeping(o, c, over) EXCEPT ![u] = r],
           \A v \in User : user[v].op # "clear"
    PROVE  ClearAlone'
  <1>1. Keeping(o, c, over) = [v \in User |-> Keeping(o, c, over)[v]]  BY DEF Keeping
  <1>2. \A v \in User : Keeping(o, c, over)[v].op = user[v].op
    BY KeepingFacts DEF Inv, Alike
  <1>3. \A v \in User : user'[v].op # "clear"  BY <1>1, <1>2
  <1> QED BY <1>3 DEF ClearAlone

\* Rows that stay are under beats that only grow.
LEMMA RowsStay ==
    ASSUME Inv, RowsUnder, rows' = rows, Among(beats, beats'), beats' \in [Level -> Table]
    PROVE  RowsUnder'
  <1> SUFFICES ASSUME NEW l \in Level, NEW k \in DOMAIN rows[l]
               PROVE  k \in DOMAIN beats'[l] /\ AtMost(rows[l][k], beats'[l][k])
    BY DEF RowsUnder
  <1>1. rows[l] \in Table /\ beats[l] \in Table /\ beats'[l] \in Table  BY DEF Inv, TypeOK
  <1>2. k \in DOMAIN beats[l] /\ AtMost(rows[l][k], beats[l][k])  BY DEF RowsUnder
  <1>3. k \in DOMAIN beats'[l] /\ AtMost(beats[l][k], beats'[l][k])
    BY <1>2 DEF Among, Held
  <1>4. rows[l][k] \in Counts /\ beats[l][k] \in Counts /\ beats'[l][k] \in Counts
    BY <1>1, <1>2, <1>3, TableOps
  <1> QED BY <1>2, <1>3, <1>4, AtMostOrder

\* The calls, when one of them becomes r, which is no clear, and the rest stays.
LEMMA OneCall ==
    ASSUME CallsUnder, ClearAlone, NEW u \in User, NEW r, user \in [User -> Call],
           user' = [user EXCEPT ![u] = r], beats' = beats, CallUnder(r, beats),
           \A v \in User : user[v].op # "clear", r.op # "clear"
    PROVE  CallsUnder' /\ ClearAlone'
  <1>1. user'[u] = r /\ \A v \in User \ {u} : user'[v] = user[v]  OBVIOUS
  <1> QED BY <1>1 DEF CallsUnder, ClearAlone

\* A call begins.
LEMMA BeginMore == ASSUME Inv, MoreInv, NEW u \in User, Begin(u) PROVE MoreInv'
  <1>1. PICK op \in {"update", "read"}, s \in Statuses :
           /\ user[u] = Rest
           /\ LET q == [Rest EXCEPT !.op = op, !.t = now,
                                    !.status = IF op = "read" THEN @ ELSE s] IN
              IF listed # None THEN Use(u, listed, q) /\ UNCHANGED listed
              ELSE \E o \in Unused :
                     /\ listed' = o
                     /\ calc' = [calc EXCEPT ![o] =
                           [Empty EXCEPT ![1] = Touch(@, 1, now - Width[1] * Limit[1])]]
                     /\ user' = [user EXCEPT ![u] = [q EXCEPT !.at = "load", !.obj = o]]
                     /\ UNCHANGED <<beats, hurt>>
           /\ mixed' = (mixed \/ \E v \in User : user[v].op = "clear")
           /\ UNCHANGED <<now, rows>>
    BY DEF Begin
  <1> SUFFICES ASSUME ~mixed' PROVE AllUnder'  BY DEF MoreInv
  <1>2. ~mixed /\ \A v \in User : user[v].op # "clear"  BY <1>1
  <1>3. RowsUnder /\ CalcsUnder /\ CallsUnder /\ ClearAlone  BY <1>2 DEF MoreInv, AllUnder
  <1> DEFINE q == [Rest EXCEPT !.op = op, !.t = now, !.status = IF op = "read" THEN @ ELSE s]
  <1>4. /\ q \in Call /\ q.op = op /\ q.frozen = NotFrozen /\ q.at = "none"
        /\ TypeOK /\ CallsSound /\ now \in Nat /\ Start <= now
    BY RestSound, Basics DEF Inv, TypeOK, Call, Rest
  <1>5. CASE listed # None
    <2>1. Use(u, listed, q)  BY <1>1, <1>5
    <2>2. listed \in Object  BY <1>4, <1>5 DEF TypeOK
    <2> HIDE DEF q
    <2>3. /\ CalcsUnder' /\ CallsUnder'
          /\ Among(beats, beats') /\ beats' \in [Level -> Table]
      BY <1>3, <1>4, <2>1, <2>2, UseUnder
    <2>4. \E over, c, r : /\ user' = [Keeping(listed, c, over) EXCEPT ![u] = r]
                          /\ r.op # "clear"
      BY <1>3, <1>4, <2>1, <2>2, UseUnder
    <2>5. PICK over, c, r : /\ user' = [Keeping(listed, c, over) EXCEPT ![u] = r]
                            /\ r.op # "clear"
      BY <2>4
    <2>6. ClearAlone'  BY <1>2, <2>2, <2>5, KeepingNoClear
    <2>7. RowsUnder'  BY <1>1, <1>3, <2>3, RowsStay
    <2> QED BY <2>3, <2>6, <2>7 DEF AllUnder
  <1>6. CASE listed = None
    <2> DEFINE c == [Empty EXCEPT ![1] = Touch(@, 1, now - Width[1] * Limit[1])]
    <2>1. PICK o \in Unused :
             /\ calc' = [calc EXCEPT ![o] = c]
             /\ user' = [user EXCEPT ![u] = [q EXCEPT !.at = "load", !.obj = o]]
             /\ beats' = beats
      BY <1>1, <1>6
    <2> DEFINE r == [q EXCEPT !.at = "load", !.obj = o]
    <2>2. o \in Object /\ beats \in [Level -> Table] /\ calc \in [Object -> Calculator]
      BY <1>4 DEF Unused, TypeOK
    <2>3. \A l \in Level : QueueUnder(EmptyQueue, beats[l])
      BY DEF QueueUnder, EmptyQueue, Nowhere
    <2>4. Under(c, beats)
      <3>1. 1 \in Level /\ now - Width[1] * Limit[1] \in Nat  BY <1>4, Levels, KeepFromNat
      <3>2. EmptyQueue \in Queue /\ beats[1] \in Table
        BY <2>2, <3>1, EmptyIsCalculator DEF Calculator
      <3>3. QueueUnder(Touch(EmptyQueue, 1, now - Width[1] * Limit[1]), beats[1])
        BY <2>3, <3>1, <3>2, TouchUnder
      <3>4. \A l \in Level : c[l] = IF l = 1 THEN Touch(EmptyQueue, 1, now - Width[1] * Limit[1])
                                    ELSE EmptyQueue
        BY <3>1, EmptyIsCalculator DEF Calculator
      <3> HIDE DEF c
      <3> QED BY <2>3, <3>3, <3>4 DEF Under
    <2> HIDE DEF c
    <2>5. CalcsUnder'
      <3>1. \A p \in Object : calc'[p] = IF p = o THEN c ELSE calc[p]  BY <2>1, <2>2
      <3> QED BY <1>3, <2>1, <2>4, <3>1 DEF CalcsUnder
    <2>6. r.at = "load" /\ r.op = op /\ r.op # "clear"
      BY <1>4 DEF Call
    <2>7. user' = [user EXCEPT ![u] = r] /\ user \in [User -> Call]  BY <1>4, <2>1 DEF TypeOK
    <2> HIDE DEF r
    <2>8. CallUnder(r, beats)  BY <2>6 DEF CallUnder, InHand
    <2>9. CallsUnder' /\ ClearAlone'
      BY <1>2, <1>3, <2>1, <2>6, <2>7, <2>8, OneCall
    <2>10. RowsUnder'
      BY <1>1, <1>3, <2>1, <2>2, AmongSelf, RowsStay
    <2> QED BY <2>5, <2>9, <2>10 DEF AllUnder
  <1> QED BY <1>5, <1>6

\* A level is loaded: the rows were under the beats.
LEMMA LoadLevelMore == ASSUME Inv, MoreInv, NEW u \in User, LoadLevel(u) PROVE MoreInv'
  <1>0. TypeOK /\ CallsSound  BY DEF Inv
  <1> DEFINE q == user[u]
             o == q.obj
             l == q.level
             n == l + 1
             c == [calc[o] EXCEPT ![l] = LoadedAll(@, l, q.t)]
             d == IF l = Day THEN c
                  ELSE [c EXCEPT ![n] = Touch(@, n, q.t - Width[n] * Limit[n])]
             r == IF l = Day THEN [q EXCEPT !.at = "loaded", !.level = 1]
                  ELSE [q EXCEPT !.level = n]
             over == [NoKeys EXCEPT ![l] = Found(l, q.t)]
  <1>1. /\ q.at = "load"
        /\ calc' = [calc EXCEPT ![o] = d]
        /\ user' = [Keeping(o, d, over) EXCEPT ![u] = r]
        /\ UNCHANGED <<now, rows, listed, told, events, beats, mixed>>
    BY DEF LoadLevel
  <1> SUFFICES ASSUME ~mixed PROVE AllUnder'  BY <1>1 DEF MoreInv
  <1>2. RowsUnder /\ CalcsUnder /\ CallsUnder /\ ClearAlone  BY DEF MoreInv, AllUnder
  <1>3. q \in Call /\ Sound(q, calc, now)  BY <1>0 DEF TypeOK, CallsSound
  <1>4. /\ o \in Object /\ q.t \in Start .. now /\ l \in Level /\ q.op # "clear"
        /\ q.frozen = NotFrozen
    BY <1>1, <1>3 DEF Sound, Call
  <1>5. /\ calc[o] \in Calculator /\ rows[l] \in Table /\ now \in Nat /\ Start \in Nat
        /\ q.t \in Nat /\ Start <= q.t /\ beats \in [Level -> Table]
        /\ calc[o][l] \in Queue /\ Under(calc[o], beats)
    BY <1>0, <1>2, <1>4, Basics DEF TypeOK, Calculator, CalcsUnder
  <1>6. HoldsRows(LoadedAll(calc[o][l], l, q.t), calc[o][l], l, q.t, now)
    <2>1. KeepFrom(l, q.t) \in Nat  BY <1>4, <1>5, KeepFromNat
    <2> QED BY <1>4, <1>5, <2>1, LoadedAllFacts
  <1>7. QueueUnder(LoadedAll(calc[o][l], l, q.t), beats[l])
    <2> DEFINE p == LoadedAll(calc[o][l], l, q.t)
               p0 == calc[o][l]
    <2>1. HoldsRows(p, p0, l, q.t, now) /\ QueueUnder(p0, beats[l])
      BY <1>4, <1>5, <1>6 DEF Under
    <2>2. \A k \in DOMAIN rows[l] : AtMost(rows[l][k], Held(beats[l], k))
      BY <1>2, <1>4 DEF RowsUnder, Held
    <2> HIDE DEF p, p0
    <2>3. \A k \in DOMAIN p.data : AtMost(p.data[k], Held(beats[l], k))
      BY <2>1, <2>2 DEF HoldsRows, QueueUnder, Found
    <2>4. QueueUnder(p, beats[l])  BY <2>3 DEF QueueUnder
    <2> QED BY <2>4 DEF p
  <1>8. c \in Calculator /\ Under(c, beats)
    <2> DEFINE p == LoadedAll(calc[o][l], l, q.t)
    <2>1. p \in Queue /\ QueueUnder(p, beats[l])  BY <1>6, <1>7 DEF HoldsRows
    <2>2. c = [calc[o] EXCEPT ![l] = p]  OBVIOUS
    <2> HIDE DEF p, c
    <2>3. c \in Calculator  BY <1>4, <1>5, <2>1, <2>2 DEF Calculator
    <2>4. \A m \in Level : c[m] = IF m = l THEN p ELSE calc[o][m]
      BY <1>5, <2>2 DEF Calculator
    <2> QED BY <1>5, <2>1, <2>3, <2>4 DEF Under
  <1>9. d \in Calculator /\ Under(d, beats)
    <2> HIDE DEF c
    <2>1. CASE l = Day  BY <1>8, <2>1
    <2>2. CASE l # Day
      <3>0. n \in Level  BY <1>4, <2>2, Levels
      <3>1. n \in Level /\ q.t - Width[n] * Limit[n] \in Nat
        <4> HIDE DEF n, q
        <4> QED BY <1>5, <3>0, KeepFromNat
      <3> DEFINE t == q.t - Width[n] * Limit[n]
                 p == Touch(c[n], n, t)
      <3>2. c[n] \in Queue /\ QueueUnder(c[n], beats[n]) /\ beats[n] \in Table /\ t \in Nat
        BY <1>5, <1>8, <3>1 DEF Calculator, Under
      <3>3. d = [c EXCEPT ![n] = p]  BY <2>2
      <3> HIDE DEF t, n
      <3>4. p \in Queue /\ QueueUnder(p, beats[n])
        BY <3>1, <3>2, TouchFacts, TouchUnder DEF n, t
      <3> HIDE DEF p, d
      <3>5. d \in Calculator /\ \A m \in Level : d[m] = IF m = n THEN p ELSE c[m]
        BY <1>8, <3>1, <3>3, <3>4 DEF Calculator
      <3> QED BY <1>8, <3>4, <3>5 DEF Under
    <2> QED BY <2>1, <2>2
  <1>10. r.at \in {"load", "loaded"} /\ r.op # "clear"
    BY <1>1, <1>3, <1>4 DEF Call
  <1>11. \A v \in User : user[v].op # "clear"
    BY <1>1, <1>2, NoClear
  <1> HIDE DEF d, r, over, o, c
  <1>12. CallUnder(r, beats)  BY <1>10 DEF CallUnder, InHand
  <1>13. Among(beats, beats') /\ beats' \in [Level -> Table] /\ beats' = beats
    BY <1>1, <1>5, AmongSelf
  <1>14. CalcsUnder' /\ CallsUnder'
    BY <1>1, <1>2, <1>4, <1>9, <1>12, <1>13, UnderKept
  <1>15. ClearAlone'  BY <1>1, <1>4, <1>10, <1>11, KeepingNoClear
  <1>16. RowsUnder'  BY <1>1, <1>2, <1>13, RowsStay
  <1> QED BY <1>14, <1>15, <1>16 DEF AllUnder

\* After init, the call is as one that begins.
LEMMA AfterInitMore == ASSUME Inv, MoreInv, NEW u \in User, AfterInit(u) PROVE MoreInv'
  <1>0. TypeOK /\ CallsSound  BY DEF Inv
  <1>1. /\ user[u].at = "loaded"
        /\ IF listed = None THEN Done(u) /\ UNCHANGED <<calc, beats, hurt>>
           ELSE Use(u, listed, user[u])
        /\ UNCHANGED <<now, rows, listed, told, events, mixed>>
    BY DEF AfterInit
  <1> SUFFICES ASSUME ~mixed PROVE AllUnder'  BY <1>1 DEF MoreInv
  <1>2. RowsUnder /\ CalcsUnder /\ CallsUnder /\ ClearAlone  BY DEF MoreInv, AllUnder
  <1>3. user[u] \in Call /\ Sound(user[u], calc, now) /\ beats \in [Level -> Table]
    BY <1>0 DEF TypeOK, CallsSound
  <1>4. \A v \in User : user[v].op # "clear"  BY <1>1, <1>2, NoClear
  <1>5. CASE listed = None
    <2>1. /\ user' = [user EXCEPT ![u] = Rest] /\ calc' = calc /\ beats' = beats
          /\ user \in [User -> Call] /\ Rest.op # "clear"
      BY <1>0, <1>1, <1>5 DEF Done, TypeOK, Rest
    <2>2. CallsUnder' /\ ClearAlone'  BY <1>2, <1>4, <2>1, RestUnder, OneCall
    <2>3. CalcsUnder'  BY <1>2, <2>1 DEF CalcsUnder
    <2>4. RowsUnder'  BY <1>1, <1>2, <1>3, <2>1, AmongSelf, RowsStay
    <2> QED BY <2>2, <2>3, <2>4 DEF AllUnder
  <1>6. CASE listed # None
    <2>1. Use(u, listed, user[u]) /\ listed \in Object
      BY <1>0, <1>1, <1>6 DEF TypeOK
    <2>2. user[u].op \in {"read", "update"} /\ user[u].frozen = NotFrozen
      BY <1>1, <1>3 DEF Sound, Call
    <2>3. /\ CalcsUnder' /\ CallsUnder'
          /\ Among(beats, beats') /\ beats' \in [Level -> Table]
          /\ \E over, c, r : /\ user' = [Keeping(listed, c, over) EXCEPT ![u] = r]
                             /\ r.op # "clear"
      BY <1>2, <1>3, <2>1, <2>2, UseUnder
    <2>4. PICK over, c, r : /\ user' = [Keeping(listed, c, over) EXCEPT ![u] = r]
                            /\ r.op # "clear"
      BY <2>3
    <2>5. ClearAlone'  BY <1>4, <2>1, <2>4, KeepingNoClear
    <2>6. RowsUnder'  BY <1>1, <1>2, <2>3, RowsStay
    <2> QED BY <2>3, <2>5, <2>6 DEF AllUnder
  <1> QED BY <1>5, <1>6

\* What a call takes to store it has in hand.
LEMMA BeanMore == ASSUME Inv, MoreInv, NEW u \in User, Bean(u) PROVE MoreInv'
  <1>0. TypeOK /\ CallsSound  BY DEF Inv
  <1> DEFINE q == user[u]
             l == q.level
             b == BeanOf(u, q)
             w == Taken(q)
             i == ~b.saved
             r == [q EXCEPT !.at = "store", !.bean = b.by, !.insert = i, !.write = w]
  <1>1. /\ q.at = "bean" /\ q.obj \in Object /\ l \in Level
        /\ b \in BeanType
        /\ calc' = WithBean(q.obj, l, b)
        /\ w \in Counts
        /\ q.frozen[l] = None => Key(l, q.t) \in DOMAIN calc[q.obj][l].data
        /\ user' = [user EXCEPT ![u] = r]
        /\ UNCHANGED <<now, rows, listed, told, events, beats, hurt, mixed>>
    BY BeanFacts
  <1> SUFFICES ASSUME ~mixed PROVE AllUnder'  BY <1>1 DEF MoreInv
  <1>2. RowsUnder /\ CalcsUnder /\ CallsUnder /\ ClearAlone  BY DEF MoreInv, AllUnder
  <1>3. /\ q \in Call /\ Sound(q, calc, now) /\ CallUnder(q, beats)
        /\ beats \in [Level -> Table] /\ user \in [User -> Call]
    BY <1>0, <1>2 DEF TypeOK, CallsSound, CallsUnder
  <1>4. q.op = "update"  BY <1>1, <1>3 DEF Sound
  <1>5. AtMost(w, Held(beats[l], Key(l, q.t)))
    <2>1. CASE q.frozen[l] # None
      <3>1. l \in InHand(q)  BY <1>1, Levels DEF InHand
      <3>2. w = q.frozen[l]  BY <2>1 DEF Taken
      <3> QED BY <1>3, <2>1, <3>1, <3>2 DEF CallUnder
    <2>2. CASE q.frozen[l] = None
      <3>1. w = calc[q.obj][l].data[Key(l, q.t)]  BY <2>2 DEF Taken
      <3>2. Under(calc[q.obj], beats)  BY <1>1, <1>2 DEF CalcsUnder
      <3> QED BY <1>1, <2>2, <3>1, <3>2 DEF Under, QueueUnder
    <2> QED BY <2>1, <2>2
  <1> HIDE DEF b, w, i
  <1>6. /\ r.at = "store" /\ r.op = q.op /\ r.t = q.t /\ r.level = l
        /\ r.frozen = q.frozen /\ r.write = w
    <2> HIDE DEF q
    <2> QED BY <1>3 DEF Call
  <1>7. CallUnder(r, beats)
    <2>1. InHand(r) \subseteq InHand(q)  BY <1>1, <1>6, Levels DEF InHand
    <2> HIDE DEF q, r
    <2> QED BY <1>1, <1>3, <1>5, <1>6, <2>1 DEF CallUnder
  <1>8. \A v \in User : user[v].op # "clear"  BY <1>1, <1>2, NoClear
  <1>9. r.op # "clear"  BY <1>4, <1>6
  <1> HIDE DEF q, r
  <1>10. CallsUnder' /\ ClearAlone'
    BY <1>1, <1>2, <1>3, <1>7, <1>8, <1>9, OneCall
  <1>11. CalcsUnder'
    <2>1. \A p \in Object : \A m \in Level : calc'[p][m].data = calc[p][m].data
      BY <1>0, <1>1, BeanOnly
    <2> QED BY <1>1, <1>2, <2>1 DEF CalcsUnder, Under, QueueUnder
  <1>12. RowsUnder'  BY <1>1, <1>2, <1>3, AmongSelf, RowsStay
  <1> QED BY <1>10, <1>11, <1>12 DEF AllUnder

\* What it stores is no more than there was.
LEMMA StoreMore == ASSUME Inv, MoreInv, NEW u \in User, StoreRow(u) PROVE MoreInv'
  <1> DEFINE q == user[u]
             o == q.obj
             l == q.level
             k == Key(l, q.t)
  <1>0. TypeOK /\ CallsSound  BY DEF Inv
  <1>1. /\ q.at = "store" /\ o \in Object /\ l \in Level /\ k \in Nat
        /\ calc[o][l].bean \in BeanType
        /\ rows' = rows \/ rows' = [rows EXCEPT ![l] = With(@, k, q.write)]
        /\ calc' = calc \/ calc' = WithBean(o, l, Saved(o, l))
        /\ \/ user' = [user EXCEPT ![u] = StoredOf(q)]
           \/ user' = [user EXCEPT ![u] = Rest]
        /\ UNCHANGED <<now, listed, told, events, beats, mixed>>
    BY StoreFacts
  <1> SUFFICES ASSUME ~mixed PROVE AllUnder'  BY <1>1 DEF MoreInv
  <1>2. RowsUnder /\ CalcsUnder /\ CallsUnder /\ ClearAlone  BY DEF MoreInv, AllUnder
  <1>3. /\ q \in Call /\ Sound(q, calc, now) /\ CallUnder(q, beats) /\ q.write \in Counts
        /\ beats \in [Level -> Table] /\ rows \in [Level -> Table] /\ user \in [User -> Call]
    BY <1>0, <1>2 DEF TypeOK, CallsSound, CallsUnder, Call
  <1>4. \A v \in User : user[v].op # "clear"  BY <1>1, <1>2, NoClear
  <1>5. k \in DOMAIN beats[l] /\ AtMost(q.write, beats[l][k])
    <2>1. l <= l  BY <1>1, Levels
    <2> QED BY <1>1, <1>3, <2>1 DEF CallUnder, Held
  <1>6. RowsUnder'
    <2>1. CASE rows' = rows  BY <1>1, <1>2, <2>1 DEF RowsUnder
    <2>2. CASE rows' = [rows EXCEPT ![l] = With(@, k, q.write)]
      <3> SUFFICES ASSUME NEW m \in Level, NEW x \in DOMAIN rows'[m]
                   PROVE  x \in DOMAIN beats[m] /\ AtMost(rows'[m][x], beats[m][x])
        BY <1>1 DEF RowsUnder
      <3>1. CASE m # l
        <4>1. rows'[m] = rows[m]  BY <1>3, <2>2, <3>1
        <4> QED BY <1>2, <4>1 DEF RowsUnder
      <3>2. CASE m = l
        <4>1. rows'[m] = With(rows[l], k, q.write)  BY <1>1, <1>3, <2>2, <3>2
        <4> HIDE DEF k
        <4>2. x \in DOMAIN rows[l] \cup {k} /\ rows'[m][x] = IF x = k THEN q.write ELSE rows[l][x]
          BY <4>1 DEF With
        <4> QED BY <1>2, <1>1, <1>5, <3>2, <4>2 DEF RowsUnder
      <3> QED BY <3>1, <3>2
    <2> QED BY <1>1, <2>1, <2>2
  <1>7. CalcsUnder'
    <2>1. CASE calc' = calc  BY <1>1, <1>2, <2>1 DEF CalcsUnder
    <2>2. CASE calc' = WithBean(o, l, Saved(o, l))
      <3>1. Saved(o, l) \in BeanType  BY <1>1 DEF Saved, BeanType
      <3>2. \A p \in Object : \A m \in Level : calc'[p][m].data = calc[p][m].data
        BY <1>0, <1>1, <2>2, <3>1, BeanOnly
      <3> QED BY <1>1, <1>2, <3>2 DEF CalcsUnder, Under, QueueUnder
    <2> QED BY <1>1, <2>1, <2>2
  <1>8. CallsUnder' /\ ClearAlone'
    <2>1. CASE user' = [user EXCEPT ![u] = StoredOf(q)]
      <3> DEFINE r == StoredOf(q)
      <3>1. /\ r \in Call /\ r.at \in {"prune", "bean"} /\ r.op = "update"
            /\ r.at = "bean" => r.level = q.level - 1
            /\ r.t = q.t
            /\ \A m \in Level : m < q.level => r.frozen[m] = q.frozen[m]
        BY <1>0, <1>1, <1>3, StoredFacts
      <3>2. user' = [user EXCEPT ![u] = r]  BY <2>1
      <3> HIDE DEF r
      <3>3. /\ \A m \in InHand(r) : /\ m \in InHand(q) /\ r.frozen[m] = q.frozen[m]
                                    /\ m \in Level
            /\ r.at = "bean" => \A m \in Level : m <= r.level => m <= q.level
        <4>1. q.level \in Nat /\ \A m \in Level : m \in Nat  BY <1>1, Levels
        <4> QED BY <1>1, <3>1, <4>1 DEF InHand
      <3>4. CallUnder(r, beats)
        <4>1. r.at # "store"  BY <3>1
        <4>2. r.at \in {"bean", "store"} =>
                 \A m \in Level : m <= r.level => Key(m, r.t) \in DOMAIN beats[m]
          BY <1>1, <1>3, <3>1, <3>3, <4>1 DEF CallUnder
        <4>3. \A m \in InHand(r) :
                 r.frozen[m] # None => AtMost(r.frozen[m], Held(beats[m], Key(m, r.t)))
          BY <1>3, <3>1, <3>3 DEF CallUnder
        <4> QED BY <4>1, <4>2, <4>3 DEF CallUnder
      <3>5. r.op # "clear"  BY <3>1
      <3> QED BY <1>1, <1>2, <1>3, <1>4, <3>2, <3>4, <3>5, OneCall
    <2>2. CASE user' = [user EXCEPT ![u] = Rest]
      <3>1. Rest.op # "clear"  BY DEF Rest
      <3> QED BY <1>1, <1>2, <1>3, <1>4, <2>2, <3>1, RestUnder, OneCall
    <2> QED BY <1>1, <2>1, <2>2
  <1> QED BY <1>6, <1>7, <1>8 DEF AllUnder

\* Old rows are deleted; their bucket is made empty.
LEMMA PruneMore == ASSUME Inv, MoreInv, NEW u \in User, Prune(u) PROVE MoreInv'
  <1> DEFINE q == user[u]
             l == q.level
             o == q.obj
             old == q.date - Width[l] * Limit[l]
             c == [calc[o] EXCEPT ![l] = Touch(@, l, old)]
             r == IF l = Day - 1 THEN Rest ELSE [q EXCEPT !.level = l + 1]
             S == {k \in DOMAIN rows[l] : k >= KeepFrom(l, q.date)}
  <1>0. TypeOK /\ CallsSound  BY DEF Inv
  <1>1. /\ q.at = "prune" /\ o \in Object /\ l \in Level /\ old \in Nat
        /\ calc' = [calc EXCEPT ![o] = c] /\ c \in Calculator
        /\ c[l] = Touch(calc[o][l], l, old)
        /\ \A m \in Level \ {l} : c[m] = calc[o][m]
        /\ rows' = [rows EXCEPT ![l] = Only(@, {k \in DOMAIN @ : k >= KeepFrom(l, q.date)})]
        /\ user' = [Keeping(o, c, NoKeys) EXCEPT ![u] = r]
        /\ InHand(r) = {}
        /\ UNCHANGED <<now, listed, told, events, beats, hurt, mixed>>
    BY PruneFacts
  <1> SUFFICES ASSUME ~mixed PROVE AllUnder'  BY <1>1 DEF MoreInv
  <1>2. RowsUnder /\ CalcsUnder /\ CallsUnder /\ ClearAlone  BY DEF MoreInv, AllUnder
  <1>3. /\ q \in Call /\ Sound(q, calc, now)
        /\ beats \in [Level -> Table] /\ rows \in [Level -> Table]
        /\ calc[o] \in Calculator /\ Under(calc[o], beats)
    BY <1>0, <1>1, <1>2 DEF TypeOK, CallsSound, CalcsUnder
  <1>4. \A v \in User : user[v].op # "clear"  BY <1>1, <1>2, NoClear
  <1>5. r.op # "clear" /\ r.at \in {"none", "prune"}
    <2>1. Rest.op = "none" /\ Rest.at = "none"  BY DEF Rest
    <2>2. q.op = "update"  BY <1>1, <1>3 DEF Sound
    <2>3. CASE l = Day - 1
      <3>1. r = Rest  BY <2>3
      <3> QED BY <2>1, <3>1
    <2>4. CASE l # Day - 1
      <3>1. r = [q EXCEPT !.level = l + 1]  BY <2>4
      <3> HIDE DEF q, r
      <3> QED BY <1>1, <1>3, <2>2, <3>1 DEF Call
    <2> QED BY <2>3, <2>4
  <1> HIDE DEF r, c, old
  <1>6. CallUnder(r, beats)  BY <1>1, <1>5 DEF CallUnder
  <1>7. Under(c, beats)
    <2>1. calc[o][l] \in Queue /\ QueueUnder(calc[o][l], beats[l]) /\ beats[l] \in Table
      BY <1>1, <1>3 DEF Calculator, Under
    <2> HIDE DEF q
    <2>2. QueueUnder(c[l], beats[l])  BY <1>1, <2>1, TouchUnder
    <2> QED BY <1>1, <1>3, <2>2 DEF Under
  <1>8. Among(beats, beats') /\ beats' \in [Level -> Table]  BY <1>1, <1>3, AmongSelf
  <1>9. CalcsUnder' /\ CallsUnder'
    <2> HIDE DEF q
    <2> QED BY <1>1, <1>2, <1>6, <1>7, <1>8, UnderKept
  <1>10. ClearAlone'
    <2> HIDE DEF q
    <2> QED BY <1>1, <1>4, <1>5, KeepingNoClear
  <1>11. RowsUnder'
    <2>1. \A m \in Level : /\ DOMAIN rows'[m] \subseteq DOMAIN rows[m]
                           /\ \A k \in DOMAIN rows'[m] : rows'[m][k] = rows[m][k]
      <3>1. rows' = [rows EXCEPT ![l] = Only(rows[l], S)]  BY <1>1, <1>3
      <3>2. S \subseteq DOMAIN rows[l]  OBVIOUS
      <3> HIDE DEF q, S
      <3>3. /\ DOMAIN Only(rows[l], S) = S
            /\ \A k \in S : Only(rows[l], S)[k] = rows[l][k]
        BY DEF Only
      <3> TAKE m \in Level
      <3>4. rows'[m] = IF m = l THEN Only(rows[l], S) ELSE rows[m]
        BY <1>3, <3>1
      <3> QED BY <3>2, <3>3, <3>4
    <2> QED BY <1>1, <1>2, <2>1 DEF RowsUnder
  <1> QED BY <1>9, <1>10, <1>11 DEF AllUnder

\* A clear that nothing is under way with is alone.
LEMMA BeginClearMore == ASSUME Inv, MoreInv, NEW u \in User, BeginClear(u) PROVE MoreInv'
  <1> DEFINE r == [Rest EXCEPT !.op = "clear", !.at = "clear"]
  <1>1. /\ user' = [user EXCEPT ![u] = r]
        /\ mixed' = (mixed \/ Others(u) # {})
        /\ UNCHANGED <<now, rows, calc, listed, told, beats, hurt>>
    BY DEF BeginClear
  <1> SUFFICES ASSUME ~mixed' PROVE AllUnder'  BY DEF MoreInv
  <1>2. ~mixed /\ Others(u) = {}  BY <1>1
  <1>3. RowsUnder /\ CalcsUnder /\ CallsUnder /\ ClearAlone  BY <1>2 DEF MoreInv, AllUnder
  <1>4. user \in [User -> Call]  BY DEF Inv, TypeOK
  <1>5. r.at = "clear" /\ r.op = "clear" /\ r.level = 1  BY DEF Rest
  <1>6. \A v \in User \ {u} : user[v] = Rest  BY <1>2 DEF Others
  <1> HIDE DEF r
  <1>7. user'[u] = r /\ \A v \in User \ {u} : user'[v] = Rest  BY <1>1, <1>4, <1>6
  <1>8. CallUnder(r, beats)  BY <1>5 DEF CallUnder, InHand
  <1>9. CallsUnder'  BY <1>1, <1>7, <1>8, RestUnder DEF CallsUnder
  <1>10. ClearAlone'
    <2>1. Rest.op # "clear"  BY DEF Rest
    <2>2. \A l \in Level : ~(l < 1)  BY Levels
    <2> QED BY <1>5, <1>7, <2>1, <2>2 DEF ClearAlone
  <1>11. RowsUnder' /\ CalcsUnder'  BY <1>1, <1>3 DEF RowsUnder, CalcsUnder
  <1> QED BY <1>9, <1>10, <1>11 DEF AllUnder

\* A table is emptied; with the last, so is everything else.
LEMMA ClearTableMore == ASSUME Inv, MoreInv, NEW u \in User, ClearTable(u) PROVE MoreInv'
  <1> DEFINE q == user[u]
             l == q.level
  <1>0. TypeOK /\ CallsSound  BY DEF Inv
  <1>1. /\ q.at = "clear"
        /\ rows' = [rows EXCEPT ![l] = Nowhere]
        /\ \/ /\ l = Day /\ Done(u)
              /\ beats' = [m \in Level |-> Nowhere]
              /\ calc' = [o \in Object |->
                             IF \E v \in User : user[v].obj = o THEN calc[o] ELSE Empty]
           \/ /\ l # Day /\ user' = [user EXCEPT ![u].level = l + 1]
              /\ UNCHANGED <<calc, listed, beats>>
        /\ UNCHANGED mixed
    BY DEF ClearTable
  <1> SUFFICES ASSUME ~mixed PROVE AllUnder'  BY <1>1 DEF MoreInv
  <1>2. RowsUnder /\ CalcsUnder /\ CallsUnder /\ ClearAlone  BY DEF MoreInv, AllUnder
  <1>3. /\ q \in Call /\ Sound(q, calc, now) /\ user \in [User -> Call]
        /\ rows \in [Level -> Table]
    BY <1>0 DEF TypeOK, CallsSound
  <1>4. l \in Level /\ q.obj = None /\ q.op = "clear"  BY <1>1, <1>3 DEF Call, Sound
  <1>5. /\ \A v \in User \ {u} : user[v] = Rest
        /\ \A m \in Level : m < l => rows[m] = Nowhere
    BY <1>2, <1>4 DEF ClearAlone
  <1>6. \A m \in Level : rows'[m] = IF m = l THEN Nowhere ELSE rows[m]
    BY <1>1, <1>3, <1>4
  <1>7. DOMAIN Nowhere = {}  BY DEF Nowhere
  <1>8. Rest.op # "clear" /\ Rest.obj = None  BY DEF Rest
  <1>9. CASE l = Day
    <2>1. /\ user' = [user EXCEPT ![u] = Rest]
          /\ calc' = [o \in Object |->
                         IF \E v \in User : user[v].obj = o THEN calc[o] ELSE Empty]
      BY <1>1, <1>9 DEF Done
    <2>2. \A v \in User : user'[v] = Rest  BY <1>3, <1>5, <2>1
    <2>3. \A v \in User : user[v].obj = None  BY <1>4, <1>5, <1>8
    <2>4. \A o \in Object : calc'[o] = Empty  BY <2>1, <2>3, Basics
    <2>5. CallsUnder'  BY <2>2, RestUnder DEF CallsUnder
    <2>6. ClearAlone'  BY <1>8, <2>2 DEF ClearAlone
    <2>7. CalcsUnder'
      <3>1. \A m \in Level : DOMAIN Empty[m].data = {}
        BY <1>7, EmptyIsCalculator DEF EmptyQueue
      <3> QED BY <2>4, <3>1 DEF CalcsUnder, Under, QueueUnder
    <2>8. RowsUnder'
      <3>1. \A m \in Level : rows'[m] = Nowhere
        <4>1. \A m \in Level : m < Day \/ m = Day  BY Levels
        <4> QED BY <1>5, <1>6, <1>9, <4>1
      <3> QED BY <1>7, <3>1 DEF RowsUnder
    <2> QED BY <2>5, <2>6, <2>7, <2>8 DEF AllUnder
  <1>10. CASE l # Day
    <2> DEFINE r == [q EXCEPT !.level = l + 1]
    <2>1. user' = [user EXCEPT ![u] = r] /\ calc' = calc /\ beats' = beats
      BY <1>1, <1>3, <1>10
    <2>2. r.at = "clear" /\ r.op = "clear" /\ r.level = l + 1
      <3> HIDE DEF q
      <3> QED BY <1>1, <1>3, <1>4 DEF Call
    <2> HIDE DEF r
    <2>3. user'[u] = r /\ \A v \in User \ {u} : user'[v] = Rest  BY <1>3, <1>5, <2>1
    <2>4. CallUnder(r, beats)  BY <2>2 DEF CallUnder, InHand
    <2>5. CallsUnder'  BY <2>1, <2>3, <2>4, RestUnder DEF CallsUnder
    <2>6. ClearAlone'
      <3>1. \A m \in Level : m < l + 1 => m < l \/ m = l  BY <1>4, Levels
      <3>2. \A m \in Level : m < l + 1 => rows'[m] = Nowhere  BY <1>5, <1>6, <3>1
      <3> HIDE DEF q
      <3> QED BY <1>8, <2>2, <2>3, <3>2 DEF ClearAlone
    <2>7. CalcsUnder'  BY <1>2, <2>1 DEF CalcsUnder
    <2>8. RowsUnder'  BY <1>2, <1>6, <1>7, <2>1 DEF RowsUnder
    <2> QED BY <2>5, <2>6, <2>7, <2>8 DEF AllUnder
  <1> QED BY <1>1, <1>9, <1>10

\* A call that fails leaves what there is.
LEMMA FailMore == ASSUME Inv, MoreInv, NEW u \in User, Fail(u) PROVE MoreInv'
  <1>1. /\ user' = [user EXCEPT ![u] = Rest]
        /\ UNCHANGED <<now, rows, calc, listed, told, beats, mixed>>
    BY DEF Fail, Done
  <1> SUFFICES ASSUME ~mixed PROVE AllUnder'  BY <1>1 DEF MoreInv
  <1>2. RowsUnder /\ CalcsUnder /\ CallsUnder /\ ClearAlone  BY DEF MoreInv, AllUnder
  <1>3. user \in [User -> Call]  BY DEF Inv, TypeOK
  <1>4. user'[u] = Rest /\ \A v \in User \ {u} : user'[v] = user[v]  BY <1>1, <1>3
  <1>5. Rest.op # "clear"  BY DEF Rest
  <1>6. CallsUnder'  BY <1>1, <1>2, <1>4, RestUnder DEF CallsUnder
  <1>7. ClearAlone'
    <2> SUFFICES ASSUME NEW v \in User, user'[v].op = "clear"
                 PROVE  /\ \A w \in User \ {v} : user'[w] = Rest
                        /\ \A l \in Level : l < user'[v].level => rows'[l] = Nowhere
      BY DEF ClearAlone
    <2>1. v # u /\ user'[v] = user[v]  BY <1>4, <1>5
    <2> QED BY <1>1, <1>2, <1>4, <2>1 DEF ClearAlone
  <1>8. RowsUnder' /\ CalcsUnder'  BY <1>1, <1>2 DEF RowsUnder, CalcsUnder
  <1> QED BY <1>6, <1>7, <1>8 DEF AllUnder

\* Nor does a restart make more of the rows.
LEMMA RestartMore == ASSUME Inv, MoreInv, Restart PROVE MoreInv'
  <1>1. /\ calc' = [o \in Object |-> Empty] /\ user' = [u \in User |-> Rest]
        /\ UNCHANGED <<now, rows, told, beats, mixed>>
    BY DEF Restart
  <1> SUFFICES ASSUME ~mixed PROVE AllUnder'  BY <1>1 DEF MoreInv
  <1>2. RowsUnder  BY DEF MoreInv, AllUnder
  <1>3. CallsUnder'  BY <1>1, RestUnder DEF CallsUnder
  <1>4. ClearAlone'  BY <1>1 DEF ClearAlone, Rest
  <1>5. CalcsUnder'
    <2>1. \A m \in Level : DOMAIN Empty[m].data = {}
      BY EmptyIsCalculator DEF EmptyQueue, Nowhere
    <2> QED BY <1>1, <2>1 DEF CalcsUnder, Under, QueueUnder
  <1>6. RowsUnder'  BY <1>1, <1>2 DEF RowsUnder
  <1> QED BY <1>3, <1>4, <1>5, <1>6 DEF AllUnder

\* Every step keeps the rows, the queues and what calls have in hand under the
\* beats.
LEMMA NextMore == ASSUME Inv, MoreInv, [Next]_vars PROVE MoreInv'
  <1>1. CASE Next
    <2>1. ASSUME NEW u \in User,
                 \/ Begin(u) \/ LoadLevel(u) \/ AfterInit(u) \/ Bean(u)
                 \/ StoreRow(u) \/ Prune(u) \/ BeginClear(u) \/ ClearTable(u) \/ Fail(u)
          PROVE  MoreInv'
      BY <2>1, BeginMore, LoadLevelMore, AfterInitMore, BeanMore, StoreMore, PruneMore,
         BeginClearMore, ClearTableMore, FailMore
    <2>2. CASE Tick
      <3>1. UNCHANGED <<rows, calc, user, beats, mixed>>  BY <2>2 DEF Tick
      <3> QED BY <3>1 DEF MoreInv, AllUnder, RowsUnder, CalcsUnder, CallsUnder, ClearAlone
    <2> QED BY <1>1, <2>1, <2>2, RestartMore DEF Next
  <1>2. CASE UNCHANGED vars
    <2>1. UNCHANGED <<rows, calc, user, beats, mixed>>  BY <1>2 DEF vars
    <2> QED BY <2>1 DEF MoreInv, AllUnder, RowsUnder, CalcsUnder, CallsUnder, ClearAlone
  <1> QED BY <1>1, <1>2

\* The beats begin as the tables do.
LEMMA InitMore == Init => MoreInv
  <1> HAVE Init
  <1>1. /\ calc = [o \in Object |-> Empty] /\ user = [u \in User |-> Rest] /\ beats = rows
    BY DEF Init
  <1>2. rows \in [Level -> Table]  BY InitInv DEF Inv, TypeOK
  <1>3. RowsUnder
    <2> SUFFICES ASSUME NEW l \in Level, NEW k \in DOMAIN rows[l]
                 PROVE  AtMost(rows[l][k], rows[l][k])
      BY <1>1 DEF RowsUnder
    <2>1. rows[l][k] \in Counts  BY <1>2, TableOps
    <2> QED BY <2>1, AtMostOrder
  <1>4. CallsUnder  BY <1>1, RestUnder DEF CallsUnder
  <1>5. ClearAlone  BY <1>1 DEF ClearAlone, Rest
  <1>6. CalcsUnder
    <2>1. \A m \in Level : DOMAIN Empty[m].data = {}
      BY EmptyIsCalculator DEF EmptyQueue, Nowhere
    <2> QED BY <1>1, <2>1 DEF CalcsUnder, Under, QueueUnder
  <1> QED BY <1>3, <1>4, <1>5, <1>6 DEF MoreInv, AllUnder

-----------------------------------------------------------------------------
\* Types, and where calls are (every handler of uptime-calculator.js).
THEOREM TypesHold == Spec => []Inv
  <1>1. Init => Inv  BY InitInv
  <1>2. Inv /\ [Next]_vars => Inv'  BY NextInv
  <1> QED BY <1>1, <1>2, PTL DEF Spec

\* Whatever fails, is lost or overtaken, no row says more than there was.
THEOREM NoRowSaysMore == Spec => []NeverMore
  <1>1. Init => Inv /\ MoreInv  BY InitInv, InitMore
  <1>2. Inv /\ MoreInv /\ [Next]_vars => (Inv /\ MoreInv)'  BY NextInv, NextMore
  <1>3. MoreInv => NeverMore  BY DEF MoreInv, AllUnder, RowsUnder, NeverMore
  <1> QED BY <1>1, <1>2, <1>3, PTL DEF Spec

-----------------------------------------------------------------------------
(* The queues keep to their lengths                                        *)

\* r is q with the key k pushed, and the first shifted out if there are limit.
Pushed(r, q, limit, k) ==
    LET m == Len(q.keys) IN
    \/ /\ m < limit
       /\ DOMAIN r.keys = 1 .. m + 1 /\ r.keys[m + 1] = k
       /\ \A i \in 1 .. m : r.keys[i] = q.keys[i]
       /\ DOMAIN r.data = DOMAIN q.data \cup {k}
    \/ /\ limit <= m
       /\ DOMAIN r.keys = 1 .. m /\ r.keys[m] = k
       /\ \A i \in 1 .. m - 1 : r.keys[i] = q.keys[i + 1]
       /\ DOMAIN r.data = (DOMAIN q.data \cup {k}) \ {q.keys[1]}

\* push, seen by the keys.
LEMMA PushKeys ==
    ASSUME NEW q \in Queue, NEW limit \in Nat \ {0}, NEW k \in Nat, NEW v \in Counts
    PROVE  Pushed(Push(q, limit, k, v), q, limit, k)
  <1> DEFINE m == Len(q.keys)
             keys == Append(q.keys, k)
             data == With(q.data, k, v)
             r == Push(q, limit, k, v)
  <1>1. /\ q.keys \in Seq(Nat) /\ m \in Nat /\ DOMAIN q.keys = 1 .. m
        /\ Len(keys) = m + 1 /\ keys \in Seq(Nat) /\ keys[m + 1] = k
        /\ \A i \in 1 .. m : keys[i] = q.keys[i]
    BY DEF Queue
  <1>2. DOMAIN data = DOMAIN q.data \cup {k}  BY DEF With
  <1>3. CASE m < limit
    <2>1. Len(keys) <= limit  BY <1>1, <1>3
    <2>2. r.keys = keys /\ r.data = data
      <3>1. r = [q EXCEPT !.keys = keys, !.data = data]  BY <2>1 DEF Push
      <3> HIDE DEF keys, data, r
      <3> QED BY <3>1 DEF Queue
    <2>3. DOMAIN keys = 1 .. m + 1  BY <1>1
    <2> HIDE DEF keys, data, r
    <2>4. Pushed(r, q, limit, k)  BY <1>1, <1>2, <1>3, <2>2, <2>3 DEF Pushed
    <2> QED BY <2>4 DEF r
  <1>4. CASE limit <= m
    <2>1. ~(Len(keys) <= limit)  BY <1>1, <1>4
    <2> DEFINE rest == Only(data, DOMAIN data \ {Head(keys)})
    <2>2. r.keys = Tail(keys) /\ r.data = rest
      <3>1. r = [q EXCEPT !.keys = Tail(keys), !.data = rest]  BY <2>1 DEF Push
      <3> HIDE DEF keys, rest, r
      <3> QED BY <3>1 DEF Queue
    <2>3. m >= 1  BY <1>1, <1>4
    <2>4. Head(keys) = q.keys[1]
      <3>1. keys # <<>> /\ Head(keys) = keys[1]  BY <1>1
      <3> HIDE DEF keys
      <3> QED BY <1>1, <2>3, <3>1
    <2>5. DOMAIN rest = (DOMAIN q.data \cup {k}) \ {q.keys[1]}
      BY <1>2, <2>4 DEF Only
    <2>6. DOMAIN Tail(keys) = 1 .. m /\ \A i \in 1 .. m : Tail(keys)[i] = keys[i + 1]
      <3> HIDE DEF keys
      <3> QED BY <1>1, <2>3
    <2>7. /\ Tail(keys)[m] = k
          /\ \A i \in 1 .. m - 1 : Tail(keys)[i] = q.keys[i + 1]
      <3>1. /\ m \in 1 .. m
            /\ \A i \in 1 .. m - 1 : i \in 1 .. m /\ i + 1 \in 1 .. m
        BY <1>1, <2>3
      <3> HIDE DEF keys, m
      <3> QED BY <1>1, <2>6, <3>1
    <2> HIDE DEF keys, data, r, rest
    <2>8. Pushed(r, q, limit, k)  BY <1>4, <2>2, <2>5, <2>6, <2>7 DEF Pushed
    <2> QED BY <2>8 DEF r
  <1> QED BY <1>1, <1>3, <1>4

\* No more keys than the limit, and no bucket without its key.
FitsIn(q, limit) == Len(q.keys) <= limit /\ DOMAIN q.data \subseteq ToSet(q.keys)

\* A bucket is pushed.
LEMMA PushFits ==
    ASSUME NEW q \in Queue, NEW limit \in Nat \ {0}, NEW k \in Nat, NEW v \in Counts,
           FitsIn(q, limit)
    PROVE  FitsIn(Push(q, limit, k, v), limit)
  <1> DEFINE r == Push(q, limit, k, v)
             m == Len(q.keys)
  <1>1. r \in Queue /\ Pushed(r, q, limit, k)  BY PushFacts, PushKeys
  <1>2. /\ m \in Nat /\ m <= limit /\ DOMAIN q.keys = 1 .. m
        /\ \A x \in DOMAIN q.data : \E i \in 1 .. m : q.keys[i] = x
    BY DEF Queue, FitsIn, ToSet
  <1>3. r.keys \in Seq(Nat)  BY <1>1 DEF Queue
  <1> HIDE DEF r
  <1>4. \A n \in Nat : DOMAIN r.keys = 1 .. n => Len(r.keys) = n  BY <1>3
  <1>5. CASE m < limit
    <2>1. /\ DOMAIN r.keys = 1 .. m + 1 /\ r.keys[m + 1] = k
          /\ \A i \in 1 .. m : r.keys[i] = q.keys[i]
          /\ DOMAIN r.data = DOMAIN q.data \cup {k}
      BY <1>1, <1>2, <1>5 DEF Pushed
    <2>2. Len(r.keys) = m + 1 /\ m + 1 <= limit  BY <1>2, <1>4, <1>5, <2>1
    <2>3. \A x \in DOMAIN r.data : \E i \in 1 .. m + 1 : r.keys[i] = x
      <3>1. m + 1 \in 1 .. m + 1 /\ \A i \in 1 .. m : i \in 1 .. m + 1  BY <1>2
      <3> HIDE DEF m
      <3> QED BY <1>2, <2>1, <3>1
    <2> QED BY <2>1, <2>2, <2>3 DEF FitsIn, ToSet, r
  <1>6. CASE limit <= m
    <2>1. /\ DOMAIN r.keys = 1 .. m /\ r.keys[m] = k
          /\ \A i \in 1 .. m - 1 : r.keys[i] = q.keys[i + 1]
          /\ DOMAIN r.data = (DOMAIN q.data \cup {k}) \ {q.keys[1]}
      BY <1>1, <1>2, <1>6 DEF Pushed
    <2>2. Len(r.keys) = m /\ m >= 1  BY <1>2, <1>4, <1>6, <2>1
    <2>3. ASSUME NEW x \in DOMAIN r.data PROVE \E i \in 1 .. m : r.keys[i] = x
      <3>1. CASE x = k
        <4>1. m \in 1 .. m  BY <1>2, <2>2
        <4> HIDE DEF m
        <4> QED BY <2>1, <3>1, <4>1
      <3>2. CASE x # k
        <4>1. x \in DOMAIN q.data /\ x # q.keys[1]  BY <2>1, <3>2
        <4>2. PICK i \in 1 .. m : q.keys[i] = x  BY <1>2, <4>1
        <4>3. i # 1  BY <4>1, <4>2
        <4>4. i - 1 \in 1 .. m - 1 /\ i - 1 \in 1 .. m /\ (i - 1) + 1 = i
          BY <1>2, <4>2, <4>3
        <4>5. r.keys[i - 1] = x
          <5> HIDE DEF m
          <5> QED BY <2>1, <4>2, <4>4
        <4> QED BY <4>4, <4>5
      <3> QED BY <3>1, <3>2
    <2> QED BY <1>2, <2>1, <2>2, <2>3 DEF FitsIn, ToSet, r
  <1> QED BY <1>2, <1>5, <1>6

\* A bucket is asked for.
LEMMA TouchFits ==
    ASSUME NEW q \in Queue, NEW l \in Level, NEW t \in Nat, FitsIn(q, Limit[l])
    PROVE  FitsIn(Touch(q, l, t), Limit[l])
  <1>1. Limit[l] \in Nat \ {0} /\ Key(l, t) \in Nat /\ Zero \in Counts
    BY Levels, KeyBounds, AtMostOrder
  <1>2. CASE Key(l, t) \in DOMAIN q.data  BY <1>2 DEF Touch
  <1>3. CASE Key(l, t) \notin DOMAIN q.data  BY <1>1, <1>3, PushFits DEF Touch
  <1> QED BY <1>2, <1>3

\* A beat is counted: the keys are those of the bucket that was asked for.
LEMMA CountedKeys ==
    ASSUME NEW c \in Calculator, NEW s \in Status, NEW t \in Nat, NEW l \in Level
    PROVE  Counted(c, s, t)[l].keys = Touch(c[l], l, t).keys
  <1> DEFINE r == Touch(c[l], l, t)
             p == CountedOne(c[l], l, s, t)
  <1>1. r \in Queue /\ Touched(c, t)[l] = r
    BY TouchFacts, TouchedFacts DEF Calculator
  <1>2. p.keys = r.keys
    <2>1. r = [keys |-> r.keys, data |-> r.data, last |-> r.last, bean |-> r.bean]
      BY <1>1 DEF Queue
    <2> HIDE DEF r
    <2> QED BY <2>1 DEF CountedOne, r
  <1>3. [p EXCEPT !.last = c[l].last].keys = p.keys
    <2>1. \A x : [p EXCEPT !.last = x].keys = p.keys
      <3>1. "keys" # "last"  OBVIOUS
      <3>2. "keys" \in DOMAIN p  BY <1>1 DEF CountedOne, Queue
      <3> HIDE DEF p
      <3> QED BY <3>2
    <2> QED BY <2>1
  <1>4. \/ Counted(c, s, t)[l] = p \/ Counted(c, s, t)[l] = r
        \/ Counted(c, s, t)[l] = [p EXCEPT !.last = c[l].last]
    <2> HIDE DEF p, r
    <2> QED BY <1>1 DEF Counted, p
  <1> HIDE DEF p, r
  <1> QED BY <1>2, <1>3, <1>4 DEF r

\* Rows are loaded.
LEMMA LoadedFits ==
    ASSUME NEW q \in Queue, NEW l \in Level, NEW t, KeepFrom(l, t) \in Nat,
           now \in Nat, rows[l] \in Table, FitsIn(q, Limit[l])
    PROVE  FitsIn(LoadedAll(q, l, t), Limit[l])
  <1>1. PICK g : Trace(g, q, l, t, now) /\ LoadedAll(q, l, t) = g[now]
    BY LoadedAllTrace
  <1> DEFINE S == {x \in 0 .. now : ~FitsIn(g[x], Limit[l])}
  <1>2. now \in 0 .. now  OBVIOUS
  <1>3. SUFFICES ASSUME now \in S PROVE FALSE  BY <1>1, <1>2
  <1>4. PICK m \in S : \A x \in S : m <= x
    <2>1. S \in SUBSET Nat /\ S # {}  BY <1>3
    <2> HIDE DEF S
    <2> QED BY <2>1, LeastNat
  <1>5. m \in 0 .. now /\ ~FitsIn(g[m], Limit[l])  BY <1>4
  <1>6. m # 0  BY <1>1, <1>5 DEF Trace
  <1>7. m \in Nat /\ m - 1 \in 0 .. now /\ m \in 1 .. now /\ m - 1 \notin S
    BY <1>4, <1>6
  <1>8. FitsIn(g[m - 1], Limit[l]) /\ g[m - 1] \in Queue
    BY <1>1, <1>7, LoadedFacts DEF HoldsRows
  <1>9. g[m] = Row(l, t, m, g[m - 1])  BY <1>1, <1>7 DEF Trace
  <1>10. CASE m \notin Found(l, t)  BY <1>5, <1>8, <1>9, <1>10 DEF Row
  <1>11. CASE m \in Found(l, t)
    <2>1. g[m] = Push(g[m - 1], Limit[l], m, rows[l][m])
      BY <1>9, <1>11 DEF Row, Loaded
    <2>2. rows[l][m] \in Counts
      <3>1. m \in DOMAIN rows[l]  BY <1>11 DEF Found
      <3> QED BY <3>1, TableByValue
    <2>3. Limit[l] \in Nat \ {0}  BY Levels
    <2> QED BY <1>5, <1>7, <1>8, <2>1, <2>2, <2>3, PushFits
  <1> QED BY <1>10, <1>11

CalculatorFits(c) == \A l \in Level : FitsIn(c[l], Limit[l])
Fits == \A o \in Object : CalculatorFits(calc[o])

\* A queue with nothing in it.
LEMMA EmptyFits == \A l \in Level : FitsIn(EmptyQueue, Limit[l])
  <1> SUFFICES ASSUME NEW l \in Level PROVE FitsIn(EmptyQueue, Limit[l])  OBVIOUS
  <1>1. Limit[l] \in Nat  BY Levels
  <1>2. EmptyQueue.keys = <<>> /\ DOMAIN EmptyQueue.data = {}
    BY DEF EmptyQueue, Nowhere
  <1> QED BY <1>1, <1>2 DEF FitsIn

\* A calculator among the others.
LEMMA FitsStay ==
    ASSUME TypeOK, Fits, NEW o \in Object, NEW c, CalculatorFits(c), calc' = [calc EXCEPT ![o] = c]
    PROVE  Fits'
  <1>1. \A p \in Object : calc'[p] = IF p = o THEN c ELSE calc[p]  BY DEF TypeOK
  <1> QED BY <1>1 DEF Fits, CalculatorFits

\* A calculator is used.
LEMMA UseFits ==
    ASSUME TypeOK, Fits, NEW u \in User, NEW o \in Object, NEW q \in Call, Use(u, o, q)
    PROVE  Fits'
  <1>1. /\ calc[o] \in Calculator /\ now \in Nat /\ CalculatorFits(calc[o])
        /\ \A l \in Level : calc[o][l] \in Queue
    BY DEF TypeOK, Fits, Calculator
  <1>2. \A l \in Level : FitsIn(Touch(calc[o][l], l, now), Limit[l])
    BY <1>1, TouchFits DEF CalculatorFits
  <1>3. CASE q.op = "read"
    <2> DEFINE c == Touched(calc[o], now)
    <2>1. calc' = [calc EXCEPT ![o] = c]  BY <1>3 DEF Use
    <2>2. CalculatorFits(c)  BY <1>1, <1>2, TouchedFacts DEF CalculatorFits
    <2> HIDE DEF c
    <2> QED BY <2>1, <2>2, FitsStay
  <1>4. CASE q.op # "read"
    <2> DEFINE c == Counted(calc[o], q.status, now)
    <2>1. calc' = [calc EXCEPT ![o] = c]  BY <1>4 DEF Use
    <2>2. q.status \in Status  BY DEF Call, Status
    <2>3. \A l \in Level : /\ c[l].keys = Touch(calc[o][l], l, now).keys
                           /\ DOMAIN c[l].data = DOMAIN Touch(calc[o][l], l, now).data
      BY <1>1, <2>2, CountedKeys, CountedFacts
    <2> HIDE DEF c
    <2>4. CalculatorFits(c)  BY <1>2, <2>3 DEF CalculatorFits, FitsIn
    <2> QED BY <2>1, <2>4, FitsStay
  <1> QED BY <1>3, <1>4

\* A calculator is made, with its first bucket.
LEMMA BeginFits == ASSUME Inv, Fits, NEW u \in User, Begin(u) PROVE Fits'
  <1>0. TypeOK /\ now \in Nat /\ Start <= now  BY DEF Inv, TypeOK
  <1>1. PICK op \in {"update", "read"}, s \in Statuses :
           LET q == [Rest EXCEPT !.op = op, !.t = now,
                                 !.status = IF op = "read" THEN @ ELSE s] IN
           IF listed # None THEN Use(u, listed, q)
           ELSE \E o \in Unused :
                  calc' = [calc EXCEPT ![o] =
                        [Empty EXCEPT ![1] = Touch(@, 1, now - Width[1] * Limit[1])]]
    BY DEF Begin
  <1> DEFINE q == [Rest EXCEPT !.op = op, !.t = now, !.status = IF op = "read" THEN @ ELSE s]
             c == [Empty EXCEPT ![1] = Touch(@, 1, now - Width[1] * Limit[1])]
  <1>2. CASE listed # None
    <2>1. Use(u, listed, q)  BY <1>1, <1>2
    <2>2. listed \in Object  BY <1>0, <1>2 DEF TypeOK
    <2>3. q \in Call  BY <1>0, RestSound, Basics DEF Call, Rest
    <2> HIDE DEF q
    <2> QED BY <1>0, <2>1, <2>2, <2>3, UseFits
  <1>3. CASE listed = None
    <2>1. PICK o \in Unused : calc' = [calc EXCEPT ![o] = c]
      <3> HIDE DEF q
      <3> QED BY <1>1, <1>3
    <2>2. o \in Object  BY DEF Unused
    <2>3. 1 \in Level /\ now - Width[1] * Limit[1] \in Nat  BY <1>0, Levels, KeepFromNat
    <2>4. FitsIn(Touch(EmptyQueue, 1, now - Width[1] * Limit[1]), Limit[1])
      <3>1. EmptyQueue \in Queue  BY EmptyIsCalculator, <2>3 DEF Calculator
      <3> QED BY <2>3, <3>1, EmptyFits, TouchFits
    <2>5. \A l \in Level :
             c[l] = IF l = 1 THEN Touch(EmptyQueue, 1, now - Width[1] * Limit[1]) ELSE EmptyQueue
      BY EmptyIsCalculator DEF Empty
    <2> HIDE DEF c
    <2>6. CalculatorFits(c)  BY <2>4, <2>5, EmptyFits DEF CalculatorFits
    <2> QED BY <1>0, <2>1, <2>2, <2>6, FitsStay
  <1> QED BY <1>2, <1>3

\* A level is loaded, and the next one has its first bucket.
LEMMA LoadLevelFits == ASSUME Inv, Fits, NEW u \in User, LoadLevel(u) PROVE Fits'
  <1>0. TypeOK /\ CallsSound  BY DEF Inv
  <1> DEFINE q == user[u]
             o == q.obj
             l == q.level
             n == l + 1
             p == LoadedAll(calc[o][l], l, q.t)
             c == [calc[o] EXCEPT ![l] = p]
             d == IF l = Day THEN c
                  ELSE [c EXCEPT ![n] = Touch(@, n, q.t - Width[n] * Limit[n])]
  <1>1. q.at = "load" /\ calc' = [calc EXCEPT ![o] = d]  BY DEF LoadLevel
  <1>2. q \in Call /\ Sound(q, calc, now)  BY <1>0 DEF TypeOK, CallsSound
  <1>3. /\ o \in Object /\ q.t \in Start .. now /\ l \in Level
        /\ now \in Nat /\ Start \in Nat /\ rows[l] \in Table
        /\ calc[o] \in Calculator
    BY <1>0, <1>1, <1>2, Basics DEF Sound, Call, TypeOK
  <1>4. /\ CalculatorFits(calc[o]) /\ \A m \in Level : calc[o][m] \in Queue
        /\ q.t \in Nat /\ Start <= q.t
    BY <1>3 DEF Fits, Calculator
  <1>5. p \in Queue /\ FitsIn(p, Limit[l])
    <2>1. KeepFrom(l, q.t) \in Nat /\ FitsIn(calc[o][l], Limit[l]) /\ calc[o][l] \in Queue
      BY <1>3, <1>4, KeepFromNat DEF CalculatorFits
    <2> HIDE DEF l, o, q
    <2> QED BY <1>3, <2>1, LoadedFits, LoadedAllFacts DEF p, HoldsRows
  <1> HIDE DEF p
  <1>6. \A m \in Level : c[m] = IF m = l THEN p ELSE calc[o][m]  BY <1>3 DEF Calculator
  <1>7. \A m \in Level : c[m] \in Queue /\ FitsIn(c[m], Limit[m])
    BY <1>4, <1>5, <1>6 DEF CalculatorFits
  <1>8. CASE l = Day
    <2>1. d = c  BY <1>8
    <2> HIDE DEF c, d, o
    <2>2. CalculatorFits(d)  BY <1>7, <2>1 DEF CalculatorFits
    <2> QED BY <1>0, <1>1, <1>3, <2>2, FitsStay
  <1>9. CASE l # Day
    <2>1. n \in Level  BY <1>3, <1>9, Levels
    <2>2. q.t - Width[n] * Limit[n] \in Nat  BY <1>4, <2>1, KeepFromNat
    <2>3. FitsIn(Touch(c[n], n, q.t - Width[n] * Limit[n]), Limit[n])
      <3> HIDE DEF c, n, q
      <3> QED BY <1>7, <2>1, <2>2, TouchFits
    <2>4. \A m \in Level : d[m] = IF m = n THEN Touch(c[n], n, q.t - Width[n] * Limit[n]) ELSE c[m]
      <3>1. d = [c EXCEPT ![n] = Touch(@, n, q.t - Width[n] * Limit[n])]  BY <1>9
      <3>2. DOMAIN c = Level  BY <1>3 DEF Calculator
      <3> HIDE DEF d, c, n
      <3> QED BY <3>1, <3>2
    <2> HIDE DEF d, c, n, o, l, q
    <2>5. CalculatorFits(d)  BY <1>7, <2>3, <2>4 DEF CalculatorFits
    <2> QED BY <1>0, <1>1, <1>3, <2>5, FitsStay
  <1> QED BY <1>8, <1>9

\* A prune asks for the oldest bucket.
LEMMA PruneFits == ASSUME Inv, Fits, NEW u \in User, Prune(u) PROVE Fits'
  <1> DEFINE q == user[u]
             l == q.level
             o == q.obj
             old == q.date - Width[l] * Limit[l]
             c == [calc[o] EXCEPT ![l] = Touch(@, l, old)]
  <1>1. /\ o \in Object /\ l \in Level /\ old \in Nat
        /\ calc' = [calc EXCEPT ![o] = c]
        /\ c[l] = Touch(calc[o][l], l, old)
        /\ \A m \in Level \ {l} : c[m] = calc[o][m]
    BY PruneFacts
  <1>2. TypeOK /\ CalculatorFits(calc[o]) /\ calc[o][l] \in Queue
    BY <1>1 DEF Inv, TypeOK, Fits, Calculator
  <1> HIDE DEF c, old, o, l, q
  <1>3. FitsIn(c[l], Limit[l])  BY <1>1, <1>2, TouchFits DEF CalculatorFits
  <1>4. CalculatorFits(c)  BY <1>1, <1>2, <1>3 DEF CalculatorFits
  <1> QED BY <1>1, <1>2, <1>4, FitsStay

\* A bean is no key.
LEMMA SameFits ==
    ASSUME Fits, \A o \in Object : \A l \in Level : /\ calc'[o][l].data = calc[o][l].data
                                                    /\ calc'[o][l].keys = calc[o][l].keys
    PROVE  Fits'
  BY DEF Fits, CalculatorFits, FitsIn

\* So a call that takes a bean, or stores, leaves the queues as they were.
LEMMA StoreFits == ASSUME Inv, Fits, NEW u \in User, Bean(u) \/ StoreRow(u) PROVE Fits'
  <1>0. TypeOK  BY DEF Inv
  <1> DEFINE q == user[u]
             o == q.obj
             l == q.level
             b == calc[o][l].bean
  <1>1. CASE Bean(u)
    <2> DEFINE d == BeanOf(u, q)
    <2>1. o \in Object /\ l \in Level /\ d \in BeanType /\ calc' = WithBean(o, l, d)
      BY <1>1, BeanFacts
    <2> HIDE DEF d, o, l
    <2> QED BY <1>0, <2>1, BeanOnly, SameFits
  <1>2. CASE StoreRow(u)
    <2>1. /\ o \in Object /\ l \in Level /\ b \in BeanType
          /\ calc' = calc \/ calc' = WithBean(o, l, Saved(o, l))
      BY <1>2, StoreFacts
    <2>2. Saved(o, l) \in BeanType
      <3>1. Saved(o, l) = [key |-> b.key, saved |-> TRUE, by |-> b.by]  BY DEF Saved
      <3> HIDE DEF b
      <3> QED BY <2>1, <3>1 DEF BeanType
    <2> HIDE DEF q, o, l, b
    <2>3. CASE calc' = calc  BY <2>3, SameFits
    <2>4. CASE calc' = WithBean(o, l, Saved(o, l))  BY <1>0, <2>1, <2>2, <2>4, BeanOnly, SameFits
    <2> QED BY <2>1, <2>3, <2>4
  <1> QED BY <1>1, <1>2

\* A clear empties the calculators that no call uses.
LEMMA ClearFits == ASSUME Inv, Fits, NEW u \in User, ClearTable(u) PROVE Fits'
  <1>1. \/ calc' = calc
        \/ calc' = [o \in Object |-> IF \E v \in User : user[v].obj = o THEN calc[o] ELSE Empty]
    BY DEF ClearTable
  <1>2. CalculatorFits(Empty)  BY EmptyFits, EmptyIsCalculator DEF CalculatorFits
  <1>3. \A o \in Object : calc'[o] = calc[o] \/ calc'[o] = Empty  BY <1>1
  <1> QED BY <1>2, <1>3 DEF Fits, CalculatorFits

\* All the calculators are gone.
LEMMA RestartFits == ASSUME Restart PROVE Fits'
  <1>1. \A o \in Object : calc'[o] = Empty  BY DEF Restart
  <1>2. CalculatorFits(Empty)  BY EmptyFits, EmptyIsCalculator DEF CalculatorFits
  <1> QED BY <1>1, <1>2 DEF Fits, CalculatorFits

\* Every step keeps the queues to their lengths.
LEMMA NextFits == ASSUME Inv, Fits, [Next]_vars PROVE Fits'
  <1>1. ASSUME calc' = calc PROVE Fits'  BY <1>1, SameFits
  <1>2. ASSUME NEW u \in User, AfterInit(u) PROVE Fits'
    <2>1. IF listed = None THEN calc' = calc ELSE Use(u, listed, user[u])  BY <1>2 DEF AfterInit
    <2>2. TypeOK /\ user[u] \in Call  BY DEF Inv, TypeOK
    <2>3. CASE listed = None  BY <1>1, <2>1, <2>3
    <2>4. CASE listed # None
      <3>1. listed \in Object  BY <2>2, <2>4 DEF TypeOK
      <3> QED BY <2>1, <2>2, <2>4, <3>1, UseFits
    <2> QED BY <2>3, <2>4
  <1>3. ASSUME NEW u \in User, BeginClear(u) \/ Fail(u) PROVE Fits'
    BY <1>1, <1>3 DEF BeginClear, Fail
  <1>4. CASE Tick \/ UNCHANGED vars  BY <1>1, <1>4 DEF Tick, vars
  <1>5. CASE Next
    <2>1. ASSUME NEW u \in User,
                 \/ Begin(u) \/ LoadLevel(u) \/ AfterInit(u) \/ Bean(u)
                 \/ StoreRow(u) \/ Prune(u) \/ BeginClear(u) \/ ClearTable(u) \/ Fail(u)
          PROVE  Fits'
      BY <1>2, <1>3, <2>1, BeginFits, LoadLevelFits, PruneFits, StoreFits, ClearFits
    <2> QED BY <1>4, <1>5, <2>1, RestartFits DEF Next
  <1> QED BY <1>4, <1>5

\* And there are none at first.
LEMMA InitFits == Init => Fits
  <1> SUFFICES ASSUME Init PROVE Fits  OBVIOUS
  <1>1. \A o \in Object : calc[o] = Empty  BY DEF Init
  <1>2. CalculatorFits(Empty)  BY EmptyFits, EmptyIsCalculator DEF CalculatorFits
  <1> QED BY <1>1, <1>2 DEF Fits, CalculatorFits

\* No queue holds more keys than its limit, nor a bucket without its key, even
\* while calls share a calculator, load it, and fail half-way (LimitQueue.push).
THEOREM QueuesKeepToLimits == Spec => []Fits
  <1>1. Init => Inv /\ Fits  BY InitInv, InitFits
  <1>2. Inv /\ Fits /\ [Next]_vars => (Inv /\ Fits)'  BY NextInv, NextFits
  <1> QED BY <1>1, <1>2, PTL DEF Spec

-----------------------------------------------------------------------------
(* What a window holds together                                            *)

Nil == [up |-> 0, down |-> 0]
AddUp(f, k, c) == [up |-> c.up + f[k].up, down |-> c.down + f[k].down]
Some(S) == CHOOSE x \in S : TRUE

\* The sums of the subsets of S, each from that of a smaller one; of those of n
\* elements at most.
Sums(h, f, S) ==
    h = [V \in SUBSET S |-> IF V = {} THEN Nil ELSE AddUp(f, Some(V), h[V \ {Some(V)}])]

Upto(S, n) == {V \in SUBSET S : Cardinality(V) <= n}

SumsTo(h, f, S, n) ==
    h = [V \in Upto(S, n) |-> IF V = {} THEN Nil ELSE AddUp(f, Some(V), h[V \ {Some(V)}])]

\* One element less.
LEMMA OneLess ==
    ASSUME NEW V, IsFiniteSet(V), NEW x \in V
    PROVE  /\ IsFiniteSet(V \ {x}) /\ Cardinality(V) \in Nat /\ Cardinality(V) >= 1
           /\ Cardinality(V \ {x}) = Cardinality(V) - 1 /\ Cardinality(V \ {x}) \in Nat
  <1>1. /\ IsFiniteSet(V \ {x}) /\ Cardinality(V \ {x}) = Cardinality(V) - 1
    BY FS_RemoveElement
  <1>2. Cardinality(V) \in Nat /\ Cardinality(V \ {x}) \in Nat
    BY <1>1, FS_CardinalityType
  <1> QED BY <1>1, <1>2

\* There are such sums, for sets as large as one likes.
LEMMA SumsToExist ==
    ASSUME NEW f, NEW S, IsFiniteSet(S), NEW n \in Nat
    PROVE  \E h : SumsTo(h, f, S, n)
  <1> DEFINE B == {m \in Nat : ~(\E h : SumsTo(h, f, S, m))}
  <1>1. SUFFICES ASSUME n \in B PROVE FALSE  OBVIOUS
  <1>2. PICK m \in B : \A k \in B : m <= k
    <2>1. B \in SUBSET Nat /\ B # {}  BY <1>1
    <2> HIDE DEF B
    <2> QED BY <2>1, LeastNat
  <1>3. m \in Nat /\ ~(\E h : SumsTo(h, f, S, m))  BY <1>2
  <1>4. \A V \in SUBSET S : IsFiniteSet(V) /\ Cardinality(V) \in Nat
    BY FS_Subset, FS_CardinalityType
  <1>5. CASE m = 0
    <2>1. \A V \in Upto(S, 0) : V = {}
      BY <1>4, FS_EmptySet DEF Upto
    <2> DEFINE h == [V \in Upto(S, 0) |-> Nil]
    <2>2. h = [V \in Upto(S, 0) |-> IF V = {} THEN Nil ELSE AddUp(f, Some(V), h[V \ {Some(V)}])]
      BY <2>1
    <2> HIDE DEF h
    <2>3. SumsTo(h, f, S, 0)  BY <2>2 DEF SumsTo
    <2> QED BY <1>3, <1>5, <2>3
  <1>6. CASE m # 0
    <2>1. m - 1 \in Nat /\ m - 1 \notin B  BY <1>2, <1>6
    <2>2. PICK g : SumsTo(g, f, S, m - 1)  BY <2>1
    <2> DEFINE h == [V \in Upto(S, m) |-> IF V = {} THEN Nil ELSE AddUp(f, Some(V), g[V \ {Some(V)}])]
    <2>3. \A V \in Upto(S, m - 1) : V \in Upto(S, m)  BY <1>3, <1>4, <2>1 DEF Upto
    <2>4. \A V \in Upto(S, m - 1) : h[V] = g[V]
      <3> TAKE V \in Upto(S, m - 1)
      <3>1. g[V] = IF V = {} THEN Nil ELSE AddUp(f, Some(V), g[V \ {Some(V)}])
        BY <2>2 DEF SumsTo
      <3> QED BY <2>3, <3>1
    <2>5. \A V \in Upto(S, m) : V # {} => V \ {Some(V)} \in Upto(S, m - 1)
      <3> SUFFICES ASSUME NEW V \in Upto(S, m), V # {} PROVE V \ {Some(V)} \in Upto(S, m - 1)
        OBVIOUS
      <3>1. Some(V) \in V  BY DEF Some
      <3>2. V \in SUBSET S /\ IsFiniteSet(V) /\ Cardinality(V) <= m  BY <1>4 DEF Upto
      <3>3. Cardinality(V \ {Some(V)}) = Cardinality(V) - 1 /\ Cardinality(V) \in Nat
        BY <3>1, <3>2, OneLess
      <3>4. Cardinality(V \ {Some(V)}) <= m - 1  BY <1>3, <3>2, <3>3
      <3> QED BY <3>2, <3>4 DEF Upto
    <2>6. h = [V \in Upto(S, m) |-> IF V = {} THEN Nil ELSE AddUp(f, Some(V), h[V \ {Some(V)}])]
      BY <2>4, <2>5
    <2> HIDE DEF h
    <2>7. SumsTo(h, f, S, m)  BY <2>6 DEF SumsTo
    <2> QED BY <1>3, <2>7
  <1> QED BY <1>5, <1>6

\* So there are the sums of all subsets.
LEMMA SumsExist ==
    ASSUME NEW f, NEW S, IsFiniteSet(S)
    PROVE  \E h : Sums(h, f, S)
  <1>1. Cardinality(S) \in Nat  BY FS_CardinalityType
  <1>2. Upto(S, Cardinality(S)) = SUBSET S  BY FS_Subset DEF Upto
  <1>3. PICK h : SumsTo(h, f, S, Cardinality(S))  BY <1>1, SumsToExist
  <1>4. Sums(h, f, S)  BY <1>2, <1>3 DEF SumsTo, Sums
  <1> QED BY <1>4

\* Sums of the same set are the same.
LEMMA SumsUnique ==
    ASSUME NEW f, NEW S, NEW R, NEW h, NEW g, Sums(h, f, S), Sums(g, f, R),
           NEW W, W \subseteq S, W \subseteq R, IsFiniteSet(W)
    PROVE  h[W] = g[W]
  <1> DEFINE P(V) == V \subseteq W /\ h[V] # g[V]
             B == {n \in Nat : \E V \in SUBSET W : Cardinality(V) = n /\ P(V)}
  <1>1. SUFFICES ASSUME P(W) PROVE FALSE  OBVIOUS
  <1>2. \A V \in SUBSET W : IsFiniteSet(V) /\ Cardinality(V) \in Nat
    BY FS_Subset, FS_CardinalityType
  <1>3. PICK m \in B : \A n \in B : m <= n
    <2>1. B \in SUBSET Nat /\ B # {}  BY <1>1, <1>2
    <2> HIDE DEF B
    <2> QED BY <2>1, LeastNat
  <1>4. PICK V \in SUBSET W : Cardinality(V) = m /\ P(V)  BY <1>3
  <1>5. /\ h[V] = IF V = {} THEN Nil ELSE AddUp(f, Some(V), h[V \ {Some(V)}])
        /\ g[V] = IF V = {} THEN Nil ELSE AddUp(f, Some(V), g[V \ {Some(V)}])
    BY DEF Sums
  <1>6. V # {}  BY <1>4, <1>5
  <1>7. Some(V) \in V  BY <1>6 DEF Some
  <1> DEFINE U == V \ {Some(V)}
  <1>8. U \in SUBSET W /\ Cardinality(U) = m - 1 /\ m - 1 \in Nat
    BY <1>2, <1>4, <1>7, OneLess
  <1>9. m - 1 \notin B
    <2>1. m \in Nat /\ ~(m <= m - 1)  BY <1>8
    <2> HIDE DEF B
    <2> QED BY <1>3, <2>1
  <1>10. h[U] = g[U]  BY <1>8, <1>9
  <1> QED BY <1>4, <1>5, <1>6, <1>10

\* getData's total is one of these sums.
LEMMA TotalIs ==
    ASSUME NEW f, NEW W
    PROVE  Total(f, W) = (CHOOSE h : Sums(h, f, W \cap DOMAIN f))[W \cap DOMAIN f]
  BY DEF Total, FoldSet, MapThenFoldSet, Sums, AddUp, Nil, Some

\* It is the count of some bucket and the total of the others.
LEMMA TotalUnfolds ==
    ASSUME NEW f, NEW W, IsFiniteSet(W)
    PROVE  LET S == W \cap DOMAIN f IN
           Total(f, W) = IF S = {} THEN Nil ELSE AddUp(f, Some(S), Total(f, W \ {Some(S)}))
  <1> DEFINE S == W \cap DOMAIN f
             U == W \ {Some(S)}
             R == U \cap DOMAIN f
  <1>1. IsFiniteSet(S) /\ IsFiniteSet(R)
    <2>1. S \in SUBSET W /\ R \in SUBSET W  OBVIOUS
    <2> QED BY <2>1, FS_Subset
  <1>2. PICK h : Sums(h, f, S) /\ Total(f, W) = h[S]
    BY <1>1, TotalIs, SumsExist
  <1>3. PICK g : Sums(g, f, R) /\ Total(f, U) = g[R]
    BY <1>1, TotalIs, SumsExist
  <1>4. h[S] = IF S = {} THEN Nil ELSE AddUp(f, Some(S), h[S \ {Some(S)}])
    BY <1>2 DEF Sums
  <1>5. S \ {Some(S)} = R  OBVIOUS
  <1>6. h[R] = g[R]
    <2>1. R \subseteq S  OBVIOUS
    <2> HIDE DEF R, S
    <2> QED BY <1>1, <1>2, <1>3, <2>1, SumsUnique
  <1> QED BY <1>2, <1>3, <1>4, <1>5, <1>6

Sum == [up : Nat, down : Nat]

\* A total is two numbers.
LEMMA TotalType ==
    ASSUME NEW f \in Table, NEW W, IsFiniteSet(W)
    PROVE  Total(f, W) \in Sum
  <1> DEFINE B == {n \in Nat : \E V \in SUBSET W : Cardinality(V) = n /\ Total(f, V) \notin Sum}
  <1>1. SUFFICES ASSUME Total(f, W) \notin Sum PROVE FALSE  OBVIOUS
  <1>2. \A V \in SUBSET W : IsFiniteSet(V) /\ Cardinality(V) \in Nat
    BY FS_Subset, FS_CardinalityType
  <1>3. PICK m \in B : \A n \in B : m <= n
    <2>1. B \in SUBSET Nat /\ B # {}  BY <1>1, <1>2
    <2> HIDE DEF B
    <2> QED BY <2>1, LeastNat
  <1>4. PICK V \in SUBSET W : Cardinality(V) = m /\ Total(f, V) \notin Sum  BY <1>3
  <1> DEFINE S == V \cap DOMAIN f
             x == Some(S)
             U == V \ {x}
  <1>5. Total(f, V) = IF S = {} THEN Nil ELSE AddUp(f, x, Total(f, U))
    BY <1>2, TotalUnfolds
  <1>6. Nil \in Sum  BY DEF Nil, Sum
  <1>7. x \in V /\ x \in DOMAIN f  BY <1>4, <1>5, <1>6 DEF Some
  <1>8. U \in SUBSET W /\ Cardinality(U) = m - 1 /\ m - 1 \in Nat
    BY <1>2, <1>4, <1>7, OneLess
  <1>9. m - 1 \notin B
    <2>1. m \in Nat /\ ~(m <= m - 1)  BY <1>8
    <2> HIDE DEF B
    <2> QED BY <1>3, <2>1
  <1>10. Total(f, U) \in Sum  BY <1>8, <1>9
  <1>11. f[x] \in Counts  BY <1>7, TableOps
  <1> HIDE DEF x, U, S
  <1>12. AddUp(f, x, Total(f, U)) \in Sum  BY <1>10, <1>11 DEF AddUp, Sum, Counts
  <1> QED BY <1>4, <1>5, <1>6, <1>12

\* Any of its buckets may be counted last.
LEMMA TotalStep ==
    ASSUME NEW f \in Table, NEW W, IsFiniteSet(W), NEW y \in W, y \in DOMAIN f
    PROVE  Total(f, W) = AddUp(f, y, Total(f, W \ {y}))
  <1> DEFINE Bad(V) == \E z \in V : z \in DOMAIN f /\ Total(f, V) # AddUp(f, z, Total(f, V \ {z}))
             B == {n \in Nat : \E V \in SUBSET W : Cardinality(V) = n /\ Bad(V)}
  <1>1. SUFFICES ASSUME Bad(W) PROVE FALSE  OBVIOUS
  <1>2. \A V \in SUBSET W : IsFiniteSet(V) /\ Cardinality(V) \in Nat
    BY FS_Subset, FS_CardinalityType
  <1>3. PICK m \in B : \A n \in B : m <= n
    <2>1. B \in SUBSET Nat /\ B # {}  BY <1>1, <1>2
    <2> HIDE DEF B
    <2> QED BY <2>1, LeastNat
  <1>4. PICK V \in SUBSET W : Cardinality(V) = m /\ Bad(V)  BY <1>3
  <1>5. PICK z \in V : z \in DOMAIN f /\ Total(f, V) # AddUp(f, z, Total(f, V \ {z}))
    BY <1>4
  <1> DEFINE x == Some(V \cap DOMAIN f)
  <1>6. Total(f, V) = AddUp(f, x, Total(f, V \ {x}))
    BY <1>2, <1>5, TotalUnfolds
  <1>7. x \in V /\ x \in DOMAIN f  BY <1>5 DEF Some
  <1>8. x # z  BY <1>5, <1>6
  <1> HIDE DEF x
  <1>9. \A w \in V : V \ {w} \in SUBSET W /\ ~Bad(V \ {w})
    <2> SUFFICES ASSUME NEW w \in V PROVE V \ {w} \in SUBSET W /\ ~Bad(V \ {w})  OBVIOUS
    <2>1. V \ {w} \in SUBSET W /\ Cardinality(V \ {w}) = m - 1 /\ m - 1 \in Nat
      BY <1>2, <1>4, OneLess
    <2>2. m \in Nat /\ ~(m <= m - 1)  BY <2>1
    <2>3. m - 1 \notin B
      <3> HIDE DEF B
      <3> QED BY <1>3, <2>2
    <2> QED BY <2>1, <2>3
  <1> DEFINE R == Total(f, (V \ {x}) \ {z})
  <1>10. Total(f, V \ {x}) = AddUp(f, z, R)  BY <1>5, <1>7, <1>8, <1>9
  <1>11. Total(f, V \ {z}) = AddUp(f, x, R)
    <2>1. (V \ {z}) \ {x} = (V \ {x}) \ {z}  OBVIOUS
    <2>2. Total(f, V \ {z}) = AddUp(f, x, Total(f, (V \ {z}) \ {x}))
      BY <1>5, <1>7, <1>8, <1>9
    <2> QED BY <2>1, <2>2
  <1>12. R \in Sum
    <2>1. IsFiniteSet((V \ {x}) \ {z})  BY <1>2
    <2> QED BY <2>1, TotalType
  <1>13. f[x] \in Counts /\ f[z] \in Counts  BY <1>5, <1>7, TableOps
  <1> HIDE DEF R
  <1>14. AddUp(f, x, AddUp(f, z, R)) = AddUp(f, z, AddUp(f, x, R))
    BY <1>12, <1>13 DEF AddUp, Sum, Counts
  <1> QED BY <1>5, <1>6, <1>10, <1>11, <1>14

AddTo(c, s) == [up |-> s.up + c.up, down |-> s.down + c.down]

\* A bucket that is not there adds nothing.
LEMMA TotalTakes ==
    ASSUME NEW f \in Table, NEW W, IsFiniteSet(W), NEW y \in W
    PROVE  Total(f, W) = AddTo(Held(f, y), Total(f, W \ {y}))
  <1>1. CASE y \in DOMAIN f
    BY <1>1, TotalStep DEF AddUp, AddTo, Held
  <1>2. CASE y \notin DOMAIN f
    <2>1. (W \ {y}) \cap DOMAIN f = W \cap DOMAIN f  BY <1>2
    <2>2. Total(f, W \ {y}) = Total(f, W)  BY <2>1, TotalIs
    <2>3. Total(f, W) \in Sum  BY TotalType
    <2>4. AddTo(Zero, Total(f, W)) = Total(f, W)  BY <2>3 DEF AddTo, Sum, Zero
    <2> QED BY <1>2, <2>2, <2>4 DEF Held
  <1> QED BY <1>1, <1>2

\* Tables that agree on the buckets of a window have the same total.
LEMMA TotalAgree ==
    ASSUME NEW f \in Table, NEW g \in Table, NEW W, IsFiniteSet(W),
           \A k \in W : Held(f, k) = Held(g, k)
    PROVE  Total(f, W) = Total(g, W)
  <1> DEFINE B == {n \in Nat : \E V \in SUBSET W : Cardinality(V) = n /\ Total(f, V) # Total(g, V)}
  <1>1. SUFFICES ASSUME Total(f, W) # Total(g, W) PROVE FALSE  OBVIOUS
  <1>2. \A V \in SUBSET W : IsFiniteSet(V) /\ Cardinality(V) \in Nat
    BY FS_Subset, FS_CardinalityType
  <1>3. PICK m \in B : \A n \in B : m <= n
    <2>1. B \in SUBSET Nat /\ B # {}  BY <1>1, <1>2
    <2> HIDE DEF B
    <2> QED BY <2>1, LeastNat
  <1>4. PICK V \in SUBSET W : Cardinality(V) = m /\ Total(f, V) # Total(g, V)  BY <1>3
  <1>5. V # {}
    <2>1. ASSUME V = {} PROVE FALSE
      <3>1. V \cap DOMAIN f = {} /\ V \cap DOMAIN g = {}  BY <2>1
      <3>2. Total(f, V) = Nil /\ Total(g, V) = Nil  BY <1>2, <3>1, TotalUnfolds
      <3> QED BY <1>4, <3>2
    <2> QED BY <2>1
  <1>6. PICK y : y \in V  BY <1>5
  <1>7. V \ {y} \in SUBSET W /\ Cardinality(V \ {y}) = m - 1 /\ m - 1 \in Nat
    BY <1>2, <1>4, <1>6, OneLess
  <1>8. m - 1 \notin B
    <2>1. m \in Nat /\ ~(m <= m - 1)  BY <1>7
    <2> HIDE DEF B
    <2> QED BY <1>3, <2>1
  <1>9. Total(f, V \ {y}) = Total(g, V \ {y})  BY <1>7, <1>8
  <1>10. /\ Total(f, V) = AddTo(Held(f, y), Total(f, V \ {y}))
         /\ Total(g, V) = AddTo(Held(g, y), Total(g, V \ {y}))
    BY <1>2, <1>6, TotalTakes
  <1>11. Held(f, y) = Held(g, y)  BY <1>4, <1>6
  <1> QED BY <1>4, <1>9, <1>10, <1>11
=============================================================================
