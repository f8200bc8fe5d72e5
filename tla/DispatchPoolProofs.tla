------------------------- MODULE DispatchPoolProofs -------------------------
(***************************************************************************)
(* Theorems about DispatchPool, for any number of senders, keys, workers   *)
(* and events and any depth of the channels.                               *)
(***************************************************************************)
EXTENDS DispatchPool, TLAPS

Number == 1..MaxEvents

-----------------------------------------------------------------------------
(***************************************************************************)
(* NumbersOf under the changes that a send and a handler make.             *)
(***************************************************************************)
\* The witness that NumbersOf asks for.
Places(k, numbers, events, at) ==
  /\ \A i, j \in 1..Len(numbers) : i < j => at[i] < at[j]
  /\ \A i \in 1..Len(numbers) : events[at[i]] = [key |-> k, n |-> numbers[i]]
  /\ \A p \in 1..Len(events) :
       events[p].key = k => \E i \in 1..Len(numbers) : at[i] = p

LEMMA NumbersIntro ==
  ASSUME NEW k, NEW numbers, NEW events,
         NEW at \in [1..Len(numbers) -> 1..Len(events)], Places(k, numbers, events, at)
  PROVE  NumbersOf(k, numbers, events)
BY DEF NumbersOf, Places

\* An event of the key is queued.
LEMMA NumbersAppend ==
  ASSUME NEW k \in Keys, NEW numbers \in Seq(Number), NEW events \in Seq(Events),
         NumbersOf(k, numbers, events), NEW e \in Events, e.key = k
  PROVE  NumbersOf(k, Append(numbers, e.n), Append(events, e))
<1> DEFINE m == Len(numbers)
           l == Len(events)
           numbers2 == Append(numbers, e.n)
           events2 == Append(events, e)
<1>1. m \in Nat /\ l \in Nat
  OBVIOUS
<1>2. /\ Len(numbers2) = m + 1 /\ Len(events2) = l + 1
      /\ \A i \in 1..m : numbers2[i] = numbers[i]
      /\ numbers2[m + 1] = e.n
      /\ \A p \in 1..l : events2[p] = events[p]
      /\ events2[l + 1] = e
  BY DEF Events, Number
<1>3. PICK at \in [1..m -> 1..l] :
        /\ \A i, j \in 1..m : i < j => at[i] < at[j]
        /\ \A i \in 1..m : events[at[i]] = [key |-> k, n |-> numbers[i]]
        /\ \A p \in 1..l : events[p].key = k => \E i \in 1..m : at[i] = p
  BY DEF NumbersOf
<1> DEFINE at2 == [i \in 1..(m + 1) |-> IF i = m + 1 THEN l + 1 ELSE at[i]]
<1>4. e = [key |-> k, n |-> e.n]
  BY DEF Events
<1> HIDE DEF m, l, numbers2, events2
<1>5. \A i \in 1..m : at2[i] = at[i] /\ at[i] \in 1..l
  BY <1>1, <1>3
<1>6. at2[m + 1] = l + 1
  BY <1>1
<1>7. at2 \in [1..(m + 1) -> 1..(l + 1)]
  BY <1>1, <1>3
<1> HIDE DEF at2
<1>8. \A i, j \in 1..(m + 1) : i < j => at2[i] < at2[j]
  <2>1. SUFFICES ASSUME NEW i \in 1..(m + 1), NEW j \in 1..(m + 1), i < j
                 PROVE  at2[i] < at2[j]
    OBVIOUS
  <2>2. i \in 1..m
    BY <1>1, <2>1
  <2>3. CASE j = m + 1
    BY <1>1, <1>5, <1>6, <2>2, <2>3
  <2>4. CASE j \in 1..m
    BY <1>3, <1>5, <2>1, <2>2, <2>4
  <2> QED BY <1>1, <2>3, <2>4
<1>9. \A i \in 1..(m + 1) : events2[at2[i]] = [key |-> k, n |-> numbers2[i]]
  <2>1. SUFFICES ASSUME NEW i \in 1..(m + 1)
                 PROVE  events2[at2[i]] = [key |-> k, n |-> numbers2[i]]
    OBVIOUS
  <2>2. CASE i = m + 1
    BY <1>2, <1>4, <1>6, <2>2
  <2>3. CASE i \in 1..m
    BY <1>2, <1>3, <1>5, <2>3
  <2> QED BY <1>1, <2>2, <2>3
<1>10. \A p \in 1..(l + 1) : events2[p].key = k => \E i \in 1..(m + 1) : at2[i] = p
  <2>1. SUFFICES ASSUME NEW p \in 1..(l + 1), events2[p].key = k
                 PROVE  \E i \in 1..(m + 1) : at2[i] = p
    OBVIOUS
  <2>2. CASE p = l + 1
    BY <1>1, <1>6, <2>2
  <2>3. CASE p \in 1..l
    <3>1. PICK i \in 1..m : at[i] = p
      BY <1>2, <1>3, <2>1, <2>3
    <3> QED BY <1>1, <1>5, <3>1
  <2> QED BY <1>1, <2>2, <2>3
<1>11. at2 \in [1..Len(numbers2) -> 1..Len(events2)]
  BY <1>2, <1>7
<1>12. Places(k, numbers2, events2, at2)
  BY <1>2, <1>8, <1>9, <1>10 DEF Places
<1>13. NumbersOf(k, numbers2, events2)
  BY <1>11, <1>12, NumbersIntro
<1> QED BY <1>13 DEF numbers2, events2

\* An event of another key is queued.
LEMMA NumbersAppendOther ==
  ASSUME NEW k \in Keys, NEW numbers \in Seq(Number), NEW events \in Seq(Events),
         NumbersOf(k, numbers, events), NEW e \in Events, e.key # k
  PROVE  NumbersOf(k, numbers, Append(events, e))
<1> DEFINE m == Len(numbers)
           l == Len(events)
           events2 == Append(events, e)
<1>1. /\ l \in Nat /\ Len(events2) = l + 1
      /\ \A p \in 1..l : events2[p] = events[p]
      /\ events2[l + 1] = e
  OBVIOUS
<1>2. PICK at \in [1..m -> 1..l] :
        /\ \A i, j \in 1..m : i < j => at[i] < at[j]
        /\ \A i \in 1..m : events[at[i]] = [key |-> k, n |-> numbers[i]]
        /\ \A p \in 1..l : events[p].key = k => \E i \in 1..m : at[i] = p
  BY DEF NumbersOf
<1> HIDE DEF m, l, events2
<1>3. at \in [1..m -> 1..(l + 1)]
  BY <1>1, <1>2
<1>4. \A i \in 1..m : events2[at[i]] = [key |-> k, n |-> numbers[i]]
  BY <1>1, <1>2
<1>5. \A p \in 1..(l + 1) : events2[p].key = k => \E i \in 1..m : at[i] = p
  <2>1. SUFFICES ASSUME NEW p \in 1..(l + 1), events2[p].key = k
                 PROVE  \E i \in 1..m : at[i] = p
    OBVIOUS
  <2>2. p \in 1..l
    BY <1>1, <2>1
  <2> QED BY <1>1, <1>2, <2>1, <2>2
<1>6. Len(numbers) = m /\ \A i, j \in 1..m : i < j => at[i] < at[j]
  BY <1>2 DEF m
<1>7. at \in [1..Len(numbers) -> 1..Len(events2)]
  BY <1>1, <1>3, <1>6
<1>8. Places(k, numbers, events2, at)
  BY <1>1, <1>4, <1>5, <1>6 DEF Places
<1>9. NumbersOf(k, numbers, events2)
  BY <1>7, <1>8, NumbersIntro
<1> QED BY <1>9 DEF events2

\* The oldest event, one of the key, was handled.
LEMMA NumbersTail ==
  ASSUME NEW k \in Keys, NEW numbers \in Seq(Number), NEW events \in Seq(Events),
         NumbersOf(k, numbers, events), events # <<>>, Head(events).key = k
  PROVE  /\ numbers # <<>> /\ Head(numbers) = Head(events).n
         /\ NumbersOf(k, Tail(numbers), Tail(events))
<1> DEFINE m == Len(numbers)
           l == Len(events)
           numbers2 == Tail(numbers)
           events2 == Tail(events)
<1>1. PICK at \in [1..m -> 1..l] :
        /\ \A i, j \in 1..m : i < j => at[i] < at[j]
        /\ \A i \in 1..m : events[at[i]] = [key |-> k, n |-> numbers[i]]
        /\ \A p \in 1..l : events[p].key = k => \E i \in 1..m : at[i] = p
  BY DEF NumbersOf
<1>2. m \in Nat /\ l \in Nat \ {0} /\ Head(events) = events[1]
  OBVIOUS
<1>3. PICK i1 \in 1..m : at[i1] = 1
  BY <1>1, <1>2
<1>4. i1 = 1
  <2>1. i1 # 1 => at[1] < 1
    BY <1>1, <1>2, <1>3
  <2>2. at[1] \in 1..l
    BY <1>1, <1>2, <1>3
  <2> QED BY <2>1, <2>2
<1>5. 1 \in 1..m /\ at[1] = 1
  BY <1>3, <1>4
<1>6. numbers # <<>> /\ Head(numbers) = numbers[1]
  BY <1>5
<1>7. Head(numbers) = Head(events).n
  <2>1. events[1] = [key |-> k, n |-> numbers[1]]
    BY <1>1, <1>5
  <2> QED BY <1>2, <1>6, <2>1
<1>8. /\ Len(numbers2) = m - 1 /\ Len(events2) = l - 1
      /\ \A i \in 1..(m - 1) : numbers2[i] = numbers[i + 1]
      /\ \A p \in 1..(l - 1) : events2[p] = events[p + 1]
  BY <1>2, <1>6
<1> DEFINE at2 == [i \in 1..(m - 1) |-> at[i + 1] - 1]
<1> HIDE DEF m, l, numbers2, events2
<1>9. \A i \in 1..(m - 1) : at[i + 1] \in 2..l /\ at2[i] = at[i + 1] - 1
  <2>1. SUFFICES ASSUME NEW i \in 1..(m - 1)
                 PROVE  at[i + 1] \in 2..l /\ at2[i] = at[i + 1] - 1
    OBVIOUS
  <2>2. i + 1 \in 1..m /\ 1 < i + 1
    BY <1>2
  <2>3. at[1] < at[i + 1] /\ at[i + 1] \in 1..l
    BY <1>1, <1>5, <2>2
  <2> QED BY <1>2, <1>5, <2>3
<1>10. at2 \in [1..(m - 1) -> 1..(l - 1)]
  BY <1>2, <1>9
<1> HIDE DEF at2
<1>11. \A i, j \in 1..(m - 1) : i < j => at2[i] < at2[j]
  <2>1. SUFFICES ASSUME NEW i \in 1..(m - 1), NEW j \in 1..(m - 1), i < j
                 PROVE  at2[i] < at2[j]
    OBVIOUS
  <2>2. i + 1 \in 1..m /\ j + 1 \in 1..m /\ i + 1 < j + 1
    BY <1>2, <2>1
  <2>3. at[i + 1] < at[j + 1]
    BY <1>1, <2>2
  <2> QED BY <1>2, <1>9, <2>3
<1>12. \A i \in 1..(m - 1) : events2[at2[i]] = [key |-> k, n |-> numbers2[i]]
  <2>1. SUFFICES ASSUME NEW i \in 1..(m - 1)
                 PROVE  events2[at2[i]] = [key |-> k, n |-> numbers2[i]]
    OBVIOUS
  <2>2. i + 1 \in 1..m /\ at[i + 1] \in 2..l /\ at2[i] = at[i + 1] - 1
    BY <1>2, <1>9
  <2>3. at2[i] \in 1..(l - 1) /\ at2[i] + 1 = at[i + 1]
    BY SMTT(30), <1>2, <2>2
  <2>4. events2[at2[i]] = events[at[i + 1]] /\ numbers2[i] = numbers[i + 1]
    BY <1>8, <2>3
  <2> QED BY <1>1, <2>2, <2>4
<1>13. \A p \in 1..(l - 1) : events2[p].key = k => \E i \in 1..(m - 1) : at2[i] = p
  <2>1. SUFFICES ASSUME NEW p \in 1..(l - 1), events2[p].key = k
                 PROVE  \E i \in 1..(m - 1) : at2[i] = p
    OBVIOUS
  <2>2. p + 1 \in 1..l /\ events[p + 1].key = k
    BY <1>2, <1>8, <2>1
  <2>3. PICK i \in 1..m : at[i] = p + 1
    BY <1>1, <2>2
  <2>4. i # 1
    BY <1>5, <2>3
  <2>5. i - 1 \in 1..(m - 1) /\ (i - 1) + 1 = i
    BY <1>2, <2>4
  <2>6. at2[i - 1] = p
    BY <1>9, <2>3, <2>5
  <2> QED BY <2>5, <2>6
<1>14. at2 \in [1..Len(numbers2) -> 1..Len(events2)]
  BY <1>8, <1>10
<1>15. Places(k, numbers2, events2, at2)
  BY <1>8, <1>11, <1>12, <1>13 DEF Places
<1>16. NumbersOf(k, numbers2, events2)
  BY <1>14, <1>15, NumbersIntro
<1> QED BY <1>6, <1>7, <1>16 DEF numbers2, events2

\* The oldest event, one of another key, was handled.
LEMMA NumbersTailOther ==
  ASSUME NEW k \in Keys, NEW numbers \in Seq(Number), NEW events \in Seq(Events),
         NumbersOf(k, numbers, events), events # <<>>, Head(events).key # k
  PROVE  NumbersOf(k, numbers, Tail(events))
<1> DEFINE m == Len(numbers)
           l == Len(events)
           events2 == Tail(events)
<1>1. PICK at \in [1..m -> 1..l] :
        /\ \A i, j \in 1..m : i < j => at[i] < at[j]
        /\ \A i \in 1..m : events[at[i]] = [key |-> k, n |-> numbers[i]]
        /\ \A p \in 1..l : events[p].key = k => \E i \in 1..m : at[i] = p
  BY DEF NumbersOf
<1>2. /\ m \in Nat /\ l \in Nat \ {0} /\ Head(events) = events[1]
      /\ Len(events2) = l - 1 /\ \A p \in 1..(l - 1) : events2[p] = events[p + 1]
  OBVIOUS
<1> DEFINE at2 == [i \in 1..m |-> at[i] - 1]
<1> HIDE DEF m, l, events2
<1>3. \A i \in 1..m : at[i] \in 2..l /\ at2[i] = at[i] - 1
  <2>1. SUFFICES ASSUME NEW i \in 1..m PROVE at[i] \in 2..l /\ at2[i] = at[i] - 1
    OBVIOUS
  <2>2. at[i] \in 1..l /\ events[at[i]] = [key |-> k, n |-> numbers[i]]
    BY <1>1
  <2>3. at[i] # 1
    BY <1>2, <2>2
  <2> QED BY <1>2, <2>2, <2>3
<1>4. at2 \in [1..m -> 1..(l - 1)]
  BY <1>2, <1>3
<1> HIDE DEF at2
<1>5. \A i, j \in 1..m : i < j => at2[i] < at2[j]
  <2>1. SUFFICES ASSUME NEW i \in 1..m, NEW j \in 1..m, i < j PROVE at2[i] < at2[j]
    OBVIOUS
  <2>2. at[i] < at[j]
    BY <1>1, <2>1
  <2> QED BY <1>2, <1>3, <2>2
<1>6. \A i \in 1..m : events2[at2[i]] = [key |-> k, n |-> numbers[i]]
  <2>1. SUFFICES ASSUME NEW i \in 1..m
                 PROVE  events2[at2[i]] = [key |-> k, n |-> numbers[i]]
    OBVIOUS
  <2>2. at2[i] \in 1..(l - 1) /\ at2[i] + 1 = at[i]
    BY SMTT(30), <1>2, <1>3
  <2> QED BY <1>1, <1>2, <2>2
<1>7. \A p \in 1..(l - 1) : events2[p].key = k => \E i \in 1..m : at2[i] = p
  <2>1. SUFFICES ASSUME NEW p \in 1..(l - 1), events2[p].key = k
                 PROVE  \E i \in 1..m : at2[i] = p
    OBVIOUS
  <2>2. p + 1 \in 1..l /\ events[p + 1].key = k
    BY <1>2, <2>1
  <2>3. PICK i \in 1..m : at[i] = p + 1
    BY <1>1, <2>2
  <2> QED BY <1>3, <2>3
<1>8. Len(numbers) = m
  BY DEF m
<1>9. at2 \in [1..Len(numbers) -> 1..Len(events2)]
  BY <1>2, <1>4, <1>8
<1>10. Places(k, numbers, events2, at2)
  BY <1>2, <1>5, <1>6, <1>7, <1>8 DEF Places
<1>11. NumbersOf(k, numbers, events2)
  BY <1>9, <1>10, NumbersIntro
<1> QED BY <1>11 DEF events2

-----------------------------------------------------------------------------
(***************************************************************************)
(* Sequences.                                                              *)
(***************************************************************************)
\* One number more is queued.
LEMMA QueueOne ==
  ASSUME NEW h \in Seq(Number), NEW q \in Seq(Number), NEW n \in Number, IsPrefix(h, q)
  PROVE  /\ IsPrefix(h, Append(q, n))
         /\ SubSeq(Append(q, n), Len(h) + 1, Len(Append(q, n)))
              = Append(SubSeq(q, Len(h) + 1, Len(q)), n)
<1>1. Len(h) <= Len(q) /\ SubSeq(h, 1, Len(h)) = SubSeq(q, 1, Len(h))
  BY DEF IsPrefix
<1>2. Len(Append(q, n)) = Len(q) + 1
  OBVIOUS
<1>3. SubSeq(Append(q, n), 1, Len(h)) = SubSeq(q, 1, Len(h))
  BY <1>1
<1>4. SubSeq(Append(q, n), Len(h) + 1, Len(q) + 1)
        = Append(SubSeq(q, Len(h) + 1, Len(q)), n)
  <2> DEFINE left == SubSeq(Append(q, n), Len(h) + 1, Len(q) + 1)
             right == Append(SubSeq(q, Len(h) + 1, Len(q)), n)
             d == Len(q) - Len(h)
  <2>1. d \in Nat /\ left \in Seq(Number) /\ Len(left) = d + 1
    BY <1>1
  <2>2. /\ SubSeq(q, Len(h) + 1, Len(q)) \in Seq(Number)
        /\ Len(SubSeq(q, Len(h) + 1, Len(q))) = d
        /\ \A i \in 1..d : SubSeq(q, Len(h) + 1, Len(q))[i] = q[Len(h) + i]
    BY <1>1
  <2>3. /\ right \in Seq(Number) /\ Len(right) = d + 1 /\ right[d + 1] = n
        /\ \A i \in 1..d : right[i] = q[Len(h) + i]
    BY <2>1, <2>2
  <2>4. \A i \in 1..(d + 1) : left[i] = Append(q, n)[Len(h) + i]
    BY <1>1
  <2>5. \A i \in 1..(d + 1) : left[i] = right[i]
    <3>1. SUFFICES ASSUME NEW i \in 1..(d + 1) PROVE left[i] = right[i]
      OBVIOUS
    <3>2. CASE i = d + 1
      BY <2>3, <2>4, <3>2
    <3>3. CASE i \in 1..d
      BY <2>3, <2>4, <3>3
    <3> QED BY <2>1, <3>2, <3>3
  <2> HIDE DEF left, right, d
  <2>6. left = right
    BY <2>1, <2>3, <2>5
  <2> QED BY <2>6 DEF left, right
<1>5. Len(h) <= Len(Append(q, n))
  BY <1>1, <1>2
<1> QED BY <1>1, <1>2, <1>3, <1>4, <1>5 DEF IsPrefix

\* One event more in the channel is one event more that the worker has.
LEMMA ConcatAppend ==
  ASSUME NEW c \in Seq(Events), NEW q \in Seq(Events), NEW e \in Events
  PROVE  c \o Append(q, e) = Append(c \o q, e)
<1> DEFINE left == c \o Append(q, e)
           right == Append(c \o q, e)
           l == Len(c) + Len(q)
<1>1. l \in Nat /\ left \in Seq(Events) /\ Len(left) = l + 1
  OBVIOUS
<1>2. right \in Seq(Events) /\ Len(right) = l + 1
  OBVIOUS
<1>3. \A i \in 1..(l + 1) : left[i] = right[i]
  OBVIOUS
<1> HIDE DEF left, right, l
<1>4. left = right
  BY <1>1, <1>2, <1>3
<1> QED BY <1>4 DEF left, right

\* The next number is handled.
LEMMA HandleOne ==
  ASSUME NEW h \in Seq(Number), NEW q \in Seq(Number), IsPrefix(h, q),
         SubSeq(q, Len(h) + 1, Len(q)) # <<>>,
         NEW n \in Number, n = Head(SubSeq(q, Len(h) + 1, Len(q)))
  PROVE  /\ IsPrefix(Append(h, n), q)
         /\ SubSeq(q, Len(Append(h, n)) + 1, Len(q))
              = Tail(SubSeq(q, Len(h) + 1, Len(q)))
<1>1. /\ Len(h) <= Len(q) /\ SubSeq(h, 1, Len(h)) = SubSeq(q, 1, Len(h))
      /\ Len(Append(h, n)) = Len(h) + 1
  BY DEF IsPrefix
<1>2. Len(h) < Len(q)
  BY <1>1
<1>3. n = q[Len(h) + 1]
  BY <1>2
<1>4. \A i \in 1..Len(h) : h[i] = q[i]
  BY <1>1
<1>5. \A i \in 1..(Len(h) + 1) : Append(h, n)[i] = q[i]
  BY <1>3, <1>4
<1>6. SubSeq(Append(h, n), 1, Len(h) + 1) = SubSeq(q, 1, Len(h) + 1)
  BY <1>2, <1>5
<1>7. SubSeq(q, (Len(h) + 1) + 1, Len(q)) = Tail(SubSeq(q, Len(h) + 1, Len(q)))
  BY SMTT(30), <1>2
<1> QED BY <1>1, <1>2, <1>6, <1>7 DEF IsPrefix

\* A prefix that leaves nothing is the whole.
LEMMA AllHandled ==
  ASSUME NEW h \in Seq(Number), NEW q \in Seq(Number), IsPrefix(h, q),
         SubSeq(q, Len(h) + 1, Len(q)) = <<>>
  PROVE  h = q
<1>1. Len(h) <= Len(q) /\ SubSeq(h, 1, Len(h)) = SubSeq(q, 1, Len(h))
  BY DEF IsPrefix
<1>2. Len(h) = Len(q)
  BY SMTT(30), <1>1
<1>3. h = SubSeq(h, 1, Len(h)) /\ q = SubSeq(q, 1, Len(q))
  OBVIOUS
<1> QED BY <1>1, <1>2, <1>3

-----------------------------------------------------------------------------
(***************************************************************************)
(* The invariant.                                                          *)
(***************************************************************************)
\* A worker has only events that are routed to it.
OwnEvents ==
  \A w \in Workers :
    /\ current[w] # None => Route(current[w].key) = w
    /\ \A i \in 1..Len(queues[w]) : Route(queues[w][i].key) = w

\* A worker that has left has nothing to do and gets nothing more.
LeftEmpty ==
  \A w \in exited : Closed(w) /\ queues[w] = <<>> /\ current[w] = None

\* A key whose hash is an index outside the slice never has an event queued.
NothingUnrouted ==
  \A k \in Keys : Route(k) \notin Workers => queued[k] = <<>> /\ handled[k] = <<>>

\* Unless webhooks were served when Close was called, no sender is left then.
NoSenderLeft == closing # -1 /\ ~abrupt => \A s \in Senders : sender[s] = None

PoolInv ==
  /\ PoolTypeOK /\ OwnEvents /\ LeftEmpty /\ NothingUnrouted /\ NoSenderLeft
  /\ HandledInOrder

LEMMA PoolInit ==
  ASSUME Init
  PROVE  PoolInv
<1>1. PoolTypeOK
  <2>1. <<>> \in Seq(Events) /\ <<>> \in Seq(1..MaxEvents) /\ Len(<<>>) <= QueueDepth
    BY PoolAssumption
  <2>2. 0 \in 0..MaxEvents /\ -1 \in -1..NumWorkers
    BY PoolAssumption
  <2> QED BY <2>1, <2>2 DEF Init, PoolTypeOK
<1>2. OwnEvents /\ LeftEmpty /\ NothingUnrouted /\ NoSenderLeft
  BY DEF Init, OwnEvents, LeftEmpty, NothingUnrouted, NoSenderLeft
<1>3. HandledInOrder
  <2>1. SUFFICES ASSUME NEW k \in Keys, Route(k) \in Workers
                 PROVE  /\ IsPrefix(handled[k], queued[k])
                        /\ NumbersOf(k, Waiting(k), Held(Route(k)))
    BY DEF HandledInOrder
  <2>2. handled[k] = <<>> /\ queued[k] = <<>> /\ Held(Route(k)) = <<>> /\ Waiting(k) = <<>>
    BY <2>1 DEF Init, Held, Waiting
  <2>3. IsPrefix(<<>>, <<>>)
    BY DEF IsPrefix
  <2>4. Len(<<>>) = 0 /\ 1..0 = {}
    OBVIOUS
  <2>5. NumbersOf(k, <<>>, <<>>)
    <3> DEFINE at == [i \in 1..0 |-> i]
    <3>1. at \in [1..Len(<<>>) -> 1..Len(<<>>)]
      BY <2>4
    <3>2. Places(k, <<>>, <<>>, at)
      BY <2>4 DEF Places
    <3> QED BY <3>1, <3>2, NumbersIntro
  <2> QED BY <2>2, <2>3, <2>5
<1> QED BY <1>1, <1>2, <1>3 DEF PoolInv

\* What HandledInOrder speaks of is well typed.
LEMMA HeldType ==
  ASSUME PoolTypeOK
  PROVE  /\ \A w \in Workers : Held(w) \in Seq(Events)
         /\ \A k \in Keys : Waiting(k) \in Seq(Number)
<1>1. ASSUME NEW w \in Workers PROVE Held(w) \in Seq(Events)
  <2>1. queues[w] \in Seq(Events) /\ current[w] \in Events \cup {None}
    BY DEF PoolTypeOK
  <2> QED BY <2>1 DEF Held
<1>2. ASSUME NEW k \in Keys PROVE Waiting(k) \in Seq(Number)
  <2>1. queued[k] \in Seq(Number) /\ handled[k] \in Seq(Number)
    BY DEF PoolTypeOK, Number
  <2> QED BY <2>1 DEF Waiting
<1> QED BY <1>1, <1>2

\* HandledInOrder after a step.
LEMMA HandledInOrderIntro ==
  ASSUME \A k \in Keys : Route(k) \in Workers =>
           /\ IsPrefix(handled'[k], queued'[k])
           /\ NumbersOf(k, Waiting(k)', Held(Route(k))')
  PROVE  HandledInOrder'
BY DEF HandledInOrder

\* Steps that move no event.
LEMMA NothingMoves ==
  ASSUME HandledInOrder, OwnEvents, NothingUnrouted,
         UNCHANGED <<queues, current, queued, handled>>
  PROVE  HandledInOrder' /\ OwnEvents' /\ NothingUnrouted'
<1>1. ASSUME NEW k \in Keys, Route(k) \in Workers
      PROVE  /\ IsPrefix(handled'[k], queued'[k])
             /\ NumbersOf(k, Waiting(k)', Held(Route(k))')
  <2>1. Waiting(k)' = Waiting(k) /\ Held(Route(k))' = Held(Route(k))
    BY DEF Waiting, Held
  <2>2. IsPrefix(handled[k], queued[k]) /\ NumbersOf(k, Waiting(k), Held(Route(k)))
    BY <1>1 DEF HandledInOrder
  <2> QED BY <2>1, <2>2
<1>2. HandledInOrder'
  BY <1>1, HandledInOrderIntro
<1> QED BY <1>2 DEF OwnEvents, NothingUnrouted

\* HandleWebhook applies an event.
LEMMA ApplyInv ==
  ASSUME PoolInv, NEW s \in Senders, NEW k \in Keys, Apply(s, k)
  PROVE  PoolInv'
<1>1. HandledInOrder' /\ OwnEvents' /\ NothingUnrouted'
  BY NothingMoves DEF PoolInv, Apply
<1>2. PoolTypeOK'
  <2>1. [key |-> k, n |-> applied[k] + 1] \in Events /\ applied[k] + 1 \in 0..MaxEvents
    BY PoolAssumption DEF Apply, PoolInv, PoolTypeOK, Events
  <2>2. /\ applied' \in [Keys -> 0..MaxEvents]
        /\ sender' \in [Senders -> Events \cup {None}]
        /\ abrupt' \in BOOLEAN
    BY <2>1 DEF Apply, PoolInv, PoolTypeOK
  <2> QED BY <2>2 DEF Apply, PoolInv, PoolTypeOK
<1>3. LeftEmpty' /\ NoSenderLeft'
  BY DEF PoolInv, Apply, LeftEmpty, NoSenderLeft, Closed
<1> QED BY <1>1, <1>2, <1>3 DEF PoolInv

\* dispatchPool.send puts it in the channel of its worker.
LEMMA SendInv ==
  ASSUME PoolInv, NEW s \in Senders, Send(s)
  PROVE  PoolInv'
<1>1. PoolTypeOK
  BY DEF PoolInv
<1>2. sender[s] \in Events
  BY <1>1 DEF Send, PoolTypeOK
<1>3. PICK e \in Events : e = sender[s]
  BY <1>2
<1>4. e.key \in Keys /\ e.n \in Number
  BY DEF Events, Number
<1>5. PICK k \in Keys : k = e.key
  BY <1>4
<1>6. PICK n \in Number : n = e.n
  BY <1>4
<1>7. PICK w \in Workers : w = Route(k)
  BY <1>3, <1>5 DEF Send
<1>8. /\ ~Closed(w) /\ Len(queues[w]) < QueueDepth
      /\ queues' = [queues EXCEPT ![w] = Append(queues[w], e)]
      /\ queued' = [queued EXCEPT ![k] = Append(queued[k], n)]
      /\ sender' = [sender EXCEPT ![s] = None]
      /\ UNCHANGED <<applied, current, exited, closing, abrupt, panicked, handled>>
  BY <1>3, <1>5, <1>6, <1>7 DEF Send
<1>9. PICK q \in Seq(Events) : q = queues[w]
  BY <1>1 DEF PoolTypeOK
<1>10. Append(q, e) \in Seq(Events) /\ Len(Append(q, e)) = Len(q) + 1 /\ Len(q) \in Nat
  OBVIOUS
<1>11. queues'[w] = Append(q, e) /\ \A v \in Workers \ {w} : queues'[v] = queues[v]
  BY <1>1, <1>8, <1>9 DEF PoolTypeOK
<1>12. queued[k] \in Seq(Number) /\ handled[k] \in Seq(Number)
  BY <1>1 DEF PoolTypeOK, Number
<1>13. /\ queued'[k] = Append(queued[k], n) /\ queued'[k] \in Seq(Number)
       /\ \A o \in Keys \ {k} : queued'[o] = queued[o]
  BY <1>1, <1>8, <1>12 DEF PoolTypeOK
<1>14. PoolTypeOK'
  <2>1. queues' \in [Workers -> Seq(Events)]
    BY <1>1, <1>8, <1>9, <1>10 DEF PoolTypeOK
  <2>2. \A v \in Workers : Len(queues'[v]) <= QueueDepth
    <3>1. Len(queues'[w]) <= QueueDepth
      BY <1>8, <1>9, <1>10, <1>11, PoolAssumption
    <3> QED BY <1>1, <1>11, <3>1 DEF PoolTypeOK
  <2>3. queued' \in [Keys -> Seq(1..MaxEvents)]
    BY <1>1, <1>8, <1>13 DEF PoolTypeOK, Number
  <2>4. sender' \in [Senders -> Events \cup {None}]
    BY <1>1, <1>8 DEF PoolTypeOK
  <2> QED BY <1>1, <1>8, <2>1, <2>2, <2>3, <2>4 DEF PoolTypeOK
<1>15. OwnEvents'
  <2>1. SUFFICES ASSUME NEW v \in Workers
                 PROVE  /\ current'[v] # None => Route(current'[v].key) = v
                        /\ \A i \in 1..Len(queues'[v]) : Route(queues'[v][i].key) = v
    BY DEF OwnEvents
  <2>2. current[v] # None => Route(current[v].key) = v
    BY DEF PoolInv, OwnEvents
  <2>3. \A i \in 1..Len(queues[v]) : Route(queues[v][i].key) = v
    BY DEF PoolInv, OwnEvents
  <2>4. CASE v = w
    <3>1. SUFFICES ASSUME NEW i \in 1..Len(Append(q, e))
                   PROVE  Route(Append(q, e)[i].key) = w
      BY <1>8, <1>11, <2>2, <2>4
    <3>2. CASE i \in 1..Len(q)
      BY <1>9, <2>3, <2>4, <3>2
    <3>3. CASE i = Len(q) + 1
      BY <1>5, <1>7, <3>3
    <3> QED BY <1>10, <3>2, <3>3
  <2>5. CASE v # w
    BY <1>8, <1>11, <2>2, <2>3, <2>5
  <2> QED BY <2>4, <2>5
<1>16. LeftEmpty'
  BY <1>1, <1>8, <1>11 DEF PoolInv, PoolTypeOK, LeftEmpty, Closed
<1>17. NothingUnrouted'
  BY <1>7, <1>8, <1>13 DEF PoolInv, NothingUnrouted
<1>18. NoSenderLeft'
  BY <1>1, <1>8 DEF PoolInv, PoolTypeOK, NoSenderLeft
<1>19. HandledInOrder'
  <2>1. Held(w)' = Append(Held(w), e) /\ \A v \in Workers \ {w} : Held(v)' = Held(v)
    <3>1. current[w] \in Events \cup {None}
      BY <1>1 DEF PoolTypeOK
    <3>2. PICK c \in Seq(Events) : c = IF current[w] = None THEN <<>> ELSE <<current[w]>>
      <4>1. CASE current[w] = None
        <5>1. <<>> \in Seq(Events)
          OBVIOUS
        <5> QED BY <4>1, <5>1
      <4>2. CASE current[w] # None
        <5>1. <<current[w]>> \in Seq(Events)
          BY <3>1, <4>2
        <5> QED BY <4>2, <5>1
      <4> QED BY <4>1, <4>2
    <3>3. Held(w) = c \o q /\ Held(w)' = c \o Append(q, e)
      BY <1>8, <1>9, <1>11, <3>2 DEF Held
    <3>4. Held(w)' = Append(Held(w), e)
      BY <3>3, ConcatAppend
    <3> QED BY <1>8, <1>11, <3>4 DEF Held
  <2>2. ASSUME NEW o \in Keys, Route(o) \in Workers
        PROVE  /\ IsPrefix(handled'[o], queued'[o])
               /\ NumbersOf(o, Waiting(o)', Held(Route(o))')
    <3>1. IsPrefix(handled[o], queued[o]) /\ NumbersOf(o, Waiting(o), Held(Route(o)))
      BY <2>2 DEF PoolInv, HandledInOrder
    <3>2. PICK numbers \in Seq(Number) : numbers = Waiting(o)
      BY <1>1, HeldType
    <3>3. PICK events \in Seq(Events) : events = Held(Route(o))
      BY <1>1, <2>2, HeldType
    <3>4. CASE o = k
      <4>1. PICK h, oq \in Seq(Number) : h = handled[k] /\ oq = queued[k]
        BY <1>12
      <4>2. IsPrefix(h, oq) /\ numbers = SubSeq(oq, Len(h) + 1, Len(oq))
        BY <3>1, <3>2, <3>4, <4>1 DEF Waiting
      <4>3. /\ IsPrefix(h, Append(oq, n))
            /\ SubSeq(Append(oq, n), Len(h) + 1, Len(Append(oq, n))) = Append(numbers, n)
        BY <4>2, QueueOne
      <4>4. IsPrefix(handled'[o], queued'[o]) /\ Waiting(o)' = Append(numbers, n)
        BY <1>8, <1>13, <3>4, <4>1, <4>3 DEF Waiting
      <4>5. NumbersOf(k, Append(numbers, e.n), Append(events, e))
        BY <1>5, <3>1, <3>2, <3>3, <3>4, NumbersAppend
      <4> QED BY <1>6, <1>7, <2>1, <3>3, <3>4, <4>4, <4>5
    <3>5. CASE o # k
      <4>1. IsPrefix(handled'[o], queued'[o]) /\ Waiting(o)' = numbers
        BY <1>8, <1>13, <3>1, <3>2, <3>5 DEF Waiting
      <4>2. CASE Route(o) = w
        <5>1. NumbersOf(o, numbers, Append(events, e))
          BY <1>5, <3>1, <3>2, <3>3, <3>5, NumbersAppendOther
        <5> QED BY <2>1, <3>3, <4>1, <4>2, <5>1
      <4>3. CASE Route(o) # w
        BY <2>1, <2>2, <3>1, <3>2, <4>1, <4>3
      <4> QED BY <4>2, <4>3
    <3> QED BY <3>4, <3>5
  <2> QED BY <2>2, HandledInOrderIntro
<1> QED BY <1>14, <1>15, <1>16, <1>17, <1>18, <1>19 DEF PoolInv

\* A worker takes the oldest event of its channel.
LEMMA ReceiveInv ==
  ASSUME PoolInv, NEW w \in Workers, Receive(w)
  PROVE  PoolInv'
<1>1. PoolTypeOK
  BY DEF PoolInv
<1>2. PICK q \in Seq(Events) : q = queues[w]
  BY <1>1 DEF PoolTypeOK
<1>3. /\ current[w] = None /\ q # <<>>
      /\ current' = [current EXCEPT ![w] = Head(q)]
      /\ queues' = [queues EXCEPT ![w] = Tail(q)]
      /\ UNCHANGED <<sender, applied, exited, closing, abrupt, panicked, queued, handled>>
  BY <1>2 DEF Receive
<1>4. /\ Head(q) \in Events /\ Head(q) = q[1] /\ Tail(q) \in Seq(Events)
      /\ Len(q) \in Nat \ {0} /\ Len(Tail(q)) = Len(q) - 1
      /\ \A i \in 1..(Len(q) - 1) : Tail(q)[i] = q[i + 1]
  BY <1>3
<1>5. /\ current'[w] = Head(q) /\ queues'[w] = Tail(q)
      /\ \A v \in Workers \ {w} : current'[v] = current[v] /\ queues'[v] = queues[v]
  BY <1>1, <1>3 DEF PoolTypeOK
<1>6. PoolTypeOK'
  <2>1. /\ queues' \in [Workers -> Seq(Events)]
        /\ current' \in [Workers -> Events \cup {None}]
    BY <1>1, <1>3, <1>4 DEF PoolTypeOK
  <2>2. \A v \in Workers : Len(queues'[v]) <= QueueDepth
    <3>1. Len(q) <= QueueDepth
      BY <1>1, <1>2 DEF PoolTypeOK
    <3>2. Len(queues'[w]) <= QueueDepth
      BY <1>4, <1>5, <3>1, PoolAssumption
    <3> QED BY <1>1, <1>5, <3>2 DEF PoolTypeOK
  <2> QED BY <1>1, <1>3, <2>1, <2>2 DEF PoolTypeOK
<1>7. OwnEvents'
  <2>1. \A i \in 1..Len(q) : Route(q[i].key) = w
    BY <1>2 DEF PoolInv, OwnEvents
  <2>2. Route(Head(q).key) = w
    BY <1>4, <2>1
  <2>3. \A i \in 1..Len(Tail(q)) : Route(Tail(q)[i].key) = w
    BY <1>4, <2>1
  <2>4. SUFFICES ASSUME NEW v \in Workers
                 PROVE  /\ current'[v] # None => Route(current'[v].key) = v
                        /\ \A i \in 1..Len(queues'[v]) : Route(queues'[v][i].key) = v
    BY DEF OwnEvents
  <2>5. CASE v = w
    BY <1>5, <2>2, <2>3, <2>5
  <2>6. CASE v # w
    BY <1>5, <2>6 DEF PoolInv, OwnEvents
  <2> QED BY <2>5, <2>6
<1>8. LeftEmpty'
  BY <1>1, <1>2, <1>3, <1>5 DEF PoolInv, PoolTypeOK, LeftEmpty, Closed
<1>9. NothingUnrouted' /\ NoSenderLeft'
  BY <1>3 DEF PoolInv, NothingUnrouted, NoSenderLeft
<1>10. HandledInOrder'
  <2>1. Held(w) = q
    BY <1>2, <1>3 DEF Held
  <2>2. <<Head(q)>> \o Tail(q) = q
    BY <1>3, <1>4
  <2>3. Held(w)' = q
    BY <1>4, <1>5, <2>2, PoolAssumption DEF Held
  <2>4. \A v \in Workers : Held(v)' = Held(v)
    BY <1>5, <2>1, <2>3 DEF Held
  <2>5. ASSUME NEW k \in Keys, Route(k) \in Workers
        PROVE  /\ IsPrefix(handled'[k], queued'[k])
               /\ NumbersOf(k, Waiting(k)', Held(Route(k))')
    <3>1. IsPrefix(handled[k], queued[k]) /\ NumbersOf(k, Waiting(k), Held(Route(k)))
      BY <2>5 DEF PoolInv, HandledInOrder
    <3>2. Waiting(k)' = Waiting(k) /\ Held(Route(k))' = Held(Route(k))
      BY <1>3, <2>4, <2>5 DEF Waiting
    <3> QED BY <1>3, <3>1, <3>2
  <2> QED BY <2>5, HandledInOrderIntro
<1> QED BY <1>6, <1>7, <1>8, <1>9, <1>10 DEF PoolInv

\* The handlers of an event return.
LEMMA HandledInv ==
  ASSUME PoolInv, NEW w \in Workers, Handled(w)
  PROVE  PoolInv'
<1>1. PoolTypeOK
  BY DEF PoolInv
<1>2. current[w] # None /\ current[w] \in Events
  BY <1>1 DEF Handled, PoolTypeOK
<1>3. PICK e \in Events : e = current[w]
  BY <1>2
<1>4. e.key \in Keys /\ e.n \in Number
  BY DEF Events, Number
<1>5. PICK k \in Keys : k = e.key
  BY <1>4
<1>6. PICK n \in Number : n = e.n
  BY <1>4
<1>7. /\ handled' = [handled EXCEPT ![k] = Append(handled[k], n)]
      /\ current' = [current EXCEPT ![w] = None]
      /\ UNCHANGED <<sender, applied, queues, exited, closing, abrupt, panicked, queued>>
  BY <1>3, <1>5, <1>6 DEF Handled
<1>8. Route(k) = w
  BY <1>2, <1>3, <1>5 DEF PoolInv, OwnEvents
<1>9. queued[k] \in Seq(Number) /\ handled[k] \in Seq(Number)
  BY <1>1 DEF PoolTypeOK, Number
<1>10. /\ handled'[k] = Append(handled[k], n) /\ handled'[k] \in Seq(Number)
       /\ \A o \in Keys \ {k} : handled'[o] = handled[o]
       /\ current'[w] = None /\ \A v \in Workers \ {w} : current'[v] = current[v]
  BY <1>1, <1>7, <1>9 DEF PoolTypeOK
<1>11. PoolTypeOK'
  <2>1. /\ handled' \in [Keys -> Seq(1..MaxEvents)]
        /\ current' \in [Workers -> Events \cup {None}]
    BY <1>1, <1>7, <1>10 DEF PoolTypeOK, Number
  <2> QED BY <1>1, <1>7, <2>1 DEF PoolTypeOK
<1>12. OwnEvents' /\ LeftEmpty' /\ NoSenderLeft'
  BY <1>1, <1>2, <1>7, <1>10
  DEF PoolInv, PoolTypeOK, OwnEvents, LeftEmpty, NoSenderLeft, Closed
<1>13. NothingUnrouted'
  BY <1>7, <1>8, <1>10 DEF PoolInv, NothingUnrouted
<1>14. HandledInOrder'
  <2>1. PICK q \in Seq(Events) : q = queues[w]
    BY <1>1 DEF PoolTypeOK
  <2>2. Held(w) = <<e>> \o q /\ Held(w)' = q
    BY <1>2, <1>3, <1>7, <1>10, <2>1 DEF Held
  <2>3. /\ <<e>> \o q \in Seq(Events) /\ <<e>> \o q # <<>>
        /\ Head(<<e>> \o q) = e /\ Tail(<<e>> \o q) = q
    OBVIOUS
  <2>4. ASSUME NEW v \in Workers \ {w} PROVE Held(v)' = Held(v)
    <3>1. current'[v] = current[v] /\ queues'[v] = queues[v]
      BY <1>7, <1>10
    <3> QED BY <3>1 DEF Held
  <2>5. ASSUME NEW o \in Keys, Route(o) \in Workers
        PROVE  /\ IsPrefix(handled'[o], queued'[o])
               /\ NumbersOf(o, Waiting(o)', Held(Route(o))')
    <3>1. IsPrefix(handled[o], queued[o]) /\ NumbersOf(o, Waiting(o), Held(Route(o)))
      BY <2>5 DEF PoolInv, HandledInOrder
    <3>2. PICK numbers \in Seq(Number) : numbers = Waiting(o)
      BY <1>1, HeldType
    <3>3. PICK events \in Seq(Events) : events = Held(Route(o))
      BY <1>1, <2>5, HeldType
    <3>4. Route(o) = w => /\ events # <<>> /\ Head(events) = e
                          /\ Held(Route(o))' = Tail(events)
      BY <2>2, <2>3, <3>3
    <3>5. CASE o = k
      <4>1. PICK h, oq \in Seq(Number) : h = handled[k] /\ oq = queued[k]
        BY <1>9
      <4>2. IsPrefix(h, oq) /\ numbers = SubSeq(oq, Len(h) + 1, Len(oq))
        BY <3>1, <3>2, <3>5, <4>1 DEF Waiting
      <4>3. NumbersOf(k, numbers, events) /\ events # <<>> /\ Head(events).key = k
        BY <1>5, <1>8, <3>1, <3>2, <3>3, <3>4, <3>5
      <4>4. /\ numbers # <<>> /\ Head(numbers) = Head(events).n
            /\ NumbersOf(k, Tail(numbers), Tail(events))
        BY <4>3, NumbersTail
      <4>5. n = Head(SubSeq(oq, Len(h) + 1, Len(oq)))
        BY <1>6, <1>8, <3>4, <3>5, <4>2, <4>4
      <4>6. /\ IsPrefix(Append(h, n), oq)
            /\ SubSeq(oq, Len(Append(h, n)) + 1, Len(oq)) = Tail(numbers)
        BY <4>2, <4>4, <4>5, HandleOne
      <4>7. IsPrefix(handled'[o], queued'[o]) /\ Waiting(o)' = Tail(numbers)
        BY <1>7, <1>10, <3>5, <4>1, <4>6 DEF Waiting
      <4> QED BY <1>8, <3>4, <3>5, <4>4, <4>7
    <3>6. CASE o # k
      <4>1. IsPrefix(handled'[o], queued'[o]) /\ Waiting(o)' = numbers
        BY <1>7, <1>10, <3>1, <3>2, <3>6 DEF Waiting
      <4>2. CASE Route(o) = w
        <5>1. NumbersOf(o, numbers, Tail(events))
          BY <1>5, <3>1, <3>2, <3>3, <3>4, <3>6, <4>2, NumbersTailOther
        <5> QED BY <3>4, <4>1, <4>2, <5>1
      <4>3. CASE Route(o) # w
        BY <2>4, <2>5, <3>1, <3>2, <4>1, <4>3
      <4> QED BY <4>2, <4>3
    <3> QED BY <3>5, <3>6
  <2> QED BY <2>5, HandledInOrderIntro
<1> QED BY <1>11, <1>12, <1>13, <1>14 DEF PoolInv

\* Panics, exits of workers and Close move no event.
LEMMA OtherInv ==
  ASSUME PoolInv,
         \/ \E s \in Senders : SendPanics(s)
         \/ \E w \in Workers : Exit(w)
         \/ CloseBegin
         \/ CloseQueue
         \/ UNCHANGED vars
  PROVE  PoolInv'
<1>1. PoolTypeOK
  BY DEF PoolInv
<1>2. UNCHANGED <<sender, applied, queues, current, queued, handled>>
  BY DEF SendPanics, Exit, CloseBegin, CloseQueue, vars
<1>3. HandledInOrder' /\ OwnEvents' /\ NothingUnrouted'
  BY <1>2, NothingMoves DEF PoolInv
<1>4. exited' \subseteq Workers /\ closing' \in -1..NumWorkers /\ closing' >= closing
  <2>1. closing \in -1..NumWorkers /\ exited \subseteq Workers /\ NumWorkers \in Nat \ {0}
    BY <1>1, PoolAssumption DEF PoolTypeOK
  <2>2. CASE CloseBegin
    BY <2>1, <2>2 DEF CloseBegin
  <2>3. CASE CloseQueue
    BY <2>1, <2>3 DEF CloseQueue, Workers
  <2>4. CASE closing' = closing
    <3>1. exited' \subseteq Workers
      BY <2>1 DEF SendPanics, Exit, CloseBegin, CloseQueue, vars
    <3> QED BY <2>1, <2>4, <3>1
  <2> QED BY <2>2, <2>3, <2>4 DEF SendPanics, Exit, vars
<1>5. abrupt' \in BOOLEAN /\ panicked' \in BOOLEAN
  BY <1>1 DEF PoolTypeOK, SendPanics, Exit, CloseBegin, CloseQueue, vars
<1>6. PoolTypeOK'
  BY <1>1, <1>2, <1>4, <1>5 DEF PoolTypeOK
<1>7. LeftEmpty'
  <2>1. SUFFICES ASSUME NEW w \in exited'
                 PROVE  w < closing' /\ queues'[w] = <<>> /\ current'[w] = None
    BY DEF LeftEmpty, Closed
  <2>2. w < closing /\ queues[w] = <<>> /\ current[w] = None
    BY <2>1 DEF PoolInv, LeftEmpty, Closed, SendPanics, Exit, CloseBegin, CloseQueue, vars
  <2>3. w \in Int /\ closing \in Int /\ closing' \in Int
    BY <1>1, <1>4, <2>1, PoolAssumption DEF PoolTypeOK, Workers
  <2> QED BY <1>2, <1>4, <2>2, <2>3
<1>8. NoSenderLeft'
  <2>1. NoSenderLeft /\ closing \in -1..NumWorkers /\ NumWorkers \in Nat \ {0}
    BY <1>1, PoolAssumption DEF PoolInv, PoolTypeOK
  <2>2. CASE CloseBegin
    BY <1>2, <2>2 DEF CloseBegin, NoSenderLeft
  <2>3. CASE CloseQueue
    <3>1. closing # -1 /\ abrupt' = abrupt
      BY <2>1, <2>3 DEF CloseQueue, Workers
    <3> QED BY <1>2, <2>1, <3>1 DEF NoSenderLeft
  <2>4. CASE closing' = closing /\ abrupt' = abrupt
    BY <1>2, <2>1, <2>4 DEF NoSenderLeft
  <2> QED BY <2>2, <2>3, <2>4 DEF SendPanics, Exit, vars
<1> QED BY <1>3, <1>6, <1>7, <1>8 DEF PoolInv

\* Every step preserves the invariant.
LEMMA PoolStep ==
  ASSUME PoolInv, [Next]_vars
  PROVE  PoolInv'
BY ApplyInv, SendInv, ReceiveInv, HandledInv, OtherInv DEF Next, Terminated

\* PoolInv holds in every reachable state.
THEOREM PoolInvariant == Spec => []PoolInv
BY PoolInit, PoolStep, PTL DEF Spec

-----------------------------------------------------------------------------
(***************************************************************************)
(* Theorems.                                                               *)
(***************************************************************************)
\* Senders, channels and workers stay well typed: no channel ever holds more
\* than its depth.
THEOREM PoolTypes == Spec => []PoolTypeOK
<1>1. PoolInv => PoolTypeOK
  BY DEF PoolInv
<1> QED BY <1>1, PoolInvariant, PTL

\* The events of one subscription are handled once each and in the order in
\* which they were queued, whatever the number of workers, the hashes and the
\* depth of the channels.
THEOREM PoolKeepsOrder == Spec => []HandledInOrder
<1>1. PoolInv => HandledInOrder
  BY DEF PoolInv
<1> QED BY <1>1, PoolInvariant, PTL

\* When close has returned every event that was ever queued has been handled.
THEOREM CloseDrains == Spec => []DrainedByClose
<1>1. ASSUME PoolInv, CloseReturned, NEW k \in Keys
      PROVE  handled[k] = queued[k]
  <2>1. PoolTypeOK /\ handled[k] \in Seq(Number) /\ queued[k] \in Seq(Number)
    BY <1>1 DEF PoolInv, PoolTypeOK, Number
  <2>2. CASE Route(k) \in Workers
    <3>1. IsPrefix(handled[k], queued[k]) /\ NumbersOf(k, Waiting(k), Held(Route(k)))
      BY <1>1, <2>2 DEF PoolInv, HandledInOrder
    <3>2. Held(Route(k)) = <<>>
      BY <1>1, <2>2 DEF PoolInv, LeftEmpty, CloseReturned, Held
    <3>3. PICK numbers \in Seq(Number) : numbers = Waiting(k)
      BY <2>1, HeldType
    <3>4. PICK at \in [1..Len(numbers) -> 1..Len(<<>>)] : TRUE
      BY <3>1, <3>2, <3>3 DEF NumbersOf
    <3>5. \A i \in 1..Len(numbers) : at[i] \in 1..0
      BY <3>4
    <3>6. Len(numbers) = 0
      BY <3>5
    <3>7. Waiting(k) = <<>>
      BY <3>3, <3>6
    <3> QED BY <2>1, <3>1, <3>7, AllHandled DEF Waiting
  <2>3. CASE Route(k) \notin Workers
    BY <1>1, <2>3 DEF PoolInv, NothingUnrouted
  <2> QED BY <2>2, <2>3
<1>2. PoolInv => DrainedByClose
  BY <1>1 DEF DrainedByClose
<1> QED BY <1>2, PoolInvariant, PTL

\* Where int is wide enough for the hash (64 bits for 32), so that its value is
\* never negative, every key has a worker.
LEMMA RouteInRange ==
  ASSUME NEW k \in Keys, ToInt(Hash[k]) \in Nat
  PROVE  Route(k) \in Workers
BY PoolAssumption DEF Route, Rem, Workers

\* Where int is wide enough for the hash, a send panics only if webhooks were
\* still served when Close was called.
THEOREM PoolNeverPanics ==
  ASSUME \A k \in Keys : ToInt(Hash[k]) \in Nat
  PROVE  Spec => []NeverPanics
<1>1. ASSUME PoolInv, NeverPanics, [Next]_vars PROVE NeverPanics'
  <2>1. ASSUME NEW s \in Senders, SendPanics(s) PROVE abrupt
    <3>1. sender[s] \in Events /\ PoolTypeOK
      BY <1>1, <2>1 DEF SendPanics, PoolInv, PoolTypeOK
    <3>2. sender[s].key \in Keys
      BY <3>1 DEF Events
    <3>3. Route(sender[s].key) \in Workers
      BY <3>2, RouteInRange
    <3>4. closing # -1
      BY <2>1, <3>3, PoolAssumption DEF SendPanics, Closed, Workers
    <3> QED BY <1>1, <2>1, <3>4 DEF PoolInv, NoSenderLeft, SendPanics
  <2>2. ASSUME panicked PROVE UNCHANGED <<panicked, abrupt>>
    BY <1>1, <2>2 DEF Next, Apply, Send, SendPanics, Receive, Handled, Exit, CloseBegin,
       CloseQueue, Terminated, vars
  <2>3. ASSUME ~panicked, panicked' PROVE \E s \in Senders : SendPanics(s)
    BY <1>1, <2>3 DEF Next, Apply, Send, Receive, Handled, Exit, CloseBegin, CloseQueue,
       Terminated, vars
  <2>4. \A s \in Senders : SendPanics(s) => abrupt' = abrupt
    BY DEF SendPanics
  <2> QED BY <1>1, <2>1, <2>2, <2>3, <2>4 DEF NeverPanics
<1>2. Init => NeverPanics
  BY DEF Init, NeverPanics
<1> QED BY <1>1, <1>2, PoolInvariant, PTL DEF Spec
=============================================================================
