-------------------------- MODULE RoomLocksProofs --------------------------
(***************************************************************************)
(* NoStandstill for any number of tasks and any of the crate's calls: the  *)
(* locks have an order, and whoever holds one takes only later ones.       *)
(***************************************************************************)
EXTENDS RoomLocks, SequenceTheorems, TLAPS

\* The order.  index is held together with no other lock.
Rank == [rooms |-> 1, members |-> 2, connections |-> 3, state |-> 4, index |-> 5]

Modes == {"read", "write"}
Steps == [lock : Locks, mode : Modes \cup {"drop"}]

Takes(s, i) == s[i].mode # "drop"
\* Lock l is dropped after step i of s and before step k.
DropsBetween(s, i, k, l) == \E j \in 1..Len(s) :
    i < j /\ j < k /\ s[j].lock = l /\ s[j].mode = "drop"

\* Sequences of steps that take a lock only while those they hold come
\* before it, and that drop what they take.
Proper(s) ==
    /\ s \in Seq(Steps)
    /\ \A k, i \in 1..Len(s) : k < i /\ Takes(s, k) /\ Takes(s, i) =>
         \/ Rank[s[k].lock] < Rank[s[i].lock]
         \/ DropsBetween(s, k, i, s[k].lock)
    /\ \A k \in 1..Len(s) : Takes(s, k) => DropsBetween(s, k, Len(s) + 1, s[k].lock)

\* Sequences that take only locks that come after l.
Above(l, s) ==
    \A i \in 1..Len(s) : Takes(s, i) => Rank[l] < Rank[s[i].lock]

-----------------------------------------------------------------------------
(* How proper sequences are put together.                                  *)

\* Ranks are numbers.
LEMMA RankType == \A l \in Locks : Rank[l] \in 1..5
BY DEF Rank, Locks

\* Nothing at all is proper.
LEMMA EmptyProper == Proper(<<>>) /\ \A l \in Locks : Above(l, <<>>)
<1>1. <<>> \in Seq(Steps) /\ Len(<<>>) = 0
  BY EmptySeq
<1>2. 1..Len(<<>>) = {}
  BY <1>1
<1> QED
  BY <1>1, <1>2 DEF Proper, Above

\* One proper sequence after another is proper: the first drops all it takes.
LEMMA ConcatProper ==
    ASSUME NEW s, NEW u, Proper(s), Proper(u)
    PROVE  Proper(s \o u)
<1> DEFINE w == s \o u
<1>1. /\ s \in Seq(Steps) /\ u \in Seq(Steps) /\ w \in Seq(Steps)
      /\ Len(s) \in Nat /\ Len(u) \in Nat /\ Len(w) = Len(s) + Len(u)
      /\ \A i \in 1..Len(s) : w[i] = s[i]
      /\ \A i \in 1..Len(u) : w[Len(s) + i] = u[i]
  <2>1. s \in Seq(Steps) /\ u \in Seq(Steps)
    BY DEF Proper
  <2>2. Len(s) \in Nat /\ Len(u) \in Nat
    BY <2>1, LenProperties
  <2>3. /\ w \in Seq(Steps) /\ Len(w) = Len(s) + Len(u)
        /\ \A i \in 1..Len(s) + Len(u) : w[i] = IF i <= Len(s) THEN s[i] ELSE u[i - Len(s)]
    BY <2>1, ConcatProperties
  <2>4. \A i \in 1..Len(u) : /\ Len(s) + i \in 1..Len(s) + Len(u)
                             /\ ~(Len(s) + i <= Len(s)) /\ Len(s) + i - Len(s) = i
    BY <2>2
  <2> QED
    BY <2>1, <2>2, <2>3, <2>4
<1> HIDE DEF w
<1>2. ASSUME NEW i \in 1..Len(s), NEW k \in 1..Len(s) + 1, NEW l,
             DropsBetween(s, i, k, l)
      PROVE  DropsBetween(w, i, k, l)
  BY <1>1, <1>2 DEF DropsBetween
<1>3. ASSUME NEW i \in 1..Len(u), NEW k \in 1..Len(u) + 1, NEW l,
             DropsBetween(u, i, k, l)
      PROVE  DropsBetween(w, Len(s) + i, Len(s) + k, l)
  <2>1. PICK j \in 1..Len(u) : i < j /\ j < k /\ u[j].lock = l /\ u[j].mode = "drop"
    BY <1>3 DEF DropsBetween
  <2>2. Len(s) + j \in 1..Len(w) /\ w[Len(s) + j] = u[j]
        /\ Len(s) + i < Len(s) + j /\ Len(s) + j < Len(s) + k
    BY <1>1, <2>1
  <2> QED
    BY <2>1, <2>2 DEF DropsBetween
<1>4. ASSUME NEW k \in 1..Len(w), Takes(w, k)
      PROVE  \/ k \in 1..Len(s) /\ Takes(s, k) /\ w[k] = s[k]
             \/ \E i \in 1..Len(u) : k = Len(s) + i /\ Takes(u, i) /\ w[k] = u[i]
  <2>1. CASE k <= Len(s)
    BY <1>1, <1>4, <2>1 DEF Takes
  <2>2. CASE k > Len(s)
    <3>1. k - Len(s) \in 1..Len(u) /\ k = Len(s) + (k - Len(s))
      BY <1>1, <2>2
    <3> QED
      BY <1>1, <1>4, <3>1 DEF Takes
  <2> QED
    BY <1>1, <2>1, <2>2
<1>5. ASSUME NEW k \in 1..Len(w), Takes(w, k)
      PROVE  DropsBetween(w, k, Len(w) + 1, w[k].lock)
  <2>1. CASE k \in 1..Len(s) /\ Takes(s, k) /\ w[k] = s[k]
    <3>1. DropsBetween(s, k, Len(s) + 1, s[k].lock)
      BY <2>1 DEF Proper
    <3> QED
      BY <1>1, <2>1, <3>1 DEF DropsBetween
  <2>2. ASSUME NEW i \in 1..Len(u), k = Len(s) + i, Takes(u, i), w[k] = u[i]
        PROVE  DropsBetween(w, k, Len(w) + 1, w[k].lock)
    <3>1. DropsBetween(u, i, Len(u) + 1, u[i].lock)
      BY <2>2 DEF Proper
    <3>2. Len(u) + 1 \in 1..Len(u) + 1 /\ Len(s) + (Len(u) + 1) = Len(w) + 1
      BY <1>1
    <3>3. DropsBetween(w, Len(s) + i, Len(s) + (Len(u) + 1), u[i].lock)
      BY <1>3, <3>1, <3>2
    <3> QED
      BY <2>2, <3>2, <3>3
  <2> QED
    BY <1>4, <1>5, <2>1, <2>2
<1>6. ASSUME NEW k \in 1..Len(w), NEW i \in 1..Len(w), k < i, Takes(w, k), Takes(w, i)
      PROVE  \/ Rank[w[k].lock] < Rank[w[i].lock]
             \/ DropsBetween(w, k, i, w[k].lock)
  <2>1. CASE k <= Len(s) /\ i <= Len(s)
    <3>1. k \in 1..Len(s) /\ i \in 1..Len(s) /\ i \in 1..Len(s) + 1
          /\ w[k] = s[k] /\ w[i] = s[i]
      BY <1>1, <2>1
    <3>2. \/ Rank[s[k].lock] < Rank[s[i].lock] \/ DropsBetween(s, k, i, s[k].lock)
      BY <1>6, <3>1 DEF Proper, Takes
    <3> QED
      BY <1>2, <3>1, <3>2
  <2>2. CASE k <= Len(s) /\ i > Len(s)
    <3>1. k \in 1..Len(s) /\ w[k] = s[k]
      BY <1>1, <2>2
    <3>2. DropsBetween(s, k, Len(s) + 1, s[k].lock)
      BY <1>6, <3>1 DEF Proper, Takes
    <3>3. PICK j \in 1..Len(s) : k < j /\ s[j].lock = s[k].lock /\ s[j].mode = "drop"
      BY <3>2 DEF DropsBetween
    <3>4. j \in 1..Len(w) /\ j < i /\ w[j] = s[j]
      BY <1>1, <2>2, <3>3
    <3> QED
      BY <3>1, <3>3, <3>4 DEF DropsBetween
  <2>3. CASE k > Len(s)
    <3> DEFINE a == k - Len(s)
               b == i - Len(s)
    <3>1. a \in 1..Len(u) /\ b \in 1..Len(u) /\ b \in 1..Len(u) + 1 /\ a < b
          /\ k = Len(s) + a /\ i = Len(s) + b
      BY <1>1, <1>6, <2>3
    <3> HIDE DEF a, b
    <3>2. w[k] = u[a] /\ w[i] = u[b]
      BY <1>1, <3>1
    <3>3. \/ Rank[u[a].lock] < Rank[u[b].lock] \/ DropsBetween(u, a, b, u[a].lock)
      BY <1>6, <3>1, <3>2 DEF Proper, Takes
    <3> QED
      BY <1>3, <3>1, <3>2, <3>3
  <2> QED
    BY <1>1, <2>1, <2>2, <2>3
<1> QED
  BY <1>1, <1>5, <1>6 DEF Proper, w

\* A sequence put together takes what its parts take.
LEMMA ConcatAbove ==
    ASSUME NEW s \in Seq(Steps), NEW u \in Seq(Steps), NEW l \in Locks,
           Above(l, s), Above(l, u)
    PROVE  Above(l, s \o u)
<1>1. /\ Len(s) \in Nat /\ Len(u) \in Nat /\ Len(s \o u) = Len(s) + Len(u)
      /\ \A i \in 1..Len(s) + Len(u) :
           (s \o u)[i] = IF i <= Len(s) THEN s[i] ELSE u[i - Len(s)]
  BY LenProperties, ConcatProperties
<1>2. ASSUME NEW i \in 1..Len(s) + Len(u), Takes(s \o u, i)
      PROVE  Rank[l] < Rank[(s \o u)[i].lock]
  <2>1. CASE i <= Len(s)
    <3>1. i \in 1..Len(s) /\ (s \o u)[i] = s[i]
      BY <1>1, <2>1
    <3> QED
      BY <1>2, <3>1 DEF Above, Takes
  <2>2. CASE ~(i <= Len(s))
    <3>1. i - Len(s) \in 1..Len(u) /\ (s \o u)[i] = u[i - Len(s)]
      BY <1>1, <2>2
    <3> QED
      BY <1>2, <3>1 DEF Above, Takes
  <2> QED
    BY <2>1, <2>2
<1> QED
  BY <1>1, <1>2 DEF Above

\* What In(lock, mode, body) is, step by step.
LEMMA InSteps ==
    ASSUME NEW l \in Locks, NEW m \in Modes, NEW body \in Seq(Steps)
    PROVE  LET w == In(l, m, body) IN
           /\ w \in Seq(Steps) /\ Len(body) \in Nat /\ Len(w) = Len(body) + 2
           /\ w[1] = [lock |-> l, mode |-> m]
           /\ \A i \in 1..Len(body) : w[i + 1] = body[i]
           /\ w[Len(body) + 2] = [lock |-> l, mode |-> "drop"]
<1> DEFINE x == [lock |-> l, mode |-> m]
           d == [lock |-> l, mode |-> "drop"]
<1>1. x \in Steps /\ d \in Steps
  BY DEF Steps, Modes
<1> HIDE DEF x, d
<1>2. /\ <<x>> \in Seq(Steps) /\ <<d>> \in Seq(Steps) /\ Len(body) \in Nat
      /\ Len(<<x>>) = 1 /\ Len(<<d>>) = 1 /\ <<x>>[1] = x /\ <<d>>[1] = d
  BY <1>1, LenProperties
<1>3. /\ <<x>> \o body \in Seq(Steps) /\ Len(<<x>> \o body) = 1 + Len(body)
      /\ \A i \in 1..1 + Len(body) :
           (<<x>> \o body)[i] = IF i <= 1 THEN <<x>>[i] ELSE body[i - 1]
  BY <1>2, ConcatProperties
<1> DEFINE y == <<x>> \o body
           w == y \o <<d>>
<1>4. y \in Seq(Steps) /\ Len(y) = 1 + Len(body) /\ y[1] = x
      /\ \A i \in 1..Len(body) : y[i + 1] = body[i]
  <2>1. 1 \in 1..1 + Len(body)
    BY <1>2
  <2>2. \A i \in 1..Len(body) :
          i + 1 \in 1..1 + Len(body) /\ ~(i + 1 <= 1) /\ i + 1 - 1 = i
    BY <1>2
  <2> QED
    BY <1>2, <1>3, <2>1, <2>2
<1> HIDE DEF y
<1>5. /\ w \in Seq(Steps) /\ Len(w) = Len(y) + 1
      /\ \A i \in 1..Len(y) + 1 : w[i] = IF i <= Len(y) THEN y[i] ELSE <<d>>[i - Len(y)]
  BY <1>2, <1>4, ConcatProperties
<1>6. w[1] = x
  <2>1. 1 \in 1..Len(y) + 1 /\ 1 <= Len(y)
    BY <1>2, <1>4
  <2> QED
    BY <1>4, <1>5, <2>1
<1>7. ASSUME NEW i \in 1..Len(body)
      PROVE  w[i + 1] = body[i]
  <2>1. i + 1 \in 1..Len(y) + 1 /\ i + 1 <= Len(y)
    BY <1>2, <1>4
  <2> QED
    BY <1>4, <1>5, <2>1
<1>8. w[Len(body) + 2] = d
  <2>1. /\ Len(body) + 2 \in 1..Len(y) + 1 /\ ~(Len(body) + 2 <= Len(y))
        /\ Len(body) + 2 - Len(y) = 1
    BY <1>2, <1>4
  <2> QED
    BY <1>2, <1>5, <2>1
<1>9. Len(w) = Len(body) + 2
  BY <1>2, <1>4, <1>5
<1>10. In(l, m, body) = w
  BY DEF In, x, d, y
<1> HIDE DEF w
<1> QED
  BY <1>2, <1>5, <1>6, <1>7, <1>8, <1>9, <1>10 DEF x, d

\* A lock held over a body that takes only later ones.
LEMMA InProper ==
    ASSUME NEW l \in Locks, NEW m \in Modes, NEW body, Proper(body), Above(l, body)
    PROVE  Proper(In(l, m, body))
<1> DEFINE w == In(l, m, body)
           n == Len(body)
<1>1. /\ body \in Seq(Steps) /\ w \in Seq(Steps) /\ n \in Nat /\ Len(w) = n + 2
      /\ w[1] = [lock |-> l, mode |-> m]
      /\ \A i \in 1..n : w[i + 1] = body[i]
      /\ w[n + 2] = [lock |-> l, mode |-> "drop"]
  <2>1. body \in Seq(Steps)
    BY DEF Proper
  <2> QED
    BY <2>1, InSteps
<1> HIDE DEF w
<1>2. ASSUME NEW i \in 1..n, NEW k \in Int, NEW h, DropsBetween(body, i, k, h)
      PROVE  DropsBetween(w, i + 1, k + 1, h)
  <2>1. PICK j \in 1..n : i < j /\ j < k /\ body[j].lock = h /\ body[j].mode = "drop"
    BY <1>2 DEF DropsBetween
  <2>2. j + 1 \in 1..n + 2 /\ i + 1 < j + 1 /\ j + 1 < k + 1 /\ w[j + 1] = body[j]
    BY <1>1, <2>1
  <2> QED
    BY <1>1, <2>1, <2>2 DEF DropsBetween
<1>3. ASSUME NEW k \in 1..n + 2, Takes(w, k)
      PROVE  k = 1 \/ \E i \in 1..n : k = i + 1 /\ w[k] = body[i] /\ Takes(body, i)
  <2>1. k # n + 2
    BY <1>1, <1>3 DEF Takes
  <2>2. CASE k # 1
    <3>1. k - 1 \in 1..n /\ k = (k - 1) + 1
      BY <1>1, <2>1, <2>2
    <3>2. w[k] = body[k - 1]
      BY <1>1, <3>1
    <3> QED
      BY <1>3, <3>1, <3>2 DEF Takes
  <2> QED
    BY <2>2
<1>4. ASSUME NEW k \in 1..n + 2, Takes(w, k)
      PROVE  DropsBetween(w, k, n + 3, w[k].lock)
  <2>1. CASE k = 1
    <3>1. n + 2 \in 1..n + 2 /\ 1 < n + 2 /\ n + 2 < n + 3
      BY <1>1
    <3> QED
      BY <1>1, <2>1, <3>1 DEF DropsBetween
  <2>2. ASSUME NEW i \in 1..n, k = i + 1, w[k] = body[i], Takes(body, i)
        PROVE  DropsBetween(w, k, n + 3, w[k].lock)
    <3>1. DropsBetween(body, i, n + 1, body[i].lock)
      BY <2>2 DEF Proper
    <3>2. n + 1 \in Int /\ n + 1 + 1 = n + 2
      BY <1>1
    <3>3. DropsBetween(w, i + 1, n + 2, body[i].lock)
      BY <1>2, <3>1, <3>2
    <3> QED
      BY <1>1, <2>2, <3>3 DEF DropsBetween
  <2> QED
    BY <1>3, <1>4, <2>1, <2>2
<1>5. ASSUME NEW k \in 1..n + 2, NEW i \in 1..n + 2, k < i, Takes(w, k), Takes(w, i)
      PROVE  \/ Rank[w[k].lock] < Rank[w[i].lock]
             \/ DropsBetween(w, k, i, w[k].lock)
  <2>1. i # 1
    BY <1>5
  <2>2. PICK b \in 1..n : i = b + 1 /\ w[i] = body[b] /\ Takes(body, b)
    BY <1>3, <1>5, <2>1
  <2>3. CASE k = 1
    BY <1>1, <2>2, <2>3 DEF Above
  <2>4. CASE k # 1
    <3>1. PICK a \in 1..n : k = a + 1 /\ w[k] = body[a] /\ Takes(body, a)
      BY <1>3, <1>5, <2>4
    <3>2. a < b
      BY <1>5, <2>2, <3>1
    <3>3. \/ Rank[body[a].lock] < Rank[body[b].lock]
          \/ DropsBetween(body, a, b, body[a].lock)
      BY <2>2, <3>1, <3>2 DEF Proper
    <3> QED
      BY <1>2, <2>2, <3>1, <3>3
  <2> QED
    BY <2>3, <2>4
<1>6. n + 3 = (n + 2) + 1
  BY <1>1
<1>7. Proper(w)
  BY <1>1, <1>4, <1>5, <1>6 DEF Proper
<1> QED
  BY <1>7 DEF w

\* It takes that lock first.
LEMMA InAbove ==
    ASSUME NEW l \in Locks, NEW m \in Modes, NEW body \in Seq(Steps),
           NEW h \in Locks, Rank[h] < Rank[l], Above(h, body)
    PROVE  Above(h, In(l, m, body))
<1> DEFINE w == In(l, m, body)
           n == Len(body)
<1>1. /\ n \in Nat /\ Len(w) = n + 2 /\ w[1] = [lock |-> l, mode |-> m]
      /\ \A i \in 1..n : w[i + 1] = body[i]
      /\ w[n + 2] = [lock |-> l, mode |-> "drop"]
  BY InSteps
<1> HIDE DEF w
<1>2. ASSUME NEW i \in 1..n + 2, Takes(w, i)
      PROVE  Rank[h] < Rank[w[i].lock]
  <2>1. CASE i = 1
    BY <1>1, <2>1
  <2>2. CASE i = n + 2
    BY <1>1, <1>2, <2>2 DEF Takes
  <2>3. CASE i # 1 /\ i # n + 2
    <3>1. i - 1 \in 1..n /\ i = (i - 1) + 1
      BY <1>1, <2>3
    <3>2. w[i] = body[i - 1]
      BY <1>1, <3>1
    <3> QED
      BY <1>2, <3>1, <3>2 DEF Above, Takes
  <2> QED
    BY <2>1, <2>2, <2>3
<1>3. Above(h, w)
  BY <1>1, <1>2 DEF Above
<1> QED
  BY <1>3 DEF w

-----------------------------------------------------------------------------
(* The crate's calls are proper.                                           *)

\* One lock by itself.
LEMMA AloneProper ==
    ASSUME NEW l \in Locks
    PROVE  /\ Proper(Read(l)) /\ Proper(Write(l))
           /\ \A h \in Locks : Rank[h] < Rank[l] => Above(h, Read(l)) /\ Above(h, Write(l))
<1>1. Proper(<<>>) /\ <<>> \in Seq(Steps) /\ \A h \in Locks : Above(h, <<>>)
  BY EmptyProper, EmptySeq
<1>2. "read" \in Modes /\ "write" \in Modes
  BY DEF Modes
<1>3. Proper(Read(l)) /\ Proper(Write(l))
  BY <1>1, <1>2, InProper DEF Read, Write
<1>4. ASSUME NEW h \in Locks, Rank[h] < Rank[l]
      PROVE  Above(h, Read(l)) /\ Above(h, Write(l))
  BY <1>1, <1>2, <1>4, InAbove DEF Read, Write
<1> QED
  BY <1>3, <1>4

\* Two locks, one under the other.
LEMMA NestedProper ==
    ASSUME NEW l \in Locks, NEW m \in Modes, NEW h \in Locks, Rank[l] < Rank[h]
    PROVE  Proper(In(l, m, Read(h))) /\ Proper(In(l, m, Write(h)))
BY AloneProper, InProper

\* send takes the locks of the state only, one after the other.
LEMMA SendProper ==
    /\ Proper(Send)
    /\ \A h \in {"rooms", "members", "connections"} : Above(h, Send)
<1>1. "state" \in Locks /\ {"rooms", "members", "connections"} \subseteq Locks
      /\ \A h \in {"rooms", "members", "connections"} : Rank[h] < Rank["state"]
  BY DEF Locks, Rank
<1>2. Proper(Read("state")) /\ Proper(Write("state"))
  BY <1>1, AloneProper
<1>3. Read("state") \in Seq(Steps) /\ Write("state") \in Seq(Steps)
  BY <1>2 DEF Proper
<1>4. \A h \in {"rooms", "members", "connections"} :
        Above(h, Read("state")) /\ Above(h, Write("state"))
  BY <1>1, AloneProper
<1>5. Proper(Send)
  BY <1>2, ConcatProper DEF Send
<1>6. \A h \in {"rooms", "members", "connections"} : Above(h, Send)
  BY <1>1, <1>3, <1>4, ConcatAbove DEF Send
<1> QED
  BY <1>5, <1>6

\* All calls but visit, which runs a callback of the application's.
LEMMA ScriptProper ==
    ASSUME NEW c \in DOMAIN Script \ {"visit"}
    PROVE  Proper(Script[c])
<1>0. /\ {"rooms", "members", "index", "connections", "state"} \subseteq Locks
      /\ "read" \in Modes /\ "write" \in Modes
      /\ Rank["rooms"] < Rank["members"] /\ Rank["rooms"] < Rank["connections"]
      /\ Rank["members"] < Rank["connections"]
  BY DEF Locks, Modes, Rank
<1>1. \A l \in Locks : Proper(Read(l)) /\ Proper(Write(l))
  BY AloneProper
<1>2. Proper(Leave) /\ Proper(Prune)
  BY <1>0, NestedProper DEF Leave, Prune
<1>3. Proper(Script.register)
  <2>1. Script.register = Write("connections") \o Write("index")
    BY DEF Script
  <2> QED
    BY <1>0, <1>1, <2>1, ConcatProper
<1>4. Proper(Script.unregister)
  <2>1. Script.unregister = Write("index") \o Leave \o Prune \o Write("connections")
    BY DEF Script
  <2>2. Proper(Write("index") \o Leave)
    BY <1>0, <1>1, <1>2, ConcatProper
  <2>3. Proper(Write("index") \o Leave \o Prune)
    BY <1>2, <2>2, ConcatProper
  <2> QED
    BY <1>0, <1>1, <2>1, <2>3, ConcatProper
<1>5. Proper(Script.join)
  <2>1. Script.join = Read("connections") \o Write("rooms") \o Write("members")
                      \o Write("index")
    BY DEF Script
  <2>2. Proper(Read("connections") \o Write("rooms"))
    BY <1>0, <1>1, ConcatProper
  <2>3. Proper(Read("connections") \o Write("rooms") \o Write("members"))
    BY <1>0, <1>1, <2>2, ConcatProper
  <2> QED
    BY <1>0, <1>1, <2>1, <2>3, ConcatProper
<1>6. Proper(Script.leave)
  <2>1. Script.leave = Leave \o Write("index") \o Prune
    BY DEF Script, LeaveRoom
  <2>2. Proper(Leave \o Write("index"))
    BY <1>0, <1>1, <1>2, ConcatProper
  <2> QED
    BY <1>2, <2>1, <2>2, ConcatProper
<1>7. Proper(Script.delete)
  <2>1. Script.delete = Write("rooms") \o Read("members") \o Write("index")
    BY DEF Script
  <2>2. Proper(Write("rooms") \o Read("members"))
    BY <1>0, <1>1, ConcatProper
  <2> QED
    BY <1>0, <1>1, <2>1, <2>2, ConcatProper
<1> DEFINE all == In("connections", "read", Send)
           some == In("members", "read", all)
<1>8. Proper(all) /\ all \in Seq(Steps) /\ Above("members", all) /\ Above("rooms", all)
  <2>1. Proper(all)
    BY <1>0, SendProper, InProper
  <2>2. Send \in Seq(Steps) /\ Above("members", Send) /\ Above("rooms", Send)
    BY SendProper DEF Proper
  <2> QED
    BY <1>0, <2>1, <2>2, InAbove DEF Proper
<1>9. Proper(Script.all)
  BY <1>8 DEF Script
<1> HIDE DEF all
<1>10. Proper(some) /\ Above("rooms", some)
  BY <1>0, <1>8, InProper, InAbove
<1> HIDE DEF some
<1>11. Proper(Script.broadcast)
  <2>1. Script.broadcast = In("rooms", "read", some)
    BY DEF Script, some, all
  <2> QED
    BY <1>0, <1>10, <2>1, InProper
<1>12. Proper(Script.send)
  <2>1. Script.send = Read("connections") \o Send
    BY DEF Script
  <2> QED
    BY <1>0, <1>1, <2>1, SendProper, ConcatProper
<1>13. c \in {"register", "unregister", "join", "leave", "delete", "broadcast", "all", "send"}
  BY DEF Script
<1> QED
  BY <1>3, <1>4, <1>5, <1>6, <1>7, <1>9, <1>11, <1>12, <1>13

-----------------------------------------------------------------------------
(* The order is kept.                                                      *)

\* What a task still has to do is proper, drops all it holds, and takes
\* nothing that comes before a lock it holds then.
Orderly(s, locks) ==
    /\ Proper(s)
    /\ locks \subseteq [lock : Locks, mode : Modes]
    /\ \A h \in locks : DropsBetween(s, 0, Len(s) + 1, h.lock)
    /\ \A h \in locks : \A i \in 1..Len(s) : Takes(s, i) =>
         Rank[h.lock] < Rank[s[i].lock] \/ DropsBetween(s, 0, i, h.lock)

OrderInv ==
    /\ call \in [Tasks -> Seq(Steps)]
    /\ held \in [Tasks -> SUBSET [lock : Locks, mode : Modes]]
    /\ \A t \in Tasks : Orderly(call[t], held[t])

\* Tail, step by step.
LEMMA TailSteps ==
    ASSUME NEW s \in Seq(Steps), s # <<>>
    PROVE  /\ Tail(s) \in Seq(Steps) /\ Len(s) \in Nat \ {0} /\ Len(Tail(s)) = Len(s) - 1
           /\ Head(s) = s[1] /\ s[1] \in Steps
           /\ \A i \in 1..Len(s) - 1 : Tail(s)[i] = s[i + 1]
<1>1. Len(s) \in Nat \ {0}
  BY EmptySeq
<1>2. 1 \in 1..Len(s)
  BY <1>1
<1> QED
  BY <1>1, <1>2, HeadTailProperties, ElementOfSeq

\* What is dropped after the first step is dropped in the tail, one earlier.
LEMMA TailDrops ==
    ASSUME NEW s \in Seq(Steps), s # <<>>, NEW i \in Nat, NEW k \in Nat, NEW l,
           DropsBetween(s, i + 1, k + 1, l) \/ (i = 0 /\ DropsBetween(s, 0, k + 1, l)),
           i = 0 => s[1].lock # l \/ s[1].mode # "drop"
    PROVE  DropsBetween(Tail(s), i, k, l)
<1>1. PICK j \in 1..Len(s) : i < j /\ j < k + 1 /\ s[j].lock = l /\ s[j].mode = "drop"
                             /\ (i + 1 < j \/ i = 0)
  BY DEF DropsBetween
<1>2. Len(s) \in Nat \ {0}
  BY TailSteps
<1>3. j # 1
  BY <1>1, <1>2
<1>4. j - 1 \in 1..Len(s) - 1 /\ i < j - 1 /\ j - 1 < k /\ (j - 1) + 1 = j
  BY <1>1, <1>2, <1>3
<1>5. Tail(s)[j - 1] = s[j] /\ Len(Tail(s)) = Len(s) - 1
  BY <1>4, TailSteps
<1> QED
  BY <1>1, <1>4, <1>5 DEF DropsBetween

\* What is left of a proper sequence is proper.
LEMMA TailProper ==
    ASSUME NEW s, Proper(s), s # <<>>
    PROVE  Proper(Tail(s))
<1> DEFINE w == Tail(s)
           n == Len(s) - 1
<1>1. /\ s \in Seq(Steps) /\ w \in Seq(Steps) /\ Len(s) \in Nat \ {0} /\ n \in Nat
      /\ Len(w) = n /\ Len(s) = n + 1
      /\ \A i \in 1..n : w[i] = s[i + 1]
  BY TailSteps DEF Proper
<1> HIDE DEF w
<1>2. \A i \in 1..n : i \in Nat /\ i # 0 /\ i + 1 \in 1..Len(s)
                      /\ (Takes(w, i) <=> Takes(s, i + 1))
  BY <1>1 DEF Takes
<1>3. ASSUME NEW i \in 1..n, NEW k \in Nat, NEW l, DropsBetween(s, i + 1, k + 1, l)
      PROVE  DropsBetween(w, i, k, l)
  BY <1>1, <1>2, <1>3, TailDrops DEF w
<1>4. ASSUME NEW k \in 1..n, NEW i \in 1..n, k < i, Takes(w, k), Takes(w, i)
      PROVE  Rank[w[k].lock] < Rank[w[i].lock] \/ DropsBetween(w, k, i, w[k].lock)
  <2>1. k + 1 < i + 1 /\ w[k] = s[k + 1] /\ w[i] = s[i + 1]
    BY <1>1, <1>4
  <2>2. \/ Rank[s[k + 1].lock] < Rank[s[i + 1].lock]
        \/ DropsBetween(s, k + 1, i + 1, s[k + 1].lock)
    BY <1>2, <1>4, <2>1 DEF Proper
  <2> QED
    BY <1>2, <1>3, <2>1, <2>2
<1>5. ASSUME NEW k \in 1..n, Takes(w, k)
      PROVE  DropsBetween(w, k, n + 1, w[k].lock)
  <2>1. DropsBetween(s, k + 1, Len(s) + 1, s[k + 1].lock) /\ w[k] = s[k + 1]
    BY <1>1, <1>2, <1>5 DEF Proper
  <2>2. n + 1 \in Nat
    BY <1>1
  <2> QED
    BY <1>1, <1>3, <2>1, <2>2
<1>6. Proper(w)
  BY <1>1, <1>4, <1>5 DEF Proper
<1> QED
  BY <1>6 DEF w

\* A lock that is not the one dropped first stays orderly in what is left.
LEMMA TailOrderly ==
    ASSUME NEW s, NEW locks, Orderly(s, locks), s # <<>>, NEW h \in locks,
           s[1].mode # "drop" \/ h.lock # s[1].lock
    PROVE  LET w == Tail(s) IN
           /\ DropsBetween(w, 0, Len(w) + 1, h.lock)
           /\ \A i \in 1..Len(w) : Takes(w, i) =>
                Rank[h.lock] < Rank[w[i].lock] \/ DropsBetween(w, 0, i, h.lock)
<1> DEFINE w == Tail(s)
           n == Len(s) - 1
<1>1. /\ s \in Seq(Steps) /\ w \in Seq(Steps) /\ n \in Nat
      /\ Len(w) = n /\ Len(s) = n + 1
      /\ \A i \in 1..n : w[i] = s[i + 1] /\ i \in Nat /\ i + 1 \in 1..Len(s)
  BY TailSteps DEF Orderly, Proper
<1> HIDE DEF w
<1>2. ASSUME NEW k \in Nat, DropsBetween(s, 0, k + 1, h.lock)
      PROVE  DropsBetween(w, 0, k, h.lock)
  BY <1>1, <1>2, TailDrops DEF w
<1>3. DropsBetween(w, 0, n + 1, h.lock)
  <2>1. DropsBetween(s, 0, Len(s) + 1, h.lock) /\ n + 1 \in Nat
    BY <1>1 DEF Orderly
  <2> QED
    BY <1>1, <1>2, <2>1
<1>4. ASSUME NEW i \in 1..n, Takes(w, i)
      PROVE  Rank[h.lock] < Rank[w[i].lock] \/ DropsBetween(w, 0, i, h.lock)
  <2>1. Takes(s, i + 1) /\ w[i] = s[i + 1]
    BY <1>1, <1>4 DEF Takes
  <2>2. Rank[h.lock] < Rank[s[i + 1].lock] \/ DropsBetween(s, 0, i + 1, h.lock)
    BY <1>1, <2>1 DEF Orderly
  <2> QED
    BY <1>1, <1>2, <2>1, <2>2
<1> QED
  BY <1>1, <1>3, <1>4 DEF w

\* Taking the next lock keeps the order: what else the call takes while it
\* holds it comes later.
LEMMA TakeOrderly ==
    ASSUME NEW s, NEW locks, Orderly(s, locks), s # <<>>, s[1].mode # "drop"
    PROVE  Orderly(Tail(s), locks \cup {s[1]})
<1> DEFINE w == Tail(s)
           n == Len(s) - 1
           h == s[1]
<1>1. /\ s \in Seq(Steps) /\ w \in Seq(Steps) /\ n \in Nat
      /\ Len(w) = n /\ Len(s) = n + 1 /\ h \in Steps /\ 1 \in 1..Len(s)
      /\ \A i \in 1..n : w[i] = s[i + 1] /\ i \in Nat /\ i + 1 \in 1..Len(s) /\ 1 < i + 1
  BY TailSteps DEF Orderly, Proper
<1>2. Proper(w)
  BY TailProper DEF Orderly
<1>3. h \in [lock : Locks, mode : Modes]
  BY <1>1 DEF Steps
<1> HIDE DEF w
<1>4. ASSUME NEW k \in Nat, DropsBetween(s, 1, k + 1, h.lock)
      PROVE  DropsBetween(w, 0, k, h.lock)
  <2>1. 0 \in Nat /\ 0 + 1 = 1
    OBVIOUS
  <2>2. DropsBetween(s, 0 + 1, k + 1, h.lock)
    BY <1>4, <2>1
  <2> QED
    BY <1>1, <2>1, <2>2, TailDrops DEF w
<1>5. DropsBetween(w, 0, n + 1, h.lock)
  <2>1. DropsBetween(s, 1, Len(s) + 1, h.lock) /\ n + 1 \in Nat
    BY <1>1 DEF Orderly, Proper, Takes
  <2> QED
    BY <1>1, <1>4, <2>1
<1>6. ASSUME NEW i \in 1..n, Takes(w, i)
      PROVE  Rank[h.lock] < Rank[w[i].lock] \/ DropsBetween(w, 0, i, h.lock)
  <2>1. Takes(s, i + 1) /\ w[i] = s[i + 1] /\ Takes(s, 1)
    BY <1>1, <1>6 DEF Takes
  <2>2. Rank[h.lock] < Rank[s[i + 1].lock] \/ DropsBetween(s, 1, i + 1, h.lock)
    BY <1>1, <2>1 DEF Orderly, Proper
  <2> QED
    BY <1>1, <1>4, <2>1, <2>2
<1>7. \A g \in locks :
        /\ DropsBetween(w, 0, n + 1, g.lock)
        /\ \A i \in 1..n : Takes(w, i) =>
             Rank[g.lock] < Rank[w[i].lock] \/ DropsBetween(w, 0, i, g.lock)
  BY <1>1, TailOrderly DEF w
<1>8. Orderly(w, locks \cup {h})
  BY <1>1, <1>2, <1>3, <1>5, <1>6, <1>7 DEF Orderly
<1> QED
  BY <1>8 DEF w

\* Dropping a lock keeps the order of those still held.
LEMMA DropOrderly ==
    ASSUME NEW s, NEW locks, Orderly(s, locks), s # <<>>, s[1].mode = "drop"
    PROVE  Orderly(Tail(s), {h \in locks : h.lock # s[1].lock})
<1>1. Proper(Tail(s))
  BY TailProper DEF Orderly
<1>2. \A h \in locks : h.lock # s[1].lock =>
        /\ DropsBetween(Tail(s), 0, Len(Tail(s)) + 1, h.lock)
        /\ \A i \in 1..Len(Tail(s)) : Takes(Tail(s), i) =>
             Rank[h.lock] < Rank[Tail(s)[i].lock] \/ DropsBetween(Tail(s), 0, i, h.lock)
  BY TailOrderly
<1> QED
  BY <1>1, <1>2 DEF Orderly

\* Every step keeps the order.
LEMMA OrderStep ==
    ASSUME OrderInv, [Next]_vars
    PROVE  OrderInv'
<1> USE DEF OrderInv
<1>1. ASSUME NEW t \in Tasks, Take(t)
      PROVE  OrderInv'
  <2>1. call[t] \in Seq(Steps) /\ call[t] # <<>> /\ Orderly(call[t], held[t])
    BY <1>1 DEF Take
  <2>2. Head(call[t]) = call[t][1] /\ Tail(call[t]) \in Seq(Steps)
    BY <2>1, TailSteps
  <2>3. /\ call[t][1].mode # "drop"
        /\ call' = [call EXCEPT ![t] = Tail(call[t])]
        /\ held' = [held EXCEPT ![t] = held[t] \cup {call[t][1]}]
    BY <1>1, <2>2 DEF Take
  <2>4. Orderly(Tail(call[t]), held[t] \cup {call[t][1]})
    BY <2>1, <2>3, TakeOrderly
  <2>5. held[t] \cup {call[t][1]} \subseteq [lock : Locks, mode : Modes]
    BY <2>4 DEF Orderly
  <2> QED
    BY <2>2, <2>3, <2>4, <2>5
<1>2. ASSUME NEW t \in Tasks, Drop(t)
      PROVE  OrderInv'
  <2>1. call[t] \in Seq(Steps) /\ call[t] # <<>> /\ Orderly(call[t], held[t])
    BY <1>2 DEF Drop
  <2>2. Head(call[t]) = call[t][1] /\ Tail(call[t]) \in Seq(Steps)
    BY <2>1, TailSteps
  <2> DEFINE rest == {h \in held[t] : h.lock # call[t][1].lock}
  <2>3. /\ call[t][1].mode = "drop"
        /\ call' = [call EXCEPT ![t] = Tail(call[t])]
        /\ held' = [held EXCEPT ![t] = rest]
    BY <1>2, <2>2 DEF Drop
  <2>4. Orderly(Tail(call[t]), rest)
    BY <2>1, <2>3, DropOrderly
  <2>5. rest \subseteq [lock : Locks, mode : Modes]
    BY <2>4 DEF Orderly
  <2> HIDE DEF rest
  <2> QED
    BY <2>2, <2>3, <2>4, <2>5
<1>3. CASE UNCHANGED vars
  BY <1>3 DEF vars
<1> QED
  BY <1>1, <1>2, <1>3 DEF Next

-----------------------------------------------------------------------------

\* The locks somebody waits for have a last one.
LEMMA LastLock ==
    ASSUME NEW W, W \subseteq Locks, W # {}
    PROVE  \E l \in W : \A h \in W : Rank[h] <= Rank[l]
<1> USE DEF Locks, Rank
<1>1. CASE "index" \in W
  BY <1>1
<1>2. CASE "index" \notin W /\ "state" \in W
  BY <1>2
<1>3. CASE "index" \notin W /\ "state" \notin W /\ "connections" \in W
  BY <1>3
<1>4. CASE "index" \notin W /\ "state" \notin W /\ "connections" \notin W /\ "members" \in W
  BY <1>4
<1>5. CASE W = {"rooms"}
  BY <1>5
<1> QED
  BY <1>1, <1>2, <1>3, <1>4, <1>5

\* Of the busy tasks, one that waits for the last lock is not stuck: nobody
\* can hold that lock, as its holder would wait for a later one.
LEMMA OrderSuffices ==
    ASSUME OrderInv
    PROVE  NoStandstill
<1> SUFFICES ASSUME NEW b \in Busy, \A t \in Busy : Stuck(t)
             PROVE  FALSE
  BY DEF NoStandstill
<1> DEFINE W == {l \in Locks : \E t \in Busy, m \in Modes : Waits(t, l, m)}
<1>1. \A t \in Busy : \E l \in W, m \in Modes : Waits(t, l, m)
  BY DEF Stuck, Modes
<1>2. PICK l \in W : \A h \in W : Rank[h] <= Rank[l]
  <2>1. W \subseteq Locks /\ W # {}
    BY <1>1
  <2> HIDE DEF W
  <2> QED
    BY <2>1, LastLock
<1>3. ASSUME NEW u \in Tasks, NEW g \in held[u], g.lock = l
      PROVE  FALSE
  <2>1. Orderly(call[u], held[u]) /\ call[u] \in Seq(Steps)
    BY DEF OrderInv
  <2>2. PICK j \in 1..Len(call[u]) : TRUE
    BY <2>1 DEF Orderly, DropsBetween
  <2>3. call[u] # <<>>
    <3>1. Len(<<>>) = 0 /\ 1..0 = {}
      BY EmptySeq
    <3> QED
      BY <2>2, <3>1
  <2>4. PICK h \in W, m \in Modes : Waits(u, h, m)
    BY <1>1, <2>3 DEF Busy
  <2>5. call[u][1] = [lock |-> h, mode |-> m] /\ Len(call[u]) \in Nat \ {0}
    BY <2>1, <2>3, <2>4, TailSteps DEF Waits
  <2>6. Takes(call[u], 1) /\ 1 \in 1..Len(call[u]) /\ ~DropsBetween(call[u], 0, 1, l)
    BY <2>5 DEF Takes, Modes, DropsBetween
  <2>7. Rank[l] < Rank[h]
    BY <1>3, <2>1, <2>5, <2>6 DEF Orderly
  <2>8. Rank[h] <= Rank[l] /\ Rank[h] \in 1..5 /\ Rank[l] \in 1..5
    BY <1>2, RankType
  <2> QED
    BY <2>7, <2>8
<1>4. \A m \in Modes : Free(l, m)
  BY <1>3 DEF Free, Holds
<1>5. ASSUME NEW t \in Busy, NEW m \in Modes, Waits(t, l, m)
      PROVE  m = "read" /\ \E u \in Tasks : Waits(u, l, "write")
  <2>1. PICK h \in Locks, n \in {"read", "write"} :
          /\ Waits(t, h, n)
          /\ \/ ~Free(h, n)
             \/ n = "read" /\ \E u \in Tasks \ {t} : Waits(u, h, "write")
    BY DEF Stuck
  <2>2. h = l /\ n = m
    BY <1>5, <2>1 DEF Waits
  <2> QED
    BY <1>4, <2>1, <2>2
<1>6. PICK t \in Busy, m \in Modes : Waits(t, l, m)
  OBVIOUS
<1>7. PICK u \in Tasks : Waits(u, l, "write")
  BY <1>5, <1>6
<1>8. u \in Busy /\ "write" \in Modes
  BY <1>7 DEF Waits, Busy, Modes
<1> QED
  BY <1>5, <1>7, <1>8

\* However many tasks make whichever of the crate's calls, they never all
\* wait for each other.  visit is the one call that takes an earlier lock
\* while it holds a later one.
THEOREM StandstillCorrect ==
    ASSUME Calls \subseteq DOMAIN Script \ {"visit"}
    PROVE  Spec => []NoStandstill
<1>1. Init => OrderInv
  <2> SUFFICES ASSUME Init
               PROVE  OrderInv
    OBVIOUS
  <2>1. \A t \in Tasks : Proper(call[t]) /\ held[t] = {}
    BY ScriptProper DEF Init
  <2>2. \A t \in Tasks : Orderly(call[t], held[t])
    BY <2>1 DEF Orderly
  <2>3. call \in [Tasks -> Seq(Steps)]
    BY <2>1 DEF Init, Proper
  <2> QED
    BY <2>2, <2>3 DEF OrderInv, Init
<1>2. OrderInv /\ [Next]_vars => OrderInv'
  BY OrderStep
<1> QED
  BY <1>1, <1>2, OrderSuffices, PTL DEF Spec

=============================================================================
