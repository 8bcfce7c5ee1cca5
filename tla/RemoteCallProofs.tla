-------------------------- MODULE RemoteCallProofs ---------------------------
(***************************************************************************)
(* What holds of the calls of one client thread and one session for any    *)
(* classes, functions, parameters, variables and values, and any width of  *)
(* the sequence number.                                                    *)
(*                                                                         *)
(* The calls are in order throughout: the invariant (IInv) says that there *)
(* are numbers d <= u such that the calls before d are over, those before  *)
(* u have been read by the session and the others wait in its stream, and  *)
(* that each stream is the messages of its calls, one behind the other     *)
(* (Joined).  All that is expected of a message follows from the packet    *)
(* that the client keeps of its call.                                      *)
(***************************************************************************)
EXTENDS RemoteCall, ObjectTableProofs
-----------------------------------------------------------------------------
(* The arguments that travel, and loading them                               *)

\* order lists the places of s whose direction is one of dirs, up to the n-th,
\* from left to right.
Lists(order, params, dirs, n) ==
    /\ order \in Seq(1..n)
    /\ \A j, k \in 1..Len(order) : j < k => order[j] < order[k]
    /\ \A i \in 1..n : Direction(params[i]) \in dirs <=> \E k \in 1..Len(order) : order[k] = i

\* One more place: it comes last, if its direction is one of dirs.
LEMMA ListsNext ==
    ASSUME NEW params, NEW dirs, NEW n \in Nat \ {0}, NEW s, Lists(s, params, dirs, n - 1)
    PROVE  Lists(IF Direction(params[n]) \in dirs THEN Append(s, n) ELSE s, params, dirs, n)
<1>1. /\ s \in Seq(1..(n - 1)) /\ Len(s) \in Nat
      /\ \A j, k \in 1..Len(s) : j < k => s[j] < s[k]
      /\ \A i \in 1..(n - 1) :
            Direction(params[i]) \in dirs <=> \E k \in 1..Len(s) : s[k] = i
  BY DEF Lists
<1>2. s \in Seq(1..n) /\ \A k \in 1..Len(s) : s[k] \in 1..(n - 1)
  <2>1. 1..(n - 1) \subseteq 1..n
    OBVIOUS
  <2> QED
    BY <1>1, <2>1, SeqMonotonic, ElementOfSeq
<1>3. CASE Direction(params[n]) \in dirs
  <2> DEFINE t == Append(s, n)
  <2>1. /\ t \in Seq(1..n) /\ Len(t) = Len(s) + 1 /\ t[Len(s) + 1] = n
        /\ \A k \in 1..Len(s) : t[k] = s[k]
    BY <1>1, <1>2, AppendProperties
  <2> HIDE DEF t
  <2>2. \A j, k \in 1..Len(t) : j < k => t[j] < t[k]
    <3>1. ASSUME NEW j \in 1..Len(t), NEW k \in 1..Len(t), j < k PROVE t[j] < t[k]
      <4>1. j \in 1..Len(s) /\ t[j] = s[j] /\ s[j] \in 1..(n - 1)
        BY <1>1, <1>2, <2>1, <3>1
      <4>2. CASE k \in 1..Len(s)
        BY <4>1, <4>2, <1>1, <2>1, <3>1
      <4>3. CASE k = Len(s) + 1
        BY <4>1, <4>3, <2>1
      <4> QED
        BY <4>2, <4>3, <1>1, <2>1
    <3> QED
      BY <3>1
  <2>3. ASSUME NEW i \in 1..n
        PROVE  Direction(params[i]) \in dirs <=> \E k \in 1..Len(t) : t[k] = i
    <3>1. CASE i = n
      <4>1. Len(s) + 1 \in 1..Len(t)
        BY <1>1, <2>1
      <4> QED
        BY <4>1, <3>1, <1>3, <2>1
    <3>2. CASE i # n
      <4>1. i \in 1..(n - 1)
        BY <3>2
      <4>2. \A k \in 1..Len(t) : t[k] = i => k \in 1..Len(s)
        BY <3>2, <1>1, <2>1
      <4>3. \A k \in 1..Len(s) : k \in 1..Len(t)
        BY <1>1, <2>1
      <4> QED
        BY <4>1, <4>2, <4>3, <1>1, <2>1
    <3> QED
      BY <3>1, <3>2
  <2>4. Lists(t, params, dirs, n)
    BY <2>1, <2>2, <2>3 DEF Lists
  <2> QED
    BY <2>4, <1>3 DEF t
<1>4. CASE Direction(params[n]) \notin dirs
  <2>1. ASSUME NEW i \in 1..n
        PROVE  Direction(params[i]) \in dirs <=> \E k \in 1..Len(s) : s[k] = i
    <3>1. CASE i = n
      BY <3>1, <1>1, <1>2, <1>4
    <3>2. CASE i # n
      BY <3>2, <1>1
    <3> QED
      BY <3>1, <3>2
  <2> QED
    BY <2>1, <1>1, <1>2, <1>4 DEF Lists
<1> QED
  BY <1>3, <1>4

\* The arguments that travel are those whose direction is one of dirs, each
\* once and from left to right.
LEMMA TravellingLists ==
    ASSUME NEW params \in Seq(Forms), NEW dirs
    PROVE  Lists(Travelling(params, dirs), params, dirs, Len(params))
<1> DEFINE n == Len(params)
           Round(g, i) == IF i = 0 THEN <<>>
                          ELSE IF Direction(params[i]) \in dirs THEN Append(g[i-1], i)
                          ELSE g[i-1]
           upTo[i \in 0..Len(params)] ==
               IF i = 0 THEN <<>>
               ELSE IF Direction(params[i]) \in dirs THEN Append(upTo[i-1], i)
               ELSE upTo[i-1]
<1>1. Travelling(params, dirs) = upTo[n]
  BY DEF Travelling
<1>2. n \in Nat
  OBVIOUS
<1>3. \E g : g = [i \in 0..n |-> Round(g, i)]
  <2> DEFINE Upto(g, m) == g = [i \in 0..m |-> Round(g, i)]
             Bad == {m \in 0..n : ~ \E g : Upto(g, m)}
  <2>1. SUFFICES ASSUME Bad # {} PROVE FALSE
    <3>1. n \notin Bad => \E g : Upto(g, n)
      <4> HIDE DEF Upto
      <4> QED
        BY <1>2
    <3> QED
      BY <3>1
  <2>2. PICK m \in Bad : \A k \in Bad : m <= k
    <3>1. Bad \subseteq Nat
      BY <1>2
    <3> HIDE DEF Bad
    <3> QED
      BY <2>1, <3>1, LeastNumber
  <2>3. m # 0
    <3>1. Upto([i \in 0..0 |-> <<>>], 0)
      OBVIOUS
    <3> HIDE DEF Upto
    <3> QED
      BY <3>1
  <2>4. m - 1 \in 0..n /\ m \in 1..n /\ m - 1 \notin Bad
    <3> HIDE DEF Upto
    <3> QED
      BY <2>2, <2>3, <1>2
  <2>5. PICK g : Upto(g, m - 1)
    <3> HIDE DEF Upto
    <3> QED
      BY <2>4
  <2> DEFINE h == [i \in 0..m |-> IF i = m THEN Round(g, m) ELSE g[i]]
  <2>6. Upto(h, m)
    <3>1. ASSUME NEW i \in 0..m PROVE h[i] = Round(h, i)
      <4>1. CASE i = m
        BY <4>1, <2>4
      <4>2. CASE i # m
        <5>1. i \in 0..(m - 1) /\ h[i] = g[i] /\ (i # 0 => h[i-1] = g[i-1])
          BY <4>2, <2>4
        <5>2. g[i] = Round(g, i)
          BY <5>1, <2>5
        <5> HIDE DEF h
        <5> QED
          BY <5>1, <5>2
      <4> QED
        BY <4>1, <4>2
    <3>2. h = [i \in 0..m |-> h[i]]
      OBVIOUS
    <3> HIDE DEF h, Round
    <3> QED
      BY <3>1, <3>2
  <2> HIDE DEF h, Upto
  <2> QED
    BY <2>2, <2>6
<1>4. upTo = [i \in 0..n |-> Round(upTo, i)]
  BY <1>3, Zenon
<1> HIDE DEF upTo
<1>5. \A i \in 0..n : Lists(upTo[i], params, dirs, i)
  <2> DEFINE Bad == {m \in 0..n : ~ Lists(upTo[m], params, dirs, m)}
  <2>1. SUFFICES ASSUME Bad # {} PROVE FALSE
    OBVIOUS
  <2>2. PICK m \in Bad : \A k \in Bad : m <= k
    <3>1. Bad \subseteq Nat
      BY <1>2
    <3> HIDE DEF Bad
    <3> QED
      BY <2>1, <3>1, LeastNumber
  <2>3. m # 0
    <3>1. upTo[0] = <<>>
      BY <1>2, <1>4
    <3>2. Lists(<<>>, params, dirs, 0)
      BY DEF Lists
    <3> QED
      BY <2>2, <3>1, <3>2
  <2>4. m - 1 \in 0..n /\ m \in 1..n /\ m - 1 \notin Bad
    BY <2>2, <2>3, <1>2
  <2>5. Lists(upTo[m - 1], params, dirs, m - 1)
    BY <2>4
  <2>6. upTo[m] = IF Direction(params[m]) \in dirs THEN Append(upTo[m-1], m) ELSE upTo[m-1]
    <3>1. upTo[m] = Round(upTo, m)
      <4> HIDE DEF Round
      <4> QED
        BY <2>4, <1>4
    <3> QED
      BY <3>1, <2>3
  <2>7. Lists(upTo[m], params, dirs, m)
    BY <2>4, <2>5, <2>6, <1>2, ListsNext
  <2> QED
    BY <2>2, <2>7
<1> HIDE DEF Round
<1> QED
  BY <1>1, <1>2, <1>5

\* r is vals after its places order[1] .. order[n] have been set from the parts,
\* one after the other: a place holds what came for it last.
Filled(r, vals, order, parts, n) ==
    /\ DOMAIN r = DOMAIN vals /\ r = [x \in DOMAIN vals |-> r[x]]
    /\ \A x \in DOMAIN vals : (\A k \in 1..n : order[k] # x) => r[x] = vals[x]
    /\ \A k \in 1..n : order[k] \in DOMAIN vals /\ (\A j \in (k + 1)..n : order[j] # order[k])
                          => r[order[k]] = parts[k].v

\* One more place is set.
LEMMA FilledNext ==
    ASSUME NEW vals, NEW order, NEW parts, NEW n \in Nat \ {0}, NEW r, NEW q,
           Filled(r, vals, order, parts, n - 1), q = [r EXCEPT ![order[n]] = parts[n].v]
    PROVE  Filled(q, vals, order, parts, n)
<1>1. /\ DOMAIN r = DOMAIN vals /\ r = [x \in DOMAIN vals |-> r[x]]
      /\ \A x \in DOMAIN vals : (\A k \in 1..(n - 1) : order[k] # x) => r[x] = vals[x]
      /\ \A k \in 1..(n - 1) :
            order[k] \in DOMAIN vals /\ (\A j \in (k + 1)..(n - 1) : order[j] # order[k])
                => r[order[k]] = parts[k].v
  BY DEF Filled
<1>2. DOMAIN q = DOMAIN vals /\ q = [x \in DOMAIN vals |-> q[x]]
  BY <1>1
<1>3. /\ \A x \in DOMAIN vals : x # order[n] => q[x] = r[x]
      /\ order[n] \in DOMAIN vals => q[order[n]] = parts[n].v
  BY <1>1
<1>4. ASSUME NEW x \in DOMAIN vals, \A k \in 1..n : order[k] # x PROVE q[x] = vals[x]
  <2>1. x # order[n] /\ \A k \in 1..(n - 1) : order[k] # x
    BY <1>4
  <2> QED
    BY <2>1, <1>1, <1>3
<1>5. ASSUME NEW k \in 1..n, order[k] \in DOMAIN vals,
             \A j \in (k + 1)..n : order[j] # order[k]
      PROVE  q[order[k]] = parts[k].v
  <2>1. CASE k = n
    BY <2>1, <1>3, <1>5
  <2>2. CASE k # n
    <3>1. k \in 1..(n - 1) /\ n \in (k + 1)..n
      BY <2>2
    <3>2. \A j \in (k + 1)..(n - 1) : order[j] # order[k]
      BY <3>1, <1>5
    <3> QED
      BY <3>1, <3>2, <1>1, <1>3, <1>5
  <2> QED
    BY <2>1, <2>2
<1> QED
  BY <1>2, <1>4, <1>5 DEF Filled

\* What Load leaves.
LEMMA LoadFills ==
    ASSUME NEW vals, vals = [x \in DOMAIN vals |-> vals[x]],
           NEW order, Len(order) \in Nat, NEW parts
    PROVE  Filled(Load(vals, order, parts), vals, order, parts, Len(order))
<1> DEFINE n == Len(order)
           Round(g, k) == IF k = 0 THEN vals ELSE [g[k-1] EXCEPT ![order[k]] = parts[k].v]
           after[k \in 0..Len(order)] ==
               IF k = 0 THEN vals ELSE [after[k-1] EXCEPT ![order[k]] = parts[k].v]
<1>1. Load(vals, order, parts) = after[n]
  BY DEF Load
<1>2. n \in Nat
  OBVIOUS
<1>3. \E g : g = [k \in 0..n |-> Round(g, k)]
  <2> DEFINE Upto(g, m) == g = [i \in 0..m |-> Round(g, i)]
             Bad == {m \in 0..n : ~ \E g : Upto(g, m)}
  <2>1. SUFFICES ASSUME Bad # {} PROVE FALSE
    <3>1. n \notin Bad => \E g : Upto(g, n)
      <4> HIDE DEF Upto
      <4> QED
        BY <1>2
    <3> QED
      BY <3>1
  <2>2. PICK m \in Bad : \A k \in Bad : m <= k
    <3>1. Bad \subseteq Nat
      BY <1>2
    <3> HIDE DEF Bad
    <3> QED
      BY <2>1, <3>1, LeastNumber
  <2>3. m # 0
    <3>1. Upto([i \in 0..0 |-> vals], 0)
      OBVIOUS
    <3> HIDE DEF Upto
    <3> QED
      BY <3>1
  <2>4. m - 1 \in 0..n /\ m \in 1..n /\ m - 1 \notin Bad
    <3> HIDE DEF Upto
    <3> QED
      BY <2>2, <2>3, <1>2
  <2>5. PICK g : Upto(g, m - 1)
    <3> HIDE DEF Upto
    <3> QED
      BY <2>4
  <2> DEFINE h == [i \in 0..m |-> IF i = m THEN Round(g, m) ELSE g[i]]
  <2>6. Upto(h, m)
    <3>1. ASSUME NEW i \in 0..m PROVE h[i] = Round(h, i)
      <4>1. CASE i = m
        <5>1. h[m] = Round(g, m) /\ h[m-1] = g[m-1] /\ m # 0
          <6> HIDE DEF Round
          <6> QED
            BY <2>4
        <5> HIDE DEF h
        <5> QED
          BY <5>1, <4>1
      <4>2. CASE i # m
        <5>1. i \in 0..(m - 1) /\ h[i] = g[i] /\ (i # 0 => h[i-1] = g[i-1])
          BY <4>2, <2>4
        <5>2. g[i] = Round(g, i)
          BY <5>1, <2>5
        <5> HIDE DEF h
        <5> QED
          BY <5>1, <5>2
      <4> QED
        BY <4>1, <4>2
    <3>2. h = [i \in 0..m |-> h[i]]
      OBVIOUS
    <3> HIDE DEF h, Round
    <3> QED
      BY <3>1, <3>2
  <2> HIDE DEF h, Upto
  <2> QED
    BY <2>2, <2>6
<1>4. after = [k \in 0..n |-> Round(after, k)]
  BY <1>3, Zenon
<1> HIDE DEF after
<1>5. \A k \in 0..n : Filled(after[k], vals, order, parts, k)
  <2> DEFINE Bad == {m \in 0..n : ~ Filled(after[m], vals, order, parts, m)}
  <2>1. SUFFICES ASSUME Bad # {} PROVE FALSE
    OBVIOUS
  <2>2. PICK m \in Bad : \A k \in Bad : m <= k
    <3>1. Bad \subseteq Nat
      BY <1>2
    <3> HIDE DEF Bad
    <3> QED
      BY <2>1, <3>1, LeastNumber
  <2>3. m # 0
    <3>1. after[0] = vals
      BY <1>2, <1>4
    <3>2. Filled(vals, vals, order, parts, 0)
      BY DEF Filled
    <3> QED
      BY <2>2, <3>1, <3>2
  <2>4. m - 1 \in 0..n /\ m \in 1..n /\ m - 1 \notin Bad
    BY <2>2, <2>3, <1>2
  <2>5. Filled(after[m - 1], vals, order, parts, m - 1)
    BY <2>4
  <2>6. after[m] = [after[m - 1] EXCEPT ![order[m]] = parts[m].v]
    <3>1. after[m] = Round(after, m)
      <4> HIDE DEF Round
      <4> QED
        BY <2>4, <1>4
    <3> QED
      BY <3>1, <2>3
  <2>7. Filled(after[m], vals, order, parts, m)
    BY <2>4, <2>5, <2>6, <1>2, FilledNext
  <2> QED
    BY <2>2, <2>7
<1> HIDE DEF Round
<1> QED
  BY <1>1, <1>2, <1>5
-----------------------------------------------------------------------------
(* Streams of messages                                                       *)

\* What the parts of the streams are.
PartValues == Nat \cup Functions \cup Values \cup {"unread", "synch", "asynch"}
Parts == [is : Kinds \ {"seqid"}, v : PartValues] \cup [is : {"seqid"}, v : Nat, call : Nat]

\* m is a message of call c: it begins with a number and has no other.
Message(m, c) ==
    /\ m \in Seq(Parts) /\ Len(m) # 0
    /\ m[1].is = "seqid" /\ m[1].call = c
    /\ \A j \in 2..Len(m) : m[j].is # "seqid"

\* The parts of m are those of s from the i-th on.
MessageAt(s, i, m) ==
    i + Len(m) - 1 <= Len(s) /\ \A j \in 1..Len(m) : s[i + j - 1] = m[j]

\* At i a message begins, that of a call in first .. last; where it ends, the
\* next begins or s ends.
BeginsAt(s, M, first, last, i) ==
    LET c == s[i].call  e == i + Len(M[c]) IN
    /\ c \in first..last
    /\ MessageAt(s, i, M[c])
    /\ c = last => e = Len(s) + 1
    /\ c # last => e \in Numbered(s) /\ s[e].call = c + 1

\* s is the messages M[first], M[first + 1] .. M[last], one behind the other.
Joined(s, M, first, last) ==
    /\ s \in Seq(Parts)
    /\ \A c \in first..last : Message(M[c], c)
    /\ \A c \in first..last : \E i \in Numbered(s) : s[i].call = c
    /\ \A i, j \in Numbered(s) : s[i].call = s[j].call => i = j
    /\ \A i \in Numbered(s) : BeginsAt(s, M, first, last, i)
    /\ first <= last => 1 \in Numbered(s) /\ s[1].call = first
    /\ last < first => s = <<>>

\* t is s, then m.
Followed(S, t, s, m) ==
    /\ t \in Seq(S) /\ Len(t) = Len(s) + Len(m)
    /\ \A i \in 1..Len(s) : t[i] = s[i]
    /\ \A j \in 1..Len(m) : t[Len(s) + j] = m[j]

\* Concatenation puts the one behind the other.
LEMMA ConcatFollowed ==
    ASSUME NEW S, NEW s \in Seq(S), NEW m \in Seq(S)
    PROVE  Followed(S, s \o m, s, m) /\ s \o m \in Seq(S)
<1>1. /\ s \o m \in Seq(S) /\ Len(s \o m) = Len(s) + Len(m)
      /\ \A i \in 1..(Len(s) + Len(m)) : (s \o m)[i] = IF i <= Len(s) THEN s[i] ELSE m[i - Len(s)]
  BY ConcatProperties
<1>2. Len(s) \in Nat /\ Len(m) \in Nat
  OBVIOUS
<1> DEFINE t == s \o m
<1> HIDE DEF t
<1>3. /\ t \in Seq(S) /\ Len(t) = Len(s) + Len(m)
      /\ \A i \in 1..(Len(s) + Len(m)) : t[i] = IF i <= Len(s) THEN s[i] ELSE m[i - Len(s)]
  BY <1>1 DEF t
<1>4. ASSUME NEW i \in 1..Len(s) PROVE t[i] = s[i]
  <2>1. i \in 1..(Len(s) + Len(m)) /\ i <= Len(s)
    BY <1>2
  <2> QED
    BY <2>1, <1>3
<1>5. ASSUME NEW j \in 1..Len(m) PROVE t[Len(s) + j] = m[j]
  <2>1. Len(s) + j \in 1..(Len(s) + Len(m)) /\ ~(Len(s) + j <= Len(s)) /\ Len(s) + j - Len(s) = j
    BY <1>2
  <2> QED
    BY <2>1, <1>3
<1> QED
  BY <1>3, <1>4, <1>5 DEF Followed, t

\* t is what remains of s behind its first n parts.
Remains(t, s, n) ==
    /\ t \in Seq(Parts) /\ Len(t) = Len(s) - n
    /\ \A i \in 1..Len(t) : t[i] = s[n + i]

\* SubSeq to the end leaves what is behind.
LEMMA SubSeqRemains ==
    ASSUME NEW s \in Seq(Parts), NEW n \in Nat, n <= Len(s)
    PROVE  Remains(SubSeq(s, n + 1, Len(s)), s, n)
<1>1. Len(s) \in Nat
  OBVIOUS
<1>2. \A i \in (n + 1)..Len(s) : s[i] \in Parts
  <2>1. \A i \in (n + 1)..Len(s) : i \in 1..Len(s)
    BY <1>1
  <2> QED
    BY <2>1, ElementOfSeq
<1> DEFINE t == SubSeq(s, n + 1, Len(s))
<1>3. /\ t \in Seq(Parts)
      /\ Len(t) = IF n + 1 <= Len(s) THEN Len(s) - (n + 1) + 1 ELSE 0
      /\ \A i \in 1..(Len(s) - (n + 1) + 1) : t[i] = s[(n + 1) + i - 1]
  <2>1. n + 1 \in Int /\ Len(s) \in Int
    BY <1>1
  <2> QED
    BY <1>2, <2>1, SubSeqProperties
<1> HIDE DEF t
<1>4. Len(t) = Len(s) - n
  BY <1>1, <1>3
<1>5. ASSUME NEW i \in 1..Len(t) PROVE t[i] = s[n + i]
  <2>1. i \in 1..(Len(s) - (n + 1) + 1) /\ (n + 1) + i - 1 = n + i
    BY <1>1, <1>4
  <2> QED
    BY <2>1, <1>3
<1> QED
  BY <1>3, <1>4, <1>5 DEF Remains, t

\* A stream without a message.
LEMMA JoinedNone ==
    ASSUME NEW M, NEW first \in Nat, NEW last \in Nat, last < first
    PROVE  Joined(<<>>, M, first, last)
<1>1. Numbered(<<>>) = {}
  BY DEF Numbered
<1>2. first..last = {}
  OBVIOUS
<1> QED
  BY <1>1, <1>2 DEF Joined

\* The stream matters, and the messages in it, not those that are not.
LEMMA JoinedSame ==
    ASSUME NEW s, NEW M, NEW N, NEW first \in Nat, NEW last \in Nat,
           Joined(s, M, first, last), \A c \in first..last : N[c] = M[c]
    PROVE  Joined(s, N, first, last)
<1>1. \A i \in Numbered(s) : s[i].call \in first..last
  BY DEF Joined, BeginsAt
<1>2. \A i \in Numbered(s) : BeginsAt(s, N, first, last, i)
  <2>1. ASSUME NEW i \in Numbered(s) PROVE BeginsAt(s, N, first, last, i)
    <3>1. BeginsAt(s, M, first, last, i) /\ N[s[i].call] = M[s[i].call]
      BY <1>1 DEF Joined
    <3> QED
      BY <3>1 DEF BeginsAt
  <2> QED
    BY <2>1
<1>3. \A c \in first..last : Message(N[c], c)
  BY DEF Joined
<1> QED
  BY <1>2, <1>3 DEF Joined

\* A message is written behind the last.
LEMMA JoinedAppend ==
    ASSUME NEW s, NEW M, NEW N, NEW m, NEW t,
           NEW first \in Nat, NEW last \in Nat, first <= last + 1,
           Joined(s, M, first, last), Message(m, last + 1),
           \A c \in first..last : N[c] = M[c], N[last + 1] = m,
           Followed(Parts, t, s, m)
    PROVE  Joined(t, N, first, last + 1)
<1>1. /\ s \in Seq(Parts) /\ m \in Seq(Parts) /\ Len(s) \in Nat /\ Len(m) \in Nat \ {0}
      /\ t \in Seq(Parts) /\ Len(t) = Len(s) + Len(m)
      /\ \A i \in 1..Len(s) : t[i] = s[i]
      /\ \A j \in 1..Len(m) : t[Len(s) + j] = m[j]
  <2>1. s \in Seq(Parts) /\ m \in Seq(Parts) /\ Len(s) \in Nat /\ Len(m) \in Nat \ {0}
    BY DEF Joined, Message
  <2> QED
    BY <2>1 DEF Followed
<1>2. DOMAIN s = 1..Len(s) /\ DOMAIN t = 1..Len(t) /\ DOMAIN m = 1..Len(m)
  BY <1>1
<1>3. m[1].is = "seqid" /\ m[1].call = last + 1 /\ \A j \in 2..Len(m) : m[j].is # "seqid"
  BY DEF Message
<1>4. Len(s) + 1 \in Numbered(t) /\ t[Len(s) + 1].call = last + 1
  <2>1. Len(s) + 1 \in 1..Len(t) /\ t[Len(s) + 1] = m[1]
    BY <1>1
  <2> QED
    BY <2>1, <1>2, <1>3 DEF Numbered
<1>5. \A i \in Numbered(s) : i \in Numbered(t) /\ t[i] = s[i] /\ i \in 1..Len(s)
  <2>1. ASSUME NEW i \in Numbered(s)
        PROVE  i \in Numbered(t) /\ t[i] = s[i] /\ i \in 1..Len(s)
    <3>1. i \in 1..Len(s) /\ s[i].is = "seqid"
      BY <1>2 DEF Numbered
    <3>2. i \in 1..Len(t) /\ t[i] = s[i]
      BY <3>1, <1>1
    <3> QED
      BY <3>1, <3>2, <1>2 DEF Numbered
  <2> QED
    BY <2>1
<1>6. \A i \in Numbered(t) : i \in Numbered(s) \/ i = Len(s) + 1
  <2>1. ASSUME NEW i \in Numbered(t), i # Len(s) + 1 PROVE i \in Numbered(s)
    <3>1. i \in 1..Len(t) /\ t[i].is = "seqid"
      BY <1>2 DEF Numbered
    <3>2. CASE i \in 1..Len(s)
      BY <3>1, <3>2, <1>1, <1>2 DEF Numbered
    <3>3. CASE i \notin 1..Len(s)
      <4>1. i - Len(s) \in 2..Len(m) /\ i - Len(s) \in 1..Len(m) /\ Len(s) + (i - Len(s)) = i
        BY <2>1, <3>1, <3>3, <1>1
      <4>2. t[Len(s) + (i - Len(s))] = m[i - Len(s)]
        BY <4>1, <1>1
      <4> QED
        BY <4>1, <4>2, <3>1, <1>3
    <3> QED
      BY <3>2, <3>3
  <2> QED
    BY <2>1
<1>7. \A i \in Numbered(s) : s[i].call \in first..last
  BY DEF Joined, BeginsAt
<1>8. \A c \in first..(last + 1) : Message(N[c], c)
  <2>1. \A c \in first..(last + 1) : c \in first..last \/ c = last + 1
    OBVIOUS
  <2> QED
    BY <2>1 DEF Joined
<1>9. \A c \in first..(last + 1) : \E i \in Numbered(t) : t[i].call = c
  <2>1. ASSUME NEW c \in first..(last + 1), c # last + 1
        PROVE  \E i \in Numbered(t) : t[i].call = c
    <3>1. c \in first..last
      BY <2>1
    <3>2. PICK i \in Numbered(s) : s[i].call = c
      BY <3>1 DEF Joined
    <3> QED
      BY <3>2, <1>5
  <2> QED
    BY <2>1, <1>4
<1>10. \A i, j \in Numbered(t) : t[i].call = t[j].call => i = j
  <2>1. \A i, j \in Numbered(s) : s[i].call = s[j].call => i = j
    BY DEF Joined
  <2>2. \A i \in Numbered(s) : t[i].call # last + 1
    <3>1. \A c \in first..last : c # last + 1
      OBVIOUS
    <3> QED
      BY <3>1, <1>5, <1>7
  <2>3. ASSUME NEW i \in Numbered(t), NEW j \in Numbered(t), t[i].call = t[j].call PROVE i = j
    <3>1. CASE i \in Numbered(s) /\ j \in Numbered(s)
      BY <3>1, <2>1, <2>3, <1>5
    <3>2. CASE i \notin Numbered(s) /\ j \notin Numbered(s)
      BY <3>2, <1>6
    <3>3. CASE i \in Numbered(s) /\ j \notin Numbered(s)
      BY <3>3, <2>2, <2>3, <1>4, <1>6
    <3>4. CASE i \notin Numbered(s) /\ j \in Numbered(s)
      BY <3>4, <2>2, <2>3, <1>4, <1>6
    <3> QED
      BY <3>1, <3>2, <3>3, <3>4
  <2> QED
    BY <2>3
<1>11. ASSUME NEW i \in Numbered(t)
       PROVE  BeginsAt(t, N, first, last + 1, i)
  <2>1. CASE i = Len(s) + 1
    <3>1. t[i].call = last + 1 /\ N[t[i].call] = m
      BY <2>1, <1>4
    <3>2. MessageAt(t, i, m)
      <4>1. ASSUME NEW j \in 1..Len(m) PROVE t[i + j - 1] = m[j]
        <5>1. i + j - 1 = Len(s) + j
          BY <2>1, <1>1
        <5> QED
          BY <5>1, <1>1
      <4> QED
        BY <4>1, <2>1, <1>1 DEF MessageAt
    <3>3. i + Len(m) = Len(t) + 1 /\ last + 1 \in first..(last + 1)
      BY <2>1, <1>1
    <3> QED
      BY <3>1, <3>2, <3>3 DEF BeginsAt
  <2>2. CASE i \in Numbered(s)
    <3> DEFINE c == s[i].call
               e == i + Len(M[c])
    <3>1. /\ c \in first..last /\ MessageAt(s, i, M[c])
          /\ c = last => e = Len(s) + 1
          /\ c # last => e \in Numbered(s) /\ s[e].call = c + 1
      BY <2>2 DEF Joined, BeginsAt
    <3>2. t[i].call = c /\ N[c] = M[c] /\ i \in 1..Len(s) /\ c # last + 1 /\ c \in first..(last + 1)
      BY <2>2, <3>1, <1>5
    <3>3. Len(M[c]) \in Nat
      <4>1. Message(M[c], c)
        BY <3>1 DEF Joined
      <4> QED
        BY <4>1 DEF Message
    <3> HIDE DEF c
    <3>4. MessageAt(t, i, M[c])
      <4>1. i + Len(M[c]) - 1 <= Len(t)
        BY <3>1, <3>2, <3>3, <1>1 DEF MessageAt
      <4>2. ASSUME NEW j \in 1..Len(M[c]) PROVE t[i + j - 1] = M[c][j]
        <5>1. i + j - 1 \in 1..Len(s)
          BY <3>1, <3>2, <3>3, <1>1 DEF MessageAt
        <5> QED
          BY <5>1, <3>1, <1>1 DEF MessageAt
      <4> QED
        BY <4>1, <4>2 DEF MessageAt
    <3>5. e \in Numbered(t) /\ t[e].call = c + 1
      <4> HIDE DEF e
      <4>1. CASE c = last
        BY <4>1, <3>1, <1>4
      <4>2. CASE c # last
        BY <4>2, <3>1, <1>5
      <4> QED
        BY <4>1, <4>2
    <3> QED
      BY <3>2, <3>4, <3>5 DEF BeginsAt
  <2> QED
    BY <2>1, <2>2, <1>6
<1>12. 1 \in Numbered(t) /\ t[1].call = first
  <2>1. CASE first <= last
    <3>1. 1 \in Numbered(s) /\ s[1].call = first
      BY <2>1 DEF Joined
    <3> QED
      BY <3>1, <1>5
  <2>2. CASE last < first
    <3>1. s = <<>> /\ first = last + 1
      BY <2>2 DEF Joined
    <3>2. Len(s) = 0
      BY <3>1
    <3> QED
      BY <3>1, <3>2, <1>4
  <2> QED
    BY <2>1, <2>2
<1>13. ~(last + 1 < first)
  OBVIOUS
<1> QED
  BY <1>1, <1>8, <1>9, <1>10, <1>11, <1>12, <1>13 DEF Joined

\* The first message is read.
LEMMA JoinedAfter ==
    ASSUME NEW s, NEW M, NEW t, NEW first \in Nat, NEW last \in Nat, first <= last,
           Joined(s, M, first, last), Remains(t, s, Len(M[first]))
    PROVE  Joined(t, M, first + 1, last)
<1>13. PICK n : n = Len(M[first])
  OBVIOUS
<1>14. Remains(t, s, n)
  BY <1>13
<1>1. /\ s \in Seq(Parts) /\ Len(s) \in Nat /\ n \in Nat \ {0} /\ n <= Len(s)
      /\ MessageAt(s, 1, M[first]) /\ Message(M[first], first)
      /\ 1 \in Numbered(s) /\ s[1].call = first
  <2>1. first \in first..last
    OBVIOUS
  <2>2. 1 \in Numbered(s) /\ s[1].call = first /\ MessageAt(s, 1, M[first])
        /\ Message(M[first], first) /\ s \in Seq(Parts)
    BY <2>1 DEF Joined, BeginsAt
  <2> QED
    BY <2>2, <1>13 DEF MessageAt, Message
<1>2. /\ t \in Seq(Parts) /\ Len(t) = Len(s) - n
      /\ \A i \in 1..Len(t) : t[i] = s[n + i]
  BY <1>14 DEF Remains
<1>3. DOMAIN s = 1..Len(s) /\ DOMAIN t = 1..Len(t)
  BY <1>1, <1>2
<1>4. \A i \in Numbered(t) : n + i \in Numbered(s) /\ t[i] = s[n + i] /\ i \in 1..Len(t)
  <2>1. ASSUME NEW i \in Numbered(t)
        PROVE  n + i \in Numbered(s) /\ t[i] = s[n + i] /\ i \in 1..Len(t)
    <3>1. i \in 1..Len(t) /\ t[i].is = "seqid"
      BY <1>3 DEF Numbered
    <3>2. n + i \in 1..Len(s) /\ t[i] = s[n + i]
      BY <3>1, <1>1, <1>2
    <3> QED
      BY <3>1, <3>2, <1>3 DEF Numbered
  <2> QED
    BY <2>1
<1>5. \A i \in Numbered(s) : i = 1 \/ (i - n \in Numbered(t) /\ t[i - n] = s[i])
  <2>1. ASSUME NEW i \in Numbered(s), i # 1 PROVE i - n \in Numbered(t) /\ t[i - n] = s[i]
    <3>1. i \in 1..Len(s) /\ s[i].is = "seqid"
      BY <1>3 DEF Numbered
    <3>2. i > n
      <4> SUFFICES ASSUME i \in 2..n PROVE FALSE
        BY <1>1, <2>1, <3>1
      <4>1. s[1 + i - 1] = M[first][i] /\ M[first][i].is # "seqid" /\ 1 + i - 1 = i
        BY <1>1, <1>13, <3>1 DEF MessageAt, Message
      <4> QED
        BY <4>1, <3>1
    <3>3. i - n \in 1..Len(t) /\ n + (i - n) = i
      BY <1>1, <1>2, <3>1, <3>2
    <3>4. t[i - n] = s[i]
      BY <3>3, <1>2
    <3> QED
      BY <3>1, <3>3, <3>4, <1>3 DEF Numbered
  <2> QED
    BY <2>1
<1>6. \A c \in (first + 1)..last : c \in first..last /\ c # first
  OBVIOUS
<1>7. \A c \in (first + 1)..last : Message(M[c], c)
  BY <1>6 DEF Joined
<1>8. \A c \in (first + 1)..last : \E i \in Numbered(t) : t[i].call = c
  <2>1. ASSUME NEW c \in (first + 1)..last PROVE \E i \in Numbered(t) : t[i].call = c
    <3>1. PICK i \in Numbered(s) : s[i].call = c
      BY <1>6 DEF Joined
    <3>2. i # 1
      BY <3>1, <1>1, <1>6
    <3> QED
      BY <3>1, <3>2, <1>5
  <2> QED
    BY <2>1
<1>9. \A i, j \in Numbered(t) : t[i].call = t[j].call => i = j
  <2>1. ASSUME NEW i \in Numbered(t), NEW j \in Numbered(t), t[i].call = t[j].call PROVE i = j
    <3>1. n + i \in Numbered(s) /\ n + j \in Numbered(s) /\ s[n + i].call = s[n + j].call
          /\ i \in 1..Len(t) /\ j \in 1..Len(t)
      BY <2>1, <1>4
    <3>2. n + i = n + j
      BY <3>1 DEF Joined
    <3> QED
      BY <3>1, <3>2, <1>1
  <2> QED
    BY <2>1
<1>10. ASSUME NEW i \in Numbered(t)
       PROVE  BeginsAt(t, M, first + 1, last, i)
  <2> DEFINE c == t[i].call
             l == Len(M[c])
             e == n + i + l
  <2>1. n + i \in Numbered(s) /\ s[n + i].call = c /\ i \in 1..Len(t)
    BY <1>4
  <2>2. /\ c \in first..last /\ MessageAt(s, n + i, M[c])
        /\ c = last => e = Len(s) + 1
        /\ c # last => e \in Numbered(s) /\ s[e].call = c + 1
    <3>1. BeginsAt(s, M, first, last, n + i)
      BY <2>1 DEF Joined
    <3> QED
      BY <3>1, <2>1 DEF BeginsAt
  <2>3. c # first
    <3>1. c = first => n + i = 1
      BY <2>1, <1>1 DEF Joined
    <3> QED
      BY <3>1, <2>1, <1>1
  <2>4. Len(M[c]) \in Nat \ {0}
    <3>1. Message(M[c], c)
      BY <2>2 DEF Joined
    <3> QED
      BY <3>1 DEF Message
  <2>11. /\ i \in Nat /\ 1 <= i /\ i <= Len(t) /\ Len(t) \in Nat /\ Len(t) = Len(s) - n
         /\ n \in Nat \ {0} /\ Len(s) \in Nat /\ l \in Nat \ {0}
    <3>1. Len(t) \in Int
      BY <1>1, <1>2
    <3> HIDE DEF c
    <3> QED
      BY <3>1, <2>1, <2>4, <1>1, <1>2
  <2>12. n + i + l - 1 <= Len(s)
    BY <2>2 DEF MessageAt
  <2> HIDE DEF c, l
  <2>5. MessageAt(t, i, M[c])
    <3>1. i + l - 1 <= Len(t)
      BY <2>11, <2>12
    <3>2. ASSUME NEW j \in 1..Len(M[c]) PROVE t[i + j - 1] = M[c][j]
      <4>1. s[(n + i) + j - 1] = M[c][j]
        BY <2>2 DEF MessageAt
      <4>2. i + j - 1 \in 1..Len(t) /\ n + (i + j - 1) = (n + i) + j - 1
        <5>1. j \in 1..l
          BY DEF l
        <5> QED
          BY <5>1, <3>1, <2>11
      <4> QED
        BY <4>1, <4>2, <1>2
    <3> QED
      BY <3>1, <3>2 DEF MessageAt, l
  <2>6. ASSUME c # last PROVE e - n \in Numbered(t) /\ t[e - n].call = c + 1
    <3>1. e # 1
      BY <2>11
    <3>2. e \in Numbered(s) /\ s[e].call = c + 1
      BY <2>2, <2>6
    <3> HIDE DEF e
    <3> QED
      BY <3>1, <3>2, <1>5
  <2>7. e - n = i + l
    BY <2>11
  <2>8. c = last => i + l = Len(t) + 1
    BY <2>2, <2>11
  <2>9. c \in (first + 1)..last
    BY <2>2, <2>3
  <2>10. c # last => i + l \in Numbered(t) /\ t[i + l].call = c + 1
    <3> HIDE DEF e
    <3> QED
      BY <2>6, <2>7
  <2> QED
    BY <2>5, <2>8, <2>9, <2>10 DEF c, l, BeginsAt
<1>11. first + 1 <= last => 1 \in Numbered(t) /\ t[1].call = first + 1
  <2> SUFFICES ASSUME first + 1 <= last PROVE 1 \in Numbered(t) /\ t[1].call = first + 1
    OBVIOUS
  <2>1. first # last
    OBVIOUS
  <2>2. 1 + n \in Numbered(s) /\ s[1 + n].call = first + 1
    BY <2>1, <1>1, <1>13 DEF Joined, BeginsAt
  <2>3. 1 + n # 1 /\ (1 + n) - n = 1
    BY <1>1
  <2> QED
    BY <2>2, <2>3, <1>5
<1>12. last < first + 1 => t = <<>>
  <2> SUFFICES ASSUME last < first + 1 PROVE t = <<>>
    OBVIOUS
  <2>1. first = last
    OBVIOUS
  <2>2. 1 + n = Len(s) + 1
    BY <2>1, <1>1, <1>13 DEF Joined, BeginsAt
  <2>3. Len(t) = 0
    BY <2>2, <1>1, <1>2
  <2> QED
    BY <2>3, <1>2, EmptySeq
<1> QED
  BY <1>1, <1>2, <1>7, <1>8, <1>9, <1>10, <1>11, <1>12 DEF Joined
-----------------------------------------------------------------------------
(* Registration                                                              *)

\* A stub that has an id is found under it and under its name, and no name leads
\* to anything else.
StubsFound(table, id) ==
    /\ TableOK(table)
    /\ id \in [Stubs -> Nat]
    /\ \A s \in Stubs : id[s] # 0 =>
          /\ id[s] \in InUse(table) /\ Ptr(table, id[s]) = s
          /\ FullName[s] \in DOMAIN table.names /\ table.names[FullName[s]] = s
    /\ \A n \in DOMAIN table.names :
          table.names[n] \in Stubs /\ FullName[table.names[n]] = n /\ id[table.names[n]] # 0

\* The ids in use are in range.
LEMMA InUseValid ==
    ASSUME NEW t, TableOK(t), NEW id \in InUse(t)
    PROVE  id \in Nat \ {0} /\ IsValid(t.ids, id)
BY DEF TableOK, IdsUsed, Wellformed, IsValid

\* The stubs that have an id keep it.
Keeps(id, next) == \A x \in Stubs : id[x] # 0 => next[x] = id[x]

\* One stub enters the table, or the assert finds its name taken.
LEMMA GenStubFinds ==
    ASSUME NEW r, StubsFound(r.table, r.id), r.clash \in BOOLEAN,
           NEW s \in Stubs, NEW q, q = GenStub(r, s)
    PROVE  /\ StubsFound(q.table, q.id) /\ q.clash \in BOOLEAN
           /\ q.clash = FALSE => r.clash = FALSE /\ q.id[s] # 0
           /\ Keeps(r.id, q.id)
<1>1. CASE r.clash \/ HasName(r.table, FullName[s])
  <2>1. q = [r EXCEPT !.clash = TRUE]
    BY <1>1 DEF GenStub
  <2>2. q.table = r.table /\ q.id = r.id /\ (q.clash \in BOOLEAN => q.clash = TRUE)
    BY <2>1
  <2>3. q.clash = TRUE
    BY <2>1
  <2> QED
    BY <2>2, <2>3 DEF Keeps
<1>2. CASE ~(r.clash \/ HasName(r.table, FullName[s]))
  <2> DEFINE t == r.table
             u == AddNamed(r.table, s, FullName[s])
             n == NextId(r.table.ids)
  <2>1. q.table = u /\ q.id = [r.id EXCEPT ![s] = n] /\ q.clash = FALSE /\ r.clash = FALSE
    BY <1>2 DEF GenStub
  <2>2. /\ TableOK(t) /\ r.id \in [Stubs -> Nat]
        /\ \A x \in Stubs : r.id[x] # 0 =>
              /\ r.id[x] \in InUse(t) /\ Ptr(t, r.id[x]) = x
              /\ FullName[x] \in DOMAIN t.names /\ t.names[FullName[x]] = x
        /\ \A m \in DOMAIN t.names :
              t.names[m] \in Stubs /\ FullName[t.names[m]] = m /\ r.id[t.names[m]] # 0
    BY DEF StubsFound
  <2>3. FullName[s] \notin DOMAIN t.names /\ r.id[s] = 0
    BY <1>2, <2>2 DEF HasName
  <2>4. Added(t, u, n, s) /\ u.names = WithName(t, FullName[s], s)
    BY <2>2, AddNamedTable
  <2> HIDE DEF u, n
  <2>5. /\ TableOK(u) /\ InUse(u) = InUse(t) \cup {n} /\ Ptr(u, n) = s
        /\ \A i \in InUse(t) : Ptr(u, i) = Ptr(t, i)
    BY <2>4 DEF Added
  <2>6. n \in Nat \ {0}
    BY <2>5, InUseValid
  <2>7. /\ DOMAIN u.names = DOMAIN t.names \cup {FullName[s]}
        /\ u.names[FullName[s]] = s
        /\ \A m \in DOMAIN t.names : u.names[m] = t.names[m]
    BY <2>3, <2>4 DEF WithName
  <2> DEFINE id == [r.id EXCEPT ![s] = n]
  <2>8. /\ id \in [Stubs -> Nat] /\ id[s] = n
        /\ \A x \in Stubs : x # s => id[x] = r.id[x]
    BY <2>2, <2>6
  <2> HIDE DEF id
  <2>9. ASSUME NEW x \in Stubs, id[x] # 0
        PROVE  /\ id[x] \in InUse(u) /\ Ptr(u, id[x]) = x
               /\ FullName[x] \in DOMAIN u.names /\ u.names[FullName[x]] = x
    <3>1. CASE x = s
      BY <3>1, <2>5, <2>7, <2>8
    <3>2. CASE x # s
      BY <3>2, <2>2, <2>5, <2>7, <2>8, <2>9
    <3> QED
      BY <3>1, <3>2
  <2>10. ASSUME NEW m \in DOMAIN u.names
         PROVE  u.names[m] \in Stubs /\ FullName[u.names[m]] = m /\ id[u.names[m]] # 0
    <3>1. CASE m = FullName[s]
      BY <3>1, <2>6, <2>7, <2>8
    <3>2. CASE m \in DOMAIN t.names
      <4>1. u.names[m] = t.names[m] /\ t.names[m] # s
        BY <3>2, <2>2, <2>3, <2>7
      <4> QED
        BY <3>2, <4>1, <2>2, <2>8
    <3> QED
      BY <3>1, <3>2, <2>7
  <2>11. StubsFound(u, id)
    BY <2>5, <2>8, <2>9, <2>10 DEF StubsFound
  <2>12. \A x \in Stubs : r.id[x] # 0 => id[x] = r.id[x]
    BY <2>3, <2>8
  <2>13. q.table = u /\ q.id = id
    BY <2>1 DEF id
  <2> QED
    BY <2>1, <2>6, <2>8, <2>11, <2>12, <2>13 DEF Keeps
<1> QED
  BY <1>1, <1>2

\* What gen_stubs has done after n rounds for class c, if it began with the ids `id`.
Generated(r, id, c, n) ==
    /\ StubsFound(r.table, r.id) /\ r.clash \in BOOLEAN
    /\ r.clash = FALSE => \A i \in 1..n : r.id[StubsOf[c][i]] # 0
    /\ Keeps(id, r.id)

\* The loop of gen_stubs.
LEMMA GenStubsFinds ==
    ASSUME NEW table, NEW id, StubsFound(table, id), NEW c \in Classes
    PROVE  Generated(GenStubs(table, id, c), id, c, Len(StubsOf[c]))
<1> DEFINE n == Len(StubsOf[c])
           first == [table |-> table, id |-> id, clash |-> FALSE]
           Round(g, k) == IF k = 0 THEN first ELSE GenStub(g[k-1], StubsOf[c][k])
           after[k \in 0..Len(StubsOf[c])] ==
               IF k = 0 THEN [table |-> table, id |-> id, clash |-> FALSE]
                        ELSE GenStub(after[k-1], StubsOf[c][k])
<1>1. GenStubs(table, id, c) = after[n]
  BY DEF GenStubs
<1>2. n \in Nat /\ \A k \in 1..n : StubsOf[c][k] \in Stubs
  <2>1. StubsOf[c] \in Seq(Stubs)
    BY StubsAssumption
  <2> QED
    BY <2>1, ElementOfSeq
<1>3. \E g : g = [k \in 0..n |-> Round(g, k)]
  <2> DEFINE Upto(g, m) == g = [i \in 0..m |-> Round(g, i)]
             Bad == {m \in 0..n : ~ \E g : Upto(g, m)}
  <2>1. SUFFICES ASSUME Bad # {} PROVE FALSE
    <3>1. n \notin Bad => \E g : Upto(g, n)
      <4> HIDE DEF Upto
      <4> QED
        BY <1>2
    <3> QED
      BY <3>1
  <2>2. PICK m \in Bad : \A k \in Bad : m <= k
    <3>1. Bad \subseteq Nat
      BY <1>2
    <3> HIDE DEF Bad
    <3> QED
      BY <2>1, <3>1, LeastNumber
  <2>3. m # 0
    <3>1. Upto([i \in 0..0 |-> first], 0)
      <4> HIDE DEF first
      <4> QED
        OBVIOUS
    <3> HIDE DEF Upto
    <3> QED
      BY <3>1
  <2>4. m - 1 \in 0..n /\ m \in 1..n /\ m - 1 \notin Bad
    <3> HIDE DEF Upto
    <3> QED
      BY <2>2, <2>3, <1>2
  <2>5. PICK g : Upto(g, m - 1)
    <3> HIDE DEF Upto
    <3> QED
      BY <2>4
  <2> DEFINE h == [i \in 0..m |-> IF i = m THEN Round(g, m) ELSE g[i]]
  <2>6. Upto(h, m)
    <3>1. ASSUME NEW i \in 0..m PROVE h[i] = Round(h, i)
      <4>1. CASE i = m
        <5>1. h[m] = Round(g, m) /\ h[m-1] = g[m-1] /\ m # 0
          <6> HIDE DEF Round
          <6> QED
            BY <2>4
        <5> HIDE DEF h
        <5> QED
          BY <5>1, <4>1
      <4>2. CASE i # m
        <5>1. i \in 0..(m - 1) /\ h[i] = g[i] /\ (i # 0 => h[i-1] = g[i-1])
          <6> HIDE DEF Round
          <6> QED
            BY <4>2, <2>4
        <5>2. g[i] = Round(g, i)
          <6> HIDE DEF Round
          <6> QED
            BY <5>1, <2>5
        <5> HIDE DEF h
        <5> QED
          BY <5>1, <5>2
      <4> QED
        BY <4>1, <4>2
    <3>2. h = [i \in 0..m |-> h[i]]
      <4> HIDE DEF Round
      <4> QED
        OBVIOUS
    <3> HIDE DEF h, Round
    <3> QED
      BY <3>1, <3>2
  <2> HIDE DEF h, Upto
  <2> QED
    BY <2>2, <2>6
<1>4. after = [k \in 0..n |-> Round(after, k)]
  BY <1>3, Zenon
<1> HIDE DEF after
<1>5. \A k \in 0..n : Generated(after[k], id, c, k)
  <2> DEFINE Bad == {m \in 0..n : ~ Generated(after[m], id, c, m)}
  <2>1. SUFFICES ASSUME Bad # {} PROVE FALSE
    OBVIOUS
  <2>2. PICK m \in Bad : \A k \in Bad : m <= k
    <3>1. Bad \subseteq Nat
      BY <1>2
    <3> HIDE DEF Bad
    <3> QED
      BY <2>1, <3>1, LeastNumber
  <2>3. m # 0
    <3>1. after[0] = first
      BY <1>2, <1>4
    <3>2. Generated(first, id, c, 0)
      BY DEF Generated, Keeps
    <3> HIDE DEF first
    <3> QED
      BY <2>2, <3>1, <3>2
  <2>4. m - 1 \in 0..n /\ m \in 1..n /\ m - 1 \notin Bad
    BY <2>2, <2>3, <1>2
  <2>5. Generated(after[m - 1], id, c, m - 1)
    BY <2>4
  <2>6. after[m] = GenStub(after[m - 1], StubsOf[c][m])
    <3>1. after[m] = Round(after, m)
      <4> HIDE DEF Round
      <4> QED
        BY <2>4, <1>4
    <3> QED
      BY <3>1, <2>3
  <2> DEFINE r == after[m - 1]
             q == after[m]
  <2>7. /\ StubsFound(r.table, r.id) /\ r.clash \in BOOLEAN
        /\ r.clash = FALSE => \A i \in 1..(m - 1) : r.id[StubsOf[c][i]] # 0
        /\ \A x \in Stubs : id[x] # 0 => r.id[x] = id[x]
    BY <2>5 DEF Generated, Keeps
  <2> HIDE DEF r, q
  <2>8. q = GenStub(r, StubsOf[c][m]) /\ StubsOf[c][m] \in Stubs
    BY <2>6, <2>4, <1>2 DEF r, q
  <2>9. /\ StubsFound(q.table, q.id) /\ q.clash \in BOOLEAN
        /\ q.clash = FALSE => r.clash = FALSE /\ q.id[StubsOf[c][m]] # 0
        /\ \A x \in Stubs : r.id[x] # 0 => q.id[x] = r.id[x]
    <3> DEFINE s == StubsOf[c][m]
    <3>1. q = GenStub(r, s) /\ s \in Stubs
      BY <2>8
    <3> HIDE DEF s
    <3>2. /\ StubsFound(q.table, q.id) /\ q.clash \in BOOLEAN
          /\ q.clash = FALSE => r.clash = FALSE /\ q.id[s] # 0
          /\ Keeps(r.id, q.id)
      BY <2>7, <3>1, GenStubFinds
    <3> QED
      BY <3>2 DEF s, Keeps
  <2>10. q.clash = FALSE => \A i \in 1..m : q.id[StubsOf[c][i]] # 0
    <3> SUFFICES ASSUME q.clash = FALSE, NEW i \in 1..m PROVE q.id[StubsOf[c][i]] # 0
      OBVIOUS
    <3>1. CASE i = m
      BY <3>1, <2>9
    <3>2. CASE i # m
      <4>1. i \in 1..(m - 1) /\ i \in 1..n
        BY <3>2, <2>4, <1>2
      <4>2. r.id[StubsOf[c][i]] # 0 /\ StubsOf[c][i] \in Stubs
        BY <4>1, <2>7, <2>9, <1>2
      <4> QED
        BY <4>2, <2>9
    <3> QED
      BY <3>1, <3>2
  <2>11. \A x \in Stubs : id[x] # 0 => q.id[x] = id[x]
    BY <2>7, <2>9
  <2>12. Generated(after[m], id, c, m)
    BY <2>9, <2>10, <2>11 DEF Generated, Keeps, q
  <2> QED
    BY <2>2, <2>12
<1> HIDE DEF Round, first
<1> QED
  BY <1>1, <1>2, <1>5

\* Every factory is a table.
FactoriesOK == DOMAIN factory = Scopes /\ \A scope \in Scopes : TableOK(factory[scope])

\* What a registration keeps true of what it fills.
RegistrationOK ==
    /\ FactoriesOK
    /\ StubsFound(stubTable, stubId)
    /\ server \in {"registering", "serving", "thrown", "aborted"}
    /\ server \in {"registering", "serving"} =>
          \A c \in Classes : Known(c) => \A i \in DOMAIN StubsOf[c] : stubId[StubsOf[c][i]] # 0

\* A class enters its factory: it is known from then on, as the others are.
LEMMA ClassAdded ==
    ASSUME NEW F, DOMAIN F = Scopes, \A scope \in Scopes : TableOK(F[scope]),
           NEW c \in Classes, NEW G, G = Add(F, c)
    PROVE  /\ DOMAIN G = Scopes /\ \A scope \in Scopes : TableOK(G[scope])
           /\ \A d \in Classes : HasName(G[Scope[d]], ClassName[d])
                 <=> HasName(F[Scope[d]], ClassName[d]) \/ d = c
<1> DEFINE t == F[Scope[c]]
           u == AddNamed(t, c, ClassName[c])
<1>1. Scope[c] \in Scopes /\ TableOK(t)
  BY ClassesAssumption
<1>2. G = [F EXCEPT ![Scope[c]] = u]
  BY DEF Add
<1>3. TableOK(u) /\ u.names = WithName(t, ClassName[c], c)
  BY <1>1, AddNamedTable DEF Added
<1>4. \A n : HasName(u, n) <=> HasName(t, n) \/ n = ClassName[c]
  <2> HIDE DEF u, t
  <2> QED
    BY <1>3 DEF HasName, WithName
<1> HIDE DEF u
<1>5. /\ DOMAIN G = Scopes /\ G[Scope[c]] = u
      /\ \A scope \in Scopes : scope # Scope[c] => G[scope] = F[scope]
  BY <1>1, <1>2
<1>6. ASSUME NEW d \in Classes
      PROVE  HasName(G[Scope[d]], ClassName[d]) <=> HasName(F[Scope[d]], ClassName[d]) \/ d = c
  <2>1. Scope[d] \in Scopes
    BY ClassesAssumption
  <2>2. CASE Scope[d] = Scope[c]
    <3>1. ClassName[d] = ClassName[c] <=> d = c
      BY <2>2, ClassesAssumption
    <3> QED
      BY <3>1, <2>2, <1>4, <1>5
  <2>3. CASE Scope[d] # Scope[c]
    BY <2>1, <2>3, <1>5
  <2> QED
    BY <2>2, <2>3
<1> QED
  BY <1>3, <1>5, <1>6

\* The constructor of the server registers the class of the sessions.
LEMMA RegistrationInit ==
    ASSUME InitRegistration
    PROVE  RegistrationOK
<1> DEFINE none == [s \in Stubs |-> 0]
           r == OfMain
<1>1. StubsFound(NewTable, none)
  <2>1. TableOK(NewTable) /\ DOMAIN NewTable.names = {} /\ none \in [Stubs -> Nat]
    BY NewTableEmpty
  <2> QED
    BY <2>1 DEF StubsFound
<1>2. Generated(r, none, Main, Len(StubsOf[Main]))
  <2>1. Main \in Classes /\ r = GenStubs(NewTable, none, Main)
    BY ClassesAssumption DEF OfMain
  <2> HIDE DEF none, r
  <2> QED
    BY <1>1, <2>1, GenStubsFinds
<1> HIDE DEF none, r
<1>3. factory = Add(Empty, Main) /\ stubTable = r.table /\ stubId = r.id
      /\ server = IF r.clash THEN "aborted" ELSE "registering"
  BY DEF InitRegistration, r
<1>4. DOMAIN Empty = Scopes /\ (\A scope \in Scopes : TableOK(Empty[scope]))
      /\ \A d \in Classes : ~HasName(Empty[Scope[d]], ClassName[d])
  <2>1. \A d \in Classes : Scope[d] \in Scopes
    BY ClassesAssumption
  <2> QED
    BY <2>1, NewTableEmpty DEF Empty, HasName
<1>5. FactoriesOK /\ \A d \in Classes : Known(d) => d = Main
  <2>1. Main \in Classes
    BY ClassesAssumption
  <2> QED
    BY <2>1, <1>3, <1>4, ClassAdded DEF FactoriesOK, Known
<1>6. StubsFound(stubTable, stubId) /\ r.clash \in BOOLEAN
      /\ (r.clash = FALSE => \A i \in 1..Len(StubsOf[Main]) : stubId[StubsOf[Main][i]] # 0)
  BY <1>2, <1>3 DEF Generated
<1>7. DOMAIN StubsOf[Main] = 1..Len(StubsOf[Main])
  BY ClassesAssumption, StubsAssumption
<1> QED
  BY <1>3, <1>5, <1>6, <1>7 DEF RegistrationOK

\* The stubs of a class that is not known enter the table: those of the others
\* keep their ids.
LEMMA ClassStubbed ==
    ASSUME RegistrationOK, server = "registering", NEW c \in Classes, NEW clash \in BOOLEAN,
           Stubbed(c, clash)
    PROVE  /\ StubsFound(stubTable', stubId')
           /\ server' = IF clash THEN "aborted" ELSE "registering"
           /\ clash = FALSE => \A d \in Classes : Known(d) \/ d = c =>
                 \A i \in DOMAIN StubsOf[d] : stubId'[StubsOf[d][i]] # 0
<1> DEFINE r == GenStubs(stubTable, stubId, c)
<1>1. StubsFound(stubTable, stubId)
  BY DEF RegistrationOK
<1>2. Generated(r, stubId, c, Len(StubsOf[c]))
  BY <1>1, GenStubsFinds
<1>3. r.clash = clash /\ stubTable' = r.table /\ stubId' = r.id
      /\ server' = IF clash THEN "aborted" ELSE "registering"
  BY DEF Stubbed
<1> HIDE DEF r
<1>4. /\ StubsFound(stubTable', stubId')
      /\ clash = FALSE => \A i \in 1..Len(StubsOf[c]) : stubId'[StubsOf[c][i]] # 0
      /\ \A x \in Stubs : stubId[x] # 0 => stubId'[x] = stubId[x]
  BY <1>2, <1>3 DEF Generated, Keeps
<1>5. \A d \in Classes : DOMAIN StubsOf[d] = 1..Len(StubsOf[d])
          /\ \A i \in DOMAIN StubsOf[d] : StubsOf[d][i] \in Stubs
  <2>1. \A d \in Classes : StubsOf[d] \in Seq(Stubs)
    BY StubsAssumption
  <2> QED
    BY <2>1, ElementOfSeq
<1>6. ASSUME NEW d \in Classes, Known(d), NEW i \in DOMAIN StubsOf[d]
      PROVE  stubId'[StubsOf[d][i]] # 0
  <2>1. stubId[StubsOf[d][i]] # 0 /\ StubsOf[d][i] \in Stubs
    BY <1>5, <1>6 DEF RegistrationOK
  <2> QED
    BY <2>1, <1>4
<1> QED
  BY <1>3, <1>4, <1>5, <1>6

\* Registering keeps what RegistrationOK says.
LEMMA RegistrationStep ==
    ASSUME RegistrationOK, Register
    PROVE  RegistrationOK'
<1>1. SUFFICES ASSUME server = "registering" PROVE RegistrationOK'
  BY DEF Register, AutoCreate, AutoCreateClash, AutoCreateExisting, AddServant,
         AddServantClash, Start
<1>2. ASSUME NEW c \in Classes, NEW clash \in BOOLEAN, Stubbed(c, clash),
             factory' = Add(factory, c)
      PROVE  RegistrationOK'
  <2>1. /\ StubsFound(stubTable', stubId')
        /\ server' = IF clash THEN "aborted" ELSE "registering"
        /\ clash = FALSE => \A d \in Classes : Known(d) \/ d = c =>
              \A i \in DOMAIN StubsOf[d] : stubId'[StubsOf[d][i]] # 0
    BY <1>1, <1>2, ClassStubbed
  <2>2. FactoriesOK
    BY DEF RegistrationOK
  <2>3. FactoriesOK' /\ \A d \in Classes : Known(d)' <=> Known(d) \/ d = c
    BY <1>2, <2>2, ClassAdded DEF FactoriesOK, Known
  <2>4. StubsFound(stubTable, stubId)'
    BY <2>1
  <2> QED
    BY <2>1, <2>3, <2>4 DEF RegistrationOK
<1>3. ASSUME NEW c \in Classes, Stubbed(c, TRUE), UNCHANGED factory
      PROVE  RegistrationOK'
  <2>1. /\ StubsFound(stubTable', stubId')
        /\ server' = "aborted"
    BY <1>1, <1>3, ClassStubbed
  <2>2. FactoriesOK'
    BY <1>3 DEF RegistrationOK, FactoriesOK
  <2> QED
    BY <2>1, <2>2 DEF RegistrationOK
<1>4. ASSUME server' \in {"thrown", "serving"}, UNCHANGED <<factory, stubTable, stubId>>
      PROVE  RegistrationOK'
  <2>1. FactoriesOK' /\ StubsFound(stubTable, stubId)' /\ \A c : Known(c)' <=> Known(c)
    BY <1>4 DEF RegistrationOK, FactoriesOK, Known
  <2>2. \A c \in Classes : Known(c) => \A i \in DOMAIN StubsOf[c] : stubId[StubsOf[c][i]] # 0
    BY <1>1 DEF RegistrationOK
  <2> QED
    BY <1>4, <2>1, <2>2 DEF RegistrationOK
<1>5. \A c \in Classes : AutoCreate(c) \/ AutoCreateClash(c) \/ AddServant(c) => RegistrationOK'
  BY <1>2 DEF AutoCreate, AutoCreateClash, AddServant
<1>6. \A c \in Classes : AddServantClash(c) => RegistrationOK'
  BY <1>3 DEF AddServantClash
<1>7. \A c \in Classes : AutoCreateExisting(c) => RegistrationOK'
  BY <1>4 DEF AutoCreateExisting
<1>8. Start => RegistrationOK'
  BY <1>4 DEF Start
<1> QED
  BY <1>5, <1>6, <1>7, <1>8 DEF Register
-----------------------------------------------------------------------------
(* The inductive invariant                                                   *)

\* Two calls less than w apart have different numbers.
LEMMA ModSame ==
    ASSUME NEW w \in Nat \ {0}, NEW a \in Nat, NEW b \in Nat, a <= b, b < a + w, a % w = b % w
    PROVE  a = b
<1>1. a = w * (a \div w) + (a % w) /\ b = w * (b \div w) + (b % w) /\ a \div w \in Int /\ b \div w \in Int
  OBVIOUS
<1>2. b - a = w * (b \div w - a \div w)
  BY <1>1
<1>3. b \div w - a \div w >= 1 => b - a >= w
  BY <1>2, <1>1
<1>4. b \div w - a \div w <= -1 => b - a <= -w
  BY <1>2, <1>1
<1> QED
  BY <1>1, <1>2, <1>3, <1>4

\* A number that is counted up and wraps is that of the next call.
LEMMA ModSucc ==
    ASSUME NEW w \in Nat \ {0}, NEW a \in Nat
    PROVE  ((a % w) + 1) % w = (a + 1) % w /\ a % w \in 0..(w - 1)
<1> DEFINE q == a \div w
           r == a % w
           x == (r + 1) \div w
           y == (r + 1) % w
           z == (a + 1) \div w
           v == (a + 1) % w
<1>1. a = w * q + r /\ q \in Int /\ r \in 0..(w - 1)
  OBVIOUS
<1>2. r + 1 \in Int /\ a + 1 \in Int
  BY <1>1
<1>3. r + 1 = w * x + y /\ x \in Int /\ y \in 0..(w - 1)
  <2>1. \A b \in Int : /\ b = w * (b \div w) + (b % w)
                        /\ b \div w \in Int /\ b % w \in 0..(w - 1)
    OBVIOUS
  <2> HIDE DEF r
  <2> QED
    BY <1>2, <2>1
<1>4. a + 1 = w * z + v /\ z \in Int /\ v \in 0..(w - 1)
  BY <1>2
<1> HIDE DEF q, r, x, y, z, v
<1>5. w * (q + x - z) = v - y
  BY <1>1, <1>3, <1>4
<1>6. q + x - z >= 1 => w * (q + x - z) >= w
  BY <1>1, <1>3, <1>4
<1>7. q + x - z <= -1 => w * (q + x - z) <= -w
  BY <1>1, <1>3, <1>4
<1>8. v - y < w /\ v - y > -w
  BY <1>3, <1>4
<1>9. v = y
  BY <1>1, <1>3, <1>4, <1>5, <1>6, <1>7, <1>8
<1> QED
  BY <1>1, <1>9 DEF r, y, v

\* p is the packet of call c.
PacketOK(p, c) ==
    /\ p \in Packets
    /\ p.call = c /\ p.seqid = c % Wrap
    /\ p.fn \in DOMAIN callId
    /\ p.byid => callId[p.fn] # 0
    /\ p.by = HeldBy(p.how)
    /\ p.args \in [DOMAIN Params[p.fn] -> Vars]
    /\ p.vals \in [DOMAIN Params[p.fn] -> Values]

\* The numbers of the calls first .. last.
Residues(first, last) == {c % Wrap : c \in first..last}

\* What has been noted of a call when its packet p was sent.
LogOK(l, p) ==
    /\ l = [fn |-> p.fn, how |-> p.how, args |-> p.args, passed |-> p.vals,
            ran |-> l.ran, seen |-> l.seen, wrote |-> l.wrote]

Inputs == {"in", "inout", "remote"}
Outputs == {"out", "inout"}

\* The function of the call has run: on the inputs that were passed, and it wrote
\* the outputs.
AnswerOK(l, p) ==
    /\ p.fn \in DOMAIN stubTable.names
    /\ l.ran = p.fn
    /\ \A i \in DOMAIN Params[p.fn] :
          l.seen[i] = IF i \in Where(p.fn, Inputs) THEN p.vals[i] ELSE "unread"
    /\ l.wrote \in [DOMAIN Params[p.fn] -> Values \cup {"unread"}]
    /\ \A i \in Where(p.fn, Outputs) : l.wrote[i] \in Values

\* What the session reads of the packet p, and what it answers.
HeaderOf(p) == [seqid |-> p.seqid, call |-> p.call, stub |-> stubTable.names[p.fn],
                isbyid |-> p.byid]
ReplyOf(p, wrote) == Reply(HeaderOf(p), wrote)

\* s begins with the arguments of p; what remains behind them is rest.
ArgumentsThen(s, p, rest) ==
    LET saved == Travelling(Params[p.fn], ClientSaves) IN
    /\ s \in Seq(Parts) /\ Len(s) = 1 + Len(saved) + Len(rest)
    /\ s[1] = Part("self", p.fn)
    /\ \A k \in 1..Len(saved) : s[1 + k] = Part("arg", p.vals[saved[k]])
    /\ \A j \in 1..Len(rest) : s[1 + Len(saved) + j] = rest[j]

\* The last call that has been answered, if u is the first whose request has not
\* been read.
Answered(u) == IF header = NoHeader THEN u - 1 ELSE u - 2

Requests(pk, u) == [c \in u..asked |-> Request(pk[c])]
Replies(pk, d, h) == [c \in d..h |-> ReplyOf(pk[c], log[c].wrote)]

\* The calls d .. asked are not over; pk has their packets, which are those that
\* the client keeps.
CallsOK(d, pk) ==
    /\ d \in 1..(asked + 1) /\ asked + 1 <= d + Wrap
    /\ DOMAIN log = d..asked /\ log = [c \in DOMAIN log |-> log[c]]
    /\ \A c \in d..asked : PacketOK(pk[c], c) /\ LogOK(log[c], pk[c])
    /\ current # NoPacket => d = asked /\ current = pk[d] /\ current.how = "synch"
                             /\ pendings = Nothing
    /\ current = NoPacket =>
          /\ DOMAIN pendings = Residues(d, asked)
          /\ \A c \in d..asked : pendings[c % Wrap] = pk[c] /\ pk[c].how = "asynch"

\* Of these the session has read those before u, has answered those before the one
\* in its header, and the streams hold what is on its way, in order.
StreamsOK(d, u, pk, rest) ==
    /\ u \in d..(asked + 1)
    /\ Joined(rest, Requests(pk, u), u, asked)
    /\ Joined(down, Replies(pk, d, Answered(u)), d, Answered(u))
    /\ header = NoHeader => up = rest
    /\ header # NoHeader => d < u /\ pk[u - 1].fn \in DOMAIN stubTable.names
                            /\ header = HeaderOf(pk[u - 1])
                            /\ ArgumentsThen(up, pk[u - 1], rest)
    /\ \A c \in d..Answered(u) : AnswerOK(log[c], pk[c])
    /\ \A c \in (Answered(u) + 1)..asked : log[c].ran = "nothing"

\* The ids that the client has learnt are those of the functions.
IdsOK ==
    /\ DOMAIN callId \subseteq Functions /\ callId \in [DOMAIN callId -> Nat]
    /\ \A f \in DOMAIN callId : callId[f] # 0 =>
          f \in DOMAIN stubTable.names /\ callId[f] = stubId[stubTable.names[f]]

ScalarsOK ==
    /\ mem \in [Vars -> Values]
    /\ asked \in 0..MaxCalls
    /\ sequenceId = asked % Wrap
    /\ session \in {"running", "ended"}
    /\ server # "serving" => asked = 0 /\ \A f \in DOMAIN callId : callId[f] = 0

\* pk has the packets of the calls d .. asked; those from u on have not been read,
\* and rest is what holds their requests.
View(d, u, pk, rest) ==
    /\ RegistrationOK
    /\ IdsOK
    /\ ScalarsOK
    /\ CallsOK(d, pk)
    /\ StreamsOK(d, u, pk, rest)

IInv == \E d, u, pk, rest : View(d, u, pk, rest)
-----------------------------------------------------------------------------
(* Numbers and places                                                        *)

\* There is a number, and no more calls are in flight than there are numbers.
LEMMA WrapPositive == Wrap \in Nat \ {0} /\ MaxPending \in Nat /\ MaxPending <= Wrap /\ MaxCalls \in Nat
BY NumbersAssumption

\* Of calls whose numbers are in one round, each has its own.
LEMMA NumbersApart ==
    ASSUME NEW first \in Nat, NEW last \in Nat, last < first + Wrap,
           NEW b \in first..last, NEW c \in first..last, b % Wrap = c % Wrap
    PROVE  b = c
<1>1. CASE b <= c
  <2>1. b \in Nat /\ c \in Nat /\ c < b + Wrap
    BY WrapPositive
  <2> QED
    BY <1>1, <2>1, ModSame, WrapPositive
<1>2. CASE c <= b
  <2>1. b \in Nat /\ c \in Nat /\ b < c + Wrap
    BY WrapPositive
  <2> QED
    BY <1>2, <2>1, ModSame, WrapPositive
<1> QED
  BY <1>1, <1>2

\* There are as many numbers as calls.
LEMMA ResiduesCard ==
    ASSUME NEW first \in Nat, NEW last \in Nat, last < first + Wrap
    PROVE  /\ IsFiniteSet(Residues(first, last))
           /\ Cardinality(Residues(first, last)) = Cardinality(first..last)
           /\ Cardinality(first..last) = IF first <= last THEN last - first + 1 ELSE 0
<1> DEFINE f == [c \in first..last |-> c % Wrap]
<1>1. f \in Bijection(first..last, Residues(first, last))
  <2>1. f \in [first..last -> Residues(first, last)]
    BY DEF Residues
  <2>2. \A b, c \in first..last : f[b] = f[c] => b = c
    BY NumbersApart
  <2>3. \A r \in Residues(first, last) : \E c \in first..last : f[c] = r
    BY DEF Residues
  <2> HIDE DEF f
  <2> QED
    BY <2>1, <2>2, <2>3 DEF Bijection, Injection, Surjection, IsInjective
<1>2. ExistsBijection(first..last, Residues(first, last))
  BY <1>1 DEF ExistsBijection
<1>3. /\ IsFiniteSet(first..last)
      /\ Cardinality(first..last) = IF first <= last THEN last - first + 1 ELSE 0
  <2>1. first \in Int /\ last \in Int
    OBVIOUS
  <2>2. /\ IsFiniteSet(first..last)
        /\ Cardinality(first..last) = IF first > last THEN 0 ELSE last - first + 1
    BY <2>1, FS_Interval
  <2> QED
    BY <2>1, <2>2
<1> QED
  BY <1>2, <1>3, FS_Bijection

\* One call more.
LEMMA ResiduesWith ==
    ASSUME NEW first \in Nat, NEW last \in Nat, first <= last + 1, last + 1 < first + Wrap
    PROVE  /\ Residues(first, last + 1) = Residues(first, last) \cup {(last + 1) % Wrap}
           /\ (last + 1) % Wrap \notin Residues(first, last)
<1>1. \A c : c \in first..(last + 1) <=> c \in first..last \/ c = last + 1
  OBVIOUS
<1>2. ASSUME NEW c \in first..last, c % Wrap = (last + 1) % Wrap PROVE FALSE
  <2>1. c \in first..(last + 1) /\ last + 1 \in first..(last + 1) /\ last + 1 \in Nat
    OBVIOUS
  <2>2. c = last + 1
    BY <2>1, <1>2, NumbersApart
  <2> QED
    BY <2>2
<1> QED
  BY <1>1, <1>2 DEF Residues

\* One call less.
LEMMA ResiduesWithout ==
    ASSUME NEW first \in Nat, NEW last \in Nat, first <= last, last < first + Wrap
    PROVE  /\ Residues(first + 1, last) = Residues(first, last) \ {first % Wrap}
           /\ first % Wrap \in Residues(first, last)
<1>1. \A c : c \in first..last <=> c \in (first + 1)..last \/ c = first
  OBVIOUS
<1>2. ASSUME NEW c \in (first + 1)..last, c % Wrap = first % Wrap PROVE FALSE
  <2>1. c \in first..last /\ first \in first..last
    OBVIOUS
  <2>2. c = first
    BY <2>1, <1>2, NumbersApart
  <2> QED
    BY <2>2
<1> QED
  BY <1>1, <1>2 DEF Residues

\* The arguments that travel, as they are written.
LEMMA SaveParts ==
    ASSUME NEW vals, NEW n \in Nat, NEW order \in Seq(1..n),
           \A k \in 1..Len(order) : vals[order[k]] \in Values \cup {"unread"}
    PROVE  /\ Save(vals, order) \in Seq(Parts) /\ Len(Save(vals, order)) = Len(order)
           /\ \A k \in 1..Len(order) : Save(vals, order)[k] = Part("arg", vals[order[k]])
<1> DEFINE t == Save(vals, order)
           l == Len(order)
<1>1. l \in Nat /\ DOMAIN order = 1..l
  OBVIOUS
<1>2. t = [k \in 1..l |-> [is |-> "arg", v |-> vals[order[k]]]]
  BY <1>1 DEF Save
<1>3. \A k \in 1..l : [is |-> "arg", v |-> vals[order[k]]] \in Parts
  BY DEF Parts, PartValues, Kinds
<1>4. t \in [1..l -> Parts]
  <2> HIDE DEF t, l
  <2> QED
    BY <1>2, <1>3
<1>5. t \in Seq(Parts) /\ Len(t) = l
  <2> HIDE DEF t, l
  <2> QED
    BY <1>1, <1>4
<1>6. \A k \in 1..l : t[k] = Part("arg", vals[order[k]])
  <2> HIDE DEF t, l
  <2> QED
    BY <1>2 DEF Part
<1> QED
  BY <1>5, <1>6

\* The places whose arguments travel.
LEMMA TravellingPlaces ==
    ASSUME NEW f \in Functions, NEW dirs
    PROVE  LET order == Travelling(Params[f], dirs) IN
           /\ Len(Params[f]) \in Nat /\ DOMAIN Params[f] = 1..Len(Params[f])
           /\ order \in Seq(1..Len(Params[f])) /\ Len(order) \in Nat
           /\ \A k \in 1..Len(order) : order[k] \in Where(f, dirs) /\ order[k] \in DOMAIN Params[f]
           /\ \A j, k \in 1..Len(order) : j < k => order[j] < order[k]
           /\ \A i \in Where(f, dirs) : \E k \in 1..Len(order) : order[k] = i
<1> DEFINE order == Travelling(Params[f], dirs)
<1>1. Params[f] \in Seq(Forms)
  BY ParamsAssumption
<1>2. Len(Params[f]) \in Nat /\ DOMAIN Params[f] = 1..Len(Params[f])
  BY <1>1
<1>3. Lists(order, Params[f], dirs, Len(Params[f]))
  BY <1>1, TravellingLists
<1> HIDE DEF order
<1>4. order \in Seq(1..Len(Params[f])) /\ Len(order) \in Nat
  BY <1>3 DEF Lists
<1>5. \A k \in 1..Len(order) : order[k] \in DOMAIN Params[f]
  BY <1>2, <1>4, ElementOfSeq
<1>6. \A i \in DOMAIN Params[f] : Direction(Params[f][i]) \in dirs <=> \E k \in 1..Len(order) : order[k] = i
  BY <1>2, <1>3 DEF Lists
<1>7. \A k \in 1..Len(order) : order[k] \in Where(f, dirs)
  BY <1>5, <1>6 DEF Where
<1>8. \A i \in Where(f, dirs) : \E k \in 1..Len(order) : order[k] = i
  BY <1>6 DEF Where
<1>9. \A j, k \in 1..Len(order) : j < k => order[j] < order[k]
  BY <1>3 DEF Lists
<1> QED
  BY <1>2, <1>4, <1>5, <1>7, <1>8, <1>9 DEF order
-----------------------------------------------------------------------------
(* What is written: requests and replies                                     *)

\* The values that travel.
Carried(vals, f, dirs) == \A i \in Where(f, dirs) : vals[i] \in Values \cup {"unread"}

\* m is the request of the packet p.
HeaderLen(p) == IF p.byid THEN 3 ELSE 4
IsRequest(m, p) ==
    LET order == Travelling(Params[p.fn], ClientSaves)  n == HeaderLen(p) + 1 IN
    /\ m \in Seq(Parts) /\ Len(m) = n + Len(order)
    /\ m[1] = SeqId(p.seqid, p.call)
    /\ p.byid => m[2] = Part("callid", callId[p.fn]) /\ m[3] = Part("how", p.how)
    /\ ~p.byid => m[2] = Part("callid", 0) /\ m[3] = Part("name", p.fn) /\ m[4] = Part("how", p.how)
    /\ m[n] = Part("self", p.fn)
    /\ \A k \in 1..Len(order) : m[n + k] = Part("arg", p.vals[order[k]])

\* m is the reply to the packet p of a function that left the values w.
IsReply(m, p, w) ==
    LET order == Travelling(Params[p.fn], ServerSaves) IN
    /\ m \in Seq(Parts) /\ Len(m) = 2 + Len(order) + (IF p.byid THEN 0 ELSE 1)
    /\ m[1] = SeqId(p.seqid, p.call) /\ m[2] = Part("retv", p.call)
    /\ \A k \in 1..Len(order) : m[2 + k] = Part("arg", w[order[k]])
    /\ ~p.byid => m[3 + Len(order)] = Part("callid", stubId[stubTable.names[p.fn]])

\* What Request writes.
LEMMA RequestParts ==
    ASSUME NEW p \in Packets, callId[p.fn] \in Nat, Carried(p.vals, p.fn, ClientSaves)
    PROVE  IsRequest(Request(p), p)
<1> DEFINE order == Travelling(Params[p.fn], ClientSaves)
           a == <<SeqId(p.seqid, p.call)>>
           b == IF p.byid THEN <<Part("callid", callId[p.fn])>>
                          ELSE <<Part("callid", 0), Part("name", p.fn)>>
           c == <<Part("how", p.how), Part("self", p.fn)>>
           d == Save(p.vals, order)
           n == HeaderLen(p) + 1
<1>1. p.fn \in Functions /\ p.byid \in BOOLEAN
  BY DEF Packets
<1>2. order \in Seq(1..Len(Params[p.fn])) /\ Len(order) \in Nat /\ Len(Params[p.fn]) \in Nat
      /\ \A k \in 1..Len(order) : order[k] \in Where(p.fn, ClientSaves)
  BY <1>1, TravellingPlaces
<1>3. \A k \in 1..Len(order) : p.vals[order[k]] \in Values \cup {"unread"}
  <2> HIDE DEF order
  <2> QED
    BY <1>2 DEF Carried
<1>4. /\ d \in Seq(Parts) /\ Len(d) = Len(order)
      /\ \A k \in 1..Len(order) : d[k] = Part("arg", p.vals[order[k]])
  <2> HIDE DEF order
  <2> QED
    BY <1>2, <1>3, SaveParts
<1>5. SeqId(p.seqid, p.call) \in Parts
  BY DEF Parts, SeqId, Packets
<1>6. /\ Part("callid", 0) \in Parts /\ Part("name", p.fn) \in Parts
      /\ Part("how", p.how) \in Parts /\ Part("self", p.fn) \in Parts
      /\ Part("callid", callId[p.fn]) \in Parts
  BY <1>1 DEF Parts, PartValues, Part, Kinds, Packets
<1>7. a \in Seq(Parts) /\ Len(a) = 1 /\ a[1] = SeqId(p.seqid, p.call)
  BY <1>5
<1>8. /\ b \in Seq(Parts) /\ Len(b) = n - 3
      /\ p.byid => b[1] = Part("callid", callId[p.fn])
      /\ ~p.byid => b[1] = Part("callid", 0) /\ b[2] = Part("name", p.fn)
  BY <1>1, <1>6 DEF HeaderLen
<1>9. /\ c \in Seq(Parts) /\ Len(c) = 2
      /\ c[1] = Part("how", p.how) /\ c[2] = Part("self", p.fn)
  BY <1>6
<1>10. Request(p) = a \o b \o c \o d
  BY DEF Request
<1>11. n \in {4, 5} /\ (p.byid => n = 4) /\ (~p.byid => n = 5)
  BY <1>1 DEF HeaderLen
<1> HIDE DEF a, b, c, d, order
<1> DEFINE s == a \o b
           t == s \o c
           m == t \o d
<1>12. Followed(Parts, s, a, b) /\ s \in Seq(Parts)
  BY <1>7, <1>8, ConcatFollowed
<1>13. Followed(Parts, t, s, c) /\ t \in Seq(Parts)
  BY <1>9, <1>12, ConcatFollowed
<1>14. Followed(Parts, m, t, d)
  BY <1>4, <1>13, ConcatFollowed
<1>15. Request(p) = m
  BY <1>10
<1> HIDE DEF s, t, m, n
<1>16. /\ Len(s) = n - 2 /\ s[1] = SeqId(p.seqid, p.call)
       /\ p.byid => s[2] = Part("callid", callId[p.fn])
       /\ ~p.byid => s[2] = Part("callid", 0) /\ s[3] = Part("name", p.fn)
  <2>1. /\ Len(s) = 1 + (n - 3)
        /\ \A i \in 1..1 : s[i] = a[i]
        /\ \A j \in 1..(n - 3) : s[1 + j] = b[j]
    BY <1>7, <1>8, <1>12 DEF Followed
  <2>2. Len(s) = n - 2 /\ s[1] = a[1] /\ s[1 + 1] = b[1]
    BY <1>11, <2>1
  <2>3. ~p.byid => s[1 + 2] = b[2]
    BY <1>11, <2>1
  <2> QED
    BY <1>7, <1>8, <2>2, <2>3
<1>17. /\ Len(t) = n
       /\ \A i \in 1..(n - 2) : t[i] = s[i]
       /\ t[n - 1] = Part("how", p.how) /\ t[n] = Part("self", p.fn)
  <2>1. /\ Len(t) = (n - 2) + 2
        /\ \A i \in 1..(n - 2) : t[i] = s[i]
        /\ \A j \in 1..2 : t[(n - 2) + j] = c[j]
    BY <1>9, <1>13, <1>16 DEF Followed
  <2>2. t[(n - 2) + 1] = c[1] /\ t[(n - 2) + 2] = c[2] /\ (n - 2) + 1 = n - 1 /\ (n - 2) + 2 = n
    BY <1>11, <2>1
  <2> QED
    BY <1>9, <2>1, <2>2
<1>18. /\ m \in Seq(Parts) /\ Len(m) = n + Len(order)
       /\ \A i \in 1..n : m[i] = t[i]
       /\ \A k \in 1..Len(order) : m[n + k] = d[k]
  BY <1>4, <1>14, <1>17 DEF Followed
<1>19. m[1] = SeqId(p.seqid, p.call) /\ m[n] = Part("self", p.fn) /\ m[n - 1] = Part("how", p.how)
  BY <1>11, <1>16, <1>17, <1>18
<1>20. p.byid => m[2] = Part("callid", callId[p.fn]) /\ m[3] = Part("how", p.how)
  <2> SUFFICES ASSUME p.byid PROVE m[2] = Part("callid", callId[p.fn]) /\ m[3] = Part("how", p.how)
    OBVIOUS
  <2>1. n = 4
    BY <1>11
  <2>2. m[2] = t[2] /\ t[2] = s[2]
    BY <2>1, <1>17, <1>18
  <2> QED
    BY <2>1, <2>2, <1>16, <1>19
<1>21. ~p.byid => m[2] = Part("callid", 0) /\ m[3] = Part("name", p.fn) /\ m[4] = Part("how", p.how)
  <2> SUFFICES ASSUME ~p.byid
               PROVE m[2] = Part("callid", 0) /\ m[3] = Part("name", p.fn) /\ m[4] = Part("how", p.how)
    OBVIOUS
  <2>1. n = 5
    BY <1>11
  <2>2. m[2] = t[2] /\ t[2] = s[2] /\ m[3] = t[3] /\ t[3] = s[3]
    BY <2>1, <1>17, <1>18
  <2> QED
    BY <2>1, <2>2, <1>16, <1>19
<1>22. IsRequest(m, p)
  <2> HIDE DEF m
  <2> QED
    BY <1>4, <1>18, <1>19, <1>20, <1>21 DEF IsRequest, order, n
<1> QED
  BY <1>15, <1>22

\* What do_send_args writes.
LEMMA ReplyParts ==
    ASSUME NEW p \in Packets, NEW w, Carried(w, p.fn, ServerSaves),
           FullName[stubTable.names[p.fn]] = p.fn, stubId[stubTable.names[p.fn]] \in Nat
    PROVE  IsReply(ReplyOf(p, w), p, w)
<1> DEFINE order == Travelling(Params[p.fn], ServerSaves)
           id == stubId[stubTable.names[p.fn]]
           a == <<SeqId(p.seqid, p.call), Part("retv", p.call)>>
           b == Save(w, order)
           c == IF p.byid THEN <<>> ELSE <<Part("callid", id)>>
<1>1. p.fn \in Functions /\ p.byid \in BOOLEAN
  BY DEF Packets
<1>2. order \in Seq(1..Len(Params[p.fn])) /\ Len(order) \in Nat /\ Len(Params[p.fn]) \in Nat
      /\ \A k \in 1..Len(order) : order[k] \in Where(p.fn, ServerSaves)
  BY <1>1, TravellingPlaces
<1>3. \A k \in 1..Len(order) : w[order[k]] \in Values \cup {"unread"}
  <2> HIDE DEF order
  <2> QED
    BY <1>2 DEF Carried
<1>4. /\ b \in Seq(Parts) /\ Len(b) = Len(order)
      /\ \A k \in 1..Len(order) : b[k] = Part("arg", w[order[k]])
  <2> HIDE DEF order
  <2> QED
    BY <1>2, <1>3, SaveParts
<1>5. SeqId(p.seqid, p.call) \in Parts /\ Part("retv", p.call) \in Parts /\ Part("callid", id) \in Parts
  BY DEF Parts, SeqId, Packets, PartValues, Part, Kinds
<1>6. a \in Seq(Parts) /\ Len(a) = 2 /\ a[1] = SeqId(p.seqid, p.call) /\ a[2] = Part("retv", p.call)
  BY <1>5
<1>7. /\ c \in Seq(Parts) /\ Len(c) = IF p.byid THEN 0 ELSE 1
      /\ ~p.byid => c[1] = Part("callid", id)
  BY <1>1, <1>5
<1>8. ReplyOf(p, w) = a \o b \o c
  <2> DEFINE h == HeaderOf(p)
  <2>1. h.seqid = p.seqid /\ h.call = p.call /\ h.stub = stubTable.names[p.fn] /\ h.isbyid = p.byid
    BY DEF HeaderOf
  <2>2. ReplyOf(p, w) = Reply(h, w)
    BY DEF ReplyOf
  <2> HIDE DEF h
  <2> QED
    BY <2>1, <2>2 DEF Reply
<1> HIDE DEF a, b, c, order, id
<1> DEFINE s == a \o b
           m == s \o c
<1>9. Followed(Parts, s, a, b) /\ s \in Seq(Parts)
  BY <1>4, <1>6, ConcatFollowed
<1>10. Followed(Parts, m, s, c)
  BY <1>7, <1>9, ConcatFollowed
<1>11. ReplyOf(p, w) = m
  BY <1>8
<1> HIDE DEF s, m
<1>12. /\ Len(s) = 2 + Len(order)
       /\ \A i \in 1..2 : s[i] = a[i]
       /\ \A k \in 1..Len(order) : s[2 + k] = b[k]
  BY <1>4, <1>6, <1>9 DEF Followed
<1>13. /\ m \in Seq(Parts) /\ Len(m) = 2 + Len(order) + (IF p.byid THEN 0 ELSE 1)
       /\ \A i \in 1..(2 + Len(order)) : m[i] = s[i]
       /\ \A j \in 1..(IF p.byid THEN 0 ELSE 1) : m[2 + Len(order) + j] = c[j]
  BY <1>7, <1>10, <1>12 DEF Followed
<1>14. m[1] = a[1] /\ m[2] = a[2]
  BY <1>2, <1>12, <1>13
<1>15. \A k \in 1..Len(order) : m[2 + k] = b[k]
  <2>1. ASSUME NEW k \in 1..Len(order) PROVE m[2 + k] = b[k]
    <3>1. 2 + k \in 1..(2 + Len(order))
      BY <1>2
    <3> QED
      BY <3>1, <1>12, <1>13
  <2> QED
    BY <2>1
<1>16. ~p.byid => m[3 + Len(order)] = c[1]
  <2> SUFFICES ASSUME ~p.byid PROVE m[3 + Len(order)] = c[1]
    OBVIOUS
  <2>1. 2 + Len(order) + 1 = 3 + Len(order)
    BY <1>2
  <2>2. m[2 + Len(order) + 1] = c[1]
    BY <1>13
  <2> QED
    BY <2>1, <2>2
<1> QED
  BY <1>4, <1>6, <1>7, <1>11, <1>13, <1>14, <1>15, <1>16 DEF IsReply, order, id

\* A request is a message.
LEMMA RequestMessage ==
    ASSUME NEW p \in Packets, NEW m, IsRequest(m, p)
    PROVE  Message(m, p.call)
<1> DEFINE order == Travelling(Params[p.fn], ClientSaves)
           n == HeaderLen(p) + 1
<1>1. Len(order) \in Nat
  <2>1. p.fn \in Functions
    BY DEF Packets
  <2> QED
    BY <2>1, TravellingPlaces
<1>2. n \in {4, 5} /\ (p.byid => n = 4) /\ (~p.byid => n = 5)
  BY DEF HeaderLen, Packets
<1>3. /\ m \in Seq(Parts) /\ Len(m) = n + Len(order)
      /\ m[1] = SeqId(p.seqid, p.call)
      /\ p.byid => m[2] = Part("callid", callId[p.fn]) /\ m[3] = Part("how", p.how)
      /\ ~p.byid => m[2] = Part("callid", 0) /\ m[3] = Part("name", p.fn) /\ m[4] = Part("how", p.how)
      /\ m[n] = Part("self", p.fn)
      /\ \A k \in 1..Len(order) : m[n + k] = Part("arg", p.vals[order[k]])
  BY DEF IsRequest
<1> HIDE DEF order, n
<1>4. m[1].is = "seqid" /\ m[1].call = p.call
  BY <1>3 DEF SeqId
<1>5. /\ p.byid => m[2].is = "callid" /\ m[3].is = "how"
      /\ ~p.byid => m[2].is = "callid" /\ m[3].is = "name" /\ m[4].is = "how"
      /\ m[n].is = "self"
  BY <1>3 DEF Part
<1>6. ASSUME NEW k \in 1..Len(order) PROVE m[n + k].is = "arg"
  <2>1. m[n + k] = Part("arg", p.vals[order[k]])
    BY <1>3
  <2> QED
    BY <2>1 DEF Part
<1>7. ASSUME NEW j \in 2..Len(m) PROVE m[j].is # "seqid"
  <2>1. CASE j > n
    <3>1. j - n \in 1..Len(order) /\ n + (j - n) = j
      BY <1>1, <1>2, <1>3, <2>1
    <3>2. m[n + (j - n)].is = "arg"
      BY <3>1, <1>6
    <3> QED
      BY <3>1, <3>2
  <2>2. CASE j <= n
    <3>1. CASE p.byid
      <4>1. j \in {2, 3, n}
        BY <1>2, <2>2, <3>1
      <4> QED
        BY <4>1, <3>1, <1>5
    <3>2. CASE ~p.byid
      <4>1. j \in {2, 3, 4, n}
        BY <1>2, <2>2, <3>2
      <4> QED
        BY <4>1, <3>2, <1>5
    <3> QED
      BY <3>1, <3>2
  <2> QED
    BY <2>1, <2>2, <1>2
<1> QED
  BY <1>1, <1>2, <1>3, <1>4, <1>7 DEF Message

\* A reply is a message.
LEMMA ReplyMessage ==
    ASSUME NEW p \in Packets, NEW m, NEW w, IsReply(m, p, w)
    PROVE  Message(m, p.call)
<1> DEFINE order == Travelling(Params[p.fn], ServerSaves)
           n == 2 + Len(order)
<1>1. Len(order) \in Nat
  <2>1. p.fn \in Functions
    BY DEF Packets
  <2> QED
    BY <2>1, TravellingPlaces
<1>2. /\ m \in Seq(Parts) /\ Len(m) = n + (IF p.byid THEN 0 ELSE 1)
      /\ m[1] = SeqId(p.seqid, p.call) /\ m[2] = Part("retv", p.call)
      /\ \A k \in 1..Len(order) : m[2 + k] = Part("arg", w[order[k]])
      /\ ~p.byid => m[3 + Len(order)] = Part("callid", stubId[stubTable.names[p.fn]])
  BY DEF IsReply
<1> HIDE DEF order
<1>3. m[1].is = "seqid" /\ m[1].call = p.call
  BY <1>2 DEF SeqId
<1>4. /\ m[2].is = "retv"
      /\ ~p.byid => m[3 + Len(order)].is = "callid"
  BY <1>2 DEF Part
<1>5. ASSUME NEW k \in 1..Len(order) PROVE m[2 + k].is = "arg"
  <2>1. m[2 + k] = Part("arg", w[order[k]])
    BY <1>2
  <2> QED
    BY <2>1 DEF Part
<1>6. ASSUME NEW j \in 2..Len(m) PROVE m[j].is # "seqid"
  <2>1. CASE j = 2
    BY <2>1, <1>4
  <2>2. CASE j > 2 /\ j <= n
    <3>1. j - 2 \in 1..Len(order) /\ 2 + (j - 2) = j
      BY <1>1, <2>2
    <3>2. m[2 + (j - 2)].is = "arg"
      BY <3>1, <1>5
    <3> QED
      BY <3>1, <3>2
  <2>3. CASE j > n
    <3>1. ~p.byid /\ j = 3 + Len(order)
      BY <1>1, <1>2, <2>3
    <3> QED
      BY <3>1, <1>4
  <2> QED
    BY <2>1, <2>2, <2>3, <1>1
<1>7. Len(m) # 0
  BY <1>1, <1>2
<1> QED
  BY <1>2, <1>3, <1>6, <1>7 DEF Message

\* As many arguments as are listed.
LEMMA ArgsAre ==
    ASSUME NEW n \in Nat, NEW order \in Seq(1..n)
    PROVE  /\ Args(order) \in Seq(Kinds) /\ Len(Args(order)) = Len(order)
           /\ \A k \in 1..Len(order) : Args(order)[k] = "arg"
<1> DEFINE t == Args(order)
           l == Len(order)
<1>1. l \in Nat /\ DOMAIN order = 1..l
  OBVIOUS
<1>2. t = [k \in 1..l |-> "arg"]
  BY <1>1 DEF Args
<1> HIDE DEF t, l
<1>3. t \in [1..l -> Kinds]
  BY <1>2 DEF Kinds
<1>4. t \in Seq(Kinds) /\ Len(t) = l
  BY <1>1, <1>3
<1> QED
  BY <1>2, <1>4 DEF t, l

\* What the session expects behind the header of a call of function f.
LEMMA ArgumentKindsAre ==
    ASSUME NEW f \in Functions, Running = f
    PROVE  LET order == Travelling(Params[f], ClientSaves) IN
           /\ Loaded = order /\ Len(ArgumentKinds) = 1 + Len(order)
           /\ DOMAIN ArgumentKinds = 1..(1 + Len(order))
           /\ ArgumentKinds[1] = "self" /\ \A k \in 1..Len(order) : ArgumentKinds[1 + k] = "arg"
<1> DEFINE order == Travelling(Params[f], ClientSaves)
           a == <<"self">>
           b == Args(order)
           t == a \o b
<1>1. order \in Seq(1..Len(Params[f])) /\ Len(order) \in Nat /\ Len(Params[f]) \in Nat
  BY TravellingPlaces
<1>2. Loaded = order
  BY DEF Loaded, ServerLoads, ClientSaves
<1>3. ArgumentKinds = t
  BY <1>2 DEF ArgumentKinds
<1> HIDE DEF order
<1>4. /\ b \in Seq(Kinds) /\ Len(b) = Len(order)
      /\ \A k \in 1..Len(order) : b[k] = "arg"
  BY <1>1, ArgsAre
<1>5. a \in Seq(Kinds) /\ Len(a) = 1 /\ a[1] = "self"
  BY DEF Kinds
<1> HIDE DEF a, b
<1>6. Followed(Kinds, t, a, b) /\ t \in Seq(Kinds)
  BY <1>4, <1>5, ConcatFollowed
<1> HIDE DEF t
<1>7. /\ Len(t) = 1 + Len(order)
      /\ \A i \in 1..1 : t[i] = a[i]
      /\ \A k \in 1..Len(order) : t[1 + k] = b[k]
  BY <1>4, <1>5, <1>6 DEF Followed
<1>8. t[1] = "self" /\ \A k \in 1..Len(order) : t[1 + k] = "arg"
  BY <1>4, <1>5, <1>7
<1>9. DOMAIN t = 1..Len(t)
  BY <1>6
<1> QED
  BY <1>2, <1>3, <1>7, <1>8, <1>9 DEF order

\* What the client expects of the reply to its packet p.
LEMMA ReplyKindsAre ==
    ASSUME NEW p \in Packets
    PROVE  LET order == Travelling(Params[p.fn], ServerSaves)  kinds == ReplyKinds(p) IN
           /\ Returned(p) = order /\ Len(kinds) = 2 + Len(order) + (IF p.byid THEN 0 ELSE 1)
           /\ DOMAIN kinds = 1..Len(kinds)
           /\ kinds[1] = "seqid" /\ kinds[2] = "retv"
           /\ \A k \in 1..Len(order) : kinds[2 + k] = "arg"
           /\ ~p.byid => kinds[3 + Len(order)] = "callid"
<1> DEFINE order == Travelling(Params[p.fn], ServerSaves)
           a == <<"seqid", "retv">>
           b == Args(order)
           c == IF p.byid THEN <<>> ELSE <<"callid">>
           s == a \o b
           t == s \o c
<1>1. p.fn \in Functions /\ p.byid \in BOOLEAN
  BY DEF Packets
<1>2. order \in Seq(1..Len(Params[p.fn])) /\ Len(order) \in Nat /\ Len(Params[p.fn]) \in Nat
  BY <1>1, TravellingPlaces
<1>3. Returned(p) = order
  BY DEF Returned, ServerSaves, ClientLoads
<1>4. ReplyKinds(p) = t
  BY <1>3 DEF ReplyKinds
<1> HIDE DEF order
<1>5. /\ b \in Seq(Kinds) /\ Len(b) = Len(order)
      /\ \A k \in 1..Len(order) : b[k] = "arg"
  BY <1>2, ArgsAre
<1>6. a \in Seq(Kinds) /\ Len(a) = 2 /\ a[1] = "seqid" /\ a[2] = "retv"
  BY DEF Kinds
<1>7. /\ c \in Seq(Kinds) /\ Len(c) = IF p.byid THEN 0 ELSE 1
      /\ ~p.byid => c[1] = "callid"
  <2>1. "callid" \in Kinds
    BY DEF Kinds
  <2>2. CASE p.byid
    BY <1>1, <2>2, EmptySeq
  <2>3. CASE ~p.byid
    BY <1>1, <2>1, <2>3
  <2> QED
    BY <2>2, <2>3
<1> HIDE DEF a, b, c
<1>8. Followed(Kinds, s, a, b) /\ s \in Seq(Kinds)
  BY <1>5, <1>6, ConcatFollowed
<1> HIDE DEF s
<1>9. Followed(Kinds, t, s, c) /\ t \in Seq(Kinds)
  BY <1>7, <1>8, ConcatFollowed
<1> HIDE DEF t
<1>10. /\ Len(s) = 2 + Len(order)
       /\ \A i \in 1..2 : s[i] = a[i]
       /\ \A k \in 1..Len(order) : s[2 + k] = b[k]
  BY <1>5, <1>6, <1>8 DEF Followed
<1>11. /\ Len(t) = 2 + Len(order) + (IF p.byid THEN 0 ELSE 1)
       /\ \A i \in 1..(2 + Len(order)) : t[i] = s[i]
       /\ \A j \in 1..(IF p.byid THEN 0 ELSE 1) : t[2 + Len(order) + j] = c[j]
  BY <1>7, <1>9, <1>10 DEF Followed
<1>12. t[1] = "seqid" /\ t[2] = "retv"
  BY <1>2, <1>6, <1>10, <1>11
<1>13. \A k \in 1..Len(order) : t[2 + k] = "arg"
  <2>1. ASSUME NEW k \in 1..Len(order) PROVE t[2 + k] = "arg"
    <3>1. 2 + k \in 1..(2 + Len(order))
      BY <1>2
    <3> QED
      BY <3>1, <1>5, <1>10, <1>11
  <2> QED
    BY <2>1
<1>14. ~p.byid => t[3 + Len(order)] = "callid"
  <2> SUFFICES ASSUME ~p.byid PROVE t[3 + Len(order)] = "callid"
    OBVIOUS
  <2>1. 2 + Len(order) + 1 = 3 + Len(order)
    BY <1>2
  <2>2. t[2 + Len(order) + 1] = "callid"
    BY <1>7, <1>11
  <2> QED
    BY <2>1, <2>2
<1>15. DOMAIN t = 1..Len(t)
  BY <1>9
<1> QED
  BY <1>3, <1>4, <1>11, <1>12, <1>13, <1>14, <1>15 DEF order
-----------------------------------------------------------------------------
(* What the invariant says of the streams                                    *)

\* A name in the table leads to its stub, and so does the id of that stub.
LEMMA NamesLead ==
    ASSUME RegistrationOK, NEW f \in DOMAIN stubTable.names
    PROVE  LET s == stubTable.names[f] IN
           /\ s \in Stubs /\ FullName[s] = f /\ stubId[s] \in Nat \ {0}
           /\ Ptr(stubTable, stubId[s]) = s /\ IsValid(stubTable.ids, stubId[s])
<1> DEFINE s == stubTable.names[f]
<1>1. StubsFound(stubTable, stubId)
  BY DEF RegistrationOK
<1>2. s \in Stubs /\ FullName[s] = f /\ stubId[s] # 0 /\ stubId[s] \in Nat
  BY <1>1 DEF StubsFound
<1> HIDE DEF s
<1>3. TableOK(stubTable) /\ stubId[s] \in InUse(stubTable) /\ Ptr(stubTable, stubId[s]) = s
  BY <1>1, <1>2 DEF StubsFound
<1>4. IsValid(stubTable.ids, stubId[s])
  BY <1>3, InUseValid
<1> QED
  BY <1>2, <1>3, <1>4 DEF s

\* The calls there are.
LEMMA ViewNumbers ==
    ASSUME NEW d, NEW u, NEW pk, NEW rest, View(d, u, pk, rest)
    PROVE  /\ d \in Nat \ {0} /\ u \in Nat \ {0} /\ asked \in Nat /\ Answered(u) \in Nat
           /\ d <= u /\ u <= asked + 1 /\ asked < d + Wrap
           /\ d <= Answered(u) + 1 /\ Answered(u) < u
           /\ header = NoHeader => Answered(u) = u - 1
           /\ header # NoHeader => Answered(u) = u - 2 /\ d < u /\ u - 1 \in d..asked
<1>1. d \in 1..(asked + 1) /\ u \in d..(asked + 1) /\ asked \in Nat /\ asked + 1 <= d + Wrap
      /\ (header # NoHeader => d < u)
  BY WrapPositive DEF View, CallsOK, StreamsOK, ScalarsOK
<1> QED
  BY <1>1, WrapPositive DEF Answered

\* Their packets and requests.
LEMMA ViewRequests ==
    ASSUME NEW d, NEW u, NEW pk, NEW rest, View(d, u, pk, rest), NEW c \in d..asked
    PROVE  /\ PacketOK(pk[c], c) /\ pk[c] \in Packets /\ LogOK(log[c], pk[c])
           /\ pk[c].fn \in Functions
           /\ IsRequest(Request(pk[c]), pk[c]) /\ Message(Request(pk[c]), c)
<1>1. PacketOK(pk[c], c) /\ LogOK(log[c], pk[c])
  BY DEF View, CallsOK
<1> DEFINE p == pk[c]
<1> HIDE DEF p
<1>2. PacketOK(p, c)
  BY <1>1 DEF p
<1>3. p \in Packets /\ p.call = c /\ p.fn \in DOMAIN callId /\ p.fn \in Functions
      /\ callId[p.fn] \in Nat
  BY <1>2 DEF PacketOK, View, IdsOK
<1>4. Carried(p.vals, p.fn, ClientSaves)
  BY <1>2 DEF PacketOK, Carried, Where
<1>5. IsRequest(Request(p), p)
  BY <1>3, <1>4, RequestParts
<1>6. Message(Request(p), c)
  BY <1>3, <1>5, RequestMessage
<1> QED
  BY <1>1, <1>3, <1>5, <1>6 DEF p

\* The replies to those that have been answered.
LEMMA ViewReplies ==
    ASSUME NEW d, NEW u, NEW pk, NEW rest, View(d, u, pk, rest), NEW c \in d..Answered(u)
    PROVE  /\ c \in d..asked /\ AnswerOK(log[c], pk[c])
           /\ IsReply(ReplyOf(pk[c], log[c].wrote), pk[c], log[c].wrote)
           /\ Message(ReplyOf(pk[c], log[c].wrote), c)
<1>1. c \in d..asked
  BY ViewNumbers
<1>2. AnswerOK(log[c], pk[c])
  BY DEF View, StreamsOK
<1> DEFINE p == pk[c]
           l == log[c]
<1>3. PacketOK(p, c) /\ p \in Packets
  BY <1>1, ViewRequests
<1> HIDE DEF p, l
<1>4. AnswerOK(l, p)
  BY <1>2 DEF p, l
<1>5. p.fn \in DOMAIN stubTable.names /\ p.call = c
  BY <1>3, <1>4 DEF AnswerOK, PacketOK
<1>6. FullName[stubTable.names[p.fn]] = p.fn /\ stubId[stubTable.names[p.fn]] \in Nat
  BY <1>5, NamesLead DEF View
<1>7. Carried(l.wrote, p.fn, ServerSaves)
  BY <1>4 DEF AnswerOK, Carried, Outputs, ServerSaves
<1>8. IsReply(ReplyOf(p, l.wrote), p, l.wrote)
  BY <1>3, <1>6, <1>7, ReplyParts
<1>9. Message(ReplyOf(p, l.wrote), c)
  BY <1>3, <1>5, <1>8, ReplyMessage
<1> QED
  BY <1>1, <1>2, <1>8, <1>9 DEF p, l

\* The header is that of the last request that has been read.
LEMMA ViewHeader ==
    ASSUME NEW d, NEW u, NEW pk, NEW rest, View(d, u, pk, rest), header # NoHeader
    PROVE  /\ u - 1 \in d..asked /\ Running = pk[u - 1].fn
           /\ header = HeaderOf(pk[u - 1]) /\ header.call = u - 1 /\ header.seqid = (u - 1) % Wrap
           /\ pk[u - 1].fn \in DOMAIN stubTable.names
           /\ ArgumentsThen(up, pk[u - 1], rest)
<1>1. u - 1 \in d..asked
  BY ViewNumbers
<1> DEFINE p == pk[u - 1]
<1>2. PacketOK(p, u - 1)
  BY <1>1, ViewRequests
<1>3. header = HeaderOf(p) /\ p.fn \in DOMAIN stubTable.names /\ ArgumentsThen(up, p, rest)
  BY DEF View, StreamsOK
<1> HIDE DEF p
<1>4. header.call = p.call /\ header.seqid = p.seqid /\ header.stub = stubTable.names[p.fn]
  BY <1>3 DEF HeaderOf
<1>5. Running = p.fn
  BY <1>3, <1>4, NamesLead DEF View, Running
<1>6. p.call = u - 1 /\ p.seqid = (u - 1) % Wrap
  BY <1>2 DEF PacketOK
<1> QED
  BY <1>1, <1>3, <1>4, <1>5, <1>6 DEF p

\* The message a stream begins with.
LEMMA JoinedHead ==
    ASSUME NEW s, NEW M, NEW first \in Nat, NEW last \in Nat, first <= last,
           Joined(s, M, first, last)
    PROVE  /\ s \in Seq(Parts) /\ s # <<>> /\ 1 \in Numbered(s)
           /\ MessageAt(s, 1, M[first]) /\ Message(M[first], first)
<1>1. first \in first..last
  OBVIOUS
<1>2. 1 \in Numbered(s) /\ s[1].call = first /\ MessageAt(s, 1, M[first])
      /\ Message(M[first], first) /\ s \in Seq(Parts)
  BY <1>1 DEF Joined, BeginsAt
<1>3. s # <<>>
  BY <1>2 DEF Numbered
<1> QED
  BY <1>2, <1>3

\* A stream carries the number of each of its calls once.
LEMMA JoinedNumbers ==
    ASSUME NEW s, NEW M, NEW first \in Nat, NEW last \in Nat, last < first + Wrap,
           Joined(s, M, first, last), \A c \in first..last : M[c][1].v = c % Wrap
    PROVE  Numbers(s) = Residues(first, last) /\ Distinct(s)
<1>1. \A i \in Numbered(s) : s[i].call \in first..last /\ s[i].v = s[i].call % Wrap
  <2>1. ASSUME NEW i \in Numbered(s)
        PROVE  s[i].call \in first..last /\ s[i].v = s[i].call % Wrap
    <3> DEFINE c == s[i].call
    <3>1. c \in first..last /\ MessageAt(s, i, M[c])
      BY DEF Joined, BeginsAt
    <3>2. Message(M[c], c)
      BY <3>1 DEF Joined
    <3> HIDE DEF c
    <3>3. 1 \in 1..Len(M[c])
      <4>1. Len(M[c]) \in Nat \ {0}
        BY <3>2 DEF Message
      <4> QED
        BY <4>1
    <3>4. s[i + 1 - 1] = M[c][1]
      BY <3>1, <3>3 DEF MessageAt
    <3>5. i + 1 - 1 = i
      <4>1. s \in Seq(Parts)
        BY DEF Joined
      <4>2. i \in 1..Len(s)
        BY <4>1 DEF Numbered
      <4> QED
        BY <4>2
    <3>6. s[i].v = c % Wrap
      BY <3>1, <3>4, <3>5
    <3> QED
      BY <3>1, <3>6 DEF c
  <2> QED
    BY <2>1
<1>2. \A c \in first..last : \E i \in Numbered(s) : s[i].call = c
  BY DEF Joined
<1>3. Numbers(s) = Residues(first, last)
  <2>1. \A r \in Numbers(s) : r \in Residues(first, last)
    BY <1>1 DEF Numbers, Residues
  <2>2. ASSUME NEW c \in first..last PROVE c % Wrap \in Numbers(s)
    <3>1. PICK i \in Numbered(s) : s[i].call = c
      BY <1>2
    <3>2. s[i].v = c % Wrap
      BY <3>1, <1>1
    <3> QED
      BY <3>2 DEF Numbers
  <2> QED
    BY <2>1, <2>2 DEF Residues
<1>4. ASSUME NEW i \in Numbered(s), NEW j \in Numbered(s), s[i].v = s[j].v PROVE i = j
  <2>1. s[i].call \in first..last /\ s[j].call \in first..last
        /\ s[i].call % Wrap = s[j].call % Wrap
    BY <1>1, <1>4
  <2>2. s[i].call = s[j].call
    BY <2>1, NumbersApart
  <2> QED
    BY <2>2 DEF Joined
<1> QED
  BY <1>3, <1>4 DEF Distinct

\* The arguments in front of a stream carry no number.
LEMMA ArgumentsNumbers ==
    ASSUME NEW s, NEW p \in Packets, NEW rest \in Seq(Parts), ArgumentsThen(s, p, rest), Distinct(rest)
    PROVE  Numbers(s) = Numbers(rest) /\ Distinct(s)
<1> DEFINE order == Travelling(Params[p.fn], ClientSaves)
           n == 1 + Len(order)
<1>1. Len(order) \in Nat
  <2>1. p.fn \in Functions
    BY DEF Packets
  <2> QED
    BY <2>1, TravellingPlaces
<1>2. /\ s \in Seq(Parts) /\ Len(s) = n + Len(rest)
      /\ s[1] = Part("self", p.fn)
      /\ \A k \in 1..Len(order) : s[1 + k] = Part("arg", p.vals[order[k]])
      /\ \A j \in 1..Len(rest) : s[n + j] = rest[j]
  BY DEF ArgumentsThen
<1> HIDE DEF order
<1>3. Len(rest) \in Nat /\ DOMAIN s = 1..Len(s) /\ DOMAIN rest = 1..Len(rest) /\ n \in Nat
  BY <1>1, <1>2
<1>4. ASSUME NEW i \in 1..n PROVE s[i].is # "seqid"
  <2>1. CASE i = 1
    BY <2>1, <1>2 DEF Part
  <2>2. CASE i # 1
    <3>1. i - 1 \in 1..Len(order) /\ 1 + (i - 1) = i
      BY <1>1, <2>2
    <3>2. s[1 + (i - 1)] = Part("arg", p.vals[order[i - 1]])
      BY <3>1, <1>2
    <3> QED
      BY <3>1, <3>2 DEF Part
  <2> QED
    BY <2>1, <2>2
<1> HIDE DEF n
<1>5. \A i \in Numbered(s) : i - n \in Numbered(rest) /\ s[i] = rest[i - n] /\ i \in Nat
  <2>1. ASSUME NEW i \in Numbered(s)
        PROVE  i - n \in Numbered(rest) /\ s[i] = rest[i - n] /\ i \in Nat
    <3>1. i \in 1..Len(s) /\ s[i].is = "seqid"
      BY <1>3 DEF Numbered
    <3>2. i - n \in 1..Len(rest) /\ n + (i - n) = i
      BY <3>1, <1>2, <1>3, <1>4
    <3>3. s[n + (i - n)] = rest[i - n]
      BY <3>2, <1>2
    <3> QED
      BY <3>1, <3>2, <3>3, <1>3 DEF Numbered
  <2> QED
    BY <2>1
<1>6. \A j \in Numbered(rest) : n + j \in Numbered(s) /\ s[n + j] = rest[j]
  <2>1. ASSUME NEW j \in Numbered(rest) PROVE n + j \in Numbered(s) /\ s[n + j] = rest[j]
    <3>1. j \in 1..Len(rest) /\ rest[j].is = "seqid"
      BY <1>3 DEF Numbered
    <3>2. n + j \in 1..Len(s) /\ s[n + j] = rest[j]
      BY <3>1, <1>2, <1>3
    <3> QED
      BY <3>1, <3>2, <1>3 DEF Numbered
  <2> QED
    BY <2>1
<1>7. Numbers(s) = Numbers(rest)
  <2>1. \A i \in Numbered(s) : s[i].v \in Numbers(rest)
    BY <1>5 DEF Numbers
  <2>2. ASSUME NEW j \in Numbered(rest) PROVE rest[j].v \in Numbers(s)
    <3>1. n + j \in Numbered(s) /\ s[n + j].v = rest[j].v
      BY <1>6
    <3> QED
      BY <3>1 DEF Numbers
  <2> QED
    BY <2>1, <2>2 DEF Numbers
<1>8. ASSUME NEW i \in Numbered(s), NEW j \in Numbered(s), s[i].v = s[j].v PROVE i = j
  <2>1. i - n \in Numbered(rest) /\ j - n \in Numbered(rest) /\ rest[i - n].v = rest[j - n].v
        /\ i \in Nat /\ j \in Nat
    BY <1>5, <1>8
  <2>2. i - n = j - n
    BY <2>1 DEF Distinct
  <2> QED
    BY <2>1, <2>2, <1>3
<1> QED
  BY <1>7, <1>8 DEF Distinct
-----------------------------------------------------------------------------
(* The invariant implies the properties                                      *)

\* Every part of the streams is one.
LEMMA ViewStreams ==
    ASSUME NEW d, NEW u, NEW pk, NEW rest, View(d, u, pk, rest)
    PROVE  up \in Seq(Parts) /\ down \in Seq(Parts) /\ rest \in Seq(Parts)
<1>1. rest \in Seq(Parts) /\ down \in Seq(Parts)
  BY DEF View, StreamsOK, Joined
<1>2. up \in Seq(Parts)
  BY <1>1 DEF View, StreamsOK, ArgumentsThen
<1> QED
  BY <1>1, <1>2

\* The invariant has the types in it,
LEMMA TypeHolds ==
    ASSUME IInv
    PROVE  TypeOK
<1>1. PICK d, u, pk, rest : View(d, u, pk, rest)
  BY DEF IInv
<1>2. d \in Nat \ {0} /\ asked \in Nat /\ asked < d + Wrap
  BY <1>1, ViewNumbers
<1>3. server \in {"registering", "serving", "thrown", "aborted"} /\ stubId \in [Stubs -> Nat]
  BY <1>1 DEF View, RegistrationOK, StubsFound
<1>4. DOMAIN callId \subseteq Functions /\ \A f \in DOMAIN callId : callId[f] \in Nat
  BY <1>1 DEF View, IdsOK
<1>5. mem \in [Vars -> Values] /\ asked \in 0..MaxCalls /\ session \in {"running", "ended"}
      /\ sequenceId = asked % Wrap
  BY <1>1 DEF View, ScalarsOK
<1>6. \A c \in Nat : c % Wrap \in 0..(Wrap - 1)
  BY WrapPositive, ModSucc
<1>7. DOMAIN pendings \subseteq 0..(Wrap - 1)
  <2>1. CASE current = NoPacket
    <3>1. DOMAIN pendings = Residues(d, asked)
      BY <1>1, <2>1 DEF View, CallsOK
    <3>2. \A c \in d..asked : c \in Nat
      BY <1>2
    <3> QED
      BY <3>1, <3>2, <1>6 DEF Residues
  <2>2. CASE current # NoPacket
    <3>1. pendings = Nothing
      BY <1>1, <2>2 DEF View, CallsOK
    <3> QED
      BY <3>1 DEF Nothing
  <2> QED
    BY <2>1, <2>2
<1>8. \A i \in DOMAIN up : up[i].is \in Kinds
  <2>1. up \in Seq(Parts)
    BY <1>1, ViewStreams
  <2>2. \A x \in Parts : x.is \in Kinds
    BY DEF Parts, Kinds
  <2> QED
    BY <2>1, <2>2, ElementOfSeq
<1>9. \A i \in DOMAIN down : down[i].is \in Kinds
  <2>1. down \in Seq(Parts)
    BY <1>1, ViewStreams
  <2>2. \A x \in Parts : x.is \in Kinds
    BY DEF Parts, Kinds
  <2> QED
    BY <2>1, <2>2, ElementOfSeq
<1>10. DOMAIN log \subseteq 1..MaxCalls
  <2>1. DOMAIN log = d..asked
    BY <1>1 DEF View, CallsOK
  <2> QED
    BY <2>1, <1>2, <1>5, WrapPositive
<1>11. sequenceId \in 0..(Wrap - 1)
  BY <1>2, <1>5, <1>6
<1> QED
  BY <1>3, <1>4, <1>5, <1>7, <1>8, <1>9, <1>10, <1>11 DEF TypeOK

\* The ids a client holds are those of the table: an id leads where its name does.
LEMMA IdsLead ==
    ASSUME IInv
    PROVE  CallIdsLead
<1>1. PICK d, u, pk, rest : View(d, u, pk, rest)
  BY DEF IInv
<1>2. RegistrationOK /\ IdsOK
  BY <1>1 DEF View
<1>3. \A s \in Stubs : stubId[s] # 0 =>
          Ptr(stubTable, stubId[s]) = s /\ stubTable.names[FullName[s]] = s
  BY <1>2 DEF RegistrationOK, StubsFound
<1>4. ASSUME server = "serving"
      PROVE  \A c \in Classes : Known(c) => \A i \in DOMAIN StubsOf[c] : stubId[StubsOf[c][i]] # 0
  BY <1>2, <1>4 DEF RegistrationOK
<1>5. ASSUME NEW f \in DOMAIN callId, callId[f] # 0
      PROVE  stubTable.ids.at[callId[f]] \in Stubs /\ FullName[stubTable.ids.at[callId[f]]] = f
  <2>1. f \in DOMAIN stubTable.names /\ callId[f] = stubId[stubTable.names[f]]
    BY <1>2, <1>5 DEF IdsOK
  <2>2. /\ stubTable.names[f] \in Stubs /\ FullName[stubTable.names[f]] = f
        /\ Ptr(stubTable, callId[f]) = stubTable.names[f]
    BY <1>2, <2>1, NamesLead
  <2> QED
    BY <2>2 DEF Ptr
<1> QED
  BY <1>3, <1>4, <1>5 DEF CallIdsLead

\* A request is what read_header expects.
LEMMA RequestFits ==
    ASSUME NEW s \in Seq(Parts), NEW p \in Packets, NEW m, IsRequest(m, p), MessageAt(s, 1, m),
           callId[p.fn] \in Nat, p.byid => callId[p.fn] # 0
    PROVE  /\ Fits(s, HeaderKinds(s)) /\ Len(HeaderKinds(s)) = HeaderLen(p)
           /\ s[1] = SeqId(p.seqid, p.call)
           /\ s[2].v = 0 <=> ~p.byid
           /\ p.byid => s[2].v = callId[p.fn]
           /\ ~p.byid => s[3].v = p.fn
<1> DEFINE order == Travelling(Params[p.fn], ClientSaves)
           n == HeaderLen(p) + 1
<1>1. Len(order) \in Nat
  <2>1. p.fn \in Functions
    BY DEF Packets
  <2> QED
    BY <2>1, TravellingPlaces
<1>2. n \in {4, 5} /\ (p.byid => n = 4) /\ (~p.byid => n = 5) /\ p.byid \in BOOLEAN
  BY DEF HeaderLen, Packets
<1>3. /\ Len(m) = n + Len(order)
      /\ m[1] = SeqId(p.seqid, p.call)
      /\ p.byid => m[2] = Part("callid", callId[p.fn]) /\ m[3] = Part("how", p.how)
      /\ ~p.byid => m[2] = Part("callid", 0) /\ m[3] = Part("name", p.fn) /\ m[4] = Part("how", p.how)
  BY DEF IsRequest
<1> HIDE DEF order, n
<1>4. Len(s) \in Nat /\ Len(m) <= Len(s) /\ \A j \in 1..Len(m) : s[j] = m[j]
  <2>1. Len(s) \in Nat /\ 1 + Len(m) - 1 <= Len(s) /\ \A j \in 1..Len(m) : s[1 + j - 1] = m[j]
    BY DEF MessageAt
  <2>2. ASSUME NEW j \in 1..Len(m) PROVE s[j] = m[j]
    <3>1. 1 + j - 1 = j
      BY <1>1, <1>2, <1>3
    <3> QED
      BY <2>1, <3>1
  <2> QED
    BY <2>1, <2>2, <1>1, <1>2, <1>3
<1>5. s[1] = m[1] /\ s[2] = m[2] /\ s[3] = m[3] /\ s[4] = m[4] /\ Len(s) >= n
  BY <1>1, <1>2, <1>3, <1>4
<1>6. CASE p.byid
  <2>1. /\ s[1] = SeqId(p.seqid, p.call) /\ s[2] = Part("callid", callId[p.fn])
        /\ s[3] = Part("how", p.how) /\ Len(s) >= 3 /\ HeaderLen(p) = 3
    BY <1>2, <1>3, <1>5, <1>6, <1>4 DEF HeaderLen
  <2>2. s[1].is = "seqid" /\ s[2].is = "callid" /\ s[2].v = callId[p.fn] /\ s[3].is = "how"
    BY <2>1 DEF SeqId, Part
  <2>3. HeaderKinds(s) = <<"seqid", "callid", "how">>
    BY <1>6, <2>2 DEF HeaderKinds
  <2>4. Fits(s, <<"seqid", "callid", "how">>)
    BY <2>1, <2>2, <1>4 DEF Fits
  <2> QED
    BY <1>6, <2>1, <2>2, <2>3, <2>4
<1>7. CASE ~p.byid
  <2>1. /\ s[1] = SeqId(p.seqid, p.call) /\ s[2] = Part("callid", 0) /\ s[3] = Part("name", p.fn)
        /\ s[4] = Part("how", p.how) /\ Len(s) >= 4 /\ HeaderLen(p) = 4
    BY <1>2, <1>3, <1>5, <1>7, <1>4 DEF HeaderLen
  <2>2. /\ s[1].is = "seqid" /\ s[2].is = "callid" /\ s[2].v = 0
        /\ s[3].is = "name" /\ s[3].v = p.fn /\ s[4].is = "how"
    BY <2>1 DEF SeqId, Part
  <2>3. HeaderKinds(s) = <<"seqid", "callid", "name", "how">>
    BY <2>1, <2>2, <1>4 DEF HeaderKinds
  <2>4. Fits(s, <<"seqid", "callid", "name", "how">>)
    BY <2>1, <2>2, <1>4 DEF Fits
  <2> QED
    BY <1>7, <2>1, <2>2, <2>3, <2>4
<1> QED
  BY <1>6, <1>7

\* The arguments behind a header are what the session expects.
LEMMA ArgumentsFit ==
    ASSUME NEW s, NEW p \in Packets, NEW rest \in Seq(Parts), ArgumentsThen(s, p, rest),
           Running = p.fn
    PROVE  Fits(s, ArgumentKinds)
<1> DEFINE order == Travelling(Params[p.fn], ClientSaves)
           kinds == ArgumentKinds
<1>1. p.fn \in Functions
  BY DEF Packets
<1>2. Len(order) \in Nat
  BY <1>1, TravellingPlaces
<1>3. /\ Len(kinds) = 1 + Len(order) /\ DOMAIN kinds = 1..(1 + Len(order))
      /\ kinds[1] = "self" /\ \A k \in 1..Len(order) : kinds[1 + k] = "arg"
  BY <1>1, ArgumentKindsAre
<1>4. /\ Len(s) = 1 + Len(order) + Len(rest) /\ Len(rest) \in Nat
      /\ s[1] = Part("self", p.fn)
      /\ \A k \in 1..Len(order) : s[1 + k] = Part("arg", p.vals[order[k]])
  BY DEF ArgumentsThen
<1> HIDE DEF order, kinds
<1>5. ASSUME NEW i \in DOMAIN kinds PROVE s[i].is = kinds[i]
  <2>1. CASE i = 1
    BY <2>1, <1>3, <1>4 DEF Part
  <2>2. CASE i # 1
    <3>1. i - 1 \in 1..Len(order) /\ 1 + (i - 1) = i
      BY <1>2, <1>3, <2>2
    <3>2. s[1 + (i - 1)] = Part("arg", p.vals[order[i - 1]]) /\ kinds[1 + (i - 1)] = "arg"
      BY <3>1, <1>3, <1>4
    <3> QED
      BY <3>1, <3>2 DEF Part
  <2> QED
    BY <2>1, <2>2
<1>6. Len(s) >= Len(kinds)
  BY <1>2, <1>3, <1>4
<1> QED
  BY <1>5, <1>6 DEF Fits, kinds

\* A reply is what the client expects.
LEMMA ReplyFits ==
    ASSUME NEW s \in Seq(Parts), NEW p \in Packets, NEW w, NEW m, IsReply(m, p, w),
           MessageAt(s, 1, m)
    PROVE  /\ Fits(s, ReplyKinds(p)) /\ Len(ReplyKinds(p)) = Len(m)
           /\ \A j \in 1..Len(m) : s[j] = m[j]
<1> DEFINE order == Travelling(Params[p.fn], ServerSaves)
           kinds == ReplyKinds(p)
<1>1. p.fn \in Functions /\ p.byid \in BOOLEAN
  BY DEF Packets
<1>2. Len(order) \in Nat
  BY <1>1, TravellingPlaces
<1>3. /\ Len(kinds) = 2 + Len(order) + (IF p.byid THEN 0 ELSE 1)
      /\ DOMAIN kinds = 1..Len(kinds)
      /\ kinds[1] = "seqid" /\ kinds[2] = "retv"
      /\ \A k \in 1..Len(order) : kinds[2 + k] = "arg"
      /\ ~p.byid => kinds[3 + Len(order)] = "callid"
  BY ReplyKindsAre
<1>4. /\ Len(m) = 2 + Len(order) + (IF p.byid THEN 0 ELSE 1)
      /\ m[1] = SeqId(p.seqid, p.call) /\ m[2] = Part("retv", p.call)
      /\ \A k \in 1..Len(order) : m[2 + k] = Part("arg", w[order[k]])
      /\ ~p.byid => m[3 + Len(order)] = Part("callid", stubId[stubTable.names[p.fn]])
  BY DEF IsReply
<1> HIDE DEF order, kinds
<1>5. Len(s) \in Nat /\ Len(m) <= Len(s) /\ \A j \in 1..Len(m) : s[j] = m[j]
  <2>1. Len(s) \in Nat /\ 1 + Len(m) - 1 <= Len(s) /\ \A j \in 1..Len(m) : s[1 + j - 1] = m[j]
    BY DEF MessageAt
  <2>2. ASSUME NEW j \in 1..Len(m) PROVE s[j] = m[j]
    <3>1. 1 + j - 1 = j
      OBVIOUS
    <3> QED
      BY <2>1, <3>1
  <2> QED
    BY <2>1, <2>2, <1>2, <1>4
<1>6. ASSUME NEW i \in DOMAIN kinds PROVE s[i].is = kinds[i]
  <2>0. i \in 1..Len(m) /\ s[i] = m[i]
    BY <1>3, <1>4, <1>5
  <2>1. CASE i = 1
    BY <2>0, <2>1, <1>3, <1>4 DEF SeqId
  <2>2. CASE i = 2
    BY <2>0, <2>2, <1>3, <1>4 DEF Part
  <2>3. CASE i > 2 /\ i <= 2 + Len(order)
    <3>1. i - 2 \in 1..Len(order) /\ 2 + (i - 2) = i
      BY <2>0, <1>2, <1>4, <2>3
    <3>2. m[2 + (i - 2)] = Part("arg", w[order[i - 2]]) /\ kinds[2 + (i - 2)] = "arg"
      BY <3>1, <1>3, <1>4
    <3> QED
      BY <2>0, <3>1, <3>2 DEF Part
  <2>4. CASE i > 2 + Len(order)
    <3>1. ~p.byid /\ i = 3 + Len(order)
      BY <1>2, <1>3, <2>4
    <3> QED
      BY <2>0, <3>1, <1>3, <1>4 DEF Part
  <2> QED
    BY <2>0, <2>1, <2>2, <2>3, <2>4, <1>2, <1>4
<1>7. Len(s) >= Len(kinds) /\ Len(kinds) = Len(m)
  BY <1>2, <1>3, <1>4, <1>5
<1> QED
  BY <1>5, <1>6, <1>7 DEF Fits, kinds

\* Each end finds at the head of its stream what it expects there: the session the
\* request of the first call it has not read, or the arguments behind the header; the
\* client the reply of the first call that is not over.
LEMMA FramedHolds ==
    ASSUME IInv
    PROVE  Framed
<1>1. PICK d, u, pk, rest : View(d, u, pk, rest)
  BY DEF IInv
<1>2. /\ d \in Nat \ {0} /\ u \in Nat \ {0} /\ asked \in Nat /\ Answered(u) \in Nat
      /\ d <= u /\ u <= asked + 1 /\ Answered(u) < u
  BY <1>1, ViewNumbers
<1>3. up \in Seq(Parts) /\ down \in Seq(Parts) /\ rest \in Seq(Parts)
  BY <1>1, ViewStreams
<1>4. ASSUME header = NoHeader, up # <<>> PROVE Fits(up, HeaderKinds(up))
  <2>1. up = rest /\ Joined(rest, Requests(pk, u), u, asked)
    BY <1>1, <1>4 DEF View, StreamsOK
  <2>2. u <= asked
    BY <1>2, <1>4, <2>1 DEF Joined
  <2>3. u \in d..asked /\ u \in u..asked
    BY <1>2, <2>2
  <2>4. MessageAt(up, 1, Request(pk[u]))
    <3>1. MessageAt(rest, 1, Requests(pk, u)[u])
      BY <1>2, <2>1, <2>2, JoinedHead
    <3> QED
      BY <2>1, <2>3, <3>1 DEF Requests
  <2>5. pk[u] \in Packets /\ PacketOK(pk[u], u) /\ IsRequest(Request(pk[u]), pk[u])
    BY <1>1, <2>3, ViewRequests
  <2>6. callId[pk[u].fn] \in Nat /\ (pk[u].byid => callId[pk[u].fn] # 0)
    BY <1>1, <2>5 DEF PacketOK, View, IdsOK
  <2> QED
    BY <1>3, <2>4, <2>5, <2>6, RequestFits
<1>5. ASSUME header # NoHeader PROVE Fits(up, ArgumentKinds)
  <2>1. /\ u - 1 \in d..asked /\ Running = pk[u - 1].fn
        /\ ArgumentsThen(up, pk[u - 1], rest)
    BY <1>1, <1>5, ViewHeader
  <2>2. pk[u - 1] \in Packets
    BY <1>1, <2>1, ViewRequests
  <2> QED
    BY <1>3, <2>1, <2>2, ArgumentsFit
<1>6. ASSUME down # <<>>
      PROVE  LET n == down[1].v IN
             /\ down[1].is = "seqid"
             /\ IF current # NoPacket THEN n = current.seqid /\ Fits(down, ReplyKinds(current))
                ELSE n \in DOMAIN pendings => Fits(down, ReplyKinds(pendings[n]))
  <2> DEFINE M == Replies(pk, d, Answered(u))
             p == pk[d]
             m == ReplyOf(p, log[d].wrote)
  <2>1. Joined(down, M, d, Answered(u))
    BY <1>1 DEF View, StreamsOK
  <2>2. d <= Answered(u)
    BY <1>2, <1>6, <2>1 DEF Joined
  <2>3. d \in d..Answered(u) /\ d \in d..asked
    BY <1>2, <2>2
  <2>4. 1 \in Numbered(down) /\ MessageAt(down, 1, M[d])
    BY <1>2, <2>1, <2>2, JoinedHead
  <2>5. M[d] = m
    BY <2>3 DEF Replies
  <2>6. PacketOK(p, d) /\ p \in Packets
    BY <1>1, <2>3, ViewRequests
  <2>7. IsReply(m, p, log[d].wrote) /\ Message(m, d)
    BY <1>1, <2>3, ViewReplies
  <2>8. MessageAt(down, 1, m)
    BY <2>4, <2>5
  <2>9. current # NoPacket => current = p
    BY <1>1 DEF View, CallsOK
  <2>10. current = NoPacket => pendings[d % Wrap] = p
    BY <1>1, <2>3 DEF View, CallsOK
  <2> HIDE DEF m, M, p
  <2>11. Fits(down, ReplyKinds(p)) /\ \A j \in 1..Len(m) : down[j] = m[j]
    BY <1>3, <2>6, <2>7, <2>8, ReplyFits
  <2>12. down[1] = SeqId(p.seqid, p.call)
    <3>1. 1 \in 1..Len(m)
      <4>1. Len(m) \in Nat \ {0}
        BY <2>7 DEF Message
      <4> QED
        BY <4>1
    <3>2. m[1] = SeqId(p.seqid, p.call)
      BY <2>7 DEF IsReply
    <3> QED
      BY <2>11, <3>1, <3>2
  <2>13. down[1].is = "seqid" /\ down[1].v = p.seqid /\ p.seqid = d % Wrap
    BY <2>6, <2>12 DEF SeqId, PacketOK
  <2> QED
    BY <2>9, <2>10, <2>11, <2>13
<1> QED
  BY <1>4, <1>5, <1>6 DEF Framed

\* The numbers that are on their way, and those that the client waits for.
LEMMA ViewInFlight ==
    ASSUME NEW d, NEW u, NEW pk, NEW rest, View(d, u, pk, rest)
    PROVE  /\ Numbers(up) = Residues(u, asked) /\ Distinct(up)
           /\ Numbers(down) = Residues(d, Answered(u)) /\ Distinct(down)
           /\ Served = Residues(Answered(u) + 1, u - 1)
           /\ Awaited = Residues(d, asked)
<1>1. /\ d \in Nat \ {0} /\ u \in Nat \ {0} /\ asked \in Nat /\ Answered(u) \in Nat
      /\ d <= u /\ u <= asked + 1 /\ Answered(u) < u /\ asked < d + Wrap
      /\ header = NoHeader => Answered(u) = u - 1
      /\ header # NoHeader => Answered(u) = u - 2
  BY ViewNumbers
<1>2. rest \in Seq(Parts)
  BY ViewStreams
<1>3. \A c \in u..asked : c \in d..asked
  BY <1>1
<1>4. \A c \in u..asked : Requests(pk, u)[c][1].v = c % Wrap
  <2>1. ASSUME NEW c \in u..asked PROVE Request(pk[c])[1].v = c % Wrap
    <3>1. IsRequest(Request(pk[c]), pk[c]) /\ PacketOK(pk[c], c)
      BY <1>3, ViewRequests
    <3>2. Request(pk[c])[1] = SeqId(pk[c].seqid, pk[c].call) /\ pk[c].seqid = c % Wrap
      BY <3>1 DEF IsRequest, PacketOK
    <3> QED
      BY <3>2 DEF SeqId
  <2>2. \A c \in u..asked : Requests(pk, u)[c] = Request(pk[c])
    BY DEF Requests
  <2> QED
    BY <2>1, <2>2
<1>5. Numbers(rest) = Residues(u, asked) /\ Distinct(rest)
  <2>1. Joined(rest, Requests(pk, u), u, asked) /\ asked < u + Wrap
    BY <1>1, WrapPositive DEF View, StreamsOK
  <2> QED
    BY <1>1, <1>4, <2>1, JoinedNumbers
<1>6. Numbers(up) = Residues(u, asked) /\ Distinct(up)
  <2>1. CASE header = NoHeader
    <3>1. up = rest
      BY <2>1 DEF View, StreamsOK
    <3> QED
      BY <1>5, <3>1
  <2>2. CASE header # NoHeader
    <3>1. u - 1 \in d..asked /\ ArgumentsThen(up, pk[u - 1], rest)
      BY <2>2, ViewHeader
    <3>2. pk[u - 1] \in Packets
      BY <3>1, ViewRequests
    <3> QED
      BY <1>2, <1>5, <3>1, <3>2, ArgumentsNumbers
  <2> QED
    BY <2>1, <2>2
<1>7. \A c \in d..Answered(u) : Replies(pk, d, Answered(u))[c][1].v = c % Wrap
  <2>1. ASSUME NEW c \in d..Answered(u) PROVE ReplyOf(pk[c], log[c].wrote)[1].v = c % Wrap
    <3>1. IsReply(ReplyOf(pk[c], log[c].wrote), pk[c], log[c].wrote) /\ c \in d..asked
      BY ViewReplies
    <3>2. PacketOK(pk[c], c)
      BY <3>1, ViewRequests
    <3>3. ReplyOf(pk[c], log[c].wrote)[1] = SeqId(pk[c].seqid, pk[c].call)
          /\ pk[c].seqid = c % Wrap
      BY <3>1, <3>2 DEF IsReply, PacketOK
    <3> QED
      BY <3>3 DEF SeqId
  <2>2. \A c \in d..Answered(u) : Replies(pk, d, Answered(u))[c] = ReplyOf(pk[c], log[c].wrote)
    BY DEF Replies
  <2> QED
    BY <2>1, <2>2
<1>8. Numbers(down) = Residues(d, Answered(u)) /\ Distinct(down)
  <2>1. Joined(down, Replies(pk, d, Answered(u)), d, Answered(u)) /\ Answered(u) < d + Wrap
    BY <1>1, WrapPositive DEF View, StreamsOK
  <2> QED
    BY <1>1, <1>7, <2>1, JoinedNumbers
<1>9. Served = Residues(Answered(u) + 1, u - 1)
  <2>1. CASE header = NoHeader
    <3>1. (Answered(u) + 1)..(u - 1) = {}
      BY <1>1, <2>1
    <3> QED
      BY <2>1, <3>1 DEF Served, Residues
  <2>2. CASE header # NoHeader
    <3>1. header.seqid = (u - 1) % Wrap
      BY <2>2, ViewHeader
    <3>2. (Answered(u) + 1)..(u - 1) = {u - 1}
      BY <1>1, <2>2
    <3> QED
      BY <2>2, <3>1, <3>2 DEF Served, Residues
  <2> QED
    BY <2>1, <2>2
<1>10. Awaited = Residues(d, asked)
  <2>1. CASE current = NoPacket
    <3>1. DOMAIN pendings = Residues(d, asked)
      BY <2>1 DEF View, CallsOK
    <3> QED
      BY <2>1, <3>1 DEF Awaited
  <2>2. CASE current # NoPacket
    <3>1. d = asked /\ current = pk[d] /\ DOMAIN pendings = {}
      BY <2>2 DEF View, CallsOK, Nothing
    <3>2. d \in d..asked
      BY <1>1, <3>1
    <3>5. PacketOK(pk[d], d)
      BY <3>2, ViewRequests
    <3>3. current.seqid = d % Wrap
      BY <3>1, <3>5 DEF PacketOK
    <3>4. d..asked = {d}
      BY <1>1, <3>1
    <3> QED
      BY <2>2, <3>1, <3>3, <3>4 DEF Awaited, Residues
  <2> QED
    BY <2>1, <2>2
<1> QED
  BY <1>6, <1>8, <1>9, <1>10

\* Calls of two disjoint ranges have disjoint numbers.
LEMMA ResiduesApart ==
    ASSUME NEW first \in Nat, NEW last \in Nat, last < first + Wrap,
           NEW i, NEW j, NEW k, NEW l, i..j \subseteq first..last, k..l \subseteq first..last,
           \A b \in i..j, c \in k..l : b # c
    PROVE  Residues(i, j) \cap Residues(k, l) = {}
<1>1. ASSUME NEW b \in i..j, NEW c \in k..l, b % Wrap = c % Wrap PROVE FALSE
  <2>1. b \in first..last /\ c \in first..last
    OBVIOUS
  <2>2. b = c
    BY <1>1, <2>1, NumbersApart
  <2> QED
    BY <2>2
<1> QED
  BY <1>1 DEF Residues

\* The numbers on their way are those of the calls that are not over, which are as
\* many as the log has records and which no two of them share.
LEMMA ExactHolds ==
    ASSUME IInv
    PROVE  InFlightExact
<1>1. PICK d, u, pk, rest : View(d, u, pk, rest)
  BY DEF IInv
<1>2. /\ d \in Nat \ {0} /\ u \in Nat \ {0} /\ asked \in Nat /\ Answered(u) \in Nat
      /\ d <= u /\ u <= asked + 1 /\ Answered(u) < u /\ asked < d + Wrap
      /\ d <= Answered(u) + 1
  BY <1>1, ViewNumbers
<1> DEFINE a == Answered(u)
<1>3. /\ Numbers(up) = Residues(u, asked) /\ Distinct(up)
      /\ Numbers(down) = Residues(d, a) /\ Distinct(down)
      /\ Served = Residues(a + 1, u - 1)
      /\ Awaited = Residues(d, asked)
  BY <1>1, ViewInFlight
<1> HIDE DEF a
<1>4. a \in Nat /\ a < u /\ d <= a + 1
  BY <1>2 DEF a
<1>5. /\ u..asked \subseteq d..asked /\ d..a \subseteq d..asked
      /\ (a + 1)..(u - 1) \subseteq d..asked
  BY <1>2, <1>4
<1>6. Numbers(up) \cap Numbers(down) = {}
  <2>1. \A b \in u..asked, c \in d..a : b # c
    BY <1>2, <1>4
  <2>2. Residues(u, asked) \cap Residues(d, a) = {}
    BY <1>2, <1>5, <2>1, ResiduesApart
  <2> QED
    BY <1>3, <2>2
<1>7. Served \cap Numbers(up) = {}
  <2>1. \A b \in (a + 1)..(u - 1), c \in u..asked : b # c
    BY <1>2, <1>4
  <2>2. Residues(a + 1, u - 1) \cap Residues(u, asked) = {}
    BY <1>2, <1>5, <2>1, ResiduesApart
  <2> QED
    BY <1>3, <2>2
<1>8. Served \cap Numbers(down) = {}
  <2>1. \A b \in (a + 1)..(u - 1), c \in d..a : b # c
    BY <1>2, <1>4
  <2>2. Residues(a + 1, u - 1) \cap Residues(d, a) = {}
    BY <1>2, <1>5, <2>1, ResiduesApart
  <2> QED
    BY <1>3, <2>2
<1>9. Awaited = InFlight
  <2>1. \A c : c \in d..asked <=> c \in d..a \/ c \in (a + 1)..(u - 1) \/ c \in u..asked
    BY <1>2, <1>4
  <2>2. Residues(d, asked) = Residues(u, asked) \cup Residues(a + 1, u - 1) \cup Residues(d, a)
    BY <2>1 DEF Residues
  <2> QED
    BY <1>3, <2>2 DEF InFlight
<1>10. Cardinality(DOMAIN log) = Cardinality(Awaited)
  <2>1. DOMAIN log = d..asked
    BY <1>1 DEF View, CallsOK
  <2>2. Cardinality(Residues(d, asked)) = Cardinality(d..asked)
    BY <1>2, ResiduesCard
  <2> QED
    BY <1>3, <2>1, <2>2
<1> QED
  BY <1>3, <1>6, <1>7, <1>8, <1>9, <1>10 DEF InFlightExact

\* What the log says a function ran on is what its packet took with it.
LEMMA ArriveHolds ==
    ASSUME IInv
    PROVE  ArgumentsArrive
<1>1. PICK d, u, pk, rest : View(d, u, pk, rest)
  BY DEF IInv
<1>2. /\ d \in Nat \ {0} /\ u \in Nat \ {0} /\ asked \in Nat /\ Answered(u) \in Nat
  BY <1>1, ViewNumbers
<1>3. ASSUME NEW c \in DOMAIN log, log[c].ran # "nothing"
      PROVE  /\ log[c].ran = log[c].fn
             /\ \A i \in DOMAIN log[c].passed :
                   log[c].seen[i] = IF i \in Where(log[c].fn, {"in", "inout", "remote"})
                                    THEN log[c].passed[i] ELSE "unread"
  <2>1. c \in d..asked
    BY <1>1 DEF View, CallsOK
  <2>2. c \notin (Answered(u) + 1)..asked
    BY <1>1, <1>3 DEF View, StreamsOK
  <2>3. c \in d..Answered(u)
    BY <1>2, <2>1, <2>2
  <2> DEFINE l == log[c]
             p == pk[c]
  <2>4. AnswerOK(l, p)
    BY <1>1, <2>3, ViewReplies
  <2>5. LogOK(l, p) /\ PacketOK(p, c)
    BY <1>1, <2>1, ViewRequests
  <2> HIDE DEF l, p
  <2>6. l.fn = p.fn /\ l.passed = p.vals /\ DOMAIN p.vals = DOMAIN Params[p.fn]
    BY <2>5 DEF LogOK, PacketOK
  <2>7. /\ l.ran = l.fn
        /\ \A i \in DOMAIN l.passed :
              l.seen[i] = IF i \in Where(l.fn, {"in", "inout", "remote"}) THEN l.passed[i] ELSE "unread"
    BY <2>4, <2>6 DEF AnswerOK, Inputs
  <2> QED
    BY <2>7 DEF l
<1> QED
  BY <1>3 DEF ArgumentsArrive
-----------------------------------------------------------------------------
(* Steps that leave the streams alone                                        *)

\* The client keeps the ids it knows.
IdsKept ==
    /\ DOMAIN callId \subseteq DOMAIN callId'
    /\ \A f \in DOMAIN callId : callId[f] # 0 => callId'[f] = callId[f]

\* A packet and its request stay what they were.
LEMMA PacketStays ==
    ASSUME NEW p, NEW c, PacketOK(p, c), IdsKept
    PROVE  PacketOK(p, c)' /\ Request(p)' = Request(p)
<1>1. p.fn \in DOMAIN callId /\ p.fn \in DOMAIN callId'
      /\ (p.byid => callId[p.fn] # 0 /\ callId'[p.fn] = callId[p.fn])
  BY DEF PacketOK, IdsKept
<1>2. PacketOK(p, c)'
  BY <1>1 DEF PacketOK
<1>3. Request(p)' = Request(p)
  BY <1>1 DEF Request
<1> QED
  BY <1>2, <1>3

\* So do the requests that have not been read,
LEMMA RequestsStay ==
    ASSUME NEW d, NEW u, NEW pk, NEW rest, View(d, u, pk, rest), IdsKept, asked' = asked
    PROVE  \A c \in d..asked : PacketOK(pk[c], c)' /\ Request(pk[c])' = Request(pk[c])
<1>1. ASSUME NEW c \in d..asked
      PROVE  PacketOK(pk[c], c)' /\ Request(pk[c])' = Request(pk[c])
  <2>1. PacketOK(pk[c], c)
    BY ViewRequests
  <2> QED
    BY <2>1, PacketStays
<1> QED
  BY <1>1

\* and what the server reads and answers.
LEMMA ReplyStays ==
    ASSUME NEW p, NEW w, UNCHANGED <<stubTable, stubId>>
    PROVE  HeaderOf(p)' = HeaderOf(p) /\ ReplyOf(p, w)' = ReplyOf(p, w)
BY DEF HeaderOf, ReplyOf, Reply

\* An answer stays one.
LEMMA AnswerStays ==
    ASSUME NEW l, NEW p, AnswerOK(l, p), UNCHANGED stubTable
    PROVE  AnswerOK(l, p)'
BY DEF AnswerOK

\* The calls that are not over stay what they were, in a step that starts or ends none,
LEMMA CallsStay ==
    ASSUME NEW d, NEW u, NEW pk, NEW rest, View(d, u, pk, rest), IdsKept,
           UNCHANGED <<asked, log, current, pendings>>
    PROVE  CallsOK(d, pk)'
<1>1. CallsOK(d, pk)
  BY DEF View
<1>2. \A c \in d..asked : PacketOK(pk[c], c)'
  BY RequestsStay
<1>3. \A c \in d..asked' : PacketOK(pk[c], c)' /\ LogOK(log[c], pk[c])'
  BY <1>1, <1>2 DEF CallsOK, LogOK
<1> QED
  BY <1>1, <1>3 DEF CallsOK

\* the streams, in a step that writes and reads none,
LEMMA StreamsStay ==
    ASSUME NEW d, NEW u, NEW pk, NEW rest, View(d, u, pk, rest), IdsKept,
           UNCHANGED <<asked, log, up, down, header, stubTable, stubId>>
    PROVE  StreamsOK(d, u, pk, rest)'
<1>1. StreamsOK(d, u, pk, rest)
  BY DEF View
<1>2. /\ d \in Nat /\ u \in Nat /\ asked \in Nat /\ Answered(u) \in Nat /\ d <= u
      /\ header # NoHeader => u - 1 \in d..asked
  BY ViewNumbers
<1>3. Answered(u)' = Answered(u)
  BY DEF Answered
<1>4. Joined(rest, Requests(pk, u)', u, asked)
  <2>1. \A c \in u..asked : c \in d..asked
    BY <1>2
  <2>2. \A c \in u..asked : Requests(pk, u)'[c] = Requests(pk, u)[c]
    BY <2>1, RequestsStay DEF Requests
  <2>3. Joined(rest, Requests(pk, u), u, asked)
    BY <1>1 DEF StreamsOK
  <2> QED
    BY <1>2, <2>2, <2>3, JoinedSame
<1>5. Joined(down, Replies(pk, d, Answered(u))', d, Answered(u))
  <2>1. \A c \in d..Answered(u) : Replies(pk, d, Answered(u))'[c] = Replies(pk, d, Answered(u))[c]
    BY <1>3, ReplyStays DEF Replies
  <2>2. Joined(down, Replies(pk, d, Answered(u)), d, Answered(u))
    BY <1>1 DEF StreamsOK
  <2> QED
    BY <1>2, <2>1, <2>2, JoinedSame
<1>6. \A c \in d..Answered(u) : AnswerOK(log[c], pk[c])'
  BY <1>1, AnswerStays DEF StreamsOK, AnswerOK
<1>7. header # NoHeader =>
         HeaderOf(pk[u - 1])' = HeaderOf(pk[u - 1])
  BY ReplyStays
<1>8. \A s, p, r : ArgumentsThen(s, p, r)' <=> ArgumentsThen(s, p, r)
  BY DEF ArgumentsThen
<1> QED
  BY <1>1, <1>3, <1>4, <1>5, <1>6, <1>7, <1>8 DEF StreamsOK

\* and the tables, in a step that registers nothing.
LEMMA RegistrationStays ==
    ASSUME RegistrationOK, UNCHANGED registration
    PROVE  RegistrationOK'
BY DEF RegistrationOK, FactoriesOK, StubsFound, Known, registration

\* A step that touches nothing of all this.
LEMMA ViewStays ==
    ASSUME IInv, UNCHANGED <<registration, callId, sequenceId, pendings, current, asked,
                             wireVars, header, log>>,
           mem' \in [Vars -> Values], session' \in {"running", "ended"}
    PROVE  IInv'
<1>1. PICK d, u, pk, rest : View(d, u, pk, rest)
  BY DEF IInv
<1>2. IdsKept
  BY DEF IdsKept
<1>3. RegistrationOK' /\ UNCHANGED <<stubTable, stubId, server>>
  BY <1>1, RegistrationStays DEF View, registration
<1>4. CallsOK(d, pk)' /\ StreamsOK(d, u, pk, rest)'
  BY <1>1, <1>2, <1>3, CallsStay, StreamsStay DEF wireVars
<1>5. IdsOK'
  BY <1>1, <1>3 DEF View, IdsOK
<1>6. ScalarsOK'
  BY <1>1, <1>3 DEF View, ScalarsOK
<1>7. View(d, u, pk, rest)'
  BY <1>3, <1>4, <1>5, <1>6 DEF View
<1> QED
  BY <1>7 DEF IInv

\* bind_client.
LEMMA BindStep ==
    ASSUME IInv, NEW c \in Classes, Bind(c)
    PROVE  IInv'
<1>1. PICK d, u, pk, rest : View(d, u, pk, rest)
  BY DEF IInv
<1>2. /\ callId' = Insert(callId, Declared(c), 0) /\ server = "serving"
      /\ UNCHANGED <<registration, sequenceId, pendings, current, mem, asked, wireVars,
                     sessionVars, log>>
  BY DEF Bind
<1>3. /\ DOMAIN callId' = DOMAIN callId \cup Declared(c)
      /\ \A f \in DOMAIN callId' : callId'[f] = IF f \in DOMAIN callId THEN callId[f] ELSE 0
      /\ callId' = [f \in DOMAIN callId' |-> callId'[f]]
  BY <1>2 DEF Insert
<1>4. IdsKept
  BY <1>3 DEF IdsKept
<1>5. RegistrationOK' /\ UNCHANGED <<stubTable, stubId, server>>
  BY <1>1, <1>2, RegistrationStays DEF View, registration
<1>6. CallsOK(d, pk)' /\ StreamsOK(d, u, pk, rest)'
  BY <1>1, <1>2, <1>4, <1>5, CallsStay, StreamsStay DEF wireVars, sessionVars
<1>7. IdsOK'
  <2>1. IdsOK
    BY <1>1 DEF View
  <2>2. Declared(c) \subseteq Functions
    BY ParamsAssumption
  <2>3. \A f \in DOMAIN callId' : callId'[f] \in Nat
    BY <1>3, <2>1 DEF IdsOK
  <2>4. callId' \in [DOMAIN callId' -> Nat]
    BY <1>3, <2>3
  <2>5. ASSUME NEW f \in DOMAIN callId', callId'[f] # 0
        PROVE  f \in DOMAIN stubTable' .names /\ callId'[f] = stubId'[stubTable' .names[f]]
    <3>1. f \in DOMAIN callId /\ callId'[f] = callId[f]
      BY <1>3, <2>5
    <3>2. f \in DOMAIN stubTable.names /\ callId[f] = stubId[stubTable.names[f]]
      BY <3>1, <2>1, <2>5 DEF IdsOK
    <3> QED
      BY <3>1, <3>2, <1>5
  <2>6. DOMAIN callId' \subseteq Functions
    BY <1>3, <2>1, <2>2 DEF IdsOK
  <2> QED
    BY <2>4, <2>5, <2>6 DEF IdsOK
<1>8. ScalarsOK'
  BY <1>1, <1>2, <1>5 DEF View, ScalarsOK, sessionVars
<1>9. View(d, u, pk, rest)'
  BY <1>5, <1>6, <1>7, <1>8 DEF View
<1> QED
  BY <1>9 DEF IInv

\* Before the server serves there are no calls.
LEMMA RegisterStep ==
    ASSUME IInv, Register, UNCHANGED <<clientVars, wireVars, sessionVars, log>>
    PROVE  IInv'
<1>1. PICK d, u, pk, rest : View(d, u, pk, rest)
  BY DEF IInv
<1>2. server = "registering"
  BY DEF Register, AutoCreate, AutoCreateClash, AutoCreateExisting, AddServant,
         AddServantClash, Start
<1>3. asked = 0 /\ \A f \in DOMAIN callId : callId[f] = 0
  BY <1>1, <1>2 DEF View, ScalarsOK
<1>4. d = 1 /\ u = 1 /\ header = NoHeader /\ Answered(u) = 0
  BY <1>1, <1>3, ViewNumbers
<1>5. UNCHANGED <<callId, sequenceId, pendings, current, mem, asked, up, down, session, header, log>>
  BY DEF clientVars, wireVars, sessionVars
<1>6. RegistrationOK'
  BY <1>1, RegistrationStep DEF View
<1>7. IdsOK' /\ ScalarsOK'
  BY <1>1, <1>3, <1>5 DEF View, IdsOK, ScalarsOK
<1>8. IdsKept
  BY <1>5 DEF IdsKept
<1>9. CallsOK(d, pk)'
  BY <1>1, <1>5, <1>8, CallsStay
<1>10. StreamsOK(d, u, pk, rest)'
  <2>1. StreamsOK(d, u, pk, rest)
    BY <1>1 DEF View
  <2>2. Answered(u)' = 0
    BY <1>4, <1>5 DEF Answered
  <2>3. Joined(rest, Requests(pk, u)', u, asked)
    <3>1. \A c \in u..asked : Requests(pk, u)'[c] = Requests(pk, u)[c]
      BY <1>3, <1>4
    <3>2. Joined(rest, Requests(pk, u), u, asked) /\ u \in Nat /\ asked \in Nat
      BY <1>3, <1>4, <2>1 DEF StreamsOK
    <3> QED
      BY <3>1, <3>2, JoinedSame
  <2>4. Joined(down, Replies(pk, d, Answered(u))', d, 0)
    <3>1. \A c \in d..0 : Replies(pk, d, Answered(u))'[c] = Replies(pk, d, Answered(u))[c]
      BY <1>4
    <3>2. Joined(down, Replies(pk, d, Answered(u)), d, 0) /\ d \in Nat /\ 0 \in Nat
      BY <1>4, <2>1 DEF StreamsOK
    <3> QED
      BY <3>1, <3>2, JoinedSame
  <2>5. \A c \in d..0 : FALSE
    BY <1>4
  <2>6. up' = rest /\ \A c \in 1..asked' : log'[c].ran = "nothing"
    BY <1>3, <1>4, <1>5, <2>1 DEF StreamsOK
  <2>7. (Answered(u) + 1)' = 1
    BY <2>2
  <2> QED
    BY <1>3, <1>4, <1>5, <2>2, <2>3, <2>4, <2>5, <2>6, <2>7 DEF StreamsOK
<1>11. View(d, u, pk, rest)'
  BY <1>6, <1>7, <1>9, <1>10 DEF View
<1> QED
  BY <1>11 DEF IInv
-----------------------------------------------------------------------------
(* The client calls                                                          *)

\* A request is written behind what the session has not read.
LEMMA ArgumentsThenMore ==
    ASSUME NEW s, NEW p \in Packets, NEW rest \in Seq(Parts), NEW m \in Seq(Parts),
           ArgumentsThen(s, p, rest)
    PROVE  ArgumentsThen(s \o m, p, rest \o m)
<1> DEFINE order == Travelling(Params[p.fn], ClientSaves)
           n == 1 + Len(order)
           t == s \o m
           r == rest \o m
<1>1. Len(order) \in Nat
  <2>1. p.fn \in Functions
    BY DEF Packets
  <2> QED
    BY <2>1, TravellingPlaces
<1>2. /\ s \in Seq(Parts) /\ Len(s) = n + Len(rest)
      /\ s[1] = Part("self", p.fn)
      /\ \A k \in 1..Len(order) : s[1 + k] = Part("arg", p.vals[order[k]])
      /\ \A j \in 1..Len(rest) : s[n + j] = rest[j]
  BY DEF ArgumentsThen
<1> HIDE DEF order
<1>3. Followed(Parts, t, s, m) /\ Followed(Parts, r, rest, m)
  BY <1>2, ConcatFollowed
<1> HIDE DEF t, r
<1>4. Len(rest) \in Nat /\ Len(m) \in Nat /\ n \in Nat
  BY <1>1
<1>5. /\ t \in Seq(Parts) /\ Len(t) = Len(s) + Len(m) /\ Len(r) = Len(rest) + Len(m)
      /\ \A i \in 1..Len(s) : t[i] = s[i]
      /\ \A j \in 1..Len(m) : t[Len(s) + j] = m[j]
      /\ \A i \in 1..Len(rest) : r[i] = rest[i]
      /\ \A j \in 1..Len(m) : r[Len(rest) + j] = m[j]
  BY <1>3 DEF Followed
<1>6. Len(t) = n + Len(r)
  BY <1>2, <1>4, <1>5
<1>7. t[1] = Part("self", p.fn)
  <2>1. 1 \in 1..Len(s)
    BY <1>1, <1>2, <1>4
  <2> QED
    BY <2>1, <1>2, <1>5
<1>8. ASSUME NEW k \in 1..Len(order) PROVE t[1 + k] = Part("arg", p.vals[order[k]])
  <2>1. 1 + k \in 1..Len(s)
    BY <1>1, <1>2, <1>4
  <2> QED
    BY <2>1, <1>2, <1>5
<1>9. ASSUME NEW j \in 1..Len(r) PROVE t[n + j] = r[j]
  <2>1. CASE j \in 1..Len(rest)
    <3>1. n + j \in 1..Len(s)
      BY <2>1, <1>2, <1>4
    <3> QED
      BY <2>1, <3>1, <1>2, <1>5
  <2>2. CASE j \notin 1..Len(rest)
    <3>1. /\ j - Len(rest) \in 1..Len(m) /\ Len(rest) + (j - Len(rest)) = j
          /\ Len(s) + (j - Len(rest)) = n + j
      BY <2>2, <1>2, <1>4, <1>5
    <3>2. t[Len(s) + (j - Len(rest))] = r[Len(rest) + (j - Len(rest))]
      BY <3>1, <1>5
    <3> QED
      BY <3>1, <3>2
  <2> QED
    BY <2>1, <2>2
<1>10. ArgumentsThen(t, p, r)
  BY <1>5, <1>6, <1>7, <1>8, <1>9 DEF ArgumentsThen, order
<1> QED
  BY <1>10 DEF t, r

\* The streams when the request of a new call has been written.
LEMMA StreamsSend ==
    ASSUME NEW d, NEW u, NEW pk, NEW rest, View(d, u, pk, rest),
           NEW p, PacketOK(p, asked + 1), Send(p),
           NEW q, \A c \in d..asked : q[c] = pk[c], q[asked + 1] = p,
           \A c \in d..asked : log'[c] = log[c], log'[asked + 1] = Sent(p)
    PROVE  StreamsOK(d, u, q, rest \o Request(p))'
<1> DEFINE a == Answered(u)
           r == rest \o Request(p)
<1>1. /\ d \in Nat \ {0} /\ u \in Nat \ {0} /\ asked \in Nat /\ a \in Nat
      /\ d <= u /\ u <= asked + 1 /\ a < u
      /\ header # NoHeader => u - 1 \in d..asked
  BY ViewNumbers
<1>2. /\ asked' = asked + 1 /\ up' = up \o Request(p)
      /\ UNCHANGED <<factory, stubTable, stubId, server, callId, mem, down, session, header>>
  BY DEF Send, registration, sessionVars
<1>3. IdsKept
  BY <1>2 DEF IdsKept
<1>4. Request(p)' = Request(p) /\ p \in Packets
  BY <1>3, PacketStays DEF PacketOK
<1>5. Message(Request(p), asked + 1)
  <2>1. callId[p.fn] \in Nat /\ p.call = asked + 1
    BY DEF PacketOK, View, IdsOK
  <2>2. Carried(p.vals, p.fn, ClientSaves)
    BY DEF PacketOK, Carried, Where
  <2>3. IsRequest(Request(p), p)
    BY <1>4, <2>1, <2>2, RequestParts
  <2> QED
    BY <1>4, <2>1, <2>3, RequestMessage
<1>6. StreamsOK(d, u, pk, rest) /\ rest \in Seq(Parts) /\ Request(p) \in Seq(Parts)
  BY <1>5, ViewStreams DEF View, Message
<1>7. \A c \in d..asked : Request(pk[c])' = Request(pk[c])
  <2>1. ASSUME NEW c \in d..asked PROVE Request(pk[c])' = Request(pk[c])
    <3>1. PacketOK(pk[c], c)
      BY ViewRequests
    <3> QED
      BY <3>1, <1>3, PacketStays
  <2> QED
    BY <2>1
<1>8. Answered(u)' = a
  BY <1>2 DEF Answered
<1>9. Joined(r, Requests(q, u)', u, asked + 1)
  <2> DEFINE M == Requests(pk, u)
             N == Requests(q, u)'
             m == Request(p)
  <2>1. \A c \in u..asked : N[c] = M[c]
    <3>1. ASSUME NEW c \in u..asked PROVE N[c] = M[c]
      <4>1. c \in d..asked /\ c \in u..asked'
        BY <1>1, <1>2
      <4>2. N[c] = Request(q[c])' /\ M[c] = Request(pk[c]) /\ q[c] = pk[c]
        BY <4>1 DEF Requests
      <4> QED
        BY <4>1, <4>2, <1>7
    <3> QED
      BY <3>1
  <2>2. N[asked + 1] = m
    <3>1. asked + 1 \in u..asked'
      BY <1>1, <1>2
    <3> QED
      BY <3>1, <1>4 DEF Requests
  <2>3. Joined(rest, M, u, asked)
    BY <1>6 DEF StreamsOK
  <2>4. Followed(Parts, r, rest, m)
    BY <1>6, ConcatFollowed
  <2> HIDE DEF M, N, m, r
  <2>5. Message(m, asked + 1)
    BY <1>5 DEF m
  <2> QED
    BY <1>1, <2>1, <2>2, <2>3, <2>4, <2>5, JoinedAppend DEF N
<1>10. Joined(down, Replies(q, d, a)', d, a)
  <2>1. \A c \in d..a : Replies(q, d, a)'[c] = Replies(pk, d, a)[c]
    <3>1. ASSUME NEW c \in d..a PROVE Replies(q, d, a)'[c] = Replies(pk, d, a)[c]
      <4>1. c \in d..asked /\ c \in d..a'
        BY <1>1, <1>8
      <4>2. q[c] = pk[c] /\ log'[c] = log[c]
        BY <4>1
      <4>3. /\ Replies(q, d, a)'[c] = ReplyOf(q[c], log[c].wrote)'
            /\ Replies(pk, d, a)[c] = ReplyOf(pk[c], log[c].wrote)
        BY <4>1 DEF Replies
      <4>4. ReplyOf(pk[c], log[c].wrote)' = ReplyOf(pk[c], log[c].wrote)
        BY <1>2, <4>2 DEF ReplyOf, HeaderOf, Reply
      <4> QED
        BY <4>2, <4>3, <4>4
    <3> QED
      BY <3>1
  <2>2. Joined(down, Replies(pk, d, a), d, a)
    BY <1>6 DEF StreamsOK
  <2> QED
    BY <1>1, <2>1, <2>2, JoinedSame
<1>11. header = NoHeader => up' = r
  BY <1>2, <1>6 DEF StreamsOK
<1>12. header # NoHeader => /\ d < u /\ q[u - 1].fn \in DOMAIN stubTable.names
                            /\ header = HeaderOf(q[u - 1])
                            /\ ArgumentsThen(up', q[u - 1], r)
  <2> SUFFICES ASSUME header # NoHeader
               PROVE  /\ d < u /\ q[u - 1].fn \in DOMAIN stubTable.names
                      /\ header = HeaderOf(q[u - 1])
                      /\ ArgumentsThen(up', q[u - 1], r)
    OBVIOUS
  <2>1. u - 1 \in d..asked /\ q[u - 1] = pk[u - 1]
    BY <1>1
  <2>2. /\ d < u /\ pk[u - 1].fn \in DOMAIN stubTable.names
        /\ header = HeaderOf(pk[u - 1])
        /\ ArgumentsThen(up, pk[u - 1], rest)
    BY <1>6 DEF StreamsOK
  <2>3. pk[u - 1] \in Packets
    BY <2>1, ViewRequests
  <2>4. ArgumentsThen(up \o Request(p), pk[u - 1], r)
    BY <1>6, <2>2, <2>3, ArgumentsThenMore
  <2> QED
    BY <1>2, <2>1, <2>2, <2>4
<1>13. \A c \in d..a : AnswerOK(log[c], q[c])'
  <2>1. ASSUME NEW c \in d..a PROVE AnswerOK(log[c], q[c])'
    <3>1. c \in d..asked
      BY <1>1
    <3>2. q[c] = pk[c] /\ log'[c] = log[c] /\ AnswerOK(log[c], pk[c])
      BY <3>1, <1>6 DEF StreamsOK
    <3> QED
      BY <3>2, <1>2 DEF AnswerOK
  <2> QED
    BY <2>1
<1>14. \A c \in (a + 1)..(asked + 1) : log'[c].ran = "nothing"
  <2>1. \A c \in (a + 1)..(asked + 1) : c \in (a + 1)..asked \/ c = asked + 1
    BY <1>1
  <2>2. \A c \in (a + 1)..asked : log[c].ran = "nothing" /\ log'[c] = log[c]
    <3>1. \A c \in (a + 1)..asked : c \in d..asked
      BY <1>1, ViewNumbers
    <3> QED
      BY <3>1, <1>6 DEF StreamsOK
  <2>3. log'[asked + 1].ran = "nothing"
    BY DEF Sent
  <2> QED
    BY <2>1, <2>2, <2>3
<1>15. \A t, s, x : (HeaderOf(s)' = HeaderOf(s)) /\ (ArgumentsThen(t, s, x)' <=> ArgumentsThen(t, s, x))
  BY <1>2 DEF HeaderOf, ArgumentsThen
<1>16. u \in d..(asked' + 1)
  BY <1>1, <1>2
<1>17. (rest \o Request(p))' = r
  BY <1>4
<1> QED
  BY <1>2, <1>8, <1>9, <1>10, <1>11, <1>12, <1>13, <1>14, <1>15, <1>16, <1>17 DEF StreamsOK

\* What a call that is sent leaves of the rest.
LEMMA SendKeeps ==
    ASSUME NEW d, NEW u, NEW pk, NEW rest, View(d, u, pk, rest), asked + 1 < d + Wrap,
           NEW p, PacketOK(p, asked + 1), Send(p),
           NEW q, \A c \in d..asked : q[c] = pk[c], q[asked + 1] = p
    PROVE  /\ RegistrationOK' /\ IdsOK' /\ ScalarsOK'
           /\ d \in 1..(asked' + 1) /\ asked' + 1 <= d + Wrap /\ asked' = asked + 1
           /\ DOMAIN log' = d..asked' /\ log' = [c \in DOMAIN log' |-> log'[c]]
           /\ \A c \in d..asked' : PacketOK(q[c], c)' /\ LogOK(log[c], q[c])'
           /\ \E r : StreamsOK(d, u, q, r)'
<1>1. d \in Nat \ {0} /\ asked \in Nat /\ d <= asked + 1
  BY ViewNumbers
<1>2. /\ asked' = asked + 1 /\ sequenceId' = NextSequenceId
      /\ asked < MaxCalls /\ server = "serving"
      /\ log' = Insert(log, {p.call}, Sent(p))
      /\ UNCHANGED <<registration, callId, mem, session>>
  BY DEF Send, sessionVars
<1>3. UNCHANGED <<factory, stubTable, stubId, server>>
  BY <1>2 DEF registration
<1>4. DOMAIN log = d..asked /\ p.call = asked + 1
  BY DEF View, CallsOK, PacketOK
<1>5. /\ DOMAIN log' = d..(asked + 1) /\ log' = [c \in DOMAIN log' |-> log'[c]]
      /\ \A c \in d..asked : log'[c] = log[c]
      /\ log'[asked + 1] = Sent(p)
  <2>1. \A c : c \in d..(asked + 1) <=> c \in d..asked \/ c = asked + 1
    BY <1>1
  <2>2. asked + 1 \notin d..asked
    BY <1>1
  <2>3. /\ DOMAIN log' = DOMAIN log \cup {asked + 1}
        /\ log' = [c \in DOMAIN log \cup {asked + 1} |-> IF c \in DOMAIN log THEN log[c] ELSE Sent(p)]
    BY <1>2, <1>4 DEF Insert
  <2>4. /\ \A c \in d..asked : log'[c] = log[c]
        /\ log'[asked + 1] = Sent(p)
    BY <1>4, <2>2, <2>3
  <2>5. DOMAIN log' = d..(asked + 1)
    BY <1>4, <2>1, <2>3
  <2>6. log' = [c \in DOMAIN log' |-> log'[c]]
    BY <2>3
  <2> QED
    BY <2>4, <2>5, <2>6
<1>6. IdsKept
  BY <1>2 DEF IdsKept
<1>7. ASSUME NEW c \in d..asked' PROVE PacketOK(q[c], c)' /\ LogOK(log[c], q[c])'
  <2>1. CASE c \in d..asked
    <3>1. q[c] = pk[c] /\ log'[c] = log[c] /\ PacketOK(pk[c], c) /\ LogOK(log[c], pk[c])
      BY <2>1, <1>5, ViewRequests
    <3>2. PacketOK(pk[c], c)'
      BY <3>1, <1>6, PacketStays
    <3>3. LogOK(log[c], pk[c])'
      BY <3>1 DEF LogOK
    <3> QED
      BY <3>1, <3>2, <3>3
  <2>2. CASE c = asked + 1
    <3>1. q[c] = p /\ log'[c] = Sent(p)
      BY <2>2, <1>5
    <3>2. PacketOK(p, c)'
      BY <2>2, <1>6, PacketStays
    <3>3. LogOK(log[c], p)'
      BY <3>1 DEF LogOK, Sent
    <3> QED
      BY <3>1, <3>2, <3>3
  <2> QED
    BY <2>1, <2>2, <1>1, <1>2
<1>8. StreamsOK(d, u, q, rest \o Request(p))'
  BY <1>5, StreamsSend
<1>9. RegistrationOK'
  BY <1>2, RegistrationStays DEF View
<1>10. IdsOK'
  BY <1>2, <1>3 DEF View, IdsOK
<1>11. ScalarsOK'
  <2>1. ScalarsOK
    BY DEF View
  <2>2. sequenceId' = asked' % Wrap
    BY <1>1, <1>2, <2>1, ModSucc, WrapPositive DEF ScalarsOK, NextSequenceId
  <2>3. asked' \in 0..MaxCalls
    BY <1>1, <1>2, WrapPositive
  <2> QED
    BY <1>2, <1>3, <2>1, <2>2, <2>3 DEF ScalarsOK
<1>12. \E r : StreamsOK(d, u, q, r)'
  BY <1>8
<1>13. d \in 1..(asked' + 1) /\ asked' + 1 <= d + Wrap
  BY <1>1, <1>2, WrapPositive
<1> QED
  BY <1>2, <1>5, <1>7, <1>9, <1>10, <1>11, <1>12, <1>13

\* A packet is made of what the program passes.
LEMMA PacketMade ==
    ASSUME IInv, NEW f \in DOMAIN callId, NEW args \in [DOMAIN Params[f] -> Vars],
           NEW how \in {"synch", "asynch"}, NEW byname \in BOOLEAN,
           NEW p, p = Packet(f, args, how, byname)
    PROVE  PacketOK(p, asked + 1) /\ p.how = how
<1>1. PICK d, u, pk, rest : View(d, u, pk, rest)
  BY DEF IInv
<1>2. IdsOK /\ ScalarsOK /\ asked \in Nat
  BY <1>1, ViewNumbers DEF View
<1> DEFINE n == NextSequenceId
           b == ~byname /\ callId[f] # 0
           by == HeldBy(how)
           vals == [i \in DOMAIN args |-> mem[args[i]]]
           c == asked + 1
<1>3. n = c % Wrap /\ n \in Nat /\ c \in Nat
  <2>1. n = ((asked % Wrap) + 1) % Wrap
    BY <1>2 DEF ScalarsOK, NextSequenceId
  <2>2. ((asked % Wrap) + 1) % Wrap = (asked + 1) % Wrap
    BY <1>2, ModSucc, WrapPositive
  <2>3. c \in Nat /\ c % Wrap \in 0..(Wrap - 1)
    BY <1>2, ModSucc, WrapPositive
  <2> QED
    BY <2>1, <2>2, <2>3
<1>4. f \in Functions /\ Params[f] \in Seq(Forms) /\ callId[f] \in Nat
  BY <1>2, ParamsAssumption DEF IdsOK
<1>5. DOMAIN Params[f] = 1..Len(Params[f]) /\ Len(Params[f]) \in Nat
  BY <1>4
<1>6. vals \in [DOMAIN Params[f] -> Values]
  <2>1. mem \in [Vars -> Values]
    BY <1>2 DEF ScalarsOK
  <2> QED
    BY <2>1
<1>7. args \in Seq(Vars) /\ vals \in Seq(Values)
  <2> HIDE DEF vals
  <2> QED
    BY <1>5, <1>6
<1>8. by \in {"reference", "value"}
  BY DEF HeldBy, AsyncPacket
<1>9. b \in BOOLEAN /\ (b => callId[f] # 0)
  OBVIOUS
<1>10. p = [fn |-> f, seqid |-> n, byid |-> b, how |-> how, by |-> by, args |-> args,
            vals |-> vals, call |-> c]
  BY DEF Packet
<1> HIDE DEF n, b, by, vals, c
<1>11. p \in Packets
  BY <1>3, <1>4, <1>7, <1>8, <1>9, <1>10 DEF Packets
<1>12. /\ p.call = c /\ p.seqid = c % Wrap /\ p.fn = f /\ p.byid = b /\ p.by = by
       /\ p.how = how /\ p.args = args /\ p.vals = vals
  BY <1>3, <1>10
<1> QED
  BY <1>6, <1>9, <1>11, <1>12 DEF PacketOK, by, c

\* A call that waits for its reply.
LEMMA CallSyncStep ==
    ASSUME IInv, NEW f \in DOMAIN callId, NEW args \in [DOMAIN Params[f] -> Vars],
           NEW byname \in BOOLEAN, CallSync(f, args, byname)
    PROVE  IInv'
<1>1. PICK d, u, pk, rest : View(d, u, pk, rest)
  BY DEF IInv
<1>2. PICK p : p = Packet(f, args, "synch", byname)
  OBVIOUS
<1>3. Send(p) /\ current' = p /\ pendings' = pendings /\ pendings = Nothing /\ current = NoPacket
  BY <1>2 DEF CallSync, Send
<1>4. PacketOK(p, asked + 1) /\ p.how = "synch"
  BY <1>2, PacketMade
<1>5. /\ d \in Nat \ {0} /\ u \in Nat \ {0} /\ asked \in Nat /\ d <= asked + 1
      /\ asked < d + Wrap
  BY <1>1, ViewNumbers
<1>6. d = asked + 1
  <2>1. Residues(d, asked) = {}
    BY <1>1, <1>3 DEF View, CallsOK, Nothing
  <2>2. d..asked = {}
    BY <2>1 DEF Residues
  <2>3. d \in d..asked \/ d > asked
    BY <1>5
  <2> QED
    BY <1>5, <2>2, <2>3
<1>7. asked + 1 < d + Wrap
  BY <1>5, <1>6, WrapPositive
<1> DEFINE q == [c \in d..(asked + 1) |-> IF c = asked + 1 THEN p ELSE pk[c]]
<1>8. (\A c \in d..asked : q[c] = pk[c]) /\ q[asked + 1] = p
  BY <1>5
<1> HIDE DEF q
<1>9. PICK q2 : q2 = q
  OBVIOUS
<1>10. (\A c \in d..asked : q2[c] = pk[c]) /\ q2[asked + 1] = p
  BY <1>8, <1>9
<1>11. /\ RegistrationOK' /\ IdsOK' /\ ScalarsOK'
       /\ d \in 1..(asked' + 1) /\ asked' + 1 <= d + Wrap /\ asked' = asked + 1
       /\ DOMAIN log' = d..asked' /\ log' = [c \in DOMAIN log' |-> log'[c]]
       /\ \A c \in d..asked' : PacketOK(q2[c], c)' /\ LogOK(log[c], q2[c])'
       /\ \E r : StreamsOK(d, u, q2, r)'
  BY <1>1, <1>3, <1>4, <1>7, <1>10, SendKeeps
<1>12. current' # NoPacket
  BY <1>3, <1>4, NoneAssumption DEF PacketOK
<1>13. d = asked' /\ current' = q2[d] /\ current'.how = "synch" /\ pendings' = Nothing
  BY <1>3, <1>4, <1>6, <1>10, <1>11
<1>14. CallsOK(d, q2)'
  BY <1>11, <1>12, <1>13 DEF CallsOK
<1>15. \E r : View(d, u, q2, r)'
  BY <1>11, <1>14 DEF View
<1> QED
  BY <1>15 DEF IInv

\* A call that goes on.
LEMMA CallAsyncStep ==
    ASSUME IInv, NEW f \in DOMAIN callId, NEW args \in [DOMAIN Params[f] -> Vars],
           NEW byname \in BOOLEAN, CallAsync(f, args, byname)
    PROVE  IInv'
<1>1. PICK d, u, pk, rest : View(d, u, pk, rest)
  BY DEF IInv
<1>2. PICK p : p = Packet(f, args, "asynch", byname)
  OBVIOUS
<1>3. /\ Send(p) /\ pendings' = Insert(pendings, {p.seqid}, p)
      /\ current' = current /\ current = NoPacket
      /\ Cardinality(DOMAIN pendings) < MaxPending
  BY <1>2 DEF CallAsync, Send
<1>4. PacketOK(p, asked + 1) /\ p.how = "asynch"
  BY <1>2, PacketMade
<1>5. /\ d \in Nat \ {0} /\ u \in Nat \ {0} /\ asked \in Nat /\ d <= asked + 1
      /\ asked < d + Wrap
  BY <1>1, ViewNumbers
<1>6. DOMAIN pendings = Residues(d, asked) /\ \A c \in d..asked : pendings[c % Wrap] = pk[c]
                                                                 /\ pk[c].how = "asynch"
  BY <1>1, <1>3 DEF View, CallsOK
<1>7. asked + 1 < d + Wrap
  <2>1. Cardinality(DOMAIN pendings) = IF d <= asked THEN asked - d + 1 ELSE 0
    BY <1>5, <1>6, ResiduesCard
  <2> QED
    BY <1>3, <1>5, <2>1, WrapPositive
<1> DEFINE q == [c \in d..(asked + 1) |-> IF c = asked + 1 THEN p ELSE pk[c]]
<1>8. (\A c \in d..asked : q[c] = pk[c]) /\ q[asked + 1] = p
  BY <1>5
<1> HIDE DEF q
<1>9. PICK q2 : q2 = q
  OBVIOUS
<1>10. (\A c \in d..asked : q2[c] = pk[c]) /\ q2[asked + 1] = p
  BY <1>8, <1>9
<1>11. /\ RegistrationOK' /\ IdsOK' /\ ScalarsOK'
       /\ d \in 1..(asked' + 1) /\ asked' + 1 <= d + Wrap /\ asked' = asked + 1
       /\ DOMAIN log' = d..asked' /\ log' = [c \in DOMAIN log' |-> log'[c]]
       /\ \A c \in d..asked' : PacketOK(q2[c], c)' /\ LogOK(log[c], q2[c])'
       /\ \E r : StreamsOK(d, u, q2, r)'
  BY <1>1, <1>3, <1>4, <1>7, <1>10, SendKeeps
<1>12. /\ Residues(d, asked + 1) = Residues(d, asked) \cup {(asked + 1) % Wrap}
       /\ (asked + 1) % Wrap \notin Residues(d, asked)
  BY <1>5, <1>7, ResiduesWith
<1>13. p.seqid = (asked + 1) % Wrap
  BY <1>4 DEF PacketOK
<1>14. /\ DOMAIN pendings' = Residues(d, asked')
       /\ \A n \in DOMAIN pendings : pendings'[n] = pendings[n]
       /\ pendings'[(asked + 1) % Wrap] = p
  <2>1. pendings' = [n \in DOMAIN pendings \cup {p.seqid} |->
                       IF n \in DOMAIN pendings THEN pendings[n] ELSE p]
    BY <1>3 DEF Insert
  <2>2. DOMAIN pendings' = DOMAIN pendings \cup {p.seqid}
    BY <2>1
  <2>3. p.seqid \notin DOMAIN pendings
    BY <1>6, <1>12, <1>13
  <2>4. pendings'[p.seqid] = p /\ \A n \in DOMAIN pendings : pendings'[n] = pendings[n]
    BY <2>1, <2>3
  <2> QED
    BY <1>6, <1>11, <1>12, <1>13, <2>2, <2>4
<1>15. ASSUME NEW c \in d..asked' PROVE pendings'[c % Wrap] = q2[c] /\ q2[c].how = "asynch"
  <2>1. CASE c \in d..asked
    <3>1. c % Wrap \in DOMAIN pendings
      BY <2>1, <1>6 DEF Residues
    <3> QED
      BY <2>1, <3>1, <1>6, <1>10, <1>14
  <2>2. CASE c = asked + 1
    BY <2>2, <1>4, <1>10, <1>14
  <2> QED
    BY <2>1, <2>2, <1>5, <1>11
<1>16. CallsOK(d, q2)'
  BY <1>3, <1>11, <1>14, <1>15 DEF CallsOK
<1>17. \E r : View(d, u, q2, r)'
  BY <1>11, <1>16 DEF View
<1> QED
  BY <1>17 DEF IInv
-----------------------------------------------------------------------------
(* The session reads and serves                                              *)

\* Behind the header of a request its arguments follow, and behind them the next.
LEMMA RequestRead ==
    ASSUME NEW s \in Seq(Parts), NEW p \in Packets, NEW m, IsRequest(m, p), MessageAt(s, 1, m),
           NEW t, Remains(t, s, HeaderLen(p)), NEW r, Remains(r, s, Len(m))
    PROVE  ArgumentsThen(t, p, r)
<1> DEFINE order == Travelling(Params[p.fn], ClientSaves)
           h == HeaderLen(p)
           n == h + 1
<1>1. Len(order) \in Nat
  <2>1. p.fn \in Functions
    BY DEF Packets
  <2> QED
    BY <2>1, TravellingPlaces
<1>2. h \in {3, 4}
  BY DEF HeaderLen, Packets
<1>3. /\ Len(m) = n + Len(order)
      /\ m[n] = Part("self", p.fn)
      /\ \A k \in 1..Len(order) : m[n + k] = Part("arg", p.vals[order[k]])
  BY DEF IsRequest
<1>4. PICK l : l = Len(m)
  OBVIOUS
<1>5. Remains(r, s, l)
  BY <1>4
<1>6. /\ t \in Seq(Parts) /\ Len(t) = Len(s) - h
      /\ \A i \in 1..Len(t) : t[i] = s[h + i]
  BY DEF Remains
<1>7. /\ r \in Seq(Parts) /\ Len(r) = Len(s) - l
      /\ \A i \in 1..Len(r) : r[i] = s[l + i]
  BY <1>5 DEF Remains
<1> HIDE DEF order, h
<1>8. l = n + Len(order) /\ Len(s) \in Nat /\ l <= Len(s) /\ l \in Nat
  <2>1. 1 + Len(m) - 1 <= Len(s)
    BY DEF MessageAt
  <2>2. l = n + Len(order) /\ 1 + l - 1 <= Len(s)
    BY <1>3, <1>4, <2>1
  <2> QED
    BY <1>1, <1>2, <2>2
<1>9. ASSUME NEW j \in 1..l PROVE s[j] = m[j]
  <2>1. s[1 + j - 1] = m[j]
    BY <1>4 DEF MessageAt
  <2>2. 1 + j - 1 = j
    BY <1>8
  <2> QED
    BY <2>1, <2>2
<1>10. Len(t) \in Nat /\ Len(r) \in Nat /\ Len(t) = 1 + Len(order) + Len(r)
  BY <1>1, <1>2, <1>6, <1>7, <1>8
<1>11. t[1] = Part("self", p.fn)
  <2>1. 1 \in 1..Len(t) /\ h + 1 \in 1..l
    BY <1>1, <1>2, <1>8, <1>10
  <2>2. t[1] = s[h + 1] /\ s[h + 1] = m[h + 1]
    BY <2>1, <1>6, <1>9
  <2> QED
    BY <2>2, <1>3
<1>12. ASSUME NEW k \in 1..Len(order) PROVE t[1 + k] = Part("arg", p.vals[order[k]])
  <2>1. 1 + k \in 1..Len(t) /\ h + (1 + k) = n + k /\ n + k \in 1..l
    BY <1>1, <1>2, <1>8, <1>10
  <2>2. t[1 + k] = s[h + (1 + k)] /\ s[n + k] = m[n + k]
    BY <2>1, <1>6, <1>9
  <2> QED
    BY <2>1, <2>2, <1>3
<1>13. ASSUME NEW j \in 1..Len(r) PROVE t[1 + Len(order) + j] = r[j]
  <2>1. 1 + Len(order) + j \in 1..Len(t) /\ h + (1 + Len(order) + j) = l + j
    BY <1>1, <1>2, <1>8, <1>10
  <2>2. t[1 + Len(order) + j] = s[h + (1 + Len(order) + j)] /\ r[j] = s[l + j]
    BY <2>1, <1>6, <1>7
  <2> QED
    BY <2>1, <2>2
<1> QED
  BY <1>6, <1>10, <1>11, <1>12, <1>13 DEF ArgumentsThen, order

\* The session reads a header.
LEMMA ReadHeaderStep ==
    ASSUME IInv, ReadHeader
    PROVE  IInv'
<1>1. PICK d, u, pk, rest : View(d, u, pk, rest)
  BY DEF IInv
<1>2. /\ header = NoHeader /\ up # <<>> /\ Registered
      /\ header' = [seqid |-> up[1].v, call |-> up[1].call, stub |-> Stub, isbyid |-> ~ByName]
      /\ up' = After(up, HeaderKinds(up))
      /\ UNCHANGED <<registration, clientVars, down, session, log>>
  BY DEF ReadHeader, ReadsHeader
<1>3. UNCHANGED <<factory, stubTable, stubId, server, callId, sequenceId, pendings, current, mem, asked>>
  BY <1>2 DEF registration, clientVars
<1>4. /\ d \in Nat \ {0} /\ u \in Nat \ {0} /\ asked \in Nat /\ Answered(u) = u - 1
      /\ d <= u /\ u <= asked + 1
  BY <1>1, <1>2, ViewNumbers
<1>5. up = rest /\ rest \in Seq(Parts) /\ Joined(rest, Requests(pk, u), u, asked)
  BY <1>1, <1>2, ViewStreams DEF View, StreamsOK
<1>6. u <= asked
  BY <1>2, <1>4, <1>5 DEF Joined
<1>7. u \in d..asked /\ u \in u..asked
  BY <1>4, <1>6
<1> DEFINE p == pk[u]
           m == Request(p)
<1>8. PacketOK(p, u) /\ p \in Packets /\ IsRequest(m, p) /\ Message(m, u)
  BY <1>1, <1>7, ViewRequests
<1>9. Requests(pk, u)[u] = m
  BY <1>7 DEF Requests
<1> HIDE DEF p, m
<1>10. MessageAt(rest, 1, m)
  <2>1. MessageAt(rest, 1, Requests(pk, u)[u])
    BY <1>4, <1>5, <1>6, JoinedHead
  <2> QED
    BY <1>9, <2>1
<1>11. callId[p.fn] \in Nat /\ (p.byid => callId[p.fn] # 0) /\ p.fn \in DOMAIN callId /\ p.byid \in BOOLEAN
  BY <1>1, <1>8 DEF PacketOK, View, IdsOK, Packets
<1>12. /\ Len(HeaderKinds(up)) = HeaderLen(p)
       /\ up[1] = SeqId(p.seqid, p.call)
       /\ up[2].v = 0 <=> ~p.byid
       /\ p.byid => up[2].v = callId[p.fn]
       /\ ~p.byid => up[3].v = p.fn
  BY <1>5, <1>8, <1>10, <1>11, RequestFits
<1>13. ByName <=> ~p.byid
  BY <1>12 DEF ByName
<1>14. p.fn \in DOMAIN stubTable.names /\ Stub = stubTable.names[p.fn]
  <2>1. CASE p.byid
    <3>1. p.fn \in DOMAIN stubTable.names /\ callId[p.fn] = stubId[stubTable.names[p.fn]]
      BY <1>1, <1>11, <2>1 DEF View, IdsOK
    <3>2. Ptr(stubTable, stubId[stubTable.names[p.fn]]) = stubTable.names[p.fn]
      BY <1>1, <3>1, NamesLead DEF View
    <3>3. Stub = Ptr(stubTable, callId[p.fn])
      BY <1>12, <1>13, <2>1 DEF Stub
    <3> QED
      BY <3>1, <3>2, <3>3
  <2>2. CASE ~p.byid
    <3>1. p.fn \in DOMAIN stubTable.names
      BY <1>2, <1>12, <1>13, <2>2 DEF Registered, HasName
    <3> QED
      BY <3>1, <1>12, <1>13, <2>2 DEF Stub
  <2> QED
    BY <2>1, <2>2
<1>15. header' = HeaderOf(p) /\ header' # NoHeader
  <2>1. up[1].v = p.seqid /\ up[1].call = p.call
    BY <1>12 DEF SeqId
  <2>2. (~ByName) = p.byid
    BY <1>11, <1>13 DEF ByName
  <2>3. header' = HeaderOf(p)
    BY <1>2, <1>14, <2>1, <2>2 DEF HeaderOf
  <2>4. stubTable.names[p.fn] \in Stubs
    BY <1>1, <1>14, NamesLead DEF View
  <2>5. p.seqid \in Nat /\ p.call \in Nat /\ p.byid \in BOOLEAN
    BY <1>8 DEF Packets
  <2>6. HeaderOf(p) \in Headers
    BY <2>4, <2>5 DEF HeaderOf, Headers
  <2> QED
    BY <2>3, <2>6, NoneAssumption
<1>16. Len(m) \in Nat /\ Len(m) <= Len(rest) /\ HeaderLen(p) \in Nat /\ HeaderLen(p) <= Len(m)
  <2>1. Len(m) \in Nat /\ 1 + Len(m) - 1 <= Len(rest) /\ Len(rest) \in Nat
    BY <1>5, <1>8, <1>10 DEF MessageAt, Message
  <2>2. Len(m) = HeaderLen(p) + 1 + Len(Travelling(Params[p.fn], ClientSaves))
    BY <1>8 DEF IsRequest
  <2>3. Len(Travelling(Params[p.fn], ClientSaves)) \in Nat
    <3>1. p.fn \in Functions
      BY <1>8 DEF Packets
    <3> QED
      BY <3>1, TravellingPlaces
  <2>4. HeaderLen(p) \in Nat
    BY DEF HeaderLen
  <2> QED
    BY <2>1, <2>2, <2>3, <2>4
<1>17. Remains(up', rest, HeaderLen(p))
  <2>1. up' = SubSeq(rest, HeaderLen(p) + 1, Len(rest))
    BY <1>2, <1>5, <1>12 DEF After
  <2>2. HeaderLen(p) <= Len(rest)
    BY <1>5, <1>16
  <2>3. Remains(SubSeq(rest, HeaderLen(p) + 1, Len(rest)), rest, HeaderLen(p))
    BY <1>5, <1>16, <2>2, SubSeqRemains
  <2> QED
    BY <2>1, <2>3
<1>18. PICK r : Remains(r, rest, Len(m))
  BY <1>5, <1>16, SubSeqRemains
<1>19. ArgumentsThen(up', p, r)
  <2>1. \A t : Remains(t, rest, HeaderLen(p)) => ArgumentsThen(t, p, r)
    BY <1>5, <1>8, <1>10, <1>18, RequestRead
  <2> QED
    BY <1>17, <2>1
<1>20. Joined(r, Requests(pk, u), u + 1, asked)
  <2>1. Remains(r, rest, Len(Requests(pk, u)[u]))
    BY <1>9, <1>18
  <2> QED
    BY <1>4, <1>5, <1>6, <2>1, JoinedAfter
<1>21. IdsKept
  BY <1>3 DEF IdsKept
<1>22. Joined(r, Requests(pk, u + 1)', u + 1, asked)
  <2>1. ASSUME NEW c \in (u + 1)..asked PROVE Requests(pk, u + 1)'[c] = Requests(pk, u)[c]
    <3>1. c \in u..asked /\ c \in d..asked /\ c \in (u + 1)..asked'
      BY <1>3, <1>4
    <3>2. Requests(pk, u + 1)'[c] = Request(pk[c])' /\ Requests(pk, u)[c] = Request(pk[c])
      BY <3>1 DEF Requests
    <3>3. Request(pk[c])' = Request(pk[c])
      BY <1>1, <1>3, <1>21, <3>1, RequestsStay
    <3> QED
      BY <3>2, <3>3
  <2>2. u + 1 \in Nat
    BY <1>4
  <2> QED
    BY <1>4, <1>20, <2>1, <2>2, JoinedSame
<1>23. Answered(u + 1)' = u - 1
  BY <1>4, <1>15 DEF Answered
<1>24. Joined(down, Replies(pk, d, u - 1)', d, u - 1)
  <2>1. \A c \in d..(u - 1) : Replies(pk, d, u - 1)'[c] = Replies(pk, d, u - 1)[c]
    <3>1. ASSUME NEW c \in d..(u - 1) PROVE Replies(pk, d, u - 1)'[c] = Replies(pk, d, u - 1)[c]
      <4>1. Replies(pk, d, u - 1)'[c] = ReplyOf(pk[c], log[c].wrote)'
            /\ Replies(pk, d, u - 1)[c] = ReplyOf(pk[c], log[c].wrote)
        BY DEF Replies
      <4>2. ReplyOf(pk[c], log[c].wrote)' = ReplyOf(pk[c], log[c].wrote)
        BY <1>2, <1>3 DEF ReplyOf, HeaderOf, Reply
      <4> QED
        BY <4>1, <4>2
    <3> QED
      BY <3>1
  <2>2. Joined(down, Replies(pk, d, u - 1), d, u - 1)
    BY <1>1, <1>4 DEF View, StreamsOK
  <2>3. u - 1 \in Nat
    BY <1>4
  <2> QED
    BY <1>4, <2>1, <2>2, <2>3, JoinedSame
<1>25. HeaderOf(p)' = HeaderOf(p) /\ (ArgumentsThen(up, p, r)' <=> ArgumentsThen(up', p, r))
  BY <1>3 DEF HeaderOf, ArgumentsThen
<1>26. \A c \in d..(u - 1) : AnswerOK(log[c], pk[c])'
  <2>1. \A c \in d..(u - 1) : AnswerOK(log[c], pk[c])
    BY <1>1, <1>4 DEF View, StreamsOK
  <2> QED
    BY <1>2, <1>3, <2>1 DEF AnswerOK
<1>27. \A c \in (u - 1 + 1)..asked : log'[c].ran = "nothing"
  <2>1. \A c \in (Answered(u) + 1)..asked : log[c].ran = "nothing"
    BY <1>1 DEF View, StreamsOK
  <2> QED
    BY <1>2, <1>4, <2>1
<1>32. PICK v : v = u + 1
  OBVIOUS
<1>28. StreamsOK(d, v, pk, r)'
  <2>1. v - 1 = u /\ d < v /\ v \in d..(asked' + 1)
    BY <1>3, <1>4, <1>6, <1>32
  <2>2. pk[v - 1] = p
    BY <2>1 DEF p
  <2>3. down' = down
    BY <1>2
  <2>4. Replies(pk, d, Answered(v))' = Replies(pk, d, u - 1)'
    BY <1>23, <1>32 DEF Replies
  <2>5. Joined(down, Replies(pk, d, Answered(v)), d, Answered(v))'
    BY <1>23, <1>24, <1>32, <2>3, <2>4
  <2>6. Joined(r, Requests(pk, v), v, asked)'
    BY <1>3, <1>22, <1>32
  <2>7. \A c \in (d..Answered(v))' : AnswerOK(log[c], pk[c])'
    BY <1>23, <1>26, <1>32
  <2>8. \A c \in ((Answered(v) + 1)..asked)' : log'[c].ran = "nothing"
    BY <1>3, <1>23, <1>27, <1>32
  <2>9. /\ pk[v - 1].fn \in DOMAIN stubTable' .names
        /\ header' = HeaderOf(pk[v - 1])'
        /\ ArgumentsThen(up, pk[v - 1], r)'
    BY <1>3, <1>14, <1>15, <1>19, <1>25, <2>2
  <2> QED
    BY <1>15, <2>1, <2>5, <2>6, <2>7, <2>8, <2>9 DEF StreamsOK
<1>29. CallsOK(d, pk)'
  BY <1>1, <1>2, <1>3, <1>21, CallsStay
<1>30. RegistrationOK' /\ IdsOK' /\ ScalarsOK'
  <2>1. RegistrationOK'
    BY <1>1, <1>2, RegistrationStays DEF View
  <2> QED
    BY <1>1, <1>2, <1>3, <2>1 DEF View, IdsOK, ScalarsOK
<1>31. View(d, v, pk, r)'
  BY <1>28, <1>29, <1>30 DEF View
<1> QED
  BY <1>31 DEF IInv

\* g is a function on s.
FunctionOn(g, s) == g = [x \in s |-> g[x]]

\* The parts have the values that are at the places in order.
Holding(parts, order, from) == \A k \in 1..Len(order) : parts[k].v = from[order[k]]

\* r is what vals is when the arguments that travel have been loaded: those have the
\* values of from.
LoadedFrom(r, f, dirs, from, vals) ==
    /\ r = [i \in DOMAIN Params[f] |-> r[i]]
    /\ \A i \in DOMAIN Params[f] : r[i] = IF i \in Where(f, dirs) THEN from[i] ELSE vals[i]

\* What is loaded into a packet: the arguments that travel have the values that
\* were sent, and the others what they had.
LEMMA LoadedValues ==
    ASSUME NEW f \in Functions, NEW dirs, NEW vals, FunctionOn(vals, DOMAIN Params[f]),
           NEW parts, NEW from, Holding(parts, Travelling(Params[f], dirs), from)
    PROVE  LoadedFrom(Load(vals, Travelling(Params[f], dirs), parts), f, dirs, from, vals)
<1> DEFINE order == Travelling(Params[f], dirs)
           r == Load(vals, order, parts)
           n == Len(order)
<1>6. /\ order \in Seq(1..Len(Params[f])) /\ n \in Nat /\ Len(Params[f]) \in Nat
      /\ \A k \in 1..n : order[k] \in Where(f, dirs) /\ order[k] \in DOMAIN Params[f]
      /\ \A j, k \in 1..n : j < k => order[j] < order[k]
      /\ \A i \in Where(f, dirs) : \E k \in 1..n : order[k] = i
      /\ DOMAIN Params[f] = 1..Len(Params[f])
  BY TravellingPlaces
<1>7. \A k \in 1..n : parts[k].v = from[order[k]]
  BY DEF Holding
<1> HIDE DEF order
<1>1. \A k \in 1..n : order[k] \in Nat
  BY <1>6
<1>2. Filled(r, vals, order, parts, n)
  <2>1. DOMAIN vals = DOMAIN Params[f] /\ vals = [x \in DOMAIN vals |-> vals[x]]
    BY DEF FunctionOn
  <2> QED
    BY <1>6, <2>1, LoadFills
<1> HIDE DEF r, n
<1>3. DOMAIN vals = DOMAIN Params[f]
  BY DEF FunctionOn
<1>4. /\ r = [i \in DOMAIN Params[f] |-> r[i]]
      /\ \A x \in DOMAIN Params[f] : (\A k \in 1..n : order[k] # x) => r[x] = vals[x]
      /\ \A k \in 1..n : (\A j \in (k + 1)..n : order[j] # order[k]) => r[order[k]] = parts[k].v
  BY <1>2, <1>3, <1>6 DEF Filled
<1>5. ASSUME NEW i \in DOMAIN Params[f]
      PROVE  r[i] = IF i \in Where(f, dirs) THEN from[i] ELSE vals[i]
  <2>1. CASE i \in Where(f, dirs)
    <3>1. PICK k \in 1..n : order[k] = i
      BY <2>1, <1>6
    <3>2. ASSUME NEW j \in (k + 1)..n PROVE order[j] # order[k]
      <4>1. j \in 1..n /\ k < j
        BY <1>6, <3>1
      <4>2. order[k] < order[j] /\ order[k] \in Nat /\ order[j] \in Nat
        BY <1>1, <1>6, <4>1
      <4> QED
        BY <4>2
    <3>3. r[order[k]] = parts[k].v /\ parts[k].v = from[order[k]]
      BY <3>2, <1>4, <1>7
    <3> QED
      BY <2>1, <3>1, <3>3
  <2>2. CASE i \notin Where(f, dirs)
    <3>1. \A k \in 1..n : order[k] # i
      BY <2>2, <1>6
    <3> QED
      BY <2>2, <3>1, <1>4
  <2> QED
    BY <2>1, <2>2
<1> QED
  BY <1>4, <1>5 DEF LoadedFrom, r, order

\* Some parts of a stream.
LEMMA ArgsAtParts ==
    ASSUME NEW s \in Seq(Parts), NEW b \in Nat, NEW order, Len(order) \in Nat,
           b + Len(order) <= Len(s)
    PROVE  \A k \in 1..Len(order) : ArgsAt(s, b, order)[k] = s[b + k]
<1> DEFINE n == Len(order)
<1>1. Len(s) \in Nat
  OBVIOUS
<1>2. \A i \in (b + 1)..(b + n) : s[i] \in Parts
  <2>1. \A i \in (b + 1)..(b + n) : i \in 1..Len(s)
    BY <1>1
  <2> QED
    BY <2>1, ElementOfSeq
<1>3. b + 1 \in Int /\ b + n \in Int
  OBVIOUS
<1>4. \A i \in 1..((b + n) - (b + 1) + 1) : SubSeq(s, b + 1, b + n)[i] = s[(b + 1) + i - 1]
  <2> HIDE DEF n
  <2> QED
    BY <1>2, <1>3, SubSeqProperties
<1>5. ASSUME NEW k \in 1..n PROVE ArgsAt(s, b, order)[k] = s[b + k]
  <2>1. k \in 1..((b + n) - (b + 1) + 1) /\ (b + 1) + k - 1 = b + k
    OBVIOUS
  <2>2. SubSeq(s, b + 1, b + n)[k] = s[b + k]
    BY <1>4, <2>1
  <2> QED
    BY <2>2 DEF ArgsAt
<1> QED
  BY <1>5

\* The arguments are read: what the function sees, and what is left of the stream.
LEMMA ArgumentsRead ==
    ASSUME NEW d, NEW u, NEW pk, NEW rest, View(d, u, pk, rest), header # NoHeader,
           NEW vals, vals = Load([i \in DOMAIN Params[Running] |-> "unread"], Loaded,
                                 ArgsAt(up, 1, Loaded))
    PROVE  /\ vals = [i \in DOMAIN Params[pk[u - 1].fn] |->
                        IF i \in Where(pk[u - 1].fn, Inputs) THEN pk[u - 1].vals[i] ELSE "unread"]
           /\ After(up, ArgumentKinds) = rest
<1> DEFINE p == pk[u - 1]
           order == Travelling(Params[p.fn], ClientSaves)
           none == [i \in DOMAIN Params[p.fn] |-> "unread"]
           parts == ArgsAt(up, 1, order)
<1>1. u - 1 \in d..asked /\ Running = p.fn /\ ArgumentsThen(up, p, rest)
  BY ViewHeader
<1>2. p \in Packets /\ p.fn \in Functions
  BY <1>1, ViewRequests
<1>3. up \in Seq(Parts) /\ rest \in Seq(Parts)
  BY ViewStreams
<1> HIDE DEF p
<1>4. Loaded = order /\ Len(ArgumentKinds) = 1 + Len(order)
  BY <1>1, <1>2, ArgumentKindsAre
<1>5. Len(order) \in Nat
  BY <1>2, TravellingPlaces
<1>6. /\ Len(up) = 1 + Len(order) + Len(rest) /\ Len(rest) \in Nat
      /\ \A k \in 1..Len(order) : up[1 + k] = Part("arg", p.vals[order[k]])
      /\ \A j \in 1..Len(rest) : up[1 + Len(order) + j] = rest[j]
  BY <1>1, <1>3 DEF ArgumentsThen
<1> HIDE DEF order
<1>7. \A k \in 1..Len(order) : parts[k].v = p.vals[order[k]]
  <2>1. 1 + Len(order) <= Len(up) /\ 1 \in Nat
    BY <1>5, <1>6
  <2>2. \A k \in 1..Len(order) : parts[k] = up[1 + k]
    BY <1>3, <1>5, <2>1, ArgsAtParts
  <2>3. ASSUME NEW k \in 1..Len(order) PROVE parts[k].v = p.vals[order[k]]
    <3>1. parts[k] = Part("arg", p.vals[order[k]])
      BY <1>6, <2>2
    <3> QED
      BY <3>1 DEF Part
  <2> QED
    BY <2>3
<1>8. vals = Load(none, order, parts)
  BY <1>1, <1>4
<1>9. FunctionOn(none, DOMAIN Params[p.fn])
  BY DEF FunctionOn
<1>13. \A i \in DOMAIN Params[p.fn] : none[i] = "unread"
  OBVIOUS
<1> HIDE DEF none, parts
<1>10. vals = [i \in DOMAIN Params[p.fn] |->
                 IF i \in Where(p.fn, ClientSaves) THEN p.vals[i] ELSE none[i]]
  <2>2. LoadedFrom(vals, p.fn, ClientSaves, p.vals, none)
    <3>1. Holding(parts, order, p.vals)
      BY <1>7 DEF Holding
    <3> QED
      BY <1>2, <1>8, <1>9, <3>1, LoadedValues DEF order
  <2> QED
    BY <2>2 DEF LoadedFrom
<1>11. vals = [i \in DOMAIN Params[p.fn] |->
                 IF i \in Where(p.fn, Inputs) THEN p.vals[i] ELSE "unread"]
  BY <1>10, <1>13 DEF ClientSaves, Inputs
<1>12. After(up, ArgumentKinds) = rest
  <2> DEFINE n == 1 + Len(order)
             t == SubSeq(up, n + 1, Len(up))
  <2>1. n \in Nat /\ n <= Len(up)
    BY <1>5, <1>6
  <2>2. Remains(t, up, n)
    BY <1>3, <2>1, SubSeqRemains
  <2>3. After(up, ArgumentKinds) = t
    BY <1>4 DEF After
  <2> HIDE DEF t
  <2>4. /\ t \in Seq(Parts) /\ Len(t) = Len(up) - n
        /\ \A i \in 1..Len(t) : t[i] = up[n + i]
    BY <2>2 DEF Remains
  <2>5. Len(t) = Len(rest)
    BY <1>5, <1>6, <2>4
  <2>6. \A i \in 1..Len(t) : t[i] = rest[i]
    BY <1>6, <2>4, <2>5
  <2>7. t = rest
    BY <1>3, <2>4, <2>5, <2>6, SeqEqual
  <2> QED
    BY <2>3, <2>7
<1> QED
  BY <1>11, <1>12 DEF p

\* g with the record of call c completed, as sync_call leaves it.
Completed(g, c, ran, seen, wrote) ==
    [g EXCEPT ![c].ran = ran, ![c].seen = seen, ![c].wrote = wrote]

\* h is g but for the record of call c, whose packet is p.
CompletedAt(h, g, c, p, ran, seen, wrote) ==
    /\ DOMAIN h = DOMAIN g /\ FunctionOn(h, DOMAIN h)
    /\ \A x \in DOMAIN g : x # c => h[x] = g[x]
    /\ LogOK(h[c], p) /\ h[c].ran = ran /\ h[c].seen = seen /\ h[c].wrote = wrote

\* A record of the log is completed: sync_call notes what ran, on what, and what
\* it wrote, and nothing else changes.
LEMMA LogCompleted ==
    ASSUME NEW g, NEW c, c \in DOMAIN g, FunctionOn(g, DOMAIN g), NEW p, LogOK(g[c], p),
           NEW ran, NEW seen, NEW wrote
    PROVE  CompletedAt(Completed(g, c, ran, seen, wrote), g, c, p, ran, seen, wrote)
<1> DEFINE h == Completed(g, c, ran, seen, wrote)
<1> DEFINE l == g[c]
           a == [l EXCEPT !.ran = ran]
           b == [a EXCEPT !.seen = seen]
           e == [b EXCEPT !.wrote = wrote]
           k == [fn |-> p.fn, how |-> p.how, args |-> p.args, passed |-> p.vals,
                 ran |-> ran, seen |-> seen, wrote |-> wrote]
<1>1. l = [fn |-> p.fn, how |-> p.how, args |-> p.args, passed |-> p.vals,
           ran |-> l.ran, seen |-> l.seen, wrote |-> l.wrote]
  BY DEF LogOK
<1>2. e = k
  <2> HIDE DEF l
  <2>1. a = [fn |-> p.fn, how |-> p.how, args |-> p.args, passed |-> p.vals,
             ran |-> ran, seen |-> l.seen, wrote |-> l.wrote]
    BY <1>1
  <2> HIDE DEF a
  <2>2. b = [fn |-> p.fn, how |-> p.how, args |-> p.args, passed |-> p.vals,
             ran |-> ran, seen |-> seen, wrote |-> l.wrote]
    BY <2>1
  <2> HIDE DEF b
  <2> QED
    BY <2>2
<1>3. h = [g EXCEPT ![c] = e]
  <2> DEFINE g1 == [g EXCEPT ![c].ran = ran]
             g2 == [g1 EXCEPT ![c].seen = seen]
             g3 == [g2 EXCEPT ![c].wrote = wrote]
  <2>1. h = g3
    BY DEF Completed
  <2>2. g1[c] = a /\ DOMAIN g1 = DOMAIN g /\ \A x \in DOMAIN g : x # c => g1[x] = g[x]
    OBVIOUS
  <2> HIDE DEF g1, a
  <2>3. g2[c] = b /\ DOMAIN g2 = DOMAIN g /\ \A x \in DOMAIN g : x # c => g2[x] = g[x]
    BY <2>2
  <2> HIDE DEF g2, b
  <2>4. g3 = [x \in DOMAIN g |-> IF x = c THEN e ELSE g[x]]
    BY <2>3
  <2>5. [g EXCEPT ![c] = e] = [x \in DOMAIN g |-> IF x = c THEN e ELSE g[x]]
    <3> HIDE DEF e
    <3> QED
      OBVIOUS
  <2> QED
    BY <2>1, <2>4, <2>5
<1>4. /\ k.ran = ran /\ k.seen = seen /\ k.wrote = wrote
      /\ LogOK(k, p)
  BY DEF LogOK
<1> HIDE DEF e, k, h
<1>5. h = [x \in DOMAIN g |-> IF x = c THEN k ELSE g[x]]
  BY <1>2, <1>3
<1>6. DOMAIN h = DOMAIN g /\ h[c] = k /\ \A x \in DOMAIN g : x # c => h[x] = g[x]
  BY <1>5
<1>7. FunctionOn(h, DOMAIN h)
  BY <1>5 DEF FunctionOn
<1> QED
  BY <1>4, <1>6, <1>7 DEF CompletedAt, h

\* The function runs and the reply is sent.
LEMMA SyncCallStep ==
    ASSUME IInv, SyncCall
    PROVE  IInv'
<1>1. PICK d, u, pk, rest : View(d, u, pk, rest)
  BY DEF IInv
<1>2. PICK vals : vals = Load([i \in DOMAIN Params[Running] |-> "unread"], Loaded,
                              ArgsAt(up, 1, Loaded))
  OBVIOUS
<1>3. PICK w \in MayWrite(vals) :
         /\ down' = down \o Reply(header, w)
         /\ log' = [log EXCEPT ![header.call].ran = Running,
                               ![header.call].seen = vals,
                               ![header.call].wrote = w]
  BY <1>2 DEF SyncCall
<1>4. /\ header # NoHeader /\ header' = NoHeader /\ up' = After(up, ArgumentKinds)
      /\ UNCHANGED <<registration, clientVars, session>>
  BY DEF SyncCall, ReadsArguments
<1>5. UNCHANGED <<factory, stubTable, stubId, server, callId, sequenceId, pendings, current, mem, asked>>
  BY <1>4 DEF registration, clientVars
<1>6. /\ d \in Nat \ {0} /\ u \in Nat \ {0} /\ asked \in Nat /\ Answered(u) = u - 2 /\ u - 2 \in Nat
      /\ d < u /\ u <= asked + 1
  BY <1>1, <1>4, ViewNumbers
<1> DEFINE p == pk[u - 1]
<1>7. PICK c : c = u - 1
  OBVIOUS
<1>8. /\ c \in d..asked /\ Running = p.fn /\ header = HeaderOf(p) /\ header.call = c
      /\ p.fn \in DOMAIN stubTable.names
  BY <1>1, <1>4, <1>7, ViewHeader
<1>9. p \in Packets /\ p.fn \in Functions /\ PacketOK(p, c) /\ LogOK(log[c], p) /\ p.call = c
  BY <1>1, <1>7, <1>8, ViewRequests DEF PacketOK
<1>10. /\ vals = [i \in DOMAIN Params[p.fn] |->
                    IF i \in Where(p.fn, Inputs) THEN p.vals[i] ELSE "unread"]
       /\ up' = rest
  BY <1>1, <1>2, <1>4, ArgumentsRead
<1>23. pk[c] = p
  BY <1>7
<1> HIDE DEF p
<1>11. /\ DOMAIN vals = DOMAIN Params[p.fn]
       /\ \A i \in DOMAIN Params[p.fn] : vals[i] = IF i \in Where(p.fn, Inputs) THEN p.vals[i] ELSE "unread"
  BY <1>10
<1>12. /\ w \in [DOMAIN Params[p.fn] -> Values \cup {"unread"}]
       /\ \A i \in Where(p.fn, Outputs) : w[i] \in Values
  <2>1. /\ w \in [DOMAIN vals -> Values \cup {"unread"}]
        /\ \A i \in DOMAIN vals :
              Direction(Params[p.fn][i]) \in {"out", "inout"} => w[i] \in Values
    BY <1>8 DEF MayWrite
  <2> QED
    BY <1>11, <2>1 DEF Where, Outputs
<1>13. DOMAIN log = d..asked /\ FunctionOn(log, DOMAIN log)
  BY <1>1 DEF View, CallsOK, FunctionOn
<1>14. /\ DOMAIN log' = d..asked /\ FunctionOn(log', DOMAIN log')
       /\ \A x \in d..asked : x # c => log'[x] = log[x]
       /\ LogOK(log'[c], p) /\ log'[c].ran = p.fn /\ log'[c].seen = vals /\ log'[c].wrote = w
  <2>1. log' = Completed(log, c, p.fn, vals, w)
    BY <1>3, <1>8 DEF Completed
  <2>2. CompletedAt(Completed(log, c, p.fn, vals, w), log, c, p, p.fn, vals, w)
    BY <1>8, <1>9, <1>13, LogCompleted
  <2> QED
    BY <1>13, <2>1, <2>2 DEF CompletedAt
<1>15. AnswerOK(log[c], p)'
  <2>1. AnswerOK(log'[c], p)
    BY <1>8, <1>11, <1>12, <1>14 DEF AnswerOK
  <2> QED
    BY <1>5, <2>1 DEF AnswerOK
<1>16. IdsKept
  BY <1>5 DEF IdsKept
<1>17. CallsOK(d, pk)'
  <2>1. CallsOK(d, pk)
    BY <1>1 DEF View
  <2>2. ASSUME NEW x \in d..asked PROVE PacketOK(pk[x], x)' /\ LogOK(log'[x], pk[x])
    <3>1. PacketOK(pk[x], x)'
      BY <1>1, <1>5, <1>16, RequestsStay
    <3>2. LogOK(log'[x], pk[x])
      <4>1. CASE x = c
        BY <4>1, <1>14, <1>23
      <4>2. CASE x # c
        BY <4>2, <1>14, <2>1 DEF CallsOK
      <4> QED
        BY <4>1, <4>2
    <3> QED
      BY <3>1, <3>2
  <2>3. \A x \in d..asked' : PacketOK(pk[x], x)' /\ LogOK(log[x], pk[x])'
    BY <1>5, <2>2 DEF LogOK
  <2>4. DOMAIN log' = d..asked' /\ log' = [x \in DOMAIN log' |-> log'[x]]
    BY <1>5, <1>14 DEF FunctionOn
  <2> QED
    BY <1>5, <2>1, <2>3, <2>4 DEF CallsOK
<1>18. Answered(u)' = c
  BY <1>4, <1>7 DEF Answered
<1>19. Joined(rest, Requests(pk, u)', u, asked)
  <2>1. ASSUME NEW x \in u..asked PROVE Requests(pk, u)'[x] = Requests(pk, u)[x]
    <3>1. x \in d..asked /\ x \in u..asked'
      BY <1>5, <1>6
    <3>2. Requests(pk, u)'[x] = Request(pk[x])' /\ Requests(pk, u)[x] = Request(pk[x])
      BY <3>1 DEF Requests
    <3>3. Request(pk[x])' = Request(pk[x])
      BY <1>1, <1>5, <1>16, <3>1, RequestsStay
    <3> QED
      BY <3>2, <3>3
  <2>2. Joined(rest, Requests(pk, u), u, asked)
    BY <1>1 DEF View, StreamsOK
  <2> QED
    BY <1>6, <2>1, <2>2, JoinedSame
<1>20. Joined(down', Replies(pk, d, c)', d, c)
  <2> DEFINE m == ReplyOf(p, w)
             M == Replies(pk, d, u - 2)
             N == Replies(pk, d, c)'
  <2>1. Message(m, c)
    <3>1. FullName[stubTable.names[p.fn]] = p.fn /\ stubId[stubTable.names[p.fn]] \in Nat
      BY <1>1, <1>8, NamesLead DEF View
    <3>2. Carried(w, p.fn, ServerSaves)
      BY <1>12 DEF Carried, Outputs, ServerSaves
    <3>3. IsReply(m, p, w)
      BY <1>9, <3>1, <3>2, ReplyParts
    <3> HIDE DEF m
    <3> QED
      BY <1>9, <3>3, ReplyMessage
  <2>2. down' = down \o m
    BY <1>3, <1>8 DEF ReplyOf
  <2>3. Joined(down, M, d, u - 2)
    BY <1>1, <1>6 DEF View, StreamsOK
  <2>4. \A x \in d..(u - 2) : N[x] = M[x]
    <3>1. ASSUME NEW x \in d..(u - 2) PROVE N[x] = M[x]
      <4>1. x \in d..c /\ x # c /\ x \in d..asked
        BY <1>6, <1>7
      <4>2. log'[x] = log[x]
        BY <1>14, <4>1
      <4>3. N[x] = ReplyOf(pk[x], log[x].wrote)' /\ M[x] = ReplyOf(pk[x], log[x].wrote)
        BY <4>1 DEF Replies
      <4>4. ReplyOf(pk[x], log[x].wrote)' = ReplyOf(pk[x], log[x].wrote)
        BY <1>5, <4>2 DEF ReplyOf, HeaderOf, Reply
      <4> QED
        BY <4>3, <4>4
    <3> QED
      BY <3>1
  <2>5. N[c] = m
    <3>1. c \in d..c
      BY <1>6, <1>7
    <3>2. N[c] = ReplyOf(pk[c], log[c].wrote)'
      BY <3>1 DEF Replies
    <3>3. ReplyOf(pk[c], log[c].wrote)' = ReplyOf(p, w)
      BY <1>5, <1>14, <1>23 DEF ReplyOf, HeaderOf, Reply
    <3> QED
      BY <3>2, <3>3
  <2>6. Followed(Parts, down \o m, down, m)
    BY <1>1, <2>1, ViewStreams, ConcatFollowed DEF Message
  <2>7. Followed(Parts, down', down, m)
    BY <2>2, <2>6
  <2> HIDE DEF m, M, N
  <2>8. u - 2 \in Nat /\ d <= (u - 2) + 1 /\ (u - 2) + 1 = c
    BY <1>6, <1>7
  <2>9. PICK n : n = u - 2
    OBVIOUS
  <2>10. n \in Nat /\ d <= n + 1 /\ n + 1 = c /\ Joined(down, M, d, n) /\ \A x \in d..n : N[x] = M[x]
    BY <2>3, <2>4, <2>8, <2>9
  <2>11. Message(m, n + 1) /\ N[n + 1] = m
    BY <2>1, <2>5, <2>10
  <2>12. Joined(down', N, d, n + 1)
    BY <1>6, <2>7, <2>10, <2>11, JoinedAppend
  <2> QED
    BY <2>10, <2>12 DEF N
<1>21. StreamsOK(d, u, pk, rest)'
  <2>1. StreamsOK(d, u, pk, rest)
    BY <1>1 DEF View
  <2>2. Replies(pk, d, Answered(u))' = Replies(pk, d, c)'
    BY <1>18 DEF Replies
  <2>3. Joined(down, Replies(pk, d, Answered(u)), d, Answered(u))'
    BY <1>18, <1>20, <2>2
  <2>4. Joined(rest, Requests(pk, u), u, asked)'
    BY <1>5, <1>19
  <2>5. \A x \in (d..Answered(u))' : AnswerOK(log[x], pk[x])'
    <3>1. ASSUME NEW x \in d..c PROVE AnswerOK(log[x], pk[x])'
      <4>1. CASE x = c
        BY <4>1, <1>15, <1>23
      <4>2. CASE x # c
        <5>1. x \in d..(u - 2) /\ x \in d..asked
          BY <4>2, <1>6, <1>7
        <5>2. AnswerOK(log[x], pk[x]) /\ log'[x] = log[x]
          BY <5>1, <4>2, <1>6, <1>14, <2>1 DEF StreamsOK
        <5> QED
          BY <5>2, <1>5 DEF AnswerOK
      <4> QED
        BY <4>1, <4>2
    <3> QED
      BY <1>18, <3>1
  <2>6. \A x \in ((Answered(u) + 1)..asked)' : log'[x].ran = "nothing"
    <3>1. ASSUME NEW x \in (c + 1)..asked PROVE log'[x].ran = "nothing"
      <4>1. x \in ((u - 2) + 1)..asked /\ x # c /\ x \in d..asked
        BY <1>6, <1>7
      <4>2. log[x].ran = "nothing" /\ log'[x] = log[x]
        BY <4>1, <1>6, <1>14, <2>1 DEF StreamsOK
      <4> QED
        BY <4>2
    <3> QED
      BY <1>5, <1>18, <3>1
  <2>7. u \in d..(asked' + 1)
    BY <1>5, <1>6
  <2> QED
    BY <1>4, <1>10, <2>3, <2>4, <2>5, <2>6, <2>7 DEF StreamsOK
<1>22. RegistrationOK' /\ IdsOK' /\ ScalarsOK'
  <2>1. RegistrationOK'
    BY <1>1, <1>4, RegistrationStays DEF View
  <2> QED
    BY <1>1, <1>4, <1>5, <2>1 DEF View, IdsOK, ScalarsOK
<1>24. View(d, u, pk, rest)'
  BY <1>17, <1>21, <1>22 DEF View
<1> QED
  BY <1>24 DEF IInv
-----------------------------------------------------------------------------
(* The client takes a reply                                                  *)

\* A set of places has a last one.
LEMMA LastPlace ==
    ASSUME NEW n \in Nat, NEW S \in SUBSET (1..n), S # {}
    PROVE  \E k \in S : \A j \in S : j <= k
<1> DEFINE T == {i \in 0..n : n - i \in S}
<1>1. T # {}
  <2>1. PICK k : k \in S
    OBVIOUS
  <2>2. n - k \in 0..n /\ n - (n - k) = k
    BY <2>1
  <2>3. n - k \in T
    BY <2>1, <2>2
  <2> QED
    BY <2>3
<1>2. T \subseteq Nat
  OBVIOUS
<1>3. PICK i \in T : \A j \in T : i <= j
  <2> HIDE DEF T
  <2> QED
    BY <1>1, <1>2, LeastNumber
<1>4. ASSUME NEW j \in S PROVE j <= n - i
  <2>1. n - j \in 0..n /\ n - (n - j) = j
    OBVIOUS
  <2>2. n - j \in T
    BY <2>1
  <2>3. i <= n - j /\ i \in 0..n
    BY <1>3, <2>2
  <2> QED
    BY <2>3
<1> QED
  BY <1>3, <1>4

\* The variables m of the program after a call by reference with packet p whose
\* function wrote w: one that was passed for outputs has what came for the last of
\* them, and the others what they had.
ForOutput(p, x) == {i \in Where(p.fn, Outputs) : p.args[i] = x}
WrittenTo(m, p, w) ==
    /\ FunctionOn(m, Vars)
    /\ \A x \in Vars :
          /\ ForOutput(p, x) = {} => m[x] = mem[x]
          /\ ForOutput(p, x) # {} =>
                \E i \in ForOutput(p, x) : (\A j \in ForOutput(p, x) : j <= i) /\ m[x] = w[i]

\* Where the outputs go.
Places(p) == [k \in DOMAIN Returned(p) |-> p.args[Returned(p)[k]]]

\* Loading through the references of a packet.
LEMMA MemLoaded ==
    ASSUME NEW p \in Packets, p.args \in [DOMAIN Params[p.fn] -> Vars],
           FunctionOn(mem, Vars), NEW w, NEW parts, Holding(parts, Returned(p), w)
    PROVE  WrittenTo(Load(mem, Places(p), parts), p, w)
<1> DEFINE order == Returned(p)
           places == Places(p)
           m == Load(mem, places, parts)
           n == Len(order)
<1>1. p.fn \in Functions
  BY DEF Packets
<1>11. order = Travelling(Params[p.fn], Outputs)
  BY DEF Returned, ClientLoads, Outputs
<1>2. /\ n \in Nat /\ DOMAIN order = 1..n
      /\ \A k \in 1..n : order[k] \in Where(p.fn, Outputs) /\ order[k] \in DOMAIN Params[p.fn]
      /\ \A j, k \in 1..n : j < k => order[j] < order[k]
      /\ \A i \in Where(p.fn, Outputs) : \E k \in 1..n : order[k] = i
      /\ DOMAIN Params[p.fn] = 1..Len(Params[p.fn]) /\ Len(Params[p.fn]) \in Nat
  <2> DEFINE o == Travelling(Params[p.fn], Outputs)
  <2>1. /\ Len(Params[p.fn]) \in Nat /\ DOMAIN Params[p.fn] = 1..Len(Params[p.fn])
        /\ o \in Seq(1..Len(Params[p.fn])) /\ Len(o) \in Nat
        /\ \A k \in 1..Len(o) : o[k] \in Where(p.fn, Outputs) /\ o[k] \in DOMAIN Params[p.fn]
        /\ \A j, k \in 1..Len(o) : j < k => o[j] < o[k]
        /\ \A i \in Where(p.fn, Outputs) : \E k \in 1..Len(o) : o[k] = i
    BY <1>1, TravellingPlaces
  <2> HIDE DEF o
  <2>2. order = o
    BY <1>11 DEF o
  <2>3. DOMAIN o = 1..Len(o)
    BY <2>1
  <2> HIDE DEF order
  <2> QED
    BY <2>1, <2>2, <2>3
<1> HIDE DEF order
<1>3. Len(places) = n /\ \A k \in 1..n : places[k] = p.args[order[k]] /\ places[k] \in Vars
  <2>1. places = [k \in 1..n |-> p.args[order[k]]]
    BY <1>2 DEF Places, order
  <2>2. Len(places) = n
    <3> HIDE DEF places, n
    <3> QED
      BY <2>1, <1>2
  <2> QED
    BY <2>1, <2>2, <1>2
<1>4. Filled(m, mem, places, parts, n)
  <2>1. mem = [x \in DOMAIN mem |-> mem[x]]
    BY DEF FunctionOn
  <2> HIDE DEF places
  <2>2. Len(places) \in Nat
    BY <1>2, <1>3
  <2> QED
    BY <1>3, <2>1, <2>2, LoadFills
<1>5. \A k \in 1..n : parts[k].v = w[order[k]]
  BY DEF Holding, order
<1> HIDE DEF n, places, m
<1>6. DOMAIN mem = Vars
  BY DEF FunctionOn
<1>7. /\ FunctionOn(m, Vars)
      /\ \A x \in Vars : (\A k \in 1..n : places[k] # x) => m[x] = mem[x]
      /\ \A k \in 1..n : (\A j \in (k + 1)..n : places[j] # places[k]) => m[places[k]] = parts[k].v
  BY <1>3, <1>4, <1>6 DEF Filled, FunctionOn
<1>8. ASSUME NEW x \in Vars, ForOutput(p, x) = {} PROVE m[x] = mem[x]
  <2>1. ASSUME NEW k \in 1..n PROVE places[k] # x
    BY <1>2, <1>3, <1>8 DEF ForOutput
  <2> QED
    BY <2>1, <1>7
<1>9. ASSUME NEW x \in Vars, ForOutput(p, x) # {}
      PROVE  \E i \in ForOutput(p, x) : (\A j \in ForOutput(p, x) : j <= i) /\ m[x] = w[i]
  <2> DEFINE S == {k \in 1..n : places[k] = x}
  <2>1. S # {}
    <3>1. PICK i \in ForOutput(p, x) : TRUE
      BY <1>9
    <3>2. i \in Where(p.fn, Outputs) /\ p.args[i] = x
      BY <3>1 DEF ForOutput
    <3>3. PICK k \in 1..n : order[k] = i
      BY <3>2, <1>2
    <3>4. k \in S
      BY <3>2, <3>3, <1>3
    <3> QED
      BY <3>4
  <2>2. S \in SUBSET (1..n)
    OBVIOUS
  <2>3. PICK k \in S : \A j \in S : j <= k
    <3> HIDE DEF S
    <3> QED
      BY <2>1, <2>2, <1>2, LastPlace
  <2>4. k \in 1..n /\ places[k] = x
    OBVIOUS
  <2>5. ASSUME NEW j \in (k + 1)..n PROVE places[j] # places[k]
    <3>1. j \in 1..n /\ ~(j <= k)
      BY <2>4, <1>2
    <3> QED
      BY <3>1, <2>3, <2>4
  <2>6. m[x] = w[order[k]]
    BY <2>4, <2>5, <1>5, <1>7
  <2>7. order[k] \in ForOutput(p, x)
    BY <2>4, <1>2, <1>3 DEF ForOutput
  <2>8. ASSUME NEW j \in ForOutput(p, x) PROVE j <= order[k]
    <3>1. j \in Where(p.fn, Outputs) /\ p.args[j] = x
      BY DEF ForOutput
    <3>2. PICK l \in 1..n : order[l] = j
      BY <3>1, <1>2
    <3>3. l \in S
      BY <3>1, <3>2, <1>3
    <3>4. l <= k
      BY <2>3, <3>3
    <3>5. l = k \/ l < k
      BY <3>4, <2>4, <1>2
    <3>6. order[l] \in Nat /\ order[k] \in Nat
      BY <1>2, <2>4
    <3>7. l < k => order[l] < order[k]
      BY <1>2, <2>4
    <3> QED
      BY <3>2, <3>5, <3>6, <3>7
  <2> QED
    BY <2>6, <2>7, <2>8
<1>10. WrittenTo(m, p, w)
  BY <1>7, <1>8, <1>9 DEF WrittenTo
<1> QED
  BY <1>10 DEF m, places

\* What the client finds at the head of its stream: the reply to the first call that
\* is not over.
LEMMA ReplyTaken ==
    ASSUME NEW d, NEW u, NEW pk, NEW rest, View(d, u, pk, rest), down # <<>>
    PROVE  /\ d \in d..Answered(u) /\ d \in d..asked
           /\ PacketOK(pk[d], d) /\ pk[d] \in Packets
           /\ AnswerOK(log[d], pk[d]) /\ LogOK(log[d], pk[d])
           /\ down[1].v = d % Wrap
           /\ Holding(ArgsAt(down, 2, Returned(pk[d])), Returned(pk[d]), log[d].wrote)
           /\ ~pk[d].byid =>
                 down[Len(ReplyKinds(pk[d]))].v = stubId[stubTable.names[pk[d].fn]]
           /\ Joined(After(down, ReplyKinds(pk[d])), Replies(pk, d, Answered(u)),
                     d + 1, Answered(u))
<1>1. /\ d \in Nat \ {0} /\ u \in Nat \ {0} /\ asked \in Nat /\ Answered(u) \in Nat
      /\ d <= u /\ u <= asked + 1 /\ Answered(u) < u
  BY ViewNumbers
<1>2. down \in Seq(Parts) /\ Len(down) \in Nat
  BY ViewStreams
<1> DEFINE M == Replies(pk, d, Answered(u))
           p == pk[d]
           w == log[d].wrote
           m == ReplyOf(p, w)
           order == Travelling(Params[p.fn], ServerSaves)
           kinds == ReplyKinds(p)
<1>3. Joined(down, M, d, Answered(u))
  BY DEF View, StreamsOK
<1>4. d <= Answered(u)
  BY <1>1, <1>3 DEF Joined
<1>5. d \in d..Answered(u) /\ d \in d..asked
  BY <1>1, <1>4
<1>6. MessageAt(down, 1, M[d])
  BY <1>1, <1>3, <1>4, JoinedHead
<1>7. M[d] = m
  BY <1>5 DEF Replies
<1>8. PacketOK(p, d) /\ p \in Packets /\ LogOK(log[d], p)
  BY <1>5, ViewRequests
<1>9. IsReply(m, p, w) /\ AnswerOK(log[d], p)
  BY <1>5, ViewReplies
<1>10. MessageAt(down, 1, m)
  BY <1>6, <1>7
<1> HIDE DEF m, M, p, w
<1>11. Len(kinds) = Len(m) /\ \A j \in 1..Len(m) : down[j] = m[j]
  BY <1>2, <1>8, <1>9, <1>10, ReplyFits
<1>12. Returned(p) = order
  BY <1>8, ReplyKindsAre
<1>13. Len(order) \in Nat /\ p.byid \in BOOLEAN
  <2>1. p.fn \in Functions /\ p.byid \in BOOLEAN
    BY <1>8 DEF Packets
  <2> QED
    BY <2>1, TravellingPlaces
<1>14. /\ m \in Seq(Parts) /\ Len(m) = 2 + Len(order) + (IF p.byid THEN 0 ELSE 1)
       /\ m[1] = SeqId(p.seqid, p.call)
       /\ \A k \in 1..Len(order) : m[2 + k] = Part("arg", w[order[k]])
       /\ ~p.byid => m[3 + Len(order)] = Part("callid", stubId[stubTable.names[p.fn]])
  BY <1>9 DEF IsReply
<1>15. Len(m) \in Nat /\ Len(m) <= Len(down)
  <2>1. 1 + Len(m) - 1 <= Len(down) /\ Len(m) \in Nat
    BY <1>10, <1>14 DEF MessageAt
  <2> QED
    BY <2>1, <1>2
<1> HIDE DEF order, kinds
<1>16. down[1].v = d % Wrap
  <2>1. 1 \in 1..Len(m) /\ p.seqid = d % Wrap
    BY <1>8, <1>13, <1>14 DEF PacketOK
  <2>2. down[1] = SeqId(p.seqid, p.call)
    BY <2>1, <1>11, <1>14
  <2> QED
    BY <2>1, <2>2 DEF SeqId
<1>17. Holding(ArgsAt(down, 2, Returned(p)), Returned(p), w)
  <2>1. 2 + Len(order) <= Len(down) /\ 2 + Len(order) <= Len(m)
    BY <1>2, <1>13, <1>14, <1>15
  <2>2. \A k \in 1..Len(order) : ArgsAt(down, 2, order)[k] = down[2 + k]
    BY <1>2, <1>13, <2>1, ArgsAtParts
  <2>3. ASSUME NEW k \in 1..Len(order) PROVE ArgsAt(down, 2, order)[k].v = w[order[k]]
    <3>1. 2 + k \in 1..Len(m)
      BY <1>13, <1>15, <2>1
    <3>2. ArgsAt(down, 2, order)[k] = Part("arg", w[order[k]])
      BY <2>2, <3>1, <1>11, <1>14
    <3> QED
      BY <3>2 DEF Part
  <2> QED
    BY <2>3, <1>12 DEF Holding
<1>18. ASSUME ~p.byid PROVE down[Len(kinds)].v = stubId[stubTable.names[p.fn]]
  <2>1. Len(m) = 3 + Len(order) /\ Len(m) \in 1..Len(m)
    BY <1>13, <1>14, <1>18
  <2>2. down[Len(kinds)] = Part("callid", stubId[stubTable.names[p.fn]])
    BY <2>1, <1>11, <1>14, <1>18
  <2> QED
    BY <2>2 DEF Part
<1>19. Joined(After(down, kinds), M, d + 1, Answered(u))
  <2>1. Remains(SubSeq(down, Len(m) + 1, Len(down)), down, Len(m))
    BY <1>2, <1>15, SubSeqRemains
  <2>2. After(down, kinds) = SubSeq(down, Len(m) + 1, Len(down))
    BY <1>11 DEF After
  <2>3. Remains(After(down, kinds), down, Len(M[d]))
    BY <2>1, <2>2, <1>7
  <2> QED
    BY <1>1, <1>3, <1>4, <2>3, JoinedAfter
<1> QED
  BY <1>5, <1>8, <1>9, <1>16, <1>17, <1>18, <1>19 DEF m, M, p, w, kinds

\* What the variables are afterwards.
MemTaken(m, p, w) ==
    /\ p.by = "value" => m = mem
    /\ p.by # "value" => WrittenTo(m, p, w)

\* The reply is read into the variables, or not.
LEMMA MemRead ==
    ASSUME NEW p \in Packets, p.args \in [DOMAIN Params[p.fn] -> Vars],
           mem \in [Vars -> Values], NEW w, \A i \in Where(p.fn, Outputs) : w[i] \in Values,
           Holding(ArgsAt(down, 2, Returned(p)), Returned(p), w)
    PROVE  MemTaken(MemAfter(p), p, w) /\ MemAfter(p) \in [Vars -> Values]
<1> DEFINE parts == ArgsAt(down, 2, Returned(p))
<1>1. CASE p.by = "value"
  <2>1. MemAfter(p) = mem
    BY <1>1 DEF MemAfter
  <2> QED
    BY <1>1, <2>1 DEF MemTaken
<1>2. CASE p.by # "value"
  <2>1. MemAfter(p) = Load(mem, Places(p), parts)
    BY <1>2 DEF MemAfter, Places
  <2>2. FunctionOn(mem, Vars)
    BY DEF FunctionOn
  <2>3. WrittenTo(Load(mem, Places(p), parts), p, w)
    BY <2>2, MemLoaded
  <2> DEFINE m == MemAfter(p)
  <2>4. WrittenTo(m, p, w)
    BY <2>1, <2>3
  <2> HIDE DEF m
  <2>5. ASSUME NEW x \in Vars PROVE m[x] \in Values
    <3>1. CASE ForOutput(p, x) = {}
      BY <3>1, <2>4 DEF WrittenTo
    <3>2. CASE ForOutput(p, x) # {}
      <4>1. PICK i \in ForOutput(p, x) : m[x] = w[i]
        BY <3>2, <2>4 DEF WrittenTo
      <4> QED
        BY <4>1 DEF ForOutput
    <3> QED
      BY <3>1, <3>2
  <2>6. m \in [Vars -> Values]
    <3>1. m = [x \in Vars |-> m[x]]
      BY <2>4 DEF WrittenTo, FunctionOn
    <3> QED
      BY <2>5, <3>1
  <2> QED
    BY <1>2, <2>4, <2>6 DEF MemTaken, m
<1> QED
  BY <1>1, <1>2

\* What is left when the first call that is not over has taken its reply.
LEMMA TakeKeeps ==
    ASSUME NEW d, NEW u, NEW pk, NEW rest, View(d, u, pk, rest), down # <<>>, ReadArgs(pk[d])
    PROVE  /\ RegistrationOK' /\ IdsOK' /\ ScalarsOK'
           /\ d + 1 \in 1..(asked' + 1) /\ asked' + 1 <= d + 1 + Wrap /\ asked' = asked
           /\ DOMAIN log' = (d + 1)..asked' /\ log' = [c \in DOMAIN log' |-> log'[c]]
           /\ \A c \in (d + 1)..asked' : PacketOK(pk[c], c)' /\ LogOK(log[c], pk[c])'
           /\ StreamsOK(d + 1, u, pk, rest)'
           /\ MemTaken(mem', pk[d], log[d].wrote)
<1> DEFINE p == pk[d]
           w == log[d].wrote
           a == Answered(u)
           e == d + 1
<1>1. /\ d \in Nat \ {0} /\ u \in Nat \ {0} /\ asked \in Nat /\ a \in Nat
      /\ d <= u /\ u <= asked + 1 /\ a < u /\ asked < d + Wrap
      /\ header = NoHeader => a = u - 1
      /\ header # NoHeader => a = u - 2
  BY ViewNumbers
<1>2. d \in d..a /\ d \in d..asked /\ PacketOK(p, d) /\ p \in Packets
      /\ AnswerOK(log[d], p) /\ Holding(ArgsAt(down, 2, Returned(p)), Returned(p), w)
  BY ReplyTaken
<1>3. ~p.byid => down[Len(ReplyKinds(p))].v = stubId[stubTable.names[p.fn]]
  BY ReplyTaken
<1>4. Joined(After(down, ReplyKinds(p)), Replies(pk, d, a), d + 1, a)
  BY ReplyTaken
<1> HIDE DEF p, w
<1>5. /\ mem' = MemAfter(p)
      /\ callId' = [callId EXCEPT ![p.fn] = Learnt(p, down[Len(ReplyKinds(p))].v)]
      /\ down' = After(down, ReplyKinds(p))
      /\ log' = [c \in DOMAIN log \ {p.call} |-> log[c]]
      /\ UNCHANGED <<registration, sequenceId, asked, up, session, header>>
  BY DEF ReadArgs, p, sessionVars
<1>6. UNCHANGED <<factory, stubTable, stubId, server>>
  BY <1>5 DEF registration
<1>7. RegistrationOK /\ IdsOK /\ ScalarsOK /\ CallsOK(d, pk) /\ StreamsOK(d, u, pk, rest)
  BY DEF View
<1>8. MemTaken(mem', p, w) /\ mem' \in [Vars -> Values]
  <2>1. p.args \in [DOMAIN Params[p.fn] -> Vars]
    BY <1>2 DEF PacketOK
  <2>2. mem \in [Vars -> Values]
    BY <1>7 DEF ScalarsOK
  <2>3. \A i \in Where(p.fn, Outputs) : w[i] \in Values
    BY <1>2 DEF AnswerOK, w
  <2> QED
    BY <1>2, <1>5, <2>1, <2>2, <2>3, MemRead
<1>9. p.fn \in DOMAIN callId /\ p.fn \in DOMAIN stubTable.names /\ p.call = d
  BY <1>2 DEF PacketOK, AnswerOK
<1>10. PICK id : id = Learnt(p, down[Len(ReplyKinds(p))].v)
  OBVIOUS
<1>11. /\ id \in Nat /\ id # 0 /\ id = stubId[stubTable.names[p.fn]]
       /\ callId[p.fn] # 0 => id = callId[p.fn]
  <2>1. stubId[stubTable.names[p.fn]] \in Nat \ {0}
    BY <1>7, <1>9, NamesLead
  <2>2. callId[p.fn] # 0 => callId[p.fn] = stubId[stubTable.names[p.fn]]
    BY <1>7, <1>9 DEF IdsOK
  <2>3. p.byid => callId[p.fn] # 0
    BY <1>2 DEF PacketOK
  <2>4. CASE p.byid
    BY <2>1, <2>2, <2>3, <2>4, <1>10 DEF Learnt
  <2>5. CASE ~p.byid
    BY <2>1, <2>2, <2>5, <1>3, <1>10 DEF Learnt
  <2> QED
    BY <2>4, <2>5
<1>12. /\ DOMAIN callId' = DOMAIN callId
       /\ \A f \in DOMAIN callId : callId'[f] = IF f = p.fn THEN id ELSE callId[f]
       /\ callId' = [f \in DOMAIN callId |-> callId'[f]]
  <2>1. callId' = [callId EXCEPT ![p.fn] = id]
    BY <1>5, <1>10
  <2> QED
    BY <1>9, <2>1
<1>13. IdsKept
  BY <1>9, <1>11, <1>12 DEF IdsKept
<1>14. IdsOK'
  <2>1. callId' \in [DOMAIN callId' -> Nat]
    BY <1>7, <1>11, <1>12 DEF IdsOK
  <2>2. ASSUME NEW f \in DOMAIN callId', callId'[f] # 0
        PROVE  f \in DOMAIN stubTable' .names /\ callId'[f] = stubId'[stubTable' .names[f]]
    <3>1. CASE f = p.fn
      BY <3>1, <1>6, <1>9, <1>11, <1>12
    <3>2. CASE f # p.fn
      <4>1. f \in DOMAIN callId /\ callId[f] # 0 /\ callId'[f] = callId[f]
        BY <3>2, <2>2, <1>12
      <4>2. f \in DOMAIN stubTable.names /\ callId[f] = stubId[stubTable.names[f]]
        BY <4>1, <1>7 DEF IdsOK
      <4> QED
        BY <4>1, <4>2, <1>6
    <3> QED
      BY <3>1, <3>2
  <2>3. DOMAIN callId' \subseteq Functions
    BY <1>7, <1>12 DEF IdsOK
  <2> QED
    BY <2>1, <2>2, <2>3 DEF IdsOK
<1>15. ScalarsOK'
  <2>1. server = "serving"
    BY <1>1, <1>2, <1>7 DEF ScalarsOK
  <2> QED
    BY <2>1, <1>5, <1>6, <1>7, <1>8 DEF ScalarsOK
<1>16. RegistrationOK'
  BY <1>5, <1>7, RegistrationStays
<1>17. DOMAIN log = d..asked
  BY <1>7 DEF CallsOK
<1>18. /\ DOMAIN log' = (d + 1)..asked /\ log' = [c \in DOMAIN log' |-> log'[c]]
       /\ \A c \in (d + 1)..asked : log'[c] = log[c]
  <2>1. \A c : c \in DOMAIN log \ {p.call} <=> c \in (d + 1)..asked
    BY <1>1, <1>9, <1>17
  <2>2. DOMAIN log' = DOMAIN log \ {p.call} /\ \A c \in DOMAIN log \ {p.call} : log'[c] = log[c]
    BY <1>5
  <2>3. log' = [c \in DOMAIN log' |-> log'[c]]
    BY <1>5
  <2> QED
    BY <2>1, <2>2, <2>3
<1>19. ASSUME NEW c \in (d + 1)..asked PROVE PacketOK(pk[c], c)' /\ LogOK(log[c], pk[c])'
  <2>1. c \in d..asked
    BY <1>1
  <2>2. PacketOK(pk[c], c)'
    BY <1>5, <1>13, <2>1, RequestsStay
  <2>3. LogOK(log[c], pk[c]) /\ log'[c] = log[c]
    BY <2>1, <1>7, <1>18 DEF CallsOK
  <2> QED
    BY <2>2, <2>3 DEF LogOK
<1>20. PICK n : n = a
  OBVIOUS
<1>21. n \in Nat /\ d <= n /\ n < u
  BY <1>1, <1>2, <1>20
<1>22. Answered(u)' = n
  BY <1>5, <1>20 DEF Answered
<1>23. Joined(rest, Requests(pk, u)', u, asked)
  <2>1. ASSUME NEW x \in u..asked PROVE Requests(pk, u)'[x] = Requests(pk, u)[x]
    <3>1. x \in d..asked /\ x \in u..asked'
      BY <1>1, <1>5
    <3>2. Requests(pk, u)'[x] = Request(pk[x])' /\ Requests(pk, u)[x] = Request(pk[x])
      BY <3>1 DEF Requests
    <3>3. Request(pk[x])' = Request(pk[x])
      BY <1>5, <1>13, <3>1, RequestsStay
    <3> QED
      BY <3>2, <3>3
  <2>2. Joined(rest, Requests(pk, u), u, asked)
    BY <1>7 DEF StreamsOK
  <2> QED
    BY <1>1, <2>1, <2>2, JoinedSame
<1> HIDE DEF a
<1>24. Joined(down', Replies(pk, d + 1, n)', d + 1, n)
  <2>1. ASSUME NEW x \in (d + 1)..n PROVE Replies(pk, d + 1, n)'[x] = Replies(pk, d, n)[x]
    <3>1. x \in d..n /\ x \in (d + 1)..asked
      BY <1>1, <1>21
    <3>2. Replies(pk, d, n)[x] = ReplyOf(pk[x], log[x].wrote)
      BY <3>1 DEF Replies
    <3>3. Replies(pk, d + 1, n)'[x] = ReplyOf(pk[x], log[x].wrote)'
      BY DEF Replies
    <3>4. ReplyOf(pk[x], log[x].wrote)' = ReplyOf(pk[x], log[x].wrote)
      BY <3>1, <1>6, <1>18 DEF ReplyOf, HeaderOf, Reply
    <3> QED
      BY <3>2, <3>3, <3>4
  <2>2. Joined(down', Replies(pk, d, n), d + 1, n)
    BY <1>4, <1>5, <1>20 DEF a
  <2>3. d + 1 \in Nat
    BY <1>1
  <2> QED
    BY <1>21, <2>1, <2>2, <2>3, JoinedSame
<1>30. PICK v : v = d + 1
  OBVIOUS
<1>31. v \in Nat \ {0} /\ v <= asked + 1 /\ v <= u /\ d <= v
  BY <1>1, <1>2, <1>21, <1>30
<1>25. StreamsOK(v, u, pk, rest)'
  <2>1. Replies(pk, v, Answered(u))' = Replies(pk, v, n)'
    BY <1>22 DEF Replies
  <2>2. Joined(down, Replies(pk, v, Answered(u)), v, Answered(u))'
    BY <1>22, <1>24, <1>30, <2>1
  <2>3. Joined(rest, Requests(pk, u), u, asked)'
    BY <1>5, <1>23
  <2>4. \A x \in (v..Answered(u))' : AnswerOK(log[x], pk[x])'
    <3>1. ASSUME NEW x \in v..n PROVE AnswerOK(log[x], pk[x])'
      <4>1. x \in d..n /\ x \in (d + 1)..asked
        BY <1>1, <1>21, <1>30
      <4>2. AnswerOK(log[x], pk[x]) /\ log'[x] = log[x]
        BY <4>1, <1>7, <1>18, <1>20 DEF StreamsOK, a
      <4> QED
        BY <4>2, <1>6 DEF AnswerOK
    <3> QED
      BY <1>22, <3>1
  <2>5. \A x \in ((Answered(u) + 1)..asked)' : log'[x].ran = "nothing"
    <3>1. ASSUME NEW x \in (n + 1)..asked PROVE log'[x].ran = "nothing"
      <4>1. x \in (d + 1)..asked
        BY <1>1, <1>21
      <4>2. log[x].ran = "nothing" /\ log'[x] = log[x]
        BY <4>1, <1>7, <1>18, <1>20 DEF StreamsOK, a
      <4> QED
        BY <4>2
    <3> QED
      BY <1>5, <1>22, <3>1
  <2>6. u \in v..(asked' + 1)
    BY <1>1, <1>5, <1>31
  <2>7. header' = NoHeader => up' = rest
    BY <1>5, <1>7 DEF StreamsOK
  <2>8. header' # NoHeader => v < u /\ pk[u - 1].fn \in DOMAIN stubTable' .names
                              /\ header' = HeaderOf(pk[u - 1])'
                              /\ ArgumentsThen(up, pk[u - 1], rest)'
    <3>1. ASSUME header # NoHeader PROVE v < u
      <4>1. n = u - 2
        BY <1>1, <1>20, <3>1 DEF a
      <4> QED
        BY <4>1, <1>1, <1>21, <1>30
    <3>2. HeaderOf(pk[u - 1])' = HeaderOf(pk[u - 1])
      BY <1>6, ReplyStays
    <3>3. ArgumentsThen(up, pk[u - 1], rest)' <=> ArgumentsThen(up, pk[u - 1], rest)
      BY <1>5 DEF ArgumentsThen
    <3> QED
      BY <1>5, <1>6, <1>7, <3>1, <3>2, <3>3 DEF StreamsOK
  <2> QED
    BY <2>2, <2>3, <2>4, <2>5, <2>6, <2>7, <2>8 DEF StreamsOK
<1>26. StreamsOK(d + 1, u, pk, rest)'
  BY <1>25, <1>30
<1>27. d + 1 \in 1..(asked' + 1) /\ asked' + 1 <= d + 1 + Wrap /\ asked' = asked
  BY <1>1, <1>2, <1>5, WrapPositive
<1>28. DOMAIN log' = (d + 1)..asked' /\ log' = [c \in DOMAIN log' |-> log'[c]]
       /\ \A c \in (d + 1)..asked' : PacketOK(pk[c], c)' /\ LogOK(log[c], pk[c])'
  BY <1>18, <1>19, <1>27
<1> QED
  BY <1>8, <1>14, <1>15, <1>16, <1>26, <1>27, <1>28 DEF p, w
-----------------------------------------------------------------------------
(* The theorems                                                              *)

\* The synchronous call gets its reply.
LEMMA SyncReturnStep ==
    ASSUME IInv, SyncReturn
    PROVE  IInv'
<1>1. PICK d, u, pk, rest : View(d, u, pk, rest)
  BY DEF IInv
<1>2. /\ current # NoPacket /\ down # <<>> /\ ReadArgs(current)
      /\ current' = NoPacket /\ pendings' = pendings
  BY DEF SyncReturn
<1>3. d = asked /\ current = pk[d] /\ pendings = Nothing
  BY <1>1, <1>2 DEF View, CallsOK
<1>4. ReadArgs(pk[d])
  BY <1>2, <1>3
<1>5. /\ RegistrationOK' /\ IdsOK' /\ ScalarsOK'
      /\ d + 1 \in 1..(asked' + 1) /\ asked' + 1 <= d + 1 + Wrap /\ asked' = asked
      /\ DOMAIN log' = (d + 1)..asked' /\ log' = [c \in DOMAIN log' |-> log'[c]]
      /\ \A c \in (d + 1)..asked' : PacketOK(pk[c], c)' /\ LogOK(log[c], pk[c])'
      /\ StreamsOK(d + 1, u, pk, rest)'
  BY <1>1, <1>2, <1>4, TakeKeeps
<1>6. d \in Nat /\ asked \in Nat
  BY <1>1, ViewNumbers
<1>7. PICK e : e = d + 1
  OBVIOUS
<1>8. e \in Nat /\ e..asked' = {}
  BY <1>3, <1>5, <1>6, <1>7
<1>9. DOMAIN pendings' = Residues(e, asked')
  <2>1. Residues(e, asked') = {}
    BY <1>8 DEF Residues
  <2>2. DOMAIN pendings' = {}
    BY <1>2, <1>3 DEF Nothing
  <2> QED
    BY <2>1, <2>2
<1>10. CallsOK(e, pk)'
  BY <1>2, <1>5, <1>7, <1>8, <1>9 DEF CallsOK
<1>11. View(e, u, pk, rest)'
  BY <1>5, <1>7, <1>10 DEF View
<1> QED
  BY <1>11 DEF IInv

\* A reply selects its packet among those that are pending: that of the first call
\* that is not over.
LEMMA AsyncSelects ==
    ASSUME NEW d, NEW u, NEW pk, NEW rest, View(d, u, pk, rest), current = NoPacket, down # <<>>
    PROVE  /\ down[1].v = d % Wrap /\ pendings[down[1].v] = pk[d] /\ pk[d].how = "asynch"
           /\ pk[d].by = "value"
<1>1. d \in d..asked /\ PacketOK(pk[d], d) /\ down[1].v = d % Wrap
  BY ReplyTaken
<1>2. pendings[d % Wrap] = pk[d] /\ pk[d].how = "asynch"
  BY <1>1 DEF View, CallsOK
<1>3. pk[d].by = "value"
  BY <1>1, <1>2 DEF PacketOK, HeldBy, AsyncPacket
<1> QED
  BY <1>1, <1>2, <1>3

\* An asynchronous call gets its reply.
LEMMA AsyncReturnStep ==
    ASSUME IInv, AsyncReturn
    PROVE  IInv'
<1>1. PICK d, u, pk, rest : View(d, u, pk, rest)
  BY DEF IInv
<1>2. PICK p : p = pendings[down[1].v]
  OBVIOUS
<1>3. /\ current = NoPacket /\ down # <<>> /\ ReadArgs(p)
      /\ current' = current
      /\ pendings' = [n \in DOMAIN pendings \ {down[1].v} |-> pendings[n]]
  BY <1>2 DEF AsyncReturn
<1>4. down[1].v = d % Wrap /\ p = pk[d]
  BY <1>1, <1>2, <1>3, AsyncSelects
<1>5. /\ RegistrationOK' /\ IdsOK' /\ ScalarsOK'
      /\ d + 1 \in 1..(asked' + 1) /\ asked' + 1 <= d + 1 + Wrap /\ asked' = asked
      /\ DOMAIN log' = (d + 1)..asked' /\ log' = [c \in DOMAIN log' |-> log'[c]]
      /\ \A c \in (d + 1)..asked' : PacketOK(pk[c], c)' /\ LogOK(log[c], pk[c])'
      /\ StreamsOK(d + 1, u, pk, rest)'
  BY <1>1, <1>3, <1>4, TakeKeeps
<1>6. d \in Nat /\ asked \in Nat /\ asked < d + Wrap /\ d \in d..asked
  BY <1>1, <1>3, ViewNumbers, ReplyTaken
<1>7. PICK e : e = d + 1
  OBVIOUS
<1>8. DOMAIN pendings = Residues(d, asked) /\ \A c \in d..asked : pendings[c % Wrap] = pk[c]
                                                                 /\ pk[c].how = "asynch"
  BY <1>1, <1>3 DEF View, CallsOK
<1>9. Residues(d + 1, asked) = Residues(d, asked) \ {d % Wrap}
  BY <1>6, ResiduesWithout
<1>10. /\ DOMAIN pendings' = Residues(e, asked')
       /\ \A n \in DOMAIN pendings' : pendings'[n] = pendings[n]
  <2>1. DOMAIN pendings' = DOMAIN pendings \ {d % Wrap}
    BY <1>3, <1>4
  <2>2. \A n \in DOMAIN pendings' : pendings'[n] = pendings[n]
    BY <1>3
  <2> QED
    BY <1>5, <1>7, <1>8, <1>9, <2>1, <2>2
<1>11. ASSUME NEW c \in e..asked' PROVE pendings'[c % Wrap] = pk[c] /\ pk[c].how = "asynch"
  <2>1. c % Wrap \in DOMAIN pendings'
    BY <1>10 DEF Residues
  <2>2. c \in d..asked
    BY <1>5, <1>6, <1>7
  <2> QED
    BY <1>8, <1>10, <2>1, <2>2
<1>12. CallsOK(e, pk)'
  BY <1>3, <1>5, <1>7, <1>10, <1>11 DEF CallsOK
<1>13. View(e, u, pk, rest)'
  BY <1>5, <1>7, <1>12 DEF View
<1> QED
  BY <1>13 DEF IInv

\* Before the first call there is nothing on its way.
LEMMA InitHolds ==
    ASSUME Init
    PROVE  IInv
<1> DEFINE pk == <<>>
<1>1. /\ InitRegistration /\ callId = [f \in Declared(Main) |-> 0] /\ sequenceId = 0
      /\ pendings = Nothing /\ current = NoPacket /\ mem \in [Vars -> Values] /\ asked = 0
      /\ up = <<>> /\ down = <<>> /\ session = "running" /\ header = NoHeader /\ log = Nothing
  BY DEF Init
<1>2. RegistrationOK
  BY <1>1, RegistrationInit
<1>3. IdsOK
  BY <1>1, ParamsAssumption, ClassesAssumption DEF IdsOK
<1>4. ScalarsOK
  <2>1. 0 % Wrap = 0
    BY WrapPositive
  <2> QED
    BY <1>1, <2>1, WrapPositive DEF ScalarsOK
<1>5. Residues(1, 0) = {}
  BY DEF Residues
<1>6. CallsOK(1, pk)
  <2>1. 1..asked = {} /\ 1 \in 1..(asked + 1) /\ asked + 1 <= 1 + Wrap
    BY <1>1, WrapPositive
  <2>2. DOMAIN log = 1..asked /\ log = [c \in DOMAIN log |-> log[c]]
    BY <1>1, <2>1 DEF Nothing
  <2>3. DOMAIN pendings = Residues(1, asked)
    BY <1>1, <1>5 DEF Nothing
  <2> QED
    BY <1>1, <2>1, <2>2, <2>3 DEF CallsOK
<1>7. StreamsOK(1, 1, pk, <<>>)
  <2>1. Answered(1) = 0
    BY <1>1 DEF Answered
  <2>2. Joined(<<>>, Requests(pk, 1), 1, 0) /\ Joined(<<>>, Replies(pk, 1, 0), 1, 0)
    BY JoinedNone
  <2>3. 1..0 = {} /\ 1 \in 1..(0 + 1) /\ (0 + 1)..0 = {}
    OBVIOUS
  <2> QED
    BY <1>1, <2>1, <2>2, <2>3 DEF StreamsOK
<1> HIDE DEF pk
<1>8. View(1, 1, pk, <<>>)
  BY <1>2, <1>3, <1>4, <1>6, <1>7 DEF View
<1> QED
  BY <1>8 DEF IInv

\* A step that takes no reply of an asynchronous call.
LEMMA QuietStep ==
    ASSUME IInv, Quiet
    PROVE  IInv'
<1>1. CASE Register /\ UNCHANGED <<clientVars, wireVars, sessionVars, log>>
  BY <1>1, RegisterStep
<1>2. CASE \E c \in Classes : Bind(c)
  BY <1>2, BindStep
<1>3. CASE Calls
  <2>1. PICK f \in DOMAIN callId, byname \in BOOLEAN :
           \E args \in [DOMAIN Params[f] -> Vars] :
              CallSync(f, args, byname) \/ CallAsync(f, args, byname)
    BY <1>3 DEF Calls
  <2>2. PICK args \in [DOMAIN Params[f] -> Vars] :
           CallSync(f, args, byname) \/ CallAsync(f, args, byname)
    BY <2>1
  <2> QED
    BY <2>2, CallSyncStep, CallAsyncStep
<1>4. CASE \E x \in Vars, v \in Values : Assign(x, v)
  <2>1. PICK x \in Vars, v \in Values : Assign(x, v)
    BY <1>4
  <2>2. mem \in [Vars -> Values] /\ session \in {"running", "ended"}
    BY DEF IInv, View, ScalarsOK
  <2>3. /\ mem' = [mem EXCEPT ![x] = v]
        /\ UNCHANGED <<registration, callId, sequenceId, pendings, current, asked,
                       wireVars, sessionVars, log>>
    BY <2>1 DEF Assign
  <2>4. mem' \in [Vars -> Values]
    BY <2>2, <2>3
  <2>5. UNCHANGED <<session, header>>
    BY <2>3 DEF sessionVars
  <2> QED
    BY <2>2, <2>3, <2>4, <2>5, ViewStays
<1>5. CASE ReadHeader
  BY <1>5, ReadHeaderStep
<1>6. CASE UnknownFunction \/ SyncCallThrows
  <2>1. mem \in [Vars -> Values]
    BY DEF IInv, View, ScalarsOK
  <2>2. /\ UNCHANGED <<registration, clientVars, wireVars, header, log>>
        /\ session' = "ended"
    BY <1>6 DEF UnknownFunction, SyncCallThrows
  <2>3. UNCHANGED <<callId, sequenceId, pendings, current, mem, asked>>
    BY <2>2 DEF clientVars
  <2> QED
    BY <2>1, <2>2, <2>3, ViewStays
<1>7. CASE SyncCall
  BY <1>7, SyncCallStep
<1>8. CASE SyncReturn
  BY <1>8, SyncReturnStep
<1> QED
  BY <1>1, <1>2, <1>3, <1>4, <1>5, <1>6, <1>7, <1>8 DEF Quiet

\* Every step keeps the invariant.
LEMMA NextStep ==
    ASSUME IInv, [Next]_vars
    PROVE  IInv'
<1>1. CASE Quiet
  BY <1>1, QuietStep
<1>2. CASE AsyncReturn
  BY <1>2, AsyncReturnStep
<1>3. CASE UNCHANGED vars
  <2>1. UNCHANGED <<registration, callId, sequenceId, pendings, current, mem, asked, wireVars,
                    session, header, log>>
    BY <1>3 DEF vars, clientVars, sessionVars
  <2>2. mem \in [Vars -> Values] /\ session \in {"running", "ended"}
    BY DEF IInv, View, ScalarsOK
  <2> QED
    BY <2>1, <2>2, ViewStays
<1> QED
  BY <1>1, <1>2, <1>3 DEF Next

\* The streams, the packets, the history and the ids belong together throughout.
THEOREM Belonging == Spec => []IInv
<1>1. Init => IInv
  BY InitHolds
<1>2. IInv /\ [Next]_vars => IInv'
  BY NextStep
<1> QED
  BY <1>1, <1>2, PTL DEF Spec

\* Every variable has its type, for any classes, functions, variables and any width
\* of the sequence number: the ids and numbers are ids and numbers, no call is in the
\* log that was not made, and both streams consist of parts.
THEOREM TypeCorrect == Spec => []TypeOK
BY Belonging, TypeHolds, PTL

\* An id leads where a name does (call by id and call by name in server.cpp reach the
\* same stub), and an id that a client has learnt from a reply is that of the function
\* it learnt it for, however many classes are registered and bound meanwhile.
THEOREM IdsLeadWhereNamesDo == Spec => []CallIdsLead
BY Belonging, IdsLead, PTL

\* Both streams are cut where they were joined: no end ever reads a part as what it is
\* not, be the call by name or by id, although an id may have become known between a
\* request and its reply.
THEOREM StreamsFramed == Spec => []Framed
BY Belonging, FramedHolds, PTL

\* A sequence number stands for one call, when the counter wraps as well: every number
\* on its way is awaited, once, and while the session runs every number that is awaited
\* is on its way.
THEOREM NumbersInFlight == Spec => []InFlightExact
BY Belonging, ExactHolds, PTL

\* The server runs the function that was called, on the values its arguments had then,
\* and is not shown those of pure outputs.
THEOREM ArgumentsArrived == Spec => []ArgumentsArrive
BY Belonging, ArriveHolds, PTL
-----------------------------------------------------------------------------
(* What a call brings back                                                   *)

\* A step that is no reply ends no call.
LEMMA OnlyRepliesEnd ==
    ASSUME IInv, Next, ~SyncReturn, ~AsyncReturn
    PROVE  DOMAIN log \subseteq DOMAIN log'
<1>1. CASE UNCHANGED log
  BY <1>1
<1>2. CASE Calls
  <2>1. PICK p : log' = Insert(log, {p.call}, Sent(p))
    BY <1>2 DEF Calls, CallSync, CallAsync, Send
  <2> QED
    BY <2>1 DEF Insert
<1>3. CASE SyncCall
  <2>1. \E a, b, e : log' = Completed(log, header.call, a, b, e)
    BY <1>3 DEF SyncCall, Completed
  <2>2. PICK a, b, e : log' = Completed(log, header.call, a, b, e)
    BY <2>1
  <2> QED
    BY <2>2 DEF Completed
<1>4. Quiet
  BY DEF Next
<1>5. ASSUME NEW c \in Classes, Bind(c) PROVE UNCHANGED log
  BY <1>5 DEF Bind
<1>6. ASSUME NEW x \in Vars, NEW v \in Values, Assign(x, v) PROVE UNCHANGED log
  BY <1>6 DEF Assign
<1>7. CASE ReadHeader \/ UnknownFunction \/ SyncCallThrows
  BY <1>7, <1>1 DEF ReadHeader, UnknownFunction, SyncCallThrows
<1> QED
  BY <1>1, <1>2, <1>3, <1>4, <1>5, <1>6, <1>7 DEF Quiet

\* The call whose reply is taken is the first that is not over, and its record says
\* what its packet does.
LEMMA TakenCall ==
    ASSUME NEW d, NEW u, NEW pk, NEW rest, View(d, u, pk, rest), down # <<>>, ReadArgs(pk[d]),
           NEW c \in DOMAIN log \ DOMAIN log'
    PROVE  /\ c = d /\ pk[d] \in Packets /\ PacketOK(pk[d], d)
           /\ log[d].fn = pk[d].fn /\ log[d].how = pk[d].how /\ log[d].args = pk[d].args
           /\ log[d].passed = pk[d].vals /\ log[d].ran = pk[d].fn
<1>1. DOMAIN log = d..asked /\ d \in Nat /\ asked \in Nat
  BY ViewNumbers DEF View, CallsOK
<1>2. DOMAIN log' = (d + 1)..asked
  BY TakeKeeps
<1>3. c = d
  BY <1>1, <1>2
<1>4. /\ PacketOK(pk[d], d) /\ pk[d] \in Packets /\ AnswerOK(log[d], pk[d])
      /\ LogOK(log[d], pk[d])
  BY ReplyTaken
<1>5. log[d].ran = pk[d].fn
  BY <1>4 DEF AnswerOK
<1>6. /\ log[d].fn = pk[d].fn /\ log[d].how = pk[d].how /\ log[d].args = pk[d].args
      /\ log[d].passed = pk[d].vals
  BY <1>4 DEF LogOK
<1> QED
  BY <1>3, <1>4, <1>5, <1>6

\* A synchronous call sets the variables passed for outputs.
LEMMA SyncBrings ==
    ASSUME IInv, SyncReturn, NEW c \in DOMAIN log \ DOMAIN log'
    PROVE  BringsBack(log[c])
<1>1. PICK d, u, pk, rest : View(d, u, pk, rest)
  BY DEF IInv
<1>2. current # NoPacket /\ down # <<>> /\ ReadArgs(current)
  BY DEF SyncReturn
<1>3. current = pk[d] /\ pk[d].how = "synch"
  BY <1>1, <1>2 DEF View, CallsOK
<1> DEFINE p == pk[d]
           l == log[d]
<1>4. /\ c = d /\ p \in Packets /\ PacketOK(p, d)
      /\ l.fn = p.fn /\ l.how = p.how /\ l.args = p.args
      /\ l.passed = p.vals /\ l.ran = p.fn
  BY <1>1, <1>2, <1>3, TakenCall
<1>5. MemTaken(mem', p, l.wrote)
  BY <1>1, <1>2, <1>3, TakeKeeps
<1> HIDE DEF p, l
<1>6. p.how = "synch"
  BY <1>3 DEF p
<1>7. p.by # "value"
  BY <1>4, <1>6 DEF PacketOK, HeldBy
<1>8. WrittenTo(mem', p, l.wrote)
  BY <1>5, <1>7 DEF MemTaken
<1>9. \A x : ForOutput(p, x) \subseteq Nat
  <2>1. p.fn \in Functions
    BY <1>4 DEF Packets
  <2>2. DOMAIN Params[p.fn] = 1..Len(Params[p.fn])
    BY <2>1, TravellingPlaces
  <2> QED
    BY <2>2 DEF ForOutput, Where
<1>10. ASSUME NEW x \in Vars
       PROVE  mem'[x] = IF ForOutput(p, x) # {}
                        THEN l.wrote[CHOOSE i \in ForOutput(p, x) :
                                        \A j \in ForOutput(p, x) : j <= i]
                        ELSE mem[x]
  <2>1. CASE ForOutput(p, x) = {}
    BY <2>1, <1>8 DEF WrittenTo
  <2>2. CASE ForOutput(p, x) # {}
    <3>1. PICK S : S = ForOutput(p, x)
      OBVIOUS
    <3>2. PICK i \in S : (\A j \in S : j <= i) /\ mem'[x] = l.wrote[i]
      BY <2>2, <3>1, <1>8 DEF WrittenTo
    <3> DEFINE k == CHOOSE i_1 \in S : \A j \in S : j <= i_1
    <3>3. k \in S /\ \A j \in S : j <= k
      BY <3>2
    <3> HIDE DEF k
    <3>4. k = i
      BY <3>1, <3>2, <3>3, <1>9
    <3> QED
      BY <2>2, <3>1, <3>2, <3>4 DEF k
  <2> QED
    BY <2>1, <2>2
<1>11. Where(l.fn, {"out", "inout"}) = Where(p.fn, Outputs)
  BY <1>4 DEF Outputs
<1>12. \A x : {i \in Where(l.fn, {"out", "inout"}) : l.args[i] = x} = ForOutput(p, x)
  BY <1>4, <1>11 DEF ForOutput
<1> DEFINE outputs == Where(l.fn, {"out", "inout"})
           for(x) == {i \in outputs : l.args[i] = x}
           last(is) == CHOOSE i \in is : \A j \in is : j <= i
<1>13. ASSUME NEW x \in Vars
       PROVE  mem'[x] = IF l.how = "synch" /\ for(x) # {} THEN l.wrote[last(for(x))]
                                                         ELSE mem[x]
  <2>1. PICK S : S = ForOutput(p, x)
    OBVIOUS
  <2>2. for(x) = S
    BY <2>1, <1>12
  <2>3. mem'[x] = IF S # {} THEN l.wrote[last(S)] ELSE mem[x]
    BY <2>1, <1>10
  <2>4. l.how = "synch"
    BY <1>4, <1>6
  <2> HIDE DEF for, last
  <2> QED
    BY <2>2, <2>3, <2>4
<1>14. l.ran = l.fn /\ l.how # "asynch"
  BY <1>4, <1>6
<1>15. BringsBack(l)
  BY <1>13, <1>14 DEF BringsBack
<1> QED
  BY <1>4, <1>15 DEF l

\* The callback of an asynchronous call is given the arguments.
LEMMA AsyncBrings ==
    ASSUME IInv, AsyncReturn, NEW c \in DOMAIN log \ DOMAIN log'
    PROVE  BringsBack(log[c])
<1>1. PICK d, u, pk, rest : View(d, u, pk, rest)
  BY DEF IInv
<1>2. PICK q : q = pendings[down[1].v]
  OBVIOUS
<1>3. current = NoPacket /\ down # <<>> /\ ReadArgs(q) /\ callback' = ValsAfter(q)
  BY <1>2 DEF AsyncReturn
<1>14. q = pk[d] /\ pk[d].how = "asynch" /\ pk[d].by = "value"
  BY <1>1, <1>2, <1>3, AsyncSelects
<1> DEFINE p == pk[d]
           l == log[d]
<1>4. /\ c = d /\ p \in Packets /\ PacketOK(p, d)
      /\ l.fn = p.fn /\ l.how = p.how /\ l.args = p.args
      /\ l.passed = p.vals /\ l.ran = p.fn
  BY <1>1, <1>3, <1>14, TakenCall
<1>5. MemTaken(mem', p, l.wrote)
  BY <1>1, <1>3, <1>14, TakeKeeps
<1>6. Holding(ArgsAt(down, 2, Returned(p)), Returned(p), l.wrote)
  BY <1>1, <1>3, ReplyTaken
<1>7. p.how = "asynch" /\ p.by = "value" /\ callback' = ValsAfter(p)
  BY <1>3, <1>14
<1> HIDE DEF p, l
<1>8. mem' = mem
  BY <1>5, <1>7 DEF MemTaken
<1>9. callback' = Load(p.vals, Returned(p), ArgsAt(down, 2, Returned(p)))
  BY <1>7 DEF ValsAfter
<1>10. LoadedFrom(callback', p.fn, ClientLoads, l.wrote, p.vals)
  <2>1. p.fn \in Functions
    BY <1>4 DEF Packets
  <2>2. FunctionOn(p.vals, DOMAIN Params[p.fn])
    BY <1>4 DEF PacketOK, FunctionOn
  <2> DEFINE parts == ArgsAt(down, 2, Returned(p))
  <2> HIDE DEF parts
  <2>3. Holding(parts, Travelling(Params[p.fn], ClientLoads), l.wrote)
    BY <1>6 DEF Returned, parts
  <2>4. LoadedFrom(Load(p.vals, Travelling(Params[p.fn], ClientLoads), parts),
                   p.fn, ClientLoads, l.wrote, p.vals)
    BY <2>1, <2>2, <2>3, LoadedValues
  <2> QED
    BY <1>9, <2>4 DEF Returned, parts
<1>11. /\ callback' = [i \in DOMAIN Params[p.fn] |-> callback'[i]]
       /\ \A i \in DOMAIN Params[p.fn] :
             callback'[i] = IF i \in Where(p.fn, ClientLoads) THEN l.wrote[i] ELSE p.vals[i]
  BY <1>10 DEF LoadedFrom
<1>12. DOMAIN l.passed = DOMAIN Params[p.fn]
  BY <1>4 DEF PacketOK
<1>13. Where(l.fn, {"out", "inout"}) = Where(p.fn, ClientLoads)
  BY <1>4 DEF ClientLoads
<1>15. callback' = [i \in DOMAIN l.passed |->
                       IF i \in Where(l.fn, {"out", "inout"}) THEN l.wrote[i] ELSE l.passed[i]]
  BY <1>4, <1>11, <1>12, <1>13
<1>16. BringsBack(l)
  BY <1>4, <1>7, <1>8, <1>15 DEF BringsBack
<1> QED
  BY <1>4, <1>16 DEF l

\* No step ends a call otherwise.
LEMMA StepBrings ==
    ASSUME IInv, [Next]_vars
    PROVE  [\A c \in DOMAIN log \ DOMAIN log' : BringsBack(log[c])]_vars
<1>1. ASSUME Next, NEW c \in DOMAIN log \ DOMAIN log' PROVE BringsBack(log[c])
  <2>1. CASE SyncReturn
    BY <1>1, <2>1, SyncBrings
  <2>2. CASE AsyncReturn
    BY <1>1, <2>2, AsyncBrings
  <2>3. CASE ~SyncReturn /\ ~AsyncReturn
    BY <1>1, <2>3, OnlyRepliesEnd
  <2> QED
    BY <2>1, <2>2, <2>3
<1> QED
  BY <1>1

\* A call that ends has brought back what its own function wrote: into the variables
\* passed for outputs and no others, when it is synchronous, and to its callback, with
\* the variables left alone, when it is asynchronous.
THEOREM ResultsReturned == Spec => ResultsReturn
<1>1. IInv /\ [Next]_vars => [\A c \in DOMAIN log \ DOMAIN log' : BringsBack(log[c])]_vars
  BY StepBrings
<1> QED
  BY <1>1, Belonging, PTL DEF Spec, ResultsReturn
=============================================================================
