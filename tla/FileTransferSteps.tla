------------------------- MODULE FileTransferSteps --------------------------
(***************************************************************************)
(* Proofs about FileTransfer, first part: what its queues, its jobs and    *)
(* its disk are after the operations on them, and that the steps that      *)
(* start a job, read, write, end a job or give it up keep Inv.  The steps  *)
(* of the questions and answers, the loss of the connection and the        *)
(* theorems are in TransferProofs.                                         *)
(*                                                                         *)
(* A step is one of one job.  Frame(j) says that it leaves all of job j as *)
(* it was that Inv looks at: it holds for every other job, and FrameJob    *)
(* carries Inv over.  For the job itself a step is described by what it    *)
(* did to the queues (Took, Gave), to the disk (SameDisk, Landed, ...) and *)
(* to the two sides, and each part of Inv is shown from that.              *)
(***************************************************************************)
EXTENDS FileTransfer, TLAPS

-----------------------------------------------------------------------------
(* A queue with one message more, or less. *)

\* A message that is appended comes last.
LEMMA AppendAt ==
    ASSUME NEW S, NEW q \in Seq(S), NEW m \in S
    PROVE  /\ Append(q, m) \in Seq(S) /\ Len(Append(q, m)) = Len(q) + 1
           /\ DOMAIN Append(q, m) = 1 .. Len(q) + 1 /\ DOMAIN q = 1 .. Len(q)
           /\ Len(q) \in Nat
           /\ \A i \in 1 .. Len(q) : Append(q, m)[i] = q[i]
           /\ Append(q, m)[Len(q) + 1] = m
  OBVIOUS

\* When the first message is taken the others move up.
LEMMA TailAt ==
    ASSUME NEW S, NEW q \in Seq(S), q # <<>>
    PROVE  /\ Tail(q) \in Seq(S) /\ Len(q) \in Nat \ {0}
           /\ Len(Tail(q)) = Len(q) - 1
           /\ DOMAIN Tail(q) = 1 .. Len(q) - 1 /\ DOMAIN q = 1 .. Len(q)
           /\ \A i \in 1 .. Len(q) - 1 : Tail(q)[i] = q[i + 1]
           /\ Head(q) = q[1] /\ Head(q) \in S
  OBVIOUS

\* What a step adds to a queue is nothing or one message.
LEMMA Joined ==
    ASSUME NEW S, NEW q \in Seq(S), NEW m
    PROVE  q \o <<>> = q /\ (m \in S => q \o <<m>> = Append(q, m))
  OBVIOUS

\* A message of job j is somewhere in the queue.
LEMMA InSent ==
    ASSUME NEW q, NEW j, NEW m
    PROVE  m \in Sent(q, j) <=> \E i \in DOMAIN q : q[i] = m /\ m.j = j
  BY DEF Sent

\* All that is looked at of the messages of job j is the same in p as in q.
SameItems(q, p, j) ==
    /\ Clear(p, j) <=> Clear(q, j)
    /\ \A m : Opens(p, j, m) <=> Opens(q, j, m)
    /\ \A m : Closes(p, j, m) <=> Closes(q, j, m)
    /\ \A m, n : Follows(p, j, m, n) <=> Follows(q, j, m, n)

SameQueue(q, p, j) ==
    /\ Sent(p, j) = Sent(q, j) /\ SameItems(q, p, j)
    /\ \A T : Leads(q, j, T) => Leads(p, j, T)
    /\ \A T : Once(q, j, T) => Once(p, j, T)
    /\ Trails(q, j) => Trails(p, j)
    /\ OffsetFirst(q, j) => OffsetFirst(p, j)

\* A message that is no item of job j leaves its items as they are.
LEMMA AppendItems ==
    ASSUME NEW q \in Seq(Messages), NEW m \in Messages, NEW j, ~Item(m, j)
    PROVE  SameItems(q, Append(q, m), j)
<1> DEFINE p == Append(q, m)
           n == Len(q)
<1>1. /\ n \in Nat /\ DOMAIN q = 1 .. n /\ DOMAIN p = 1 .. n + 1
      /\ Len(p) = n + 1
      /\ \A i \in 1 .. n : p[i] = q[i]
      /\ ~Item(p[n + 1], j)
  BY AppendAt
<1> HIDE DEF p, n
<1>2. ASSUME NEW a \in Nat \ {0}, NEW b \in Nat, b <= n
      PROVE  NoItem(p, j, a, b) <=> NoItem(q, j, a, b)
  BY <1>1, <1>2 DEF NoItem
<1>3. ASSUME NEW a \in Nat \ {0}
      PROVE  NoItem(p, j, a, n + 1) <=> NoItem(q, j, a, n)
  BY <1>1 DEF NoItem
<1>4. Clear(p, j) <=> Clear(q, j) BY <1>1, <1>3 DEF Clear, n
<1>5. ASSUME NEW x PROVE Opens(p, j, x) <=> Opens(q, j, x)
  BY <1>1, <1>2 DEF Opens
<1>6. ASSUME NEW x PROVE Closes(p, j, x) <=> Closes(q, j, x)
  BY <1>1, <1>3 DEF Closes, n
<1>7. ASSUME NEW x, NEW y PROVE Follows(p, j, x, y) <=> Follows(q, j, x, y)
  <2>1. \A i, z \in 1 .. n : i < z =>
           (NoItem(p, j, i + 1, z - 1) <=> NoItem(q, j, i + 1, z - 1))
    BY <1>1, <1>2
  <2>2. ASSUME NEW i \in DOMAIN p, Item(p[i], j) PROVE i \in 1 .. n
    BY <1>1, <2>2
  <2>3. Follows(p, j, x, y) => Follows(q, j, x, y)
    <3> SUFFICES ASSUME NEW i \in DOMAIN p, NEW z \in DOMAIN p, p[i] = x, p[z] = y,
                        Item(x, j), Item(y, j), i < z, NoItem(p, j, i + 1, z - 1)
                 PROVE  Follows(q, j, x, y)
      BY DEF Follows
    <3>1. i \in 1 .. n /\ z \in 1 .. n BY <2>2
    <3>2. i \in DOMAIN q /\ z \in DOMAIN q /\ q[i] = x /\ q[z] = y BY <1>1, <3>1
    <3>3. NoItem(q, j, i + 1, z - 1) BY <2>1, <3>1
    <3> QED BY <3>2, <3>3 DEF Follows
  <2>4. Follows(q, j, x, y) => Follows(p, j, x, y)
    <3> SUFFICES ASSUME NEW i \in DOMAIN q, NEW z \in DOMAIN q, q[i] = x, q[z] = y,
                        Item(x, j), Item(y, j), i < z, NoItem(q, j, i + 1, z - 1)
                 PROVE  Follows(p, j, x, y)
      BY DEF Follows
    <3>1. i \in DOMAIN p /\ z \in DOMAIN p /\ p[i] = x /\ p[z] = y BY <1>1
    <3>2. NoItem(p, j, i + 1, z - 1) BY <1>1, <2>1
    <3> QED BY <3>1, <3>2 DEF Follows
  <2> QED BY <2>3, <2>4
<1> QED BY <1>4, <1>5, <1>6, <1>7 DEF SameItems, p

\* An item of job j is the last one, and follows the one that was.
LEMMA AppendItem ==
    ASSUME NEW q \in Seq(Messages), NEW m \in Messages, NEW j, Item(m, j)
    PROVE  LET p == Append(q, m) IN
           /\ ~Clear(p, j)
           /\ \A x : Opens(p, j, x) => Opens(q, j, x) \/ (x = m /\ Clear(q, j))
           /\ \A x : Closes(p, j, x) => x = m
           /\ \A x, y : Follows(p, j, x, y) =>
                           Follows(q, j, x, y) \/ (y = m /\ Closes(q, j, x))
<1> DEFINE p == Append(q, m)
           n == Len(q)
<1>1. /\ n \in Nat /\ DOMAIN q = 1 .. n /\ DOMAIN p = 1 .. n + 1
      /\ Len(p) = n + 1
      /\ \A i \in 1 .. n : p[i] = q[i]
      /\ p[n + 1] = m /\ Item(p[n + 1], j)
  BY AppendAt
<1> HIDE DEF p, n
<1>2. ASSUME NEW a \in Nat \ {0}, NEW b \in Nat, b <= n
      PROVE  NoItem(p, j, a, b) <=> NoItem(q, j, a, b)
  BY <1>1, <1>2 DEF NoItem
<1>3. ASSUME NEW a \in 1 .. n + 1 PROVE ~NoItem(p, j, a, n + 1)
  BY <1>1 DEF NoItem
<1>4. ~Clear(p, j) BY <1>1, <1>3 DEF Clear
<1>5. ASSUME NEW x, Opens(p, j, x)
      PROVE Opens(q, j, x) \/ (x = m /\ Clear(q, j))
  BY <1>1, <1>2, <1>5 DEF Opens, Clear, n
<1>6. ASSUME NEW x, Closes(p, j, x) PROVE x = m
  BY <1>1, <1>3, <1>6 DEF Closes
<1>7. ASSUME NEW x, NEW y, Follows(p, j, x, y)
      PROVE  Follows(q, j, x, y) \/ (y = m /\ Closes(q, j, x))
  <2>1. PICK a, b \in 1 .. n + 1 :
             /\ p[a] = x /\ p[b] = y /\ Item(x, j) /\ Item(y, j) /\ a < b
             /\ NoItem(p, j, a + 1, b - 1)
    BY <1>1, <1>7 DEF Follows
  <2>2. a \in 1 .. n /\ q[a] = x /\ NoItem(q, j, a + 1, b - 1)
    BY <1>1, <1>2, <2>1
  <2>3. CASE b = n + 1 BY <1>1, <2>1, <2>2, <2>3 DEF Closes, n
  <2>4. CASE b # n + 1
    <3>1. b \in 1 .. n /\ q[b] = y BY <1>1, <2>1, <2>4
    <3> QED BY <1>1, <2>1, <2>2, <3>1 DEF Follows
  <2> QED BY <2>3, <2>4
<1> QED BY <1>4, <1>5, <1>6, <1>7 DEF p

\* The same when a message is taken that is no item of job j,
LEMMA TailItems ==
    ASSUME NEW q \in Seq(Messages), q # <<>>, NEW j, ~Item(Head(q), j)
    PROVE  SameItems(q, Tail(q), j)
<1> DEFINE p == Tail(q)
           n == Len(q)
<1>1. /\ n \in Nat \ {0} /\ DOMAIN q = 1 .. n /\ DOMAIN p = 1 .. n - 1
      /\ Len(p) = n - 1 /\ \A i \in 1 .. n - 1 : p[i] = q[i + 1]
      /\ ~Item(q[1], j)
  BY TailAt
<1> HIDE DEF p, n
<1>2. ASSUME NEW a \in Nat \ {0}, NEW b \in Nat, b <= n - 1
      PROVE  NoItem(p, j, a, b) <=> NoItem(q, j, a + 1, b + 1)
  <2>1. ASSUME NEW i \in a + 1 .. b + 1, NoItem(p, j, a, b) PROVE ~Item(q[i], j)
    <3>1. i - 1 \in a .. b /\ i - 1 \in 1 .. n - 1 /\ p[i - 1] = q[i]
      BY <1>1, <1>2
    <3> QED BY <2>1, <3>1 DEF NoItem
  <2>2. ASSUME NEW i \in a .. b, NoItem(q, j, a + 1, b + 1) PROVE ~Item(p[i], j)
    <3>1. i + 1 \in a + 1 .. b + 1 /\ i \in 1 .. n - 1 /\ p[i] = q[i + 1]
      BY <1>1, <1>2
    <3> QED BY <2>2, <3>1 DEF NoItem
  <2> QED BY <2>1, <2>2 DEF NoItem
<1>3. ASSUME NEW b \in Nat, b <= n - 1
      PROVE  NoItem(p, j, 1, b) <=> NoItem(q, j, 1, b + 1)
  <2>1. NoItem(q, j, 2, b + 1) <=> NoItem(q, j, 1, b + 1) BY <1>1 DEF NoItem
  <2> QED BY <1>2, <1>3, <2>1
<1>4. Clear(p, j) <=> Clear(q, j) BY <1>1, <1>3 DEF Clear, n
<1>5. ASSUME NEW x PROVE Opens(p, j, x) <=> Opens(q, j, x)
  <2>1. ASSUME NEW i \in 1 .. n - 1, p[i] = x, Item(x, j), NoItem(p, j, 1, i - 1)
        PROVE  Opens(q, j, x)
    <3>1. i + 1 \in DOMAIN q /\ q[i + 1] = x /\ NoItem(q, j, 1, i)
      BY <1>1, <1>3, <2>1
    <3> QED BY <2>1, <3>1 DEF Opens
  <2>2. ASSUME NEW i \in 1 .. n, q[i] = x, Item(x, j), NoItem(q, j, 1, i - 1)
        PROVE  Opens(p, j, x)
    <3>1. i # 1 BY <1>1, <2>2
    <3>2. /\ i - 1 \in DOMAIN p /\ p[i - 1] = x
          /\ NoItem(p, j, 1, i - 2)
      BY <1>1, <1>3, <2>2, <3>1
    <3> QED BY <2>2, <3>2 DEF Opens
  <2> QED BY <1>1, <2>1, <2>2 DEF Opens
<1>6. ASSUME NEW x PROVE Closes(p, j, x) <=> Closes(q, j, x)
  <2>1. ASSUME NEW i \in 1 .. n - 1, p[i] = x, Item(x, j),
               NoItem(p, j, i + 1, n - 1)
        PROVE  Closes(q, j, x)
    <3>1. i + 1 \in DOMAIN q /\ q[i + 1] = x /\ NoItem(q, j, i + 2, n)
      BY <1>1, <1>2, <2>1
    <3> QED BY <1>1, <2>1, <3>1 DEF Closes, n
  <2>2. ASSUME NEW i \in 1 .. n, q[i] = x, Item(x, j), NoItem(q, j, i + 1, n)
        PROVE  Closes(p, j, x)
    <3>1. i # 1 BY <1>1, <2>2
    <3>2. /\ i - 1 \in DOMAIN p /\ p[i - 1] = x
          /\ NoItem(p, j, i, n - 1)
      BY <1>1, <1>2, <2>2, <3>1
    <3> QED BY <1>1, <2>2, <3>2 DEF Closes
  <2> QED BY <1>1, <2>1, <2>2 DEF Closes, n
<1>7. ASSUME NEW x, NEW y PROVE Follows(p, j, x, y) <=> Follows(q, j, x, y)
  <2>1. ASSUME NEW a \in 1 .. n - 1, NEW b \in 1 .. n - 1, p[a] = x, p[b] = y,
               Item(x, j), Item(y, j), a < b, NoItem(p, j, a + 1, b - 1)
        PROVE  Follows(q, j, x, y)
    <3>1. /\ a + 1 \in DOMAIN q /\ b + 1 \in DOMAIN q /\ q[a + 1] = x
          /\ q[b + 1] = y /\ a + 1 < b + 1 /\ NoItem(q, j, a + 2, b)
      BY <1>1, <1>2, <2>1
    <3> QED BY <2>1, <3>1 DEF Follows
  <2>2. ASSUME NEW a \in 1 .. n, NEW b \in 1 .. n, q[a] = x, q[b] = y,
               Item(x, j), Item(y, j), a < b, NoItem(q, j, a + 1, b - 1)
        PROVE  Follows(p, j, x, y)
    <3>1. a # 1 BY <1>1, <2>2
    <3>2. /\ a - 1 \in DOMAIN p /\ b - 1 \in DOMAIN p /\ p[a - 1] = x
          /\ p[b - 1] = y /\ a - 1 < b - 1
      BY <1>1, <2>2, <3>1
    <3>3. NoItem(p, j, a, b - 2) BY <1>1, <1>2, <2>2, <3>1
    <3> QED BY <2>2, <3>2, <3>3 DEF Follows
  <2> QED BY <1>1, <2>1, <2>2 DEF Follows
<1> QED BY <1>4, <1>5, <1>6, <1>7 DEF SameItems, p

\* and when the first item is taken the one that follows it is the first.
LEMMA TailItem ==
    ASSUME NEW q \in Seq(Messages), q # <<>>, NEW j, Item(Head(q), j)
    PROVE  LET p == Tail(q) IN
           /\ ~Clear(q, j) /\ Opens(q, j, Head(q))
           /\ Clear(p, j) => Closes(q, j, Head(q))
           /\ \A x : Opens(p, j, x) => Follows(q, j, Head(q), x)
           /\ \A x : Closes(p, j, x) => Closes(q, j, x)
           /\ \A x, y : Follows(p, j, x, y) => Follows(q, j, x, y)
<1> DEFINE p == Tail(q)
           n == Len(q)
           h == Head(q)
<1>1. /\ n \in Nat \ {0} /\ DOMAIN q = 1 .. n /\ DOMAIN p = 1 .. n - 1
      /\ Len(p) = n - 1 /\ \A i \in 1 .. n - 1 : p[i] = q[i + 1]
      /\ q[1] = h /\ Item(h, j)
  BY TailAt
<1> HIDE DEF p, n, h
<1>2. ASSUME NEW a \in Nat \ {0}, NEW b \in Nat, b <= n - 1, NoItem(p, j, a, b)
      PROVE  NoItem(q, j, a + 1, b + 1)
  <2>1. ASSUME NEW i \in a + 1 .. b + 1 PROVE ~Item(q[i], j)
    <3>1. i - 1 \in a .. b /\ i - 1 \in 1 .. n - 1 /\ p[i - 1] = q[i]
      BY <1>1, <1>2
    <3> QED BY <1>2, <3>1 DEF NoItem
  <2> QED BY <2>1 DEF NoItem
<1>3. ~Clear(q, j) BY <1>1 DEF Clear, NoItem, n
<1>4. Opens(q, j, h)
  <2>1. NoItem(q, j, 1, 0) BY DEF NoItem
  <2> QED BY <1>1, <2>1 DEF Opens
<1>5. ASSUME Clear(p, j) PROVE Closes(q, j, h)
  <2>1. NoItem(p, j, 1, n - 1) BY <1>1, <1>5 DEF Clear
  <2>2. NoItem(q, j, 2, n) BY <1>1, <1>2, <2>1
  <2> QED BY <1>1, <2>2 DEF Closes, n
<1>6. ASSUME NEW x, Opens(p, j, x) PROVE Follows(q, j, h, x)
  <2>1. PICK i \in 1 .. n - 1 : p[i] = x /\ Item(x, j) /\ NoItem(p, j, 1, i - 1)
    BY <1>1, <1>6 DEF Opens
  <2>2. i + 1 \in DOMAIN q /\ q[i + 1] = x /\ NoItem(q, j, 2, i)
    BY <1>1, <1>2, <2>1
  <2> QED BY <1>1, <2>1, <2>2 DEF Follows
<1>7. ASSUME NEW x, Closes(p, j, x) PROVE Closes(q, j, x)
  <2>1. PICK i \in 1 .. n - 1 : p[i] = x /\ Item(x, j) /\ NoItem(p, j, i + 1, n - 1)
    BY <1>1, <1>7 DEF Closes
  <2>2. i + 1 \in DOMAIN q /\ q[i + 1] = x /\ NoItem(q, j, i + 2, n)
    BY <1>1, <1>2, <2>1
  <2> QED BY <1>1, <2>1, <2>2 DEF Closes, n
<1>8. ASSUME NEW x, NEW y, Follows(p, j, x, y) PROVE Follows(q, j, x, y)
  <2>1. PICK a, b \in 1 .. n - 1 :
            /\ p[a] = x /\ p[b] = y /\ Item(x, j) /\ Item(y, j) /\ a < b
            /\ NoItem(p, j, a + 1, b - 1)
    BY <1>1, <1>8 DEF Follows
  <2>2. /\ a + 1 \in DOMAIN q /\ b + 1 \in DOMAIN q /\ q[a + 1] = x
        /\ q[b + 1] = y /\ a + 1 < b + 1 /\ NoItem(q, j, a + 2, b)
    BY <1>1, <1>2, <2>1
  <2> QED BY <2>1, <2>2 DEF Follows
<1> QED BY <1>3, <1>4, <1>5, <1>6, <1>7, <1>8 DEF p, h

\* A message of another job changes nothing for job j,
LEMMA AppendAway ==
    ASSUME NEW q \in Seq(Messages), NEW m \in Messages, NEW j, m.j # j
    PROVE  SameQueue(q, Append(q, m), j)
<1> DEFINE p == Append(q, m)
           n == Len(q)
<1>1. /\ n \in Nat /\ DOMAIN q = 1 .. n /\ DOMAIN p = 1 .. n + 1
      /\ \A i \in 1 .. n : p[i] = q[i]
      /\ p[n + 1].j # j
  BY AppendAt
<1>2. SameItems(q, p, j) BY AppendItems DEF Item
<1> HIDE DEF p, n
<1>3. Sent(p, j) = Sent(q, j)
  <2>1. ASSUME NEW x \in Sent(p, j) PROVE x \in Sent(q, j)
    BY <1>1, <2>1, InSent
  <2>2. ASSUME NEW x \in Sent(q, j) PROVE x \in Sent(p, j)
    BY <1>1, <2>2, InSent
  <2> QED BY <2>1, <2>2
<1>4. ASSUME NEW T, Leads(q, j, T) PROVE Leads(p, j, T)
  BY <1>1, <1>4 DEF Leads
<1>5. ASSUME NEW T, Once(q, j, T) PROVE Once(p, j, T)
  BY <1>1, <1>5 DEF Once
<1>6. ASSUME Trails(q, j) PROVE Trails(p, j)
  BY <1>1, <1>6 DEF Trails, Item
<1>7. ASSUME OffsetFirst(q, j) PROVE OffsetFirst(p, j)
  BY <1>1, <1>7 DEF OffsetFirst, Item
<1> QED BY <1>2, <1>3, <1>4, <1>5, <1>6, <1>7 DEF SameQueue, p

\* nor does one that is taken.
LEMMA TailAway ==
    ASSUME NEW q \in Seq(Messages), q # <<>>, NEW j, Head(q).j # j
    PROVE  SameQueue(q, Tail(q), j)
<1> DEFINE p == Tail(q)
           n == Len(q)
<1>1. /\ n \in Nat \ {0} /\ DOMAIN q = 1 .. n /\ DOMAIN p = 1 .. n - 1
      /\ \A i \in 1 .. n - 1 : p[i] = q[i + 1] /\ i + 1 \in DOMAIN q
      /\ q[1].j # j
  BY TailAt
<1>2. SameItems(q, p, j) BY TailItems DEF Item
<1> HIDE DEF p, n
<1>3. Sent(p, j) = Sent(q, j)
  <2>1. ASSUME NEW x \in Sent(p, j) PROVE x \in Sent(q, j)
    BY <1>1, <2>1, InSent
  <2>2. ASSUME NEW x \in Sent(q, j) PROVE x \in Sent(p, j)
    <3>1. PICK i \in 1 .. n : q[i] = x /\ x.j = j BY <1>1, <2>2, InSent
    <3>2. i - 1 \in 1 .. n - 1 /\ p[i - 1] = x BY <1>1, <3>1
    <3> QED BY <1>1, <3>1, <3>2, InSent
  <2> QED BY <2>1, <2>2
<1>4. ASSUME NEW T, Leads(q, j, T) PROVE Leads(p, j, T)
  <2>1. ASSUME NEW i \in DOMAIN p, NEW x \in DOMAIN p,
               p[i].j = j, p[i].t \in T, p[x].j = j
        PROVE  i <= x
    <3>1. i + 1 <= x + 1 BY <1>1, <1>4, <2>1 DEF Leads
    <3> QED BY <1>1, <3>1
  <2> QED BY <2>1 DEF Leads
<1>5. ASSUME NEW T, Once(q, j, T) PROVE Once(p, j, T)
  <2>1. ASSUME NEW i \in DOMAIN p, NEW x \in DOMAIN p,
               p[i].j = j, p[i].t \in T, p[x].j = j, p[x].t \in T
        PROVE  i = x
    <3>1. i + 1 = x + 1 BY <1>1, <1>5, <2>1 DEF Once
    <3> QED BY <1>1, <3>1
  <2> QED BY <2>1 DEF Once
<1>6. ASSUME Trails(q, j) PROVE Trails(p, j)
  <2>1. ASSUME NEW i \in DOMAIN p, NEW x \in DOMAIN p,
               p[i].j = j, p[i].t = "digest", Item(p[x], j)
        PROVE  x < i
    <3>1. x + 1 < i + 1 BY <1>1, <1>6, <2>1 DEF Trails
    <3> QED BY <1>1, <3>1
  <2> QED BY <2>1 DEF Trails
<1>7. ASSUME OffsetFirst(q, j) PROVE OffsetFirst(p, j)
  <2>1. ASSUME NEW i \in DOMAIN p, NEW x \in DOMAIN p,
               Item(p[i], j), p[i].t = "confirm", Item(p[x], j)
        PROVE  i <= x
    <3>1. i + 1 <= x + 1 BY <1>1, <1>7, <2>1 DEF OffsetFirst
    <3> QED BY <1>1, <3>1
  <2> QED BY <2>1 DEF OffsetFirst
<1> QED BY <1>2, <1>3, <1>4, <1>5, <1>6, <1>7 DEF SameQueue, p

\* A message that job j sends.
LEMMA AppendOwn ==
    ASSUME NEW q \in Seq(Messages), NEW m \in Messages, NEW j, m.j = j
    PROVE  LET p == Append(q, m) IN
           /\ Sent(p, j) = Sent(q, j) \cup {m}
           /\ \A T : Leads(q, j, T) /\ (m.t \notin T \/ Sent(q, j) = {})
                        => Leads(p, j, T)
           /\ \A T : Once(q, j, T) /\ (m.t \notin T \/ ~Has(q, j, T))
                        => Once(p, j, T)
           /\ Trails(q, j) /\ (~Item(m, j) \/ ~Has(q, j, {"digest"}))
                        => Trails(p, j)
           /\ OffsetFirst(q, j) /\ (~Item(m, j) \/ m.t # "confirm" \/ Clear(q, j))
                        => OffsetFirst(p, j)
<1> DEFINE p == Append(q, m)
           n == Len(q)
<1>1. /\ n \in Nat /\ DOMAIN q = 1 .. n /\ DOMAIN p = 1 .. n + 1
      /\ \A i \in 1 .. n : p[i] = q[i]
      /\ p[n + 1] = m
  BY AppendAt
<1> HIDE DEF p, n
<1>2. Sent(p, j) = Sent(q, j) \cup {m}
  <2>1. ASSUME NEW x \in Sent(p, j) PROVE x \in Sent(q, j) \cup {m}
    BY <1>1, <2>1, InSent
  <2>2. ASSUME NEW x \in Sent(q, j) \cup {m} PROVE x \in Sent(p, j)
    BY <1>1, <2>2, InSent
  <2> QED BY <2>1, <2>2
<1>3. ASSUME NEW T, Leads(q, j, T), m.t \notin T \/ Sent(q, j) = {}
      PROVE  Leads(p, j, T)
  <2>1. ASSUME NEW i \in DOMAIN p, NEW x \in DOMAIN p,
               p[i].j = j, p[i].t \in T, p[x].j = j
        PROVE  i <= x
    <3>1. CASE i = n + 1
      <4>1. Sent(q, j) = {} BY <1>1, <1>3, <2>1, <3>1
      <4>2. x \notin 1 .. n BY <1>1, <2>1, <4>1, InSent
      <4> QED BY <1>1, <3>1, <4>2
    <3>2. CASE i \in 1 .. n /\ x \in 1 .. n BY <1>1, <1>3, <2>1, <3>2 DEF Leads
    <3>3. CASE i \in 1 .. n /\ x = n + 1 BY <1>1, <3>3
    <3> QED BY <1>1, <3>1, <3>2, <3>3
  <2> QED BY <2>1 DEF Leads
<1>4. ASSUME NEW T, Once(q, j, T), m.t \notin T \/ ~Has(q, j, T)
      PROVE  Once(p, j, T)
  <2>1. ASSUME NEW i \in 1 .. n, q[i].j = j, q[i].t \in T PROVE Has(q, j, T)
    BY <1>1, <2>1, InSent DEF Has
  <2> QED BY <1>1, <1>4, <2>1 DEF Once
<1>5. ASSUME Trails(q, j), ~Item(m, j) \/ ~Has(q, j, {"digest"})
      PROVE  Trails(p, j)
  <2>1. ASSUME NEW i \in 1 .. n, q[i].j = j, q[i].t = "digest"
        PROVE Has(q, j, {"digest"})
    BY <1>1, <2>1, InSent DEF Has
  <2>2. Item(m, j) => m.t # "digest" BY DEF Item
  <2>3. ASSUME NEW i \in DOMAIN p, NEW x \in DOMAIN p,
               p[i].j = j, p[i].t = "digest", Item(p[x], j)
        PROVE  x < i
    <3>1. CASE i = n + 1 /\ x \in 1 .. n BY <1>1, <3>1
    <3>2. CASE i = n + 1 /\ x = n + 1 BY <1>1, <2>2, <2>3, <3>2
    <3>3. CASE i \in 1 .. n /\ x = n + 1 BY <1>1, <1>5, <2>1, <2>3, <3>3
    <3>4. CASE i \in 1 .. n /\ x \in 1 .. n BY <1>1, <1>5, <2>3, <3>4 DEF Trails
    <3> QED BY <1>1, <3>1, <3>2, <3>3, <3>4
  <2> QED BY <2>3 DEF Trails
<1>6. ASSUME OffsetFirst(q, j), ~Item(m, j) \/ m.t # "confirm" \/ Clear(q, j)
      PROVE  OffsetFirst(p, j)
  <2>1. Clear(q, j) => \A i \in 1 .. n : ~Item(p[i], j)
    BY <1>1 DEF Clear, NoItem, n
  <2>2. ASSUME NEW i \in DOMAIN p, NEW x \in DOMAIN p,
               Item(p[i], j), p[i].t = "confirm", Item(p[x], j)
        PROVE  i <= x
    <3>1. CASE i \in 1 .. n /\ x \in 1 .. n
      BY <1>1, <1>6, <2>2, <3>1 DEF OffsetFirst
    <3>2. CASE x = n + 1 BY <1>1, <3>2
    <3>3. CASE i = n + 1 /\ x \in 1 .. n BY <1>1, <1>6, <2>1, <2>2, <3>3
    <3> QED BY <1>1, <3>1, <3>2, <3>3
  <2> QED BY <2>2 DEF OffsetFirst
<1> QED BY <1>2, <1>3, <1>4, <1>5, <1>6 DEF p

\* A message of job j that is taken.
LEMMA TailOwn ==
    ASSUME NEW q \in Seq(Messages), q # <<>>, NEW j, Head(q).j = j
    PROVE  LET p == Tail(q) IN
           /\ Head(q) \in Sent(q, j) /\ Sent(q, j) = Sent(p, j) \cup {Head(q)}
           /\ \A T : Leads(q, j, T) => Leads(p, j, T) /\ ~Has(p, j, T)
           /\ \A T : Once(q, j, T) => /\ Once(p, j, T)
                                      /\ Head(q).t \in T => ~Has(p, j, T)
           /\ Trails(q, j) => /\ Trails(p, j)
                              /\ Head(q).t = "digest" => Clear(q, j) /\ Clear(p, j)
           /\ OffsetFirst(q, j) =>
                 /\ OffsetFirst(p, j)
                 /\ Item(Head(q), j) =>
                       \A m \in Sent(p, j) : Item(m, j) => m.t # "confirm"
<1> DEFINE p == Tail(q)
           n == Len(q)
           h == Head(q)
<1>1. /\ n \in Nat \ {0} /\ DOMAIN q = 1 .. n /\ DOMAIN p = 1 .. n - 1
      /\ \A i \in 1 .. n - 1 : p[i] = q[i + 1] /\ i + 1 \in DOMAIN q
      /\ q[1] = h /\ h.j = j /\ 1 \in DOMAIN q
  BY TailAt
<1> HIDE DEF p, n, h
<1>2. h \in Sent(q, j) /\ Sent(q, j) = Sent(p, j) \cup {h}
  <2>1. ASSUME NEW x \in Sent(p, j) PROVE x \in Sent(q, j)
    BY <1>1, <2>1, InSent
  <2>2. ASSUME NEW x \in Sent(q, j), x # h PROVE x \in Sent(p, j)
    <3>1. PICK i \in 1 .. n : q[i] = x /\ x.j = j BY <1>1, <2>2, InSent
    <3>2. i - 1 \in 1 .. n - 1 /\ p[i - 1] = x BY <1>1, <2>2, <3>1
    <3> QED BY <1>1, <3>1, <3>2, InSent
  <2>3. h \in Sent(q, j) BY <1>1, InSent
  <2> QED BY <2>1, <2>2, <2>3
<1>3. ASSUME NEW T, Leads(q, j, T) PROVE Leads(p, j, T) /\ ~Has(p, j, T)
  <2>1. ASSUME NEW i \in DOMAIN p, p[i].j = j, p[i].t \in T PROVE FALSE
    <3>1. i + 1 <= 1 BY <1>1, <1>3, <2>1 DEF Leads
    <3> QED BY <1>1, <3>1
  <2>2. ~Has(p, j, T) BY <2>1, InSent DEF Has
  <2> QED BY <2>1, <2>2 DEF Leads
<1>4. ASSUME NEW T, Once(q, j, T)
      PROVE  Once(p, j, T) /\ (h.t \in T => ~Has(p, j, T))
  <2>1. ASSUME NEW i \in DOMAIN p, NEW x \in DOMAIN p,
               p[i].j = j, p[i].t \in T, p[x].j = j, p[x].t \in T
        PROVE  i = x
    <3>1. i + 1 = x + 1 BY <1>1, <1>4, <2>1 DEF Once
    <3> QED BY <1>1, <3>1
  <2>2. ASSUME NEW i \in DOMAIN p, p[i].j = j, p[i].t \in T, h.t \in T
        PROVE FALSE
    <3>1. i + 1 = 1 BY <1>1, <1>4, <2>2 DEF Once
    <3> QED BY <1>1, <3>1
  <2>3. h.t \in T => ~Has(p, j, T) BY <2>2, InSent DEF Has
  <2> QED BY <2>1, <2>3 DEF Once
<1>5. ASSUME Trails(q, j)
      PROVE  Trails(p, j) /\ (h.t = "digest" => Clear(q, j) /\ Clear(p, j))
  <2>1. ASSUME NEW i \in DOMAIN p, NEW x \in DOMAIN p,
               p[i].j = j, p[i].t = "digest", Item(p[x], j)
        PROVE  x < i
    <3>1. x + 1 < i + 1 BY <1>1, <1>5, <2>1 DEF Trails
    <3> QED BY <1>1, <3>1
  <2>2. ASSUME h.t = "digest" PROVE Clear(q, j) /\ Clear(p, j)
    <3>1. ASSUME NEW x \in 1 .. n PROVE ~Item(q[x], j)
      BY <1>1, <1>5, <2>2 DEF Trails
    <3>2. Clear(q, j) BY <3>1 DEF Clear, NoItem, n
    <3>3. ~Item(h, j) BY <1>1, <3>1
    <3> QED BY <3>2, <3>3, TailItems DEF SameItems, p, h
  <2> QED BY <2>1, <2>2 DEF Trails
<1>6. ASSUME OffsetFirst(q, j)
      PROVE  /\ OffsetFirst(p, j)
             /\ Item(h, j) => \A m \in Sent(p, j) : Item(m, j) => m.t # "confirm"
  <2>1. ASSUME NEW i \in DOMAIN p, NEW x \in DOMAIN p,
               Item(p[i], j), p[i].t = "confirm", Item(p[x], j)
        PROVE  i <= x
    <3>1. i + 1 <= x + 1 BY <1>1, <1>6, <2>1 DEF OffsetFirst
    <3> QED BY <1>1, <3>1
  <2>2. ASSUME Item(h, j), NEW i \in DOMAIN p, Item(p[i], j), p[i].t = "confirm"
        PROVE  FALSE
    <3>1. i + 1 <= 1 BY <1>1, <1>6, <2>2 DEF OffsetFirst
    <3> QED BY <1>1, <3>1
  <2> QED BY <2>1, <2>2, InSent DEF OffsetFirst
<1> QED BY <1>2, <1>3, <1>4, <1>5, <1>6 DEF p, h

-----------------------------------------------------------------------------
(* Steps of other jobs. *)

\* A step that does nothing to job j; its question may be replaced.
Frame(j) ==
    /\ sc' = sc /\ up' = up /\ breaks' = breaks /\ saved' = saved
    /\ j \in DOMAIN rjob' <=> j \in DOMAIN rjob
    /\ j \in DOMAIN rjob => rjob'[j] = rjob[j]
    /\ j \in DOMAIN wjob' <=> j \in DOMAIN wjob
    /\ j \in DOMAIN wjob => wjob'[j] = wjob[j]
    /\ \A k \in DOMAIN sc.files[j] : disk'[<<j, k>>] = disk[<<j, k>>]
    /\ state'[j] = state[j] /\ from'[j] = from[j]
    /\ \A k : <<j, k>> \in kept' <=> <<j, k>> \in kept
    /\ \A k : <<j, k>> \in faulted' <=> <<j, k>> \in faulted
    /\ faulted \subseteq faulted'
    /\ Shown(j)' => dialog' = dialog
    /\ SameQueue(c2s, c2s', j) /\ SameQueue(s2c, s2c', j)

\* What is looked at of job j is then the same.
LEMMA FrameQueues ==
    ASSUME NEW j, Frame(j)
    PROVE  /\ SameQueue(Data(j), Data(j)', j) /\ SameQueue(Back(j), Back(j)', j)
           /\ Sent(Data(j)', j) = Sent(Data(j), j)
           /\ Sent(Back(j)', j) = Sent(Back(j), j)
           /\ Sent(c2s', j) = Sent(c2s, j) /\ Sent(s2c', j) = Sent(s2c, j)
           /\ Shown(j)' => Shown(j) /\ dialog' = dialog
           /\ Live(j)' <=> Live(j)
           /\ At(j)' = At(j) /\ (Open(j)' <=> Open(j))
           /\ Sane' = Sane
<1>1. SameQueue(Data(j), Data(j)', j) BY DEF Frame, Data
<1>2. SameQueue(Back(j), Back(j)', j) BY DEF Frame, Back
<1>3. /\ Sent(Data(j)', j) = Sent(Data(j), j)
      /\ Sent(Back(j)', j) = Sent(Back(j), j)
      /\ Sent(c2s', j) = Sent(c2s, j) /\ Sent(s2c', j) = Sent(s2c, j)
  BY <1>1, <1>2 DEF Frame, SameQueue
<1>4. Shown(j)' => Shown(j) /\ dialog' = dialog BY DEF Frame, Shown
<1>5. Live(j)' <=> Live(j) BY <1>3 DEF Frame, Live, Has
<1>6. At(j)' = At(j) /\ (Open(j)' <=> Open(j)) BY DEF Frame, At, Open
<1>7. Sane' = Sane BY DEF Frame, Sane
<1> QED BY <1>1, <1>2, <1>3, <1>4, <1>5, <1>6, <1>7

\* So is the life of job j,
LEMMA FrameLife ==
    ASSUME NEW j, Frame(j), Life(j)
    PROVE  Life(j)'
<1>1. /\ Sent(c2s', j) = Sent(c2s, j) /\ Sent(s2c', j) = Sent(s2c, j)
      /\ Sent(Data(j)', j) = Sent(Data(j), j)
      /\ Shown(j)' => Shown(j)
      /\ Live(j)' <=> Live(j)
  BY FrameQueues
<1>2. /\ \A T : Leads(c2s, j, T) => Leads(c2s', j, T)
      /\ \A T : Leads(s2c, j, T) => Leads(s2c', j, T)
  BY DEF Frame, SameQueue
<1>3. LifeIdle(j)' BY <1>1 DEF Life, LifeIdle, Frame
<1>4. LifeStart(j)' BY <1>1, <1>2 DEF Life, LifeStart, Frame, Has
<1>5. Once(Data(j), j, {"done"}) => Once(Data(j)', j, {"done"})
  BY FrameQueues DEF SameQueue
<1>6. LifeEnd(j)' BY <1>1, <1>5 DEF Life, LifeEnd, Frame, Has
<1> QED BY <1>3, <1>4, <1>6 DEF Life

\* its questions,
LEMMA FrameTokens ==
    ASSUME NEW j, Frame(j), Tokens(j)
    PROVE  Tokens(j)'
<1>1. /\ Sent(Data(j)', j) = Sent(Data(j), j)
      /\ Sent(Back(j)', j) = Sent(Back(j), j)
      /\ Shown(j)' => Shown(j) /\ dialog' = dialog
      /\ SameQueue(Data(j), Data(j)', j) /\ SameQueue(Back(j), Back(j)', j)
  BY FrameQueues
<1>2. /\ \A T : Once(Data(j), j, T) => Once(Data(j)', j, T)
      /\ \A T : Once(Back(j), j, T) => Once(Back(j)', j, T)
      /\ Trails(Data(j), j) => Trails(Data(j)', j)
      /\ Clear(Data(j)', j) <=> Clear(Data(j), j)
  BY <1>1 DEF SameQueue, SameItems
<1>3. SUFFICES ASSUME j \in DOMAIN rjob' PROVE Tokens(j)' BY DEF Tokens
<1>4. /\ j \in DOMAIN rjob /\ rjob'[j] = rjob[j] /\ sc' = sc
  BY <1>3 DEF Frame
<1> QED BY <1>1, <1>2, <1>4 DEF Tokens, Has, Go, WaitsFor

\* The files of job j, and what was decided about them, are as they were;
\* some may have failed.
SameDisk(j) ==
    /\ sc' = sc /\ from'[j] = from[j]
    /\ \A k \in DOMAIN sc.files[j] : disk'[<<j, k>>] = disk[<<j, k>>]
    /\ \A k : <<j, k>> \in kept' <=> <<j, k>> \in kept
    /\ faulted \subseteq faulted'

\* What is said of the files of job j is then the same.
LEMMA DiskSame ==
    ASSUME NEW j, SameDisk(j)
    PROVE  /\ \A k : Size(j, k)' = Size(j, k) /\ Whole(<<j, k>>)' = Whole(<<j, k>>)
           /\ \A k \in DOMAIN sc.files[j] : Orig(<<j, k>>)' <=> Orig(<<j, k>>)
           /\ \A b : Untouched(j, b) => Untouched(j, b)'
           /\ \A b : UnsentAt(j, b) => UnsentAt(j, b)'
           /\ \A a, b : Gap(j, a, b) => Gap(j, a, b)'
           /\ \A k, b : Shadowed(j, k, b) => Shadowed(j, k, b)'
           /\ \A b : WholeBefore(j, b) => WholeBefore(j, b)'
           /\ \A k : Blank(j, k) => Blank(j, k)'
           /\ \A k : Empty(j, k) => Empty(j, k)'
           /\ \A k : LaterFails(<<j, k>>) => LaterFails(<<j, k>>)'
           /\ \A k, n : Holds(j, k, n) => Holds(j, k, n)'
           /\ \A k : Passed(j, k) => Passed(j, k)'
           /\ \A k, n : Received(j, k, n) => Received(j, k, n)'
<1>1. \A k : Size(j, k)' = Size(j, k) /\ Whole(<<j, k>>)' = Whole(<<j, k>>)
  BY DEF SameDisk, Size, Whole
<1>2. \A k \in DOMAIN sc.files[j] : Orig(<<j, k>>)' <=> Orig(<<j, k>>)
  BY <1>1 DEF SameDisk, Orig
<1>3. \A b : Untouched(j, b) => Untouched(j, b)'
  BY <1>2 DEF SameDisk, Untouched
<1>4. \A b : UnsentAt(j, b) => UnsentAt(j, b)'
  BY <1>1 DEF SameDisk, UnsentAt
<1>5. \A a, b : Gap(j, a, b) => Gap(j, a, b)'
  BY DEF SameDisk, Gap
<1>6. \A k, b : Shadowed(j, k, b) => Shadowed(j, k, b)'
  BY <1>1, <1>5 DEF SameDisk, Shadowed
<1>7. \A b : WholeBefore(j, b) => WholeBefore(j, b)'
  BY <1>1, <1>6 DEF SameDisk, WholeBefore
<1>8. \A k : Blank(j, k) => Blank(j, k)'
  BY DEF SameDisk, Blank, Empty
<1>9. \A k : Empty(j, k) => Empty(j, k)'
  BY DEF SameDisk, Empty
<1>10. \A k, n : Holds(j, k, n) => Holds(j, k, n)'
  BY DEF SameDisk, Holds
<1>11. \A k : Passed(j, k) => Passed(j, k)'
  BY <1>1 DEF SameDisk, Passed
<1>12. \A k, n : Received(j, k, n) => Received(j, k, n)'
  BY <1>1 DEF SameDisk, Received, IsFile
<1>13. \A k : LaterFails(<<j, k>>) => LaterFails(<<j, k>>)'
  BY DEF SameDisk, LaterFails
<1> QED BY <1>1, <1>2, <1>3, <1>4, <1>5, <1>6, <1>7, <1>8, <1>11, <1>12,
           <1>9, <1>10, <1>13

\* what is on the disk of it,
LEMMA FrameTouch ==
    ASSUME NEW j, Frame(j), Touch(j), Resumed(j), Torn(j)
    PROVE  Touch(j)' /\ Resumed(j)' /\ Torn(j)'
<1>1. /\ Live(j)' <=> Live(j)
      /\ At(j)' = At(j) /\ (Open(j)' <=> Open(j))
  BY FrameQueues
<1>2. /\ \A b : Untouched(j, b) => Untouched(j, b)'
      /\ \A b : UnsentAt(j, b) => UnsentAt(j, b)'
      /\ \A b : WholeBefore(j, b) => WholeBefore(j, b)'
      /\ \A k : Size(j, k)' = Size(j, k) /\ Whole(<<j, k>>)' = Whole(<<j, k>>)
      /\ \A k : LaterFails(<<j, k>>) => LaterFails(<<j, k>>)'
  BY DiskSame DEF Frame, SameDisk
<1>3. Touch(j)' BY <1>1, <1>2 DEF Touch, Frame
<1>4. Resumed(j)' BY <1>1 DEF Resumed, Frame
<1>5. Torn(j)' BY <1>2 DEF Torn, Frame, IsPrefixOf
<1> QED BY <1>3, <1>4, <1>5

\* the chain of its items,
LEMMA FrameChain ==
    ASSUME NEW j, Frame(j), Chain(j)
    PROVE  Chain(j)'
<1>1. /\ Live(j)' <=> Live(j)
      /\ At(j)' = At(j) /\ (Open(j)' <=> Open(j))
      /\ Sent(Data(j)', j) = Sent(Data(j), j)
      /\ Sent(Back(j)', j) = Sent(Back(j), j)
  BY FrameQueues
<1>2. /\ \A a, b : Gap(j, a, b) => Gap(j, a, b)'
      /\ \A k : Size(j, k)' = Size(j, k)
      /\ \A k : Blank(j, k) => Blank(j, k)'
      /\ \A k, n : Holds(j, k, n) => Holds(j, k, n)'
      /\ \A k : Passed(j, k) => Passed(j, k)'
      /\ \A k, n : Received(j, k, n) => Received(j, k, n)'
  BY DiskSame DEF Frame, SameDisk
<1>3. /\ Clear(Data(j)', j) <=> Clear(Data(j), j)
      /\ \A m : Opens(Data(j)', j, m) <=> Opens(Data(j), j, m)
      /\ \A m : Closes(Data(j)', j, m) <=> Closes(Data(j), j, m)
      /\ \A m, n : Follows(Data(j)', j, m, n) <=> Follows(Data(j), j, m, n)
  BY FrameQueues DEF SameQueue, SameItems
<1>4. \A m : StartOK(j, m) => StartOK(j, m)'
  BY <1>1, <1>2 DEF StartOK, Begins, Frame
<1>5. \A a, b : FollowOK(j, a, b) => FollowOK(j, a, b)'
  BY <1>1, <1>2 DEF FollowOK, Begins, Frame
<1>6. ASSUME j \in DOMAIN rjob' PROVE \A a : LastOK(j, a) => LastOK(j, a)'
  BY <1>1, <1>2, <1>6 DEF LastOK, Frame, Go
<1>7. ASSUME j \in DOMAIN rjob' PROVE NoneOK(j) => NoneOK(j)'
  BY <1>1, <1>2, <1>7 DEF NoneOK, Frame, Go, Has
<1> QED BY <1>1, <1>3, <1>4, <1>5, <1>6, <1>7 DEF Chain, Frame

\* its answers and its end,
LEMMA FrameRest ==
    ASSUME NEW j, Frame(j), Reached(j), Answers(j), Keeps(j), Ending(j),
           Leftover(j)
    PROVE  Reached(j)' /\ Answers(j)' /\ Keeps(j)' /\ Ending(j)' /\ Leftover(j)'
<1>1. /\ Live(j)' <=> Live(j)
      /\ At(j)' = At(j) /\ (Open(j)' <=> Open(j))
      /\ Sent(c2s', j) = Sent(c2s, j) /\ Sent(s2c', j) = Sent(s2c, j)
      /\ Sent(Data(j)', j) = Sent(Data(j), j)
      /\ Sent(Back(j)', j) = Sent(Back(j), j)
      /\ Shown(j)' => Shown(j) /\ dialog' = dialog
      /\ Clear(Data(j)', j) <=> Clear(Data(j), j)
  BY FrameQueues DEF SameQueue, SameItems
<1>2. /\ \A k \in DOMAIN sc.files[j] : Orig(<<j, k>>)' <=> Orig(<<j, k>>)
      /\ \A b : WholeBefore(j, b) => WholeBefore(j, b)'
      /\ \A k, b : Shadowed(j, k, b) => Shadowed(j, k, b)'
      /\ \A k : Blank(j, k) => Blank(j, k)'
      /\ \A k : Empty(j, k) => Empty(j, k)'
      /\ \A k, n : Holds(j, k, n) => Holds(j, k, n)'
  BY DiskSame DEF Frame, SameDisk
<1>3. Reached(j)' BY <1>1 DEF Reached, Frame
<1>4. Answers(j)'
  BY <1>1, <1>2 DEF Answers, Frame, DigestOK, AskOK, ConfirmOK, ShownOK
<1>5. Keeps(j)' BY <1>1, <1>2 DEF Keeps, Frame, Open
<1>6. Ending(j)'
  BY <1>1, <1>2 DEF Ending, Frame, AllWhole, Has, Undated
<1>7. Leftover(j)' BY <1>1, <1>2 DEF Leftover, Frame, Has
<1> QED BY <1>3, <1>4, <1>5, <1>6, <1>7

\* its .download files,
LEMMA FrameParts ==
    ASSUME NEW j, Frame(j), Parts(j),
           \A m \in Sent(Back(j), j) : m.t = "ask" => IsFile(j, m.k),
           \A m \in Sent(Data(j), j) : m.t = "confirm" => IsFile(j, m.k)
    PROVE  Parts(j)'
<1>1. /\ Live(j)' <=> Live(j)
      /\ At(j)' = At(j) /\ (Open(j)' <=> Open(j))
      /\ Sent(Data(j)', j) = Sent(Data(j), j)
      /\ Sent(Back(j)', j) = Sent(Back(j), j)
      /\ OffsetFirst(Data(j), j) => OffsetFirst(Data(j)', j)
  BY FrameQueues DEF SameQueue
<1> QED BY <1>1 DEF Parts, Frame, IsFile, Size, Open

\* and all that Inv says of it.
LEMMA FrameJob ==
    ASSUME NEW j, Frame(j), Life(j), Tokens(j), Parts(j), Sane => JobInv(j),
           \A m \in Sent(Back(j), j) : m.t = "ask" => IsFile(j, m.k),
           \A m \in Sent(Data(j), j) : m.t = "confirm" => IsFile(j, m.k)
    PROVE  Life(j)' /\ Tokens(j)' /\ Parts(j)' /\ (Sane' => JobInv(j)')
<1>1. Life(j)' /\ Tokens(j)' /\ Parts(j)'
  BY FrameLife, FrameTokens, FrameParts
<1>2. Sane' => Sane BY DEF Frame, Sane
<1>3. ASSUME JobInv(j) PROVE JobInv(j)'
  BY <1>3, FrameTouch, FrameChain, FrameRest DEF JobInv
<1> QED BY <1>1, <1>2, <1>3

\* A step of job j, while the connection is there.
LEMMA OwnStep ==
    ASSUME Inv, NEW j \in Jobs, sc' = sc, up', FTTypeOK',
           \A i \in Jobs \ {j} : Frame(i),
           Life(j)', Tokens(j)', Parts(j)', Sane' => JobInv(j)'
    PROVE  Inv'
<1>1. Jobs' = Jobs BY DEF Jobs
<1>2. ASSUME NEW i \in Jobs
      PROVE  Life(i)' /\ Tokens(i)' /\ Parts(i)' /\ (Sane' => JobInv(i)')
  <2>1. CASE i = j BY <2>1
  <2>2. CASE i # j
    <3>1. Frame(i) BY <2>2
    <3>2. /\ \A m \in Sent(Back(i), i) : m.t = "ask" => IsFile(i, m.k)
          /\ \A m \in Sent(Data(i), i) : m.t = "confirm" => IsFile(i, m.k)
      BY DEF Inv, FTTypeOK, TypeQueues, DataOK, BackOK
    <3>3. Life(i) /\ Tokens(i) /\ Parts(i) /\ (Sane => JobInv(i)) BY DEF Inv
    <3> QED BY <3>1, <3>2, <3>3, FrameJob
  <2> QED BY <2>1, <2>2
<1> QED BY <1>1, <1>2 DEF Inv, LifeDown

-----------------------------------------------------------------------------
(* What the operators of the model do. *)

\* The files of a scenario.
LEMMA Scenario ==
    ASSUME sc \in Scenarios, NEW j \in Jobs
    PROVE  /\ sc.files[j] \in Seq({Dir} \cup Nat)
           /\ DOMAIN sc.files[j] = 1 .. Len(sc.files[j])
           /\ Len(sc.files[j]) \in Nat
           /\ sc.upload[j] \in BOOLEAN /\ sc.od \in BOOLEAN
           /\ \A k : <<j, k>> \in Files <=> k \in DOMAIN sc.files[j]
           /\ \A k : <<j, k>> \in sc.undated => IsFile(j, k)
           /\ \A k : <<j, k>> \in sc.undated => k \in DOMAIN sc.files[j]
           /\ \A k \in DOMAIN sc.files[j] :
                 /\ Size(j, k) \in Int /\ Size(j, k) >= -1
                 /\ Size(j, k) # Dir => Size(j, k) \in Nat
<1>1. ScenarioOK(sc) BY FileTransferAssumption
<1>2. /\ sc.files[j] \in Seq({Dir} \cup Nat) /\ sc.upload[j] \in BOOLEAN
      /\ sc.od \in BOOLEAN
  BY <1>1 DEF ScenarioOK, Jobs
<1>3. DOMAIN sc.files[j] = 1 .. Len(sc.files[j]) /\ Len(sc.files[j]) \in Nat
  BY <1>2
<1>4. \A k : <<j, k>> \in Files <=> k \in DOMAIN sc.files[j]
  <2>1. ASSUME NEW k, <<j, k>> \in Files PROVE k \in DOMAIN sc.files[j]
    <3>1. PICK i \in Jobs : <<j, k>> \in {i} \X DOMAIN sc.files[i]
      BY <2>1 DEF Files
    <3> QED BY <3>1
  <2>2. ASSUME NEW k \in DOMAIN sc.files[j] PROVE <<j, k>> \in Files
    BY DEF Files
  <2> QED BY <2>1, <2>2
<1>5. ASSUME NEW k \in DOMAIN sc.files[j]
      PROVE  /\ Size(j, k) \in Int /\ Size(j, k) >= -1
             /\ Size(j, k) # Dir => Size(j, k) \in Nat
  <2>1. sc.files[j][k] \in {Dir} \cup Nat BY <1>2, <1>3, <1>5
  <2> QED BY <2>1 DEF Size, Dir
<1>6. \A k : <<j, k>> \in sc.undated => k \in DOMAIN sc.files[j]
  BY <1>1 DEF ScenarioOK
<1>7. ASSUME NEW k, <<j, k>> \in sc.undated PROVE IsFile(j, k)
  <2>1. sc.files[<<j, k>>[1]][<<j, k>>[2]] # Dir BY <1>1, <1>7 DEF ScenarioOK
  <2> QED BY <1>6, <1>7, <2>1 DEF IsFile, Size
<1> QED BY <1>7, <1>2, <1>3, <1>4, <1>5, <1>6

\* A file is a job and a number.
LEMMA FileIs ==
    ASSUME NEW f \in Files
    PROVE  f = <<f[1], f[2]>> /\ f[1] \in Jobs /\ f[2] \in DOMAIN sc.files[f[1]]
<1>1. PICK i \in Jobs : f \in {i} \X DOMAIN sc.files[i] BY DEF Files
<1> QED BY <1>1

\* TransferJob::new_read.
LEMMA NewReadIs ==
    ASSUME NEW n \in Nat
    PROVE  LET r == NewRead(n) IN
           /\ r \in ReadJobs /\ r.file_num = n /\ r.pos = 0 /\ ~r.confirmed
           /\ ~r.waiting /\ ~r.error /\ ~r.skipped /\ ~r.last /\ ~r.resume
           /\ r.strategy = Unset
  BY DEF NewRead, ReadJobs

\* TransferJob::new_write.
LEMMA NewWriteIs ==
    ASSUME NEW n \in Nat, NEW listed \in BOOLEAN
    PROVE  LET w == NewWrite(n, listed) IN
           /\ w \in WriteJobs /\ w.file_num = n /\ ~w.open /\ w.on = 0
           /\ ~w.skipped /\ ~w.last /\ ~w.resume /\ w.strategy = Unset
           /\ w.listed = listed
  BY DEF NewWrite, WriteJobs

\* The parts of a job.
LEMMA ReadIs ==
    ASSUME NEW r \in ReadJobs
    PROVE  /\ r.file_num \in Nat /\ r.pos \in Nat /\ r.confirmed \in BOOLEAN
           /\ r.waiting \in BOOLEAN /\ r.error \in BOOLEAN
           /\ r.skipped \in BOOLEAN /\ r.last \in BOOLEAN
           /\ r.resume \in BOOLEAN /\ r.strategy \in {0, Skip, Unset}
           /\ r = [file_num |-> r.file_num, pos |-> r.pos,
                   confirmed |-> r.confirmed, waiting |-> r.waiting,
                   error |-> r.error, skipped |-> r.skipped, last |-> r.last,
                   resume |-> r.resume, strategy |-> r.strategy]
  BY DEF ReadJobs

\* The parts of a job that writes.
LEMMA WriteIs ==
    ASSUME NEW w \in WriteJobs
    PROVE  /\ w.file_num \in Nat /\ w.open \in BOOLEAN /\ w.on \in Nat
           /\ w.skipped \in BOOLEAN
           /\ w.last \in BOOLEAN /\ w.resume \in BOOLEAN
           /\ w.strategy \in {0, Skip, Unset} /\ w.listed \in BOOLEAN
           /\ w = [file_num |-> w.file_num, open |-> w.open, on |-> w.on,
                   skipped |-> w.skipped, last |-> w.last, resume |-> w.resume,
                   strategy |-> w.strategy, listed |-> w.listed]
  BY DEF WriteJobs

\* What the operations on a job that reads leave alone, but for the number of
\* the file and how far it is.
SameRead(r, s) == /\ s.error = r.error /\ s.last = r.last
                  /\ s.resume = r.resume

\* A job that reads goes on with its next file,
LEMMA NextFileIs ==
    ASSUME NEW r \in ReadJobs
    PROVE  LET s == NextFile(r) IN
           /\ s \in ReadJobs /\ SameRead(r, s) /\ s.file_num = r.file_num + 1
           /\ s.pos = 0 /\ ~s.confirmed /\ ~s.waiting /\ s.skipped = r.skipped
           /\ s.strategy = r.strategy
<1>1. \A n \in Nat : [r EXCEPT !.file_num = n, !.pos = 0, !.confirmed = FALSE,
                            !.waiting = FALSE] \in ReadJobs
  BY DEF ReadJobs
<1>2. r.file_num + 1 \in Nat BY ReadIs
<1>3. NextFile(r) \in ReadJobs BY <1>1, <1>2, Zenon DEF NextFile
<1> QED BY <1>3 DEF NextFile, SameRead, ReadJobs

\* opens a file,
LEMMA OpenedIs ==
    ASSUME NEW r \in ReadJobs
    PROVE  LET s == Opened(r) IN
           /\ s \in ReadJobs /\ SameRead(r, s) /\ s.file_num = r.file_num
           /\ s.skipped = r.skipped /\ s.strategy = r.strategy
           /\ IF r.pos = 0 THEN s.pos = 1 /\ ~s.confirmed /\ ~s.waiting
              ELSE s = r
  BY ReadIs DEF Opened, ReadJobs, SameRead

\* What is left of a job that reads, r, when it has got the answer v for file k.
ReadAfter(r, k, v, s) ==
    /\ s \in ReadJobs /\ SameRead(r, s) /\ s.strategy = r.strategy
    /\ r.file_num # k => s = r
    /\ r.file_num = k /\ v = Skip =>
          /\ s.file_num = k + 1 /\ s.pos = 0 /\ ~s.confirmed /\ ~s.waiting
          /\ s.skipped
    /\ r.file_num = k /\ v # Skip =>
          /\ s.file_num = k /\ s.pos = (IF v > 0 THEN v + 1 ELSE r.pos)
          /\ s.confirmed /\ s.waiting = r.waiting /\ ~s.skipped

\* What is left of a job that writes.
WriteAfter(w, k, v, s) ==
    /\ s \in WriteJobs /\ s.last = w.last /\ s.resume = w.resume
    /\ s.strategy = w.strategy /\ s.listed = w.listed
    /\ w.file_num # k => s = w
    /\ w.file_num = k /\ v = Skip =>
          s.file_num = k + 1 /\ ~s.open /\ s.on = w.on /\ s.skipped
    /\ w.file_num = k /\ v # Skip =>
          /\ s.file_num = k /\ ~s.skipped
          /\ s.open = (IF v > 0 THEN TRUE ELSE w.open)
          /\ s.on = (IF v > 0 THEN k ELSE w.on)

\* and gets an answer.
LEMMA ConfirmReadIs ==
    ASSUME NEW r \in ReadJobs, NEW k \in Nat, NEW v \in Nat \cup {Skip}
    PROVE  ReadAfter(r, k, v, ConfirmRead(r, k, v))
<1> DEFINE s == ConfirmRead(r, k, v)
<1> USE DEF ReadAfter
<1>1. CASE r.file_num # k BY <1>1 DEF ConfirmRead, SameRead
<1>2. CASE r.file_num = k /\ v = Skip
  <2>1. \A n \in Nat : [r EXCEPT !.pos = 0, !.confirmed = FALSE,
                              !.waiting = FALSE, !.file_num = n,
                              !.skipped = TRUE] \in ReadJobs
    BY DEF ReadJobs
  <2>2. k + 1 \in Nat OBVIOUS
  <2>3. s \in ReadJobs BY <1>2, <2>1, <2>2, Zenon DEF ConfirmRead
  <2> QED BY <1>2, <2>3 DEF ConfirmRead, SameRead, ReadJobs
<1>3. CASE r.file_num = k /\ v # Skip
  <2>1. \A n \in Nat : [r EXCEPT !.confirmed = TRUE, !.skipped = FALSE,
                              !.pos = n] \in ReadJobs
    BY DEF ReadJobs
  <2>2. (IF v > 0 THEN v + 1 ELSE r.pos) \in Nat BY <1>3, ReadIs
  <2>3. s \in ReadJobs BY <1>3, <2>1, <2>2, Zenon DEF ConfirmRead
  <2> QED BY <1>3, <2>3 DEF ConfirmRead, SameRead, ReadJobs
<1> QED BY <1>1, <1>2, <1>3

\* A job that writes gets an answer.
LEMMA ConfirmWriteIs ==
    ASSUME NEW w \in WriteJobs, NEW k \in Nat, NEW v \in Nat \cup {Skip}
    PROVE  WriteAfter(w, k, v, ConfirmWrite(w, k, v))
<1> DEFINE s == ConfirmWrite(w, k, v)
<1> USE DEF WriteAfter
<1>1. CASE w.file_num # k BY <1>1 DEF ConfirmWrite
<1>2. CASE w.file_num = k /\ v = Skip
  <2>1. \A n \in Nat : [w EXCEPT !.open = FALSE, !.file_num = n,
                              !.skipped = TRUE] \in WriteJobs
    BY DEF WriteJobs
  <2>2. k + 1 \in Nat OBVIOUS
  <2>3. s \in WriteJobs BY <1>2, <2>1, <2>2, Zenon DEF ConfirmWrite
  <2> QED BY <1>2, <2>3 DEF ConfirmWrite, WriteJobs
<1>3. CASE w.file_num = k /\ v # Skip
  <2>1. \A o \in BOOLEAN, n \in Nat :
           [w EXCEPT !.skipped = FALSE, !.open = o, !.on = n] \in WriteJobs
    BY DEF WriteJobs
  <2>2. /\ (IF v > 0 THEN TRUE ELSE w.open) \in BOOLEAN
        /\ (IF v > 0 THEN k ELSE w.on) \in Nat
    BY <1>3, WriteIs
  <2>3. s \in WriteJobs BY <1>3, <2>1, <2>2, Zenon DEF ConfirmWrite
  <2> QED BY <1>3, <2>3 DEF ConfirmWrite, WriteJobs
<1> QED BY <1>1, <1>2, <1>3


-----------------------------------------------------------------------------
(* What happens to the files. *)

\* A sequence is not None.
LEMMA NotNone == <<>> \in Seq(Nat) /\ \A s \in Seq(Nat) : s # None
<1>1. <<>> \in Seq(Nat) OBVIOUS
<1> QED BY <1>1, FileTransferAssumption

\* What there is of a file.
LEMMA DiskAt ==
    ASSUME NEW d, DiskOK(d), NEW f \in Files
    PROVE  /\ d[f].final \in Contents /\ d[f].part \in Contents
           /\ d[f].digest \in BOOLEAN /\ (d[f].digest => d[f].part # None)
           /\ d[f].spoilt \in BOOLEAN /\ d[f] \in Entries
           /\ d[f].part # None => d[f].part \in Seq(Nat)
<1>1. d[f] \in Entries
  BY DEF DiskOK
<1> QED BY <1>1 DEF DiskOK, Contents, Entries

\* One entry is replaced.
LEMMA DiskPut ==
    ASSUME NEW d, DiskOK(d), NEW f \in Files,
           NEW e \in Entries,
           e.digest => e.part # None
    PROVE  /\ DiskOK([d EXCEPT ![f] = e])
           /\ [d EXCEPT ![f] = e][f] = e
           /\ \A g \in Files : g # f => [d EXCEPT ![f] = e][g] = d[g]
  BY DEF DiskOK

\* modify_time gives a .download its name.
LEMMA ModifyTimeIs ==
    ASSUME sc \in Scenarios, NEW j \in Jobs, NEW d, DiskOK(d), NEW k
    PROVE  LET e == ModifyTime(d, j, k) IN
           /\ DiskOK(e)
           /\ \A g \in Files : g # <<j, k>> => e[g] = d[g]
           /\ k \in DOMAIN sc.files[j] =>
                 /\ e[<<j, k>>].part = None /\ ~e[<<j, k>>].digest
                 /\ e[<<j, k>>].spoilt = d[<<j, k>>].spoilt
                 /\ e[<<j, k>>].final = IF d[<<j, k>>].part # None
                                        THEN d[<<j, k>>].part
                                        ELSE d[<<j, k>>].final
<1> DEFINE f == <<j, k>>
<1>1. CASE k \in DOMAIN sc.files[j] /\ d[f].part # None
  <2>1. f \in Files BY <1>1, Scenario
  <2> DEFINE e == [final |-> d[f].part, part |-> None, digest |-> FALSE,
                   spoilt |-> d[f].spoilt]
  <2>2. e \in Entries
    BY <2>1, DiskAt DEF Contents, Entries
  <2>3. /\ ~e.digest /\ e.part = None /\ e.final = d[f].part
        /\ e.spoilt = d[f].spoilt
    OBVIOUS
  <2>4. ModifyTime(d, j, k) = [d EXCEPT ![f] = e] BY <1>1 DEF ModifyTime
  <2> HIDE DEF e
  <2>5. /\ DiskOK([d EXCEPT ![f] = e]) /\ [d EXCEPT ![f] = e][f] = e
        /\ \A g \in Files : g # f => [d EXCEPT ![f] = e][g] = d[g]
    BY <2>1, <2>2, <2>3, DiskPut
  <2> QED BY <1>1, <2>3, <2>4, <2>5
<1>2. CASE k \in DOMAIN sc.files[j] /\ d[f].part = None
  <2>1. f \in Files BY <1>2, Scenario
  <2> DEFINE e == [d[f] EXCEPT !.digest = FALSE]
  <2>2. /\ e \in Entries /\ ~e.digest /\ e.part = None
        /\ e.final = d[f].final /\ e.spoilt = d[f].spoilt
    BY <1>2, <2>1, DiskAt DEF Entries
  <2>3. ModifyTime(d, j, k) = [d EXCEPT ![f] = e] BY <1>2 DEF ModifyTime
  <2> HIDE DEF e
  <2>4. /\ DiskOK([d EXCEPT ![f] = e]) /\ [d EXCEPT ![f] = e][f] = e
        /\ \A g \in Files : g # f => [d EXCEPT ![f] = e][g] = d[g]
    BY <2>1, <2>2, DiskPut
  <2> QED BY <1>2, <2>2, <2>3, <2>4
<1>3. CASE k \notin DOMAIN sc.files[j] BY <1>3 DEF ModifyTime
<1> QED BY <1>1, <1>2, <1>3

\* remove_download_file removes it, and its .digest.
LEMMA RemoveDownloadFileIs ==
    ASSUME sc \in Scenarios, NEW j \in Jobs, NEW d, DiskOK(d), NEW k
    PROVE  LET e == RemoveDownloadFile(d, j, k) IN
           /\ DiskOK(e)
           /\ \A g \in Files : g # <<j, k>> => e[g] = d[g]
           /\ k \in DOMAIN sc.files[j] =>
                 /\ e[<<j, k>>].part = None
                 /\ e[<<j, k>>].final = d[<<j, k>>].final
                 /\ e[<<j, k>>].spoilt = d[<<j, k>>].spoilt
<1> DEFINE f == <<j, k>>
<1>1. CASE k \in DOMAIN sc.files[j]
  <2>1. f \in Files BY <1>1, Scenario
  <2> DEFINE e == [d[f] EXCEPT !.part = None, !.digest = FALSE]
  <2>2. /\ e \in Entries /\ ~e.digest /\ e.part = None
        /\ e.final = d[f].final /\ e.spoilt = d[f].spoilt
    BY <1>1, <2>1, DiskAt DEF Contents, Entries
  <2>3. RemoveDownloadFile(d, j, k) = [d EXCEPT ![f] = e]
    BY <1>1, <2>1 DEF RemoveDownloadFile, DiskOK
  <2> HIDE DEF e
  <2>4. /\ DiskOK([d EXCEPT ![f] = e]) /\ [d EXCEPT ![f] = e][f] = e
        /\ \A g \in Files : g # f => [d EXCEPT ![f] = e][g] = d[g]
    BY <2>1, <2>2, DiskPut
  <2> QED BY <1>1, <2>2, <2>3, <2>4
<1>2. CASE k \notin DOMAIN sc.files[j] BY <1>2 DEF RemoveDownloadFile
<1> QED BY <1>1, <1>2

\* A file is created, empty and with its .digest.
LEMMA CreatedIs ==
    ASSUME sc \in Scenarios, NEW j \in Jobs, NEW d, DiskOK(d), NEW k,
           k \in DOMAIN sc.files[j]
    PROVE  LET e == Created(d, j, k) IN
           /\ DiskOK(e)
           /\ \A g \in Files : g # <<j, k>> => e[g] = d[g]
           /\ e[<<j, k>>].part = <<>> /\ e[<<j, k>>].digest
           /\ e[<<j, k>>].final = d[<<j, k>>].final
           /\ e[<<j, k>>].spoilt = d[<<j, k>>].spoilt
<1> DEFINE f == <<j, k>>
           e == [d[f] EXCEPT !.part = <<>>, !.digest = TRUE]
<1>1. f \in Files BY Scenario
<1>2. <<>> \in Seq(Nat) /\ <<>> # None BY NotNone
<1>3. /\ e \in Entries /\ e.part = <<>> /\ e.part # None /\ e.digest
      /\ e.final = d[f].final /\ e.spoilt = d[f].spoilt
  BY <1>1, <1>2, DiskAt DEF Contents, Entries
<1>4. Created(d, j, k) = [d EXCEPT ![f] = e] BY <1>1 DEF Created, DiskOK
<1> HIDE DEF e
<1>5. /\ DiskOK([d EXCEPT ![f] = e]) /\ [d EXCEPT ![f] = e][f] = e
      /\ \A g \in Files : g # f => [d EXCEPT ![f] = e][g] = d[g]
  BY <1>1, <1>3, DiskPut
<1> QED BY <1>3, <1>4, <1>5

\* Block v of file k was written to a stream that was opened for file n.
Appended(d, e, j, k, n, v) ==
    LET own == n = k /\ d[<<j, k>>].part # None IN
    /\ v = 0 => e = d
    /\ \A g \in Files : g # <<j, n>> => e[g] = d[g]
    /\ \A g \in Files : e[g].final = d[g].final /\ e[g].digest = d[g].digest
    /\ v > 0 /\ own => /\ e[<<j, k>>].part = Append(d[<<j, k>>].part, v)
                      /\ e[<<j, k>>].spoilt = d[<<j, k>>].spoilt
    /\ ~own => e[<<j, n>>].part = d[<<j, n>>].part

\* A block goes to one file, and a .download gets only blocks.
LEMMA WriteAllIs ==
    ASSUME sc \in Scenarios, NEW j \in Jobs, NEW d, DiskOK(d), NEW k, NEW n,
           k \in DOMAIN sc.files[j], n \in DOMAIN sc.files[j], NEW v \in Nat
    PROVE  /\ DiskOK(WriteAll(d, j, k, n, v))
           /\ Appended(d, WriteAll(d, j, k, n, v), j, k, n, v)
<1> USE DEF Appended
<1> DEFINE f == <<j, k>>
           g == <<j, n>>
           e == WriteAll(d, j, k, n, v)
<1>1. f \in Files /\ g \in Files BY Scenario
<1>2. CASE v = 0 BY <1>2 DEF WriteAll
<1>3. CASE v > 0 /\ n = k /\ d[f].part # None
  <2> DEFINE b == [d[f] EXCEPT !.part = Append(@, v)]
  <2>1. d[f] \in Entries /\ d[f].part \in Seq(Nat) BY <1>1, <1>3, DiskAt
  <2>2. Append(d[f].part, v) \in Seq(Nat) /\ Append(d[f].part, v) # None
    <3>1. Append(d[f].part, v) \in Seq(Nat) BY <2>1
    <3> QED BY <3>1, NotNone
  <2>3. /\ b \in Entries /\ b.part = Append(d[f].part, v) /\ b.part # None
        /\ b.final = d[f].final /\ b.spoilt = d[f].spoilt
        /\ b.digest = d[f].digest
    <3> DEFINE c == Append(d[f].part, v)
    <3>1. c \in Seq(Nat) /\ c # None BY <2>2
    <3>2. b = [d[f] EXCEPT !.part = c] OBVIOUS
    <3> HIDE DEF c, b
    <3>3. /\ b \in Entries /\ b.part = c /\ b.final = d[f].final
          /\ b.spoilt = d[f].spoilt /\ b.digest = d[f].digest
      BY <2>1, <3>1, <3>2 DEF Contents, Entries
    <3> QED BY <3>1, <3>3 DEF c
  <2>4. e = [d EXCEPT ![f] = b]
    <3>1. e = [d EXCEPT ![f].part = Append(@, v)] BY <1>3 DEF WriteAll
    <3> QED BY <3>1, Zenon
  <2> HIDE DEF b, e
  <2>5. /\ DiskOK([d EXCEPT ![f] = b]) /\ [d EXCEPT ![f] = b][f] = b
        /\ \A h \in Files : h # f => [d EXCEPT ![f] = b][h] = d[h]
    <3>1. b \in Entries /\ (b.digest => b.part # None) BY <2>3
    <3> HIDE DEF f
    <3> QED BY <1>1, <3>1, DiskPut
  <2>6. /\ DiskOK(e) /\ e[f] = b /\ \A h \in Files : h # f => e[h] = d[h]
    BY <2>4, <2>5
  <2>7. f = g BY <1>3
  <2>8. \A h \in Files : e[h].final = d[h].final /\ e[h].digest = d[h].digest
    <3> HIDE DEF f, g
    <3> QED BY <2>3, <2>6
  <2>9. /\ e[f].part = Append(d[f].part, v) /\ e[f].spoilt = d[f].spoilt
    <3> HIDE DEF f, g
    <3> QED BY <2>3, <2>6
  <2>10. v # 0 BY <1>3
  <2>11. e[<<j, k>>].part = Append(d[<<j, k>>].part, v)
    BY <2>9, Zenon
  <2> QED BY <1>3, <2>6, <2>7, <2>8, <2>9, <2>10, <2>11, Zenon DEF e, f, g
<1>4. CASE v > 0 /\ ~(n = k /\ d[f].part # None)
  <2> DEFINE b == [d[g] EXCEPT !.spoilt = TRUE]
  <2>1. d[g] \in Entries /\ (d[g].digest => d[g].part # None) BY <1>1, DiskAt
  <2>2. /\ b \in Entries /\ b.part = d[g].part /\ b.digest = d[g].digest
        /\ b.final = d[g].final /\ b.spoilt
    BY <2>1 DEF Entries
  <2>3. e = [d EXCEPT ![g] = b] BY <1>1, <1>4 DEF WriteAll, DiskOK
  <2> HIDE DEF b, e
  <2>4. /\ DiskOK([d EXCEPT ![g] = b]) /\ [d EXCEPT ![g] = b][g] = b
        /\ \A h \in Files : h # g => [d EXCEPT ![g] = b][h] = d[h]
    BY <1>1, <2>1, <2>2, DiskPut
  <2> QED BY <1>1, <1>4, <2>2, <2>3, <2>4 DEF e
<1>5. v = 0 \/ v > 0 OBVIOUS
<1> HIDE DEF e, f, g
<1> QED BY <1>2, <1>3, <1>4, <1>5 DEF e, f, g

-----------------------------------------------------------------------------
(* What a step does to the queues. *)

\* Job j has sent m.
Gave(q, p, j, m) ==
    /\ m.j = j /\ Sent(p, j) = Sent(q, j) \cup {m}
    /\ \A T : Leads(q, j, T) /\ (m.t \notin T \/ Sent(q, j) = {}) => Leads(p, j, T)
    /\ \A T : Once(q, j, T) /\ (m.t \notin T \/ ~Has(q, j, T)) => Once(p, j, T)
    /\ Trails(q, j) /\ (~Item(m, j) \/ ~Has(q, j, {"digest"})) => Trails(p, j)
    /\ OffsetFirst(q, j) /\ (~Item(m, j) \/ m.t # "confirm" \/ Clear(q, j))
          => OffsetFirst(p, j)
    /\ ~Item(m, j) => SameItems(q, p, j)
    /\ Item(m, j) =>
          /\ ~Clear(p, j)
          /\ \A x : Opens(p, j, x) => Opens(q, j, x) \/ (x = m /\ Clear(q, j))
          /\ \A x : Opens(q, j, x) => Opens(p, j, x)
          /\ Clear(q, j) => Opens(p, j, m)
          /\ \A x : Closes(p, j, x) => x = m
          /\ \A x, y : Follows(p, j, x, y) =>
                          Follows(q, j, x, y) \/ (y = m /\ Closes(q, j, x))

\* The first message, h, was of job j.
Took(q, p, j, h) ==
    /\ h.j = j /\ h \in Sent(q, j) /\ Sent(q, j) = Sent(p, j) \cup {h}
    /\ \A T : Leads(q, j, T) => Leads(p, j, T) /\ ~Has(p, j, T)
    /\ \A T : Once(q, j, T) => Once(p, j, T) /\ (h.t \in T => ~Has(p, j, T))
    /\ Trails(q, j) => Trails(p, j) /\ (h.t = "digest" => Clear(q, j))
    /\ OffsetFirst(q, j) =>
          /\ OffsetFirst(p, j)
          /\ Item(h, j) => \A m \in Sent(p, j) : Item(m, j) => m.t # "confirm"
    /\ ~Item(h, j) => SameItems(q, p, j)
    /\ Item(h, j) =>
          /\ ~Clear(q, j) /\ Opens(q, j, h)
          /\ \A x : Opens(q, j, x) => x = h
          /\ Clear(p, j) => Closes(q, j, h)
          /\ \A x : Opens(p, j, x) => Follows(q, j, h, x)
          /\ \A x : Closes(p, j, x) => Closes(q, j, x)
          /\ \A x, y : Follows(p, j, x, y) => Follows(q, j, x, y)

\* Append is such a step,
LEMMA GaveIs ==
    ASSUME NEW q \in Seq(Messages), NEW m \in Messages, NEW j, m.j = j
    PROVE  Gave(q, Append(q, m), j, m)
<1> DEFINE p == Append(q, m)
           n == Len(q)
<1>1. /\ Sent(p, j) = Sent(q, j) \cup {m}
      /\ \A T : Leads(q, j, T) /\ (m.t \notin T \/ Sent(q, j) = {})
                   => Leads(p, j, T)
      /\ \A T : Once(q, j, T) /\ (m.t \notin T \/ ~Has(q, j, T)) => Once(p, j, T)
      /\ Trails(q, j) /\ (~Item(m, j) \/ ~Has(q, j, {"digest"})) => Trails(p, j)
      /\ OffsetFirst(q, j) /\ (~Item(m, j) \/ m.t # "confirm" \/ Clear(q, j))
            => OffsetFirst(p, j)
  BY AppendOwn
<1>2. ~Item(m, j) => SameItems(q, p, j) BY AppendItems
<1>3. Item(m, j) =>
          /\ ~Clear(p, j)
          /\ \A x : Opens(p, j, x) => Opens(q, j, x) \/ (x = m /\ Clear(q, j))
          /\ \A x : Closes(p, j, x) => x = m
          /\ \A x, y : Follows(p, j, x, y) =>
                          Follows(q, j, x, y) \/ (y = m /\ Closes(q, j, x))
  BY AppendItem
<1>4. /\ n \in Nat /\ DOMAIN q = 1 .. n /\ DOMAIN p = 1 .. n + 1
      /\ \A i \in 1 .. n : p[i] = q[i]
      /\ p[n + 1] = m
  BY AppendAt
<1> HIDE DEF p, n
<1>5. ASSUME NEW x, Opens(q, j, x) PROVE Opens(p, j, x)
  <2>1. PICK i \in 1 .. n : q[i] = x /\ Item(x, j) /\ NoItem(q, j, 1, i - 1)
    BY <1>4, <1>5 DEF Opens
  <2>2. NoItem(p, j, 1, i - 1) BY <1>4, <2>1 DEF NoItem
  <2> QED BY <1>4, <2>1, <2>2 DEF Opens
<1>6. ASSUME Clear(q, j), Item(m, j) PROVE Opens(p, j, m)
  <2>1. NoItem(p, j, 1, n + 1 - 1) BY <1>4, <1>6 DEF Clear, NoItem, n
  <2> QED BY <1>4, <1>6, <2>1 DEF Opens
<1> QED BY <1>1, <1>2, <1>3, <1>5, <1>6 DEF Gave, p

\* and Tail is one.
LEMMA TookIs ==
    ASSUME NEW q \in Seq(Messages), q # <<>>, NEW j, Head(q).j = j
    PROVE  Took(q, Tail(q), j, Head(q))
<1> DEFINE p == Tail(q)
           h == Head(q)
<1>1. /\ h \in Sent(q, j) /\ Sent(q, j) = Sent(p, j) \cup {h}
      /\ \A T : Leads(q, j, T) => Leads(p, j, T) /\ ~Has(p, j, T)
      /\ \A T : Once(q, j, T) => Once(p, j, T) /\ (h.t \in T => ~Has(p, j, T))
      /\ Trails(q, j) => Trails(p, j) /\ (h.t = "digest" => Clear(q, j))
      /\ OffsetFirst(q, j) =>
            /\ OffsetFirst(p, j)
            /\ Item(h, j) => \A m \in Sent(p, j) : Item(m, j) => m.t # "confirm"
  BY TailOwn
<1>2. ~Item(h, j) => SameItems(q, p, j) BY TailItems
<1>3. Item(h, j) =>
          /\ ~Clear(q, j) /\ Opens(q, j, h)
          /\ Clear(p, j) => Closes(q, j, h)
          /\ \A x : Opens(p, j, x) => Follows(q, j, h, x)
          /\ \A x : Closes(p, j, x) => Closes(q, j, x)
          /\ \A x, y : Follows(p, j, x, y) => Follows(q, j, x, y)
  BY TailItem
<1>4. q[1] = h /\ DOMAIN q = 1 .. Len(q) /\ Len(q) \in Nat BY TailAt
<1> HIDE DEF p, h
<1>5. ASSUME Item(h, j), NEW x, Opens(q, j, x) PROVE x = h
  <2>1. PICK i \in 1 .. Len(q) : q[i] = x /\ NoItem(q, j, 1, i - 1)
    BY <1>4, <1>5 DEF Opens
  <2>2. i = 1 BY <1>4, <1>5, <2>1 DEF NoItem
  <2> QED BY <1>4, <2>1, <2>2
<1>6. h.j = j BY DEF h
<1> QED BY <1>1, <1>2, <1>3, <1>5, <1>6 DEF Took, p, h

\* A queue is the same as itself.
LEMMA SameRefl ==
    ASSUME NEW q, NEW j
    PROVE  SameQueue(q, q, j)
  BY DEF SameQueue, SameItems

\* A step that takes the first message of q, and may add one to p.
LEMMA TakeStep ==
    ASSUME NEW q \in Seq(Messages), NEW p \in Seq(Messages), q # <<>>, NEW msgs,
           msgs = <<>> \/ \E m \in Messages : m.j = Head(q).j /\ msgs = <<m>>
    PROVE  LET j == Head(q).j IN
           /\ j \in Jobs /\ Head(q) \in Messages
           /\ Tail(q) \in Seq(Messages) /\ p \o msgs \in Seq(Messages)
           /\ \A i : i # j => /\ SameQueue(q, Tail(q), i)
                              /\ SameQueue(p, p \o msgs, i)
           /\ Took(q, Tail(q), j, Head(q))
           /\ msgs = <<>> => p \o msgs = p
           /\ \A m : msgs = <<m>> => Gave(p, p \o msgs, j, m)
<1> DEFINE j == Head(q).j
<1>1. Head(q) \in Messages /\ Tail(q) \in Seq(Messages) BY TailAt
<1>2. j \in Jobs BY <1>1 DEF Messages
<1>3. Took(q, Tail(q), j, Head(q)) BY TookIs
<1>4. \A i : i # j => SameQueue(q, Tail(q), i) BY TailAway
<1>5. CASE msgs = <<>>
  <2>1. p \o msgs = p BY <1>5, Joined
  <2>2. \A m : msgs # <<m>> BY <1>5
  <2> QED BY <1>1, <1>2, <1>3, <1>4, <1>5, <2>1, <2>2, SameRefl
<1>6. CASE \E m \in Messages : m.j = j /\ msgs = <<m>>
  <2>1. PICK m \in Messages : m.j = j /\ msgs = <<m>> BY <1>6
  <2>2. p \o msgs = Append(p, m) BY <2>1, Joined
  <2>3. Append(p, m) \in Seq(Messages) BY AppendAt
  <2>4. \A i : i # j => SameQueue(p, Append(p, m), i) BY <2>1, AppendAway
  <2>5. Gave(p, Append(p, m), j, m) BY <2>1, GaveIs
  <2>6. \A x : msgs = <<x>> => x = m BY <2>1
  <2>7. msgs # <<>> BY <2>1
  <2> QED BY <1>1, <1>2, <1>3, <1>4, <2>2, <2>3, <2>4, <2>5, <2>6, <2>7
<1> QED BY <1>5, <1>6

\* A step that adds a message.
LEMMA AddStep ==
    ASSUME NEW q \in Seq(Messages), NEW m \in Messages
    PROVE  /\ q \o <<m>> = Append(q, m) /\ Append(q, m) \in Seq(Messages)
           /\ \A i : i # m.j => SameQueue(q, Append(q, m), i)
           /\ Gave(q, Append(q, m), m.j, m)
<1>1. q \o <<m>> = Append(q, m) BY Joined
<1>2. Append(q, m) \in Seq(Messages) BY AppendAt
<1> QED BY <1>1, <1>2, AppendAway, GaveIs

\* All messages are well formed if the one that was sent is.
LEMMA QueuesStep ==
    ASSUME TypeQueues, sc' = sc, c2s' \in Seq(Messages), s2c' \in Seq(Messages),
           NEW j \in Jobs,
           \A i \in Jobs \ {j} : SameQueue(c2s, c2s', i) /\ SameQueue(s2c, s2c', i),
           \A m \in Sent(Data(j)', j) : m \in Sent(Data(j), j) \/ DataOK(j, m),
           \A m \in Sent(Back(j)', j) : m \in Sent(Back(j), j) \/ BackOK(j, m)
    PROVE  TypeQueues'
<1>1. Jobs' = Jobs /\ Messages' = Messages BY DEF Jobs, Messages
<1>2. ASSUME NEW i \in Jobs
      PROVE  /\ \A m \in Sent(Data(i)', i) : DataOK(i, m)
             /\ \A m \in Sent(Back(i)', i) : BackOK(i, m)
  <2>1. CASE i = j BY <2>1 DEF TypeQueues
  <2>2. CASE i # j
    <3>1. Sent(c2s', i) = Sent(c2s, i) /\ Sent(s2c', i) = Sent(s2c, i)
      BY <2>2 DEF SameQueue
    <3> QED BY <3>1 DEF TypeQueues, Data, Back
  <2> QED BY <2>1, <2>2
<1>3. \A i, m : (DataOK(i, m)' <=> DataOK(i, m)) /\ (BackOK(i, m)' <=> BackOK(i, m))
  BY DEF DataOK, BackOK, IsFile, Size
<1> QED BY <1>1, <1>2, <1>3 DEF TypeQueues

-----------------------------------------------------------------------------
(* What the steps have in common. *)

\* The server has taken m, of job j, and sent msgs.
ServerTook(m, j, msgs) ==
    /\ m \in Messages /\ j \in Jobs /\ m = Head(c2s) /\ m.j = j /\ up
    /\ c2s' \in Seq(Messages) /\ s2c' \in Seq(Messages)
    /\ \A i : i # j => SameQueue(c2s, c2s', i) /\ SameQueue(s2c, s2c', i)
    /\ Took(c2s, c2s', j, m) /\ m \in Sent(c2s, j)
    /\ Sent(c2s', j) \subseteq Sent(c2s, j)
    /\ msgs = <<>> => s2c' = s2c
    /\ \A x : msgs = <<x>> => Gave(s2c, s2c', j, x)
    /\ IF sc.upload[j] THEN DataOK(j, m) ELSE BackOK(j, m)

\* The client has.
ClientTook(m, j, msgs) ==
    /\ m \in Messages /\ j \in Jobs /\ m = Head(s2c) /\ m.j = j /\ up
    /\ c2s' \in Seq(Messages) /\ s2c' \in Seq(Messages)
    /\ \A i : i # j => SameQueue(c2s, c2s', i) /\ SameQueue(s2c, s2c', i)
    /\ Took(s2c, s2c', j, m) /\ m \in Sent(s2c, j)
    /\ Sent(s2c', j) \subseteq Sent(s2c, j)
    /\ msgs = <<>> => c2s' = c2s
    /\ \A x : msgs = <<x>> => Gave(c2s, c2s', j, x)
    /\ IF sc.upload[j] THEN BackOK(j, m) ELSE DataOK(j, m)

\* ServerTakes is such a step,
LEMMA ServerTake ==
    ASSUME FTTypeOK, c2s # <<>>, NEW msgs, ServerTakes(msgs),
           msgs = <<>> \/ \E x \in Messages : x.j = Head(c2s).j /\ msgs = <<x>>
    PROVE  ServerTook(Head(c2s), Head(c2s).j, msgs)
<1>1. /\ c2s \in Seq(Messages) /\ s2c \in Seq(Messages) /\ up
      /\ c2s' = Tail(c2s) /\ s2c' = s2c \o msgs
  BY DEF FTTypeOK, TypeQueues, ServerTakes
<1> DEFINE m == Head(c2s)
           j == m.j
<1>2. /\ m \in Messages /\ j \in Jobs
      /\ c2s' \in Seq(Messages) /\ s2c' \in Seq(Messages)
      /\ \A i : i # j => SameQueue(c2s, c2s', i) /\ SameQueue(s2c, s2c', i)
      /\ Took(c2s, c2s', j, m)
      /\ msgs = <<>> => s2c' = s2c
      /\ \A x : msgs = <<x>> => Gave(s2c, s2c', j, x)
  BY <1>1, TakeStep
<1> HIDE DEF m, j
<1>3. m \in Sent(c2s, j) /\ Sent(c2s', j) \subseteq Sent(c2s, j)
  BY <1>2 DEF Took
<1>4. IF sc.upload[j] THEN DataOK(j, m) ELSE BackOK(j, m)
  BY <1>2, <1>3 DEF FTTypeOK, TypeQueues, Data, Back
<1> QED BY <1>1, <1>2, <1>3, <1>4 DEF ServerTook, m, j

\* and ClientTakes.
LEMMA ClientTake ==
    ASSUME FTTypeOK, s2c # <<>>, NEW msgs, ClientTakes(msgs),
           msgs = <<>> \/ \E x \in Messages : x.j = Head(s2c).j /\ msgs = <<x>>
    PROVE  ClientTook(Head(s2c), Head(s2c).j, msgs)
<1>1. /\ c2s \in Seq(Messages) /\ s2c \in Seq(Messages) /\ up
      /\ s2c' = Tail(s2c) /\ c2s' = c2s \o msgs
  BY DEF FTTypeOK, TypeQueues, ClientTakes
<1> DEFINE m == Head(s2c)
           j == m.j
<1>2. /\ m \in Messages /\ j \in Jobs
      /\ c2s' \in Seq(Messages) /\ s2c' \in Seq(Messages)
      /\ \A i : i # j => SameQueue(c2s, c2s', i) /\ SameQueue(s2c, s2c', i)
      /\ Took(s2c, s2c', j, m)
      /\ msgs = <<>> => c2s' = c2s
      /\ \A x : msgs = <<x>> => Gave(c2s, c2s', j, x)
  BY <1>1, TakeStep
<1> HIDE DEF m, j
<1>3. m \in Sent(s2c, j) /\ Sent(s2c', j) \subseteq Sent(s2c, j)
  BY <1>2 DEF Took
<1>4. IF sc.upload[j] THEN BackOK(j, m) ELSE DataOK(j, m)
  BY <1>2, <1>3 DEF FTTypeOK, TypeQueues, Data, Back
<1> QED BY <1>1, <1>2, <1>3, <1>4 DEF ClientTook, m, j

\* A message is one.
LEMMA MsgIs ==
    ASSUME NEW t \in Kinds, NEW j \in Jobs, NEW k \in Nat, NEW v \in Int
    PROVE  /\ Msg(t, j, k, v) \in Messages
           /\ Msg(t, j, k, v).t = t /\ Msg(t, j, k, v).j = j
           /\ Msg(t, j, k, v).k = k /\ Msg(t, j, k, v).v = v
  BY DEF Msg, Messages

\* The parts of a message.
LEMMA MessageIs ==
    ASSUME NEW m \in Messages
    PROVE  m.t \in Kinds /\ m.j \in Jobs /\ m.k \in Nat /\ m.v \in Int
  BY DEF Messages

\* The types of what a step leaves alone.
LEMMA UserSame ==
    ASSUME FTTypeOK, UNCHANGED <<sc, up, breaks, saved, state, from, dialog>>
    PROVE  TypeUser'
  BY DEF FTTypeOK, TypeUser, Jobs, Files, IsFile, Size

\* The same for the histories,
LEMMA HistorySame ==
    ASSUME FTTypeOK, UNCHANGED <<sc, kept, lost, faulted>>
    PROVE  TypeHistory'
  BY DEF FTTypeOK, TypeHistory, Jobs, Files, IsFile, Size

\* A file of a job may have failed.
LEMMA HistoryFails ==
    ASSUME FTTypeOK, UNCHANGED <<sc, kept, lost>>, NEW j \in Jobs, NEW k,
           IsFile(j, k), faulted' \subseteq faulted \cup {<<j, k>>}
    PROVE  TypeHistory'
<1>1. <<j, k>> \in Files BY Scenario DEF FTTypeOK, TypeUser, IsFile
<1> QED BY <1>1 DEF FTTypeOK, TypeHistory, Jobs, Files, IsFile, Size

\* for the disk,
LEMMA FilesSame ==
    ASSUME FTTypeOK, UNCHANGED <<sc, disk>>
    PROVE  DiskOK(disk)'
  BY DEF FTTypeOK, DiskOK, Files, Jobs

\* for the order of the jobs,
LEMMA ReadsSame ==
    ASSUME FTTypeOK, UNCHANGED <<sc, reads>>, DOMAIN rjob' = DOMAIN rjob
    PROVE  TypeReads'
  BY DEF FTTypeOK, TypeReads, Jobs, ReadSide

\* and for all jobs but one.
LEMMA JobsStep ==
    ASSUME FTTypeOK, sc' = sc, NEW j \in Jobs,
           DOMAIN rjob' \subseteq DOMAIN rjob \cup {j},
           \A i \in DOMAIN rjob' : i # j => rjob'[i] = rjob[i],
           j \in DOMAIN rjob' => rjob'[j] \in ReadJobs,
           DOMAIN wjob' \subseteq DOMAIN wjob \cup {j},
           \A i \in DOMAIN wjob' : i # j => wjob'[i] = wjob[i],
           j \in DOMAIN wjob' => wjob'[j] \in WriteJobs
    PROVE  TypeJobs'
<1>1. Jobs' = Jobs BY DEF Jobs
<1> QED BY <1>1 DEF FTTypeOK, TypeJobs

\* What is said of the files of job j stays true.
SameFacts(j) ==
    /\ \A k : Size(j, k)' = Size(j, k) /\ Whole(<<j, k>>)' = Whole(<<j, k>>)
    /\ \A k \in DOMAIN sc.files[j] : Orig(<<j, k>>)' <=> Orig(<<j, k>>)
    /\ \A b : Untouched(j, b) => Untouched(j, b)'
    /\ \A b : UnsentAt(j, b) => UnsentAt(j, b)'
    /\ \A a, b : Gap(j, a, b) => Gap(j, a, b)'
    /\ \A k, b : Shadowed(j, k, b) => Shadowed(j, k, b)'
    /\ \A b : WholeBefore(j, b) => WholeBefore(j, b)'
    /\ \A k : Blank(j, k) => Blank(j, k)'
    /\ \A k : Empty(j, k) => Empty(j, k)'
    /\ \A k, n : Holds(j, k, n) => Holds(j, k, n)'
    /\ \A k : Passed(j, k) => Passed(j, k)'
    /\ \A k, n : Received(j, k, n) => Received(j, k, n)'
    /\ \A k : LaterFails(<<j, k>>) => LaterFails(<<j, k>>)'

\* DiskSame, in one word.
LEMMA SameDiskFacts ==
    ASSUME NEW j, SameDisk(j)
    PROVE  SameFacts(j)
  BY DiskSame DEF SameFacts

\* A step that neither reads nor writes nor decides: it may change the messages
\* that are no items, what the user is told, and end a side.
Quiet(j) ==
    /\ SameDisk(j) /\ UNCHANGED <<up, breaks, saved>>
    /\ state'[j] = "new" => state[j] = "new"
    /\ state'[j] = "added" <=> state[j] = "added"
    /\ j \in DOMAIN rjob' => j \in DOMAIN rjob /\ rjob'[j] = rjob[j]
    /\ j \in DOMAIN wjob' =>
          \/ j \in DOMAIN wjob /\ wjob'[j].resume = wjob[j].resume
          \/ sc.upload[j] /\ ~wjob'[j].resume
    /\ Live(j)' => Live(j) /\ At(j)' = At(j) /\ (Open(j)' <=> Open(j))
    /\ Open(j)' => wjob'[j].on = wjob[j].on
    /\ SameItems(Data(j), Data(j)', j)
    /\ \A m \in Sent(Data(j)', j) :
          m \in Sent(Data(j), j) \/ m.t \notin {"block", "confirm", "done"}
    /\ j \in DOMAIN rjob' /\ Live(j)' /\ Has(Back(j), j, {"confirm"})
          => Has(Back(j)', j, {"confirm"})

\* It keeps what is said of the files and of the data on the way.
LEMMA QuietStep ==
    ASSUME NEW j, Quiet(j), Touch(j), Resumed(j), Torn(j), Chain(j), Reached(j),
           Keeps(j)
    PROVE  Touch(j)' /\ Resumed(j)' /\ Torn(j)' /\ Chain(j)' /\ Reached(j)'
           /\ Keeps(j)'
<1>1. SameFacts(j) BY SameDiskFacts DEF Quiet
<1>2. Touch(j)' BY <1>1 DEF Quiet, SameDisk, Touch, SameFacts
<1>3. Resumed(j)' BY DEF Quiet, SameDisk, Resumed
<1>4. Torn(j)' BY <1>1 DEF Quiet, SameDisk, Torn, IsPrefixOf, SameFacts
<1>5. Open(j)' => Open(j) /\ At(j)' = At(j) BY DEF Quiet, Open, Live
<1>6. Reached(j)' BY <1>5 DEF Quiet, SameDisk, Reached
<1>6a. Open(j)' => wjob'[j].on = wjob[j].on BY DEF Quiet
<1>7. Keeps(j)' BY <1>1, <1>5, <1>6a DEF Quiet, SameDisk, Keeps, SameFacts
<1>8. Chain(j)'
  <2>1. /\ Clear(Data(j)', j) <=> Clear(Data(j), j)
        /\ \A m : Opens(Data(j)', j, m) <=> Opens(Data(j), j, m)
        /\ \A m : Closes(Data(j)', j, m) <=> Closes(Data(j), j, m)
        /\ \A m, n : Follows(Data(j)', j, m, n) <=> Follows(Data(j), j, m, n)
    BY DEF Quiet, SameItems
  <2>2. /\ \A m : Opens(Data(j), j, m) \/ Closes(Data(j), j, m) => Item(m, j)
        /\ \A m, n : Follows(Data(j), j, m, n) => Item(m, j) /\ Item(n, j)
    BY DEF Opens, Closes, Follows
  <2>3. \A m : m \in Sent(Data(j)', j) /\ Item(m, j) => m \in Sent(Data(j), j)
    BY DEF Quiet, Item
  <2>4. Live(j)' => \A m : StartOK(j, m) => StartOK(j, m)'
    BY <1>1 DEF StartOK, Begins, Quiet, SameDisk, SameFacts
  <2>5. \A a, b : FollowOK(j, a, b) => FollowOK(j, a, b)'
    BY <1>1 DEF FollowOK, Begins, Quiet, SameDisk, SameFacts
  <2>6. j \in DOMAIN rjob' => \A a : LastOK(j, a) => LastOK(j, a)'
    BY <1>1 DEF LastOK, Quiet, SameDisk, SameFacts, Go
  <2>7. j \in DOMAIN rjob' /\ Live(j)' /\ NoneOK(j) => NoneOK(j)'
    BY <1>1 DEF NoneOK, Quiet, SameDisk, SameFacts, Go
  <2>8. /\ Live(j)' => Live(j) /\ (j \in DOMAIN rjob' => j \in DOMAIN rjob)
        /\ j \in DOMAIN rjob' => j \in DOMAIN rjob
    BY DEF Quiet
  <2> QED BY <2>1, <2>2, <2>3, <2>4, <2>5, <2>6, <2>7, <2>8 DEF Chain
<1> QED BY <1>2, <1>3, <1>4, <1>6, <1>7, <1>8

-----------------------------------------------------------------------------
(* The steps that start and answer. *)

\* FileResponse::Dir.
LEMMA OnDirStep ==
    ASSUME Inv, OnDir
    PROVE  Inv'
<1>1. /\ FTTypeOK /\ s2c # <<>> /\ Head(s2c).t = "dir" /\ ClientTakes(<<>>)
      /\ UNCHANGED <<sc, up, breaks, rjob, reads, disk, dialog, saved, state,
                     from, kept, lost, faulted>>
  BY DEF Inv, OnDir, ClientGets, history
<1>2. PICK m, j : /\ ClientTook(m, j, <<>>) /\ m.t = "dir"
                  /\ wjob' = IF j \in DOMAIN wjob
                             THEN [wjob EXCEPT ![j].listed = TRUE] ELSE wjob
  BY <1>1, ClientTake DEF OnDir
<1>3. /\ ~sc.upload[j] /\ Data(j) = s2c /\ Back(j) = c2s /\ j \in Jobs
      /\ Data(j)' = s2c' /\ Back(j)' = c2s' /\ c2s' = c2s
      /\ Took(s2c, s2c', j, m) /\ m \in Sent(s2c, j)
      /\ Sent(s2c', j) \subseteq Sent(s2c, j) /\ SameItems(s2c, s2c', j)
  BY <1>1, <1>2 DEF ClientTook, BackOK, Data, Back, Took, Item
<1>4. /\ DOMAIN wjob' = DOMAIN wjob
      /\ \A i \in DOMAIN wjob : i # j => wjob'[i] = wjob[i]
      /\ j \in DOMAIN wjob =>
            /\ wjob'[j] \in WriteJobs /\ wjob'[j].listed
            /\ wjob'[j].file_num = wjob[j].file_num
            /\ wjob'[j].open = wjob[j].open /\ wjob'[j].on = wjob[j].on
            /\ wjob'[j].resume = wjob[j].resume
  <2>1. j \in DOMAIN wjob => wjob[j] \in WriteJobs
    BY <1>1 DEF FTTypeOK, TypeJobs
  <2> QED BY <1>2, <2>1 DEF WriteJobs
<1>5. FTTypeOK'
  <2>1. TypeJobs' BY <1>1, <1>3, <1>4, JobsStep DEF FTTypeOK, TypeJobs
  <2>2. TypeQueues'
    BY <1>1, <1>2, <1>3, QueuesStep DEF FTTypeOK, ClientTook
  <2> QED BY <1>1, <2>1, <2>2, UserSame, HistorySame, FilesSame, ReadsSame
          DEF FTTypeOK
<1>6. ASSUME NEW i \in Jobs \ {j} PROVE Frame(i)
  BY <1>1, <1>2, <1>4 DEF Frame, Shown, ClientTook
<1>7. /\ Live(j)' <=> Live(j)
      /\ At(j)' = At(j) /\ (Open(j)' <=> Open(j))
      /\ Open(j)' => wjob'[j].on = wjob[j].on
      /\ Shown(j)' <=> Shown(j)
  BY <1>1, <1>3, <1>4 DEF Live, At, Open, Has, Shown
<1>8. Life(j) /\ Tokens(j) /\ Parts(j) /\ (Sane => JobInv(j)) BY <1>3 DEF Inv
<1>9. Life(j)'
  BY <1>1, <1>2, <1>3, <1>4, <1>7, <1>8
  DEF Life, LifeIdle, LifeStart, LifeEnd, Has, Took
<1>10. Tokens(j)'
  BY <1>1, <1>2, <1>3, <1>7, <1>8 DEF Tokens, Has, Took, Go, WaitsFor, SameItems
<1>11. Parts(j)'
  BY <1>1, <1>3, <1>7, <1>8 DEF Parts, Took, IsFile, Size
<1>12. ASSUME JobInv(j) PROVE JobInv(j)'
  <2>1. SameDisk(j) BY <1>1 DEF SameDisk
  <2>2. Quiet(j) BY <1>1, <1>3, <1>4, <1>7, <2>1 DEF Quiet
  <2>3. SameFacts(j) BY <2>1, SameDiskFacts
  <2>4. Answers(j)'
    BY <1>1, <1>3, <1>7, <1>12, <2>3
    DEF JobInv, Answers, DigestOK, AskOK, ConfirmOK, ShownOK, SameItems,
        SameFacts
  <2>5. Ending(j)'
    BY <1>1, <1>3, <1>4, <1>7, <1>12, <2>3
    DEF JobInv, Ending, Undated, AllWhole, Has, SameFacts
  <2>6. Leftover(j)'
    BY <1>1, <1>3, <1>7, <1>12, <2>3
    DEF JobInv, Leftover, Has, SameItems, SameFacts
  <2> QED BY <1>12, <2>2, <2>4, <2>5, <2>6, QuietStep DEF JobInv
<1>13. Sane' => Sane BY <1>1 DEF Sane
<1> QED BY <1>1, <1>2, <1>3, <1>5, <1>6, <1>8, <1>9, <1>10, <1>11, <1>12, <1>13,
           OwnStep DEF ClientTook

\* FileAction::Receive.
LEMMA OnReceiveStep ==
    ASSUME Inv, OnReceive
    PROVE  Inv'
<1>1. /\ FTTypeOK /\ c2s # <<>> /\ Head(c2s).t = "receive" /\ ServerTakes(<<>>)
      /\ UNCHANGED <<sc, up, breaks, rjob, reads, disk, dialog, saved, state,
                     from, kept, lost, faulted>>
  BY DEF Inv, OnReceive, ServerGets, history
<1>2. PICK m, j : /\ ServerTook(m, j, <<>>) /\ m.t = "receive"
                  /\ wjob' = Put(wjob, j, NewWrite(m.k, TRUE))
  BY <1>1, ServerTake DEF OnReceive
<1>3. /\ sc.upload[j] /\ Data(j) = c2s /\ Back(j) = s2c /\ j \in Jobs
      /\ Data(j)' = c2s' /\ Back(j)' = s2c' /\ s2c' = s2c
      /\ Took(c2s, c2s', j, m) /\ m \in Sent(c2s, j)
      /\ Sent(c2s', j) \subseteq Sent(c2s, j) /\ SameItems(c2s, c2s', j)
  BY <1>1, <1>2 DEF ServerTook, BackOK, Data, Back, Took, Item
<1>4. Life(j) /\ Tokens(j) /\ Parts(j) /\ (Sane => JobInv(j)) BY <1>3 DEF Inv
<1>5. /\ j \notin DOMAIN wjob /\ m.k = from[j] /\ Sent(s2c, j) = {}
      /\ ~Shown(j) /\ Live(j)
  BY <1>2, <1>3, <1>4 DEF Life, LifeStart, Live, Has
<1>6. /\ DOMAIN wjob' = DOMAIN wjob \cup {j}
      /\ \A i \in DOMAIN wjob : i # j => wjob'[i] = wjob[i]
      /\ wjob'[j] \in WriteJobs /\ wjob'[j].listed /\ wjob'[j].file_num = m.k
      /\ ~wjob'[j].open /\ ~wjob'[j].resume
  <2>1. m.k \in Nat BY <1>2, MessageIs DEF ServerTook
  <2> QED BY <1>2, <2>1, NewWriteIs DEF Put
<1>7. FTTypeOK'
  <2>1. TypeJobs' BY <1>1, <1>3, <1>6, JobsStep DEF FTTypeOK, TypeJobs
  <2>2. TypeQueues'
    BY <1>1, <1>2, <1>3, QueuesStep DEF FTTypeOK, ServerTook
  <2> QED BY <1>1, <2>1, <2>2, UserSame, HistorySame, FilesSame, ReadsSame
          DEF FTTypeOK
<1>8. ASSUME NEW i \in Jobs \ {j} PROVE Frame(i)
  BY <1>1, <1>2, <1>6 DEF Frame, Shown, ServerTook
<1>9. /\ Live(j)' /\ At(j)' = At(j) /\ ~Open(j) /\ ~Open(j)'
      /\ Shown(j)' <=> Shown(j)
  BY <1>1, <1>3, <1>5, <1>6 DEF Live, At, Open, Has, Shown
<1>10. Life(j)'
  BY <1>1, <1>2, <1>3, <1>4, <1>5, <1>6, <1>9
  DEF Life, LifeIdle, LifeStart, LifeEnd, Has, Took
<1>11. Tokens(j)'
  BY <1>1, <1>2, <1>3, <1>4, <1>9 DEF Tokens, Has, Took, Go, WaitsFor, SameItems
<1>12. Parts(j)'
  BY <1>1, <1>3, <1>4, <1>5, <1>9 DEF Parts, Took, IsFile, Size
<1>13. ASSUME JobInv(j) PROVE JobInv(j)'
  <2>1. SameDisk(j) BY <1>1 DEF SameDisk
  <2>2. Quiet(j) BY <1>1, <1>3, <1>5, <1>6, <1>9, <2>1 DEF Quiet
  <2>3. SameFacts(j) BY <2>1, SameDiskFacts
  <2>4. Answers(j)'
    BY <1>1, <1>3, <1>5, <1>9, <1>13, <2>3
    DEF JobInv, Answers, DigestOK, AskOK, ConfirmOK, ShownOK, SameItems,
        SameFacts
  <2>5. Ending(j)'
    BY <1>1, <1>2, <1>3, <1>5, <1>6, <1>9, <1>13, <2>3
    DEF JobInv, Ending, Undated, AllWhole, Has, SameFacts, Took
  <2>6. Leftover(j)'
    BY <1>1, <1>3, <1>5, <1>9, <1>13, <2>3
    DEF JobInv, Leftover, Has, SameItems, SameFacts
  <2> QED BY <1>13, <2>2, <2>4, <2>5, <2>6, QuietStep DEF JobInv
<1>14. Sane' => Sane BY <1>1 DEF Sane
<1> QED BY <1>1, <1>2, <1>3, <1>4, <1>7, <1>8, <1>10, <1>11, <1>12, <1>13,
           <1>14, OwnStep DEF ServerTook

-----------------------------------------------------------------------------
(* Queues without a job's items; the order of the jobs. *)

\* A queue without messages of a kind.
LEMMA NoneOnce ==
    ASSUME NEW q, NEW j, NEW T, ~Has(q, j, T)
    PROVE  Once(q, j, T) /\ Leads(q, j, T)
<1>1. \A i \in DOMAIN q : q[i].j = j => q[i].t \notin T BY InSent DEF Has
<1> QED BY <1>1 DEF Once, Leads

\* No digest: nothing comes after it.
LEMMA NoneTrails ==
    ASSUME NEW q, NEW j, ~Has(q, j, {"digest"})
    PROVE  Trails(q, j)
<1>1. \A i \in DOMAIN q : q[i].j = j => q[i].t # "digest" BY InSent DEF Has
<1> QED BY <1>1 DEF Trails

\* No items: there is none that opens or closes the queue.
LEMMA NoItems ==
    ASSUME NEW q \in Seq(Messages), NEW j,
           \A m \in Sent(q, j) : ~Item(m, j)
    PROVE  Clear(q, j)
<1>1. \A i \in 1 .. Len(q) : ~Item(q[i], j) BY InSent DEF Item
<1> QED BY <1>1 DEF Clear, NoItem

\* What opens or closes the queue, or follows an item, is an item in it.
LEMMA OpensSent ==
    ASSUME NEW q, NEW j
    PROVE  /\ \A m : Opens(q, j, m) \/ Closes(q, j, m)
                        => Item(m, j) /\ m \in Sent(q, j)
           /\ \A m, n : Follows(q, j, m, n) => /\ Item(m, j) /\ Item(n, j)
                                              /\ m \in Sent(q, j)
                                              /\ n \in Sent(q, j)
  BY InSent DEF Opens, Closes, Follows, Item

\* No items: none is among the messages.
LEMMA ClearNone ==
    ASSUME NEW q \in Seq(Messages), NEW j, Clear(q, j)
    PROVE  \A m \in Sent(q, j) : ~Item(m, j)
  BY InSent DEF Clear, NoItem, Item

\* A job is added to those that are read.
LEMMA ReadsAppend ==
    ASSUME FTTypeOK, sc' = sc, NEW j \in Jobs, j \notin DOMAIN rjob,
           DOMAIN rjob' = DOMAIN rjob \cup {j}, NEW side,
           side = ReadSide(j), side \in {"client", "server"},
           reads' = [reads EXCEPT ![side] = Append(@, j)]
    PROVE  TypeReads'
<1>1. reads \in [{"client", "server"} -> Seq(Jobs)] BY DEF FTTypeOK, TypeReads
<1>2. /\ reads' \in [{"client", "server"} -> Seq(Jobs)]
      /\ \A s \in {"client", "server"} : s # side => reads'[s] = reads[s]
      /\ reads'[side] = Append(reads[side], j)
  BY <1>1
<1>3. ASSUME NEW s \in {"client", "server"}
      PROVE  /\ \A i \in DOMAIN reads'[s] :
                   /\ reads'[s][i] \in DOMAIN rjob'
                   /\ ReadSide(reads'[s][i]) = s
             /\ \A i, k \in DOMAIN reads'[s] : reads'[s][i] = reads'[s][k] => i = k
  <2>1. CASE s # side BY <1>2, <2>1 DEF FTTypeOK, TypeReads
  <2>2. CASE s = side
    <3>1. /\ DOMAIN reads'[s] = 1 .. Len(reads[s]) + 1
          /\ DOMAIN reads[s] = 1 .. Len(reads[s]) /\ Len(reads[s]) \in Nat
          /\ \A i \in 1 .. Len(reads[s]) : reads'[s][i] = reads[s][i]
          /\ reads'[s][Len(reads[s]) + 1] = j
      BY <1>1, <1>2, <2>2, AppendAt
    <3>2. /\ \A i \in DOMAIN reads[s] :
                reads[s][i] \in DOMAIN rjob /\ ReadSide(reads[s][i]) = s
          /\ \A i, k \in DOMAIN reads[s] : reads[s][i] = reads[s][k] => i = k
      BY DEF FTTypeOK, TypeReads
    <3> QED BY <2>2, <3>1, <3>2
  <2> QED BY <2>1, <2>2
<1>4. \A i : ReadSide(i)' = ReadSide(i) BY DEF ReadSide
<1>5. Jobs' = Jobs BY DEF Jobs
<1> QED BY <1>2, <1>3, <1>4, <1>5 DEF TypeReads

\* A job is taken from them.
LEMMA ReadsDrop ==
    ASSUME FTTypeOK, sc' = sc, NEW j \in Jobs, NEW side,
           side = ReadSide(j), side \in {"client", "server"}, DropRead(j, side)
    PROVE  /\ TypeReads' /\ DOMAIN rjob' = DOMAIN rjob \ {j}
           /\ \A i \in DOMAIN rjob : i # j => rjob'[i] = rjob[i]
<1>1. /\ reads \in [{"client", "server"} -> Seq(Jobs)]
      /\ \A s \in {"client", "server"} :
            /\ \A i \in DOMAIN reads[s] :
                  reads[s][i] \in DOMAIN rjob /\ ReadSide(reads[s][i]) = s
            /\ \A i, k \in DOMAIN reads[s] : reads[s][i] = reads[s][k] => i = k
  BY DEF FTTypeOK, TypeReads
<1>2. /\ DOMAIN rjob' = DOMAIN rjob \ {j}
      /\ \A i \in DOMAIN rjob : i # j => rjob'[i] = rjob[i]
  BY DEF DropRead, Del
<1> DEFINE s == reads[side]
           t == Without(s, j)
           c == CHOOSE i \in DOMAIN s : s[i] = j
<1>3. s \in Seq(Jobs) /\ DOMAIN s = 1 .. Len(s) /\ Len(s) \in Nat BY <1>1
<1>4. /\ t \in Seq(Jobs)
      /\ \A i \in DOMAIN t : t[i] # j /\ t[i] \in DOMAIN rjob /\ ReadSide(t[i]) = side
      /\ \A i, k \in DOMAIN t : t[i] = t[k] => i = k
  <2>1. CASE \E x \in DOMAIN s : s[x] = j
    <3>1. c \in DOMAIN s /\ s[c] = j BY <2>1
    <3>2. t = [x \in 1 .. Len(s) - 1 |-> IF x < c THEN s[x] ELSE s[x + 1]]
      BY <2>1 DEF Without
    <3> HIDE DEF c, t
    <3>3. Len(s) - 1 \in Nat BY <1>3, <3>1
    <3>4. /\ DOMAIN t = 1 .. Len(s) - 1
          /\ \A x \in 1 .. Len(s) - 1 : t[x] = IF x < c THEN s[x] ELSE s[x + 1]
      BY <3>2
    <3>5. \A x \in 1 .. Len(s) - 1 :
             (IF x < c THEN x ELSE x + 1) \in DOMAIN s
      BY <1>3, <3>1
    <3>6. \A x \in 1 .. Len(s) - 1 : t[x] \in Jobs BY <1>3, <3>4, <3>5
    <3>7. t \in Seq(Jobs) BY <3>2, <3>3, <3>6
    <3>8. ASSUME NEW i \in DOMAIN t PROVE t[i] # j
      <4>1. PICK x \in DOMAIN s : x = IF i < c THEN i ELSE i + 1 BY <3>4, <3>5
      <4>2. x # c /\ t[i] = s[x] BY <1>3, <3>1, <3>4, <4>1
      <4> QED BY <1>1, <3>1, <4>2
    <3>9. \A i \in DOMAIN t : t[i] \in DOMAIN rjob /\ ReadSide(t[i]) = side
      BY <1>1, <1>3, <3>4, <3>5
    <3>10. ASSUME NEW i \in DOMAIN t, NEW k \in DOMAIN t, t[i] = t[k]
           PROVE i = k
      <4> DEFINE g(x) == IF x < c THEN x ELSE x + 1
      <4>1. g(i) \in DOMAIN s /\ g(k) \in DOMAIN s /\ s[g(i)] = s[g(k)]
        BY <3>4, <3>5, <3>10
      <4>2. g(i) = g(k) BY <1>1, <4>1
      <4>3. i \in Int /\ k \in Int /\ c \in Int BY <1>3, <3>1, <3>4
      <4> QED BY <4>2, <4>3
    <3> QED BY <3>7, <3>8, <3>9, <3>10
  <2>2. CASE ~ \E x \in DOMAIN s : s[x] = j
    <3>1. t = s BY <2>2 DEF Without
    <3> QED BY <1>1, <1>3, <2>2, <3>1
  <2> QED BY <2>1, <2>2
<1>5. /\ reads' \in [{"client", "server"} -> Seq(Jobs)]
      /\ reads'[side] = t
      /\ \A x \in {"client", "server"} : x # side => reads'[x] = reads[x]
  <2>1. reads' = [reads EXCEPT ![side] = t] BY DEF DropRead
  <2> HIDE DEF t
  <2> QED BY <1>1, <1>4, <2>1
<1> HIDE DEF s, t
<1>6. ASSUME NEW x \in {"client", "server"}
      PROVE  /\ \A i \in DOMAIN reads'[x] :
                   /\ reads'[x][i] \in DOMAIN rjob'
                   /\ ReadSide(reads'[x][i]) = x
             /\ \A i, k \in DOMAIN reads'[x] : reads'[x][i] = reads'[x][k] => i = k
  <2>1. CASE x # side BY <1>1, <1>2, <1>5, <2>1
  <2>2. CASE x = side BY <1>2, <1>4, <1>5, <2>2
  <2> QED BY <2>1, <2>2
<1>7. \A i : ReadSide(i)' = ReadSide(i) BY DEF ReadSide
<1>8. Jobs' = Jobs BY DEF Jobs
<1> QED BY <1>2, <1>5, <1>6, <1>7, <1>8 DEF TypeReads

\* The first message of a queue.
LEMMA HeadIs ==
    ASSUME NEW q \in Seq(Messages), q # <<>>
    PROVE  /\ Head(q) \in Messages /\ Head(q).j \in Jobs /\ Head(q).k \in Nat
           /\ Head(q).v \in Int /\ Head(q) \in Sent(q, Head(q).j)
<1>1. Head(q) \in Messages BY TailAt
<1>2. Took(q, Tail(q), Head(q).j, Head(q)) BY TookIs
<1> QED BY <1>1, <1>2, MessageIs DEF Took

\* The server has taken a message and answered it with one of kind t.
ServerReplied(t, k, v) ==
    \E x : /\ ServerTook(Head(c2s), Head(c2s).j, <<x>>)
           /\ x.t = t /\ x.k = k /\ x.v = v /\ x.j = Head(c2s).j
           /\ Gave(s2c, s2c', Head(c2s).j, x)
           /\ Sent(s2c', Head(c2s).j) = Sent(s2c, Head(c2s).j) \cup {x}

\* A message is taken and answered.
LEMMA ServerSends ==
    ASSUME FTTypeOK, c2s # <<>>, NEW k \in Nat, NEW v \in Int,
           NEW t \in Kinds,
           ServerTakes(<<Msg(t, Head(c2s).j, k, v)>>)
    PROVE  ServerReplied(t, k, v)
<1>1. Head(c2s).j \in Jobs BY HeadIs DEF FTTypeOK, TypeQueues
<1> DEFINE x == Msg(t, Head(c2s).j, k, v)
<1>2. /\ x \in Messages /\ x.t = t /\ x.j = Head(c2s).j /\ x.k = k /\ x.v = v
  BY <1>1, MsgIs
<1>3. ServerTakes(<<x>>) OBVIOUS
<1> HIDE DEF x
<1>4. ServerTook(Head(c2s), Head(c2s).j, <<x>>) BY <1>2, <1>3, ServerTake
<1> QED BY <1>2, <1>4 DEF ServerTook, Gave, ServerReplied

\* The client has.
ClientReplied(t, k, v) ==
    \E x : /\ ClientTook(Head(s2c), Head(s2c).j, <<x>>)
           /\ x.t = t /\ x.k = k /\ x.v = v /\ x.j = Head(s2c).j
           /\ Gave(c2s, c2s', Head(s2c).j, x)
           /\ Sent(c2s', Head(s2c).j) = Sent(c2s, Head(s2c).j) \cup {x}

\* The same for the client.
LEMMA ClientSends ==
    ASSUME FTTypeOK, s2c # <<>>, NEW k \in Nat, NEW v \in Int,
           NEW t \in Kinds,
           ClientTakes(<<Msg(t, Head(s2c).j, k, v)>>)
    PROVE  ClientReplied(t, k, v)
<1>1. Head(s2c).j \in Jobs BY HeadIs DEF FTTypeOK, TypeQueues
<1> DEFINE x == Msg(t, Head(s2c).j, k, v)
<1>2. /\ x \in Messages /\ x.t = t /\ x.j = Head(s2c).j /\ x.k = k /\ x.v = v
  BY <1>1, MsgIs
<1>3. ClientTakes(<<x>>) OBVIOUS
<1> HIDE DEF x
<1>4. ClientTook(Head(s2c), Head(s2c).j, <<x>>) BY <1>2, <1>3, ClientTake
<1> QED BY <1>2, <1>4 DEF ClientTook, Gave, ClientReplied

\* is_write_need_confirmation.
LEMMA TransferredIs ==
    ASSUME FTTypeOK, NEW j \in Jobs, Parts(j), NEW k \in DOMAIN sc.files[j],
           NEW resume
    PROVE  LET n == Transferred(j, k, resume) IN
           /\ n \in Nat
           /\ n > 0 => resume /\ Holds(j, k, n) /\ disk[<<j, k>>].digest
           /\ n = 0 => ~resume \/ Empty(j, k)
<1>1. <<j, k>> \in Files BY Scenario DEF FTTypeOK, TypeUser
<1>2. /\ disk[<<j, k>>].part # None => disk[<<j, k>>].part \in Seq(Nat)
      /\ disk[<<j, k>>].digest => disk[<<j, k>>].part # None
  BY <1>1, DiskAt DEF FTTypeOK
<1>3. disk[<<j, k>>].part # None => disk[<<j, k>>].digest \/ <<j, k>> \in faulted
  BY DEF Parts
<1> QED BY <1>2, <1>3 DEF Transferred, Holds, Empty

-----------------------------------------------------------------------------
(* The server starts to send; it looks for a file. *)

\* FileAction::Send.
LEMMA OnSendStep ==
    ASSUME Inv, OnSend
    PROVE  Inv'
<1>1. /\ FTTypeOK /\ c2s # <<>> /\ Head(c2s).t = "send"
      /\ UNCHANGED <<sc, up, breaks, wjob, disk, dialog, saved, state,
                     from, kept, lost, faulted>>
  BY DEF Inv, OnSend, ServerGets, history
<1>2. Head(c2s) \in Messages /\ Head(c2s).j \in Jobs
  BY <1>1, HeadIs DEF FTTypeOK, TypeQueues
<1>3. PICK m, j, x :
         /\ ServerTook(m, j, <<x>>) /\ m.t = "send" /\ x.k = 0 /\ x.v = 0
         /\ \/ /\ x.t = "dir" /\ rjob' = Put(rjob, j, NewRead(m.k))
               /\ reads' = [reads EXCEPT !.server = Append(@, j)]
            \/ x.t = "error" /\ UNCHANGED <<rjob, reads>>
  <2>1. "dir" \in Kinds /\ "error" \in Kinds /\ 0 \in Nat /\ 0 \in Int
    BY DEF Kinds
  <2>2. CASE /\ ServerTakes(<<Msg("dir", Head(c2s).j, 0, 0)>>)
             /\ rjob' = Put(rjob, Head(c2s).j, NewRead(Head(c2s).k))
             /\ reads' = [reads EXCEPT !.server = Append(@, Head(c2s).j)]
    <3>1. ServerTakes(<<Msg("dir", Head(c2s).j, 0, 0)>>) BY <2>2
    <3>2. \E x : /\ ServerTook(Head(c2s), Head(c2s).j, <<x>>)
                 /\ x.t = "dir" /\ x.k = 0 /\ x.v = 0
      <4>1. ServerReplied("dir", 0, 0) BY <1>1, <2>1, <3>1, ServerSends
      <4> QED BY <4>1 DEF ServerReplied
    <3> QED BY <1>1, <2>2, <3>2
  <2>3. CASE /\ ServerTakes(<<Msg("error", Head(c2s).j, 0, 0)>>)
             /\ UNCHANGED <<rjob, reads>>
    <3>1. \E x : /\ ServerTook(Head(c2s), Head(c2s).j, <<x>>)
                 /\ x.t = "error" /\ x.k = 0 /\ x.v = 0
      <4>1. ServerReplied("error", 0, 0) BY <1>1, <2>1, <2>3, ServerSends
      <4> QED BY <4>1 DEF ServerReplied
    <3> QED BY <1>1, <2>3, <3>1
  <2> QED BY <2>2, <2>3 DEF OnSend
<1>4. /\ ~sc.upload[j] /\ Data(j) = s2c /\ Back(j) = c2s /\ j \in Jobs
      /\ Data(j)' = s2c' /\ Back(j)' = c2s'
      /\ Took(c2s, c2s', j, m) /\ m \in Sent(c2s, j) /\ m.k \in Nat
      /\ Sent(c2s', j) \subseteq Sent(c2s, j)
      /\ Gave(s2c, s2c', j, x) /\ Sent(s2c', j) = Sent(s2c, j) \cup {x}
      /\ SameItems(s2c, s2c', j)
  BY <1>1, <1>3, MessageIs DEF ServerTook, DataOK, Data, Back, Took, Gave, Item
<1>5. Life(j) /\ Tokens(j) /\ Parts(j) /\ (Sane => JobInv(j)) BY <1>4 DEF Inv
<1>6. /\ j \notin DOMAIN rjob /\ m.k = from[j] /\ Sent(s2c, j) = {} /\ ~Shown(j)
      /\ j \in DOMAIN wjob \/ state[j] = "cancelled"
      /\ j \in DOMAIN wjob => /\ wjob[j].file_num = m.k /\ ~wjob[j].open
                              /\ ~wjob[j].listed
      /\ ~Has(c2s', j, {"send", "receive"})
      /\ \A y \in Sent(c2s', j) : y.t = "cancel"
  BY <1>3, <1>4, <1>5 DEF Life, LifeStart, Took, Has
<1>7. /\ DOMAIN rjob' \subseteq DOMAIN rjob \cup {j}
      /\ \A i \in DOMAIN rjob : i # j => i \in DOMAIN rjob' /\ rjob'[i] = rjob[i]
      /\ j \in DOMAIN rjob' =>
            /\ x.t = "dir" /\ rjob'[j] \in ReadJobs /\ rjob'[j].file_num = m.k
            /\ rjob'[j].pos = 0 /\ ~rjob'[j].confirmed /\ ~rjob'[j].waiting
            /\ ~rjob'[j].resume /\ ~rjob'[j].error /\ ~rjob'[j].skipped
  BY <1>3, <1>4, <1>6, NewReadIs DEF Put
<1>8. FTTypeOK'
  <2>1. TypeJobs' BY <1>1, <1>4, <1>7, JobsStep DEF FTTypeOK, TypeJobs
  <2>2. TypeQueues'
    <3>1. DataOK(j, x) BY <1>3, <1>4 DEF DataOK
    <3> QED BY <1>1, <1>3, <1>4, <3>1, QueuesStep DEF FTTypeOK, ServerTook
  <2>3. TypeReads'
    <3>1. CASE x.t = "dir"
      BY <1>1, <1>3, <1>4, <1>6, <3>1, ReadsAppend DEF ReadSide, Put
    <3>2. CASE x.t = "error" BY <1>1, <1>3, <3>2, ReadsSame
    <3> QED BY <1>3, <3>1, <3>2
  <2> QED BY <1>1, <2>1, <2>2, <2>3, UserSame, HistorySame, FilesSame
          DEF FTTypeOK
<1>9. ASSUME NEW i \in Jobs \ {j} PROVE Frame(i)
  BY <1>1, <1>3, <1>7 DEF Frame, Shown, ServerTook
<1>10. /\ Live(j)' <=> Live(j)
       /\ At(j)' = At(j) /\ ~Open(j)' /\ ~Open(j) /\ At(j) = m.k
       /\ ~Shown(j)'
       /\ Live(j) <=> j \in DOMAIN wjob
  <2>1. ~Has(c2s, j, {"receive"})
    BY <1>1, <1>4 DEF Has, FTTypeOK, TypeQueues, BackOK
  <2> QED BY <1>1, <1>4, <1>6, <2>1 DEF Live, At, Open, Has, Shown
<1>11. Life(j)'
  <2>1. Leads(s2c', j, {"dir"}) BY <1>4, <1>5, <1>6 DEF Gave, Life, LifeStart
  <2>2. Leads(c2s', j, {"send", "receive"}) BY <1>6, NoneOnce
  <2>3. state[j] # "done" BY <1>5, <1>6, <1>10 DEF Life, LifeEnd
  <2>4. Once(s2c', j, {"done"}) BY <1>3, <1>4, <1>5 DEF Gave, Life, LifeEnd
  <2> QED BY <1>1, <1>3, <1>4, <1>5, <1>6, <1>7, <1>10, <2>1, <2>2, <2>3, <2>4
          DEF Life, LifeIdle, LifeStart, LifeEnd, Has
<1>12. Tokens(j)'
  <2>1. ~Has(s2c', j, {"digest"}) /\ ~Has(c2s', j, {"ask", "confirm"})
    BY <1>3, <1>4, <1>6 DEF Has
  <2>2. /\ Once(s2c', j, {"digest"}) /\ Trails(s2c', j)
        /\ Once(c2s', j, {"ask", "confirm"})
    BY <2>1, NoneOnce, NoneTrails
  <2> QED BY <1>4, <1>6, <1>7, <1>10, <2>1, <2>2 DEF Tokens, Has
<1>13. Parts(j)'
  <2>1. OffsetFirst(s2c', j) BY <1>3, <1>4, <1>5 DEF Parts, Gave, Item
  <2> QED BY <1>1, <1>3, <1>4, <1>5, <1>6, <1>7, <1>10, <2>1
          DEF Parts, IsFile, Size
<1>14. ASSUME JobInv(j), Sane PROVE JobInv(j)'
  <2>1. SameDisk(j) BY <1>1 DEF SameDisk
  <2>2. SameFacts(j) BY <2>1, SameDiskFacts
  <2>3. Touch(j)' BY <1>1, <1>4, <1>10, <1>14, <2>2 DEF JobInv, Touch, SameFacts
  <2>4. Resumed(j)'
    BY <1>1, <1>4, <1>7, <1>10, <1>14 DEF JobInv, Resumed
  <2>5. Torn(j)' BY <1>1, <1>14, <2>2 DEF JobInv, Torn, IsPrefixOf, SameFacts
  <2>6. Chain(j)'
    <3>1. \A y : ~Opens(s2c', j, y) /\ ~Closes(s2c', j, y)
      BY <1>3, <1>4, <1>6, OpensSent DEF Item
    <3>2. \A y, z : ~Follows(s2c', j, y, z)
      BY <1>3, <1>4, <1>6, OpensSent DEF Item
    <3>3. ASSUME Live(j)', j \in DOMAIN rjob' PROVE NoneOK(j)'
      <4>1. ASSUME Go(j)' PROVE Blank(j, m.k)
        <5>1. ~sc.od /\ breaks = 0 BY <1>1, <1>7, <1>14, <3>3, <4>1 DEF Go, Sane
        <5>2. <<j, m.k>> \notin kept BY <1>1, <5>1 DEF FTTypeOK, TypeHistory
        <5>3. state[j] # "added" BY <1>4, <1>5 DEF Life, LifeIdle
        <5>4. m.k \in DOMAIN sc.files[j] => disk[<<j, m.k>>].part = None
          BY <1>4, <1>10, <1>14, <3>3, <5>1, <5>3 DEF JobInv, Resumed
        <5> QED BY <5>2, <5>4 DEF Blank, Empty
      <4> QED BY <1>7, <1>10, <2>2, <3>3, <4>1 DEF NoneOK, SameFacts
    <3> QED BY <1>4, <3>1, <3>2, <3>3 DEF Chain
  <2>7. Reached(j)' BY <1>1, <1>3, <1>4, <1>6 DEF Reached
  <2>8. Answers(j)' BY <1>3, <1>4, <1>6, <1>10 DEF Answers
  <2>9. Keeps(j)'
    BY <1>1, <1>3, <1>4, <1>6, <1>7, <1>10, <1>14, <2>2
    DEF JobInv, Keeps, SameFacts
  <2>10. Ending(j)'
    BY <1>1, <1>3, <1>4, <1>6, <1>7, <1>10, <1>14, <2>2
    DEF JobInv, Ending, Undated, AllWhole, Has, SameFacts
  <2>11. Leftover(j)'
    <3>1. Has(c2s, j, {"send"}) BY <1>3, <1>4 DEF Has
    <3> QED BY <1>1, <1>4, <1>6, <1>7, <1>10, <1>14, <2>2, <3>1
            DEF JobInv, Leftover, Has, SameItems, SameFacts
  <2> QED BY <2>3, <2>4, <2>5, <2>6, <2>7, <2>8, <2>9, <2>10, <2>11 DEF JobInv
<1>15. Sane' => Sane BY <1>1 DEF Sane
<1> QED BY <1>1, <1>3, <1>4, <1>5, <1>8, <1>9, <1>11, <1>12, <1>13, <1>14,
           <1>15, OwnStep DEF ServerTook

\* FS::CheckDigest.
LEMMA OnCheckDigestStep ==
    ASSUME Inv, OnCheckDigest
    PROVE  Inv'
<1>1. /\ FTTypeOK /\ c2s # <<>> /\ Head(c2s).t = "digest"
      /\ UNCHANGED <<sc, up, breaks, rjob, wjob, reads, disk, dialog, saved,
                     state, from, kept, lost>>
      /\ faulted \subseteq faulted'
      /\ faulted' \subseteq faulted \cup {<<Head(c2s).j, Head(c2s).k>>}
  BY DEF Inv, OnCheckDigest, ServerGets, jobVars
<1>2. /\ Head(c2s) \in Messages /\ Head(c2s).j \in Jobs /\ Head(c2s).k \in Nat
      /\ Head(c2s) \in Sent(c2s, Head(c2s).j)
  BY <1>1, HeadIs DEF FTTypeOK, TypeQueues
<1>3. sc.upload[Head(c2s).j] /\ DataOK(Head(c2s).j, Head(c2s))
  BY <1>1, <1>2 DEF FTTypeOK, TypeQueues, Data, Back, DataOK, BackOK
<1>4. Transferred(Head(c2s).j, Head(c2s).k, Head(c2s).v = 1) \in Nat
  <2>1. Parts(Head(c2s).j) BY <1>2 DEF Inv
  <2> QED BY <1>1, <1>2, <1>3, <2>1, TransferredIs DEF DataOK, IsFile
<1>5. PICK m, j, n, x, msgs :
         /\ ServerTook(m, j, msgs) /\ m.t = "digest" /\ m = Head(c2s)
         /\ n = Transferred(j, m.k, m.v = 1) /\ n \in Nat
         /\ \/ j \notin DOMAIN wjob /\ msgs = <<>>
            \/ /\ j \in DOMAIN wjob /\ msgs = <<x>> /\ x.k = m.k
               /\ \/ x.t = "ask" /\ x.v = n
                  \/ /\ x.t = "confirm" /\ x.v = 0
                     /\ ~NeedConfirm(j, m.k, m.v = 1)
                  \/ x.t = "error"
  <2> DEFINE h == Head(c2s)
             n == Transferred(h.j, h.k, h.v = 1)
  <2>1. /\ "ask" \in Kinds /\ "confirm" \in Kinds /\ "error" \in Kinds
        /\ 0 \in Int /\ n \in Int
    BY <1>4 DEF Kinds
  <2>2. CASE h.j \notin DOMAIN wjob /\ ServerTakes(<<>>)
    <3>1. ServerTook(h, h.j, <<>>) BY <1>1, <2>2, ServerTake
    <3> QED BY <1>1, <1>4, <2>2, <3>1
  <2>3. CASE h.j \in DOMAIN wjob /\ ServerTakes(<<Msg("ask", h.j, h.k, n)>>)
    <3>1. \E x : /\ ServerTook(h, h.j, <<x>>)
                 /\ x.t = "ask" /\ x.k = h.k /\ x.v = n
      <4> HIDE DEF n
      <4>1. h.k \in Nat BY <1>2, MessageIs
      <4>2. ServerReplied("ask", h.k, n) BY <1>1, <2>1, <2>3, <4>1, ServerSends
      <4> QED BY <4>2 DEF ServerReplied
    <3> QED BY <1>1, <1>4, <2>3, <3>1
  <2>4. CASE /\ h.j \in DOMAIN wjob /\ ~NeedConfirm(h.j, h.k, h.v = 1)
             /\ ServerTakes(<<Msg("confirm", h.j, h.k, 0)>>)
    <3>1. \E x : /\ ServerTook(h, h.j, <<x>>)
                 /\ x.t = "confirm" /\ x.k = h.k /\ x.v = 0
      <4>1. h.k \in Nat BY <1>2, MessageIs
      <4>2. ServerReplied("confirm", h.k, 0)
        BY <1>1, <2>1, <2>4, <4>1, ServerSends
      <4> QED BY <4>2 DEF ServerReplied
    <3> QED BY <1>1, <1>4, <2>4, <3>1
  <2>5. CASE /\ h.j \in DOMAIN wjob
             /\ ServerTakes(<<Msg("error", h.j, h.k, 0)>>)
    <3>1. \E x : ServerTook(h, h.j, <<x>>) /\ x.t = "error" /\ x.k = h.k
      <4>1. h.k \in Nat BY <1>2, MessageIs
      <4>2. ServerReplied("error", h.k, 0)
        BY <1>1, <2>1, <2>5, <4>1, ServerSends
      <4> QED BY <4>2 DEF ServerReplied
    <3> QED BY <1>1, <1>4, <2>5, <3>1
  <2> QED BY <2>2, <2>3, <2>4, <2>5 DEF OnCheckDigest
<1>6. /\ sc.upload[j] /\ Data(j) = c2s /\ Back(j) = s2c /\ j \in Jobs
      /\ Data(j)' = c2s' /\ Back(j)' = s2c' /\ m.k \in Nat
      /\ Took(c2s, c2s', j, m) /\ m \in Sent(c2s, j) /\ DataOK(j, m)
      /\ Sent(c2s', j) \subseteq Sent(c2s, j) /\ SameItems(c2s, c2s', j)
      /\ n \in Nat
  <2>1. j = Head(c2s).j /\ sc.upload[j] /\ m.k \in Nat
    BY <1>2, <1>3, <1>5 DEF ServerTook
  <2> QED BY <1>1, <1>5, <2>1 DEF ServerTook, Data, Back, Took, Item
<1>7. Life(j) /\ Tokens(j) /\ Parts(j) /\ (Sane => JobInv(j)) BY <1>6 DEF Inv
<1>8. m.k \in DOMAIN sc.files[j] /\ IsFile(j, m.k) /\ sc.od
  BY <1>5, <1>6 DEF DataOK, IsFile
<1>9. /\ n > 0 => m.v = 1 /\ Holds(j, m.k, n) /\ disk[<<j, m.k>>].digest
      /\ n = 0 => m.v # 1 \/ Empty(j, m.k)
  BY <1>1, <1>5, <1>6, <1>7, <1>8, TransferredIs
<1>10. \/ s2c' = s2c /\ j \notin DOMAIN wjob
       \/ /\ j \in DOMAIN wjob /\ Gave(s2c, s2c', j, x) /\ x.k = m.k
          /\ \/ x.t = "ask" /\ x.v = n
             \/ x.t = "confirm" /\ x.v = 0 /\ n = 0
             \/ x.t = "error"
  <2>1. ~NeedConfirm(j, m.k, m.v = 1) => n = 0 BY <1>5 DEF NeedConfirm
  <2> QED BY <1>5, <2>1 DEF ServerTook
<1>11. /\ j \notin DOMAIN wjob => Sent(s2c', j) = Sent(s2c, j)
       /\ j \in DOMAIN wjob => Sent(s2c', j) = Sent(s2c, j) \cup {x}
  BY <1>10 DEF Gave
<1>12. FTTypeOK'
  <2>1. TypeJobs' BY <1>1, <1>6, JobsStep DEF FTTypeOK, TypeJobs
  <2>2. TypeQueues'
    <3>1. j \in DOMAIN wjob => BackOK(j, x) BY <1>6, <1>8, <1>10 DEF BackOK
    <3> QED BY <1>1, <1>5, <1>6, <1>11, <3>1, QueuesStep
            DEF FTTypeOK, ServerTook
  <2>3. TypeHistory'
    <3>1. faulted' \subseteq faulted \cup {<<j, m.k>>}
      BY <1>1, <1>5 DEF ServerTook
    <3> QED BY <1>1, <1>6, <1>8, <3>1, HistoryFails
  <2> QED BY <1>1, <2>1, <2>2, <2>3, UserSame, FilesSame, ReadsSame DEF FTTypeOK
<1>13. ASSUME NEW i \in Jobs \ {j} PROVE Frame(i)
  BY <1>1, <1>5 DEF Frame, Shown, ServerTook
<1>14. /\ Live(j)' <=> Live(j)
       /\ Live(j) <=> j \in DOMAIN wjob
       /\ At(j)' = At(j) /\ (Open(j)' <=> Open(j))
       /\ Shown(j)' <=> Shown(j)
       /\ ~Has(c2s', j, {"send", "receive"})
  <2>1. ~Has(c2s', j, {"send", "receive"})
    BY <1>6, <1>7 DEF Took, Life, LifeStart
  <2>2. ~Has(c2s, j, {"receive"}) BY <1>5, <1>6, <2>1 DEF Has, Took
  <2> QED BY <1>1, <2>1, <2>2 DEF Live, At, Open, Has, Shown
<1>15. Life(j)'
  <2>1. Leads(s2c', j, {"dir"}) BY <1>7, <1>10 DEF Gave, Life, LifeStart
  <2>2. Leads(c2s', j, {"send", "receive"}) BY <1>14, NoneOnce
  <2>3. Once(c2s', j, {"done"}) BY <1>6, <1>7 DEF Took, Life, LifeEnd
  <2> QED BY <1>1, <1>5, <1>6, <1>7, <1>10, <1>11, <1>14, <2>1, <2>2, <2>3
          DEF Life, LifeIdle, LifeStart, LifeEnd, Has
<1>16. Tokens(j)'
  <2>1. SUFFICES ASSUME j \in DOMAIN rjob PROVE Tokens(j)' BY <1>1 DEF Tokens
  <2>2. /\ Once(c2s', j, {"digest"}) /\ ~Has(c2s', j, {"digest"})
        /\ Trails(c2s', j) /\ Clear(c2s', j)
    BY <1>5, <1>6, <1>7, <2>1 DEF Tokens, Took, SameItems
  <2>3. /\ ~Has(s2c, j, {"ask", "confirm"}) /\ WaitsFor(j, m.k) /\ ~Shown(j)
    BY <1>5, <1>6, <1>7, <2>1 DEF Tokens, Has
  <2>4. Once(s2c', j, {"ask", "confirm"})
    BY <1>6, <1>7, <1>10, <2>1, <2>3 DEF Tokens, Gave
  <2> QED BY <1>1, <1>6, <1>7, <1>10, <1>11, <1>14, <2>1, <2>2, <2>3, <2>4
          DEF Tokens, Has, Go, WaitsFor
<1>17. Parts(j)'
  BY <1>1, <1>6, <1>7, <1>9, <1>10, <1>11, <1>14
  DEF Parts, Took, IsFile, Size, Holds
<1>18. ASSUME JobInv(j) PROVE JobInv(j)'
  <2>1. SameDisk(j) BY <1>1 DEF SameDisk
  <2>2. Quiet(j) BY <1>1, <1>6, <1>11, <1>14, <2>1 DEF Quiet, Has
  <2>3. SameFacts(j) BY <2>1, SameDiskFacts
  <2>4. Answers(j)'
    <3>1. SUFFICES ASSUME Live(j), j \in DOMAIN rjob PROVE Answers(j)'
      BY <1>1, <1>6, <1>11, <1>14, <1>18 DEF Answers, JobInv
    <3>2. Clear(c2s, j) /\ WaitsFor(j, m.k) /\ ~Has(s2c, j, {"ask", "confirm"})
          /\ m.v = (IF rjob[j].resume THEN 1 ELSE 0)
      BY <1>5, <1>6, <1>7, <3>1 DEF Tokens, Took, Has
    <3>3. DigestOK(j, m) BY <1>5, <1>6, <1>18, <3>1, <3>2 DEF JobInv, Answers
    <3>4. <<j, m.k>> \notin kept
      BY <1>6, <1>8, <1>18, <3>1, <3>2 DEF JobInv, Touch, UnsentAt, WaitsFor
    <3>5. m.k > At(j) => n = 0
      BY <1>6, <1>8, <1>9, <1>18, <3>1 DEF JobInv, Touch, Untouched, Holds
    <3>6. ASSUME m.k = At(j), ~Open(j), n = 0 PROVE Blank(j, m.k)
      <4>1. state[j] # "added" BY <1>6, <1>7 DEF Life, LifeIdle
      <4>2. disk[<<j, m.k>>].part = None \/ rjob[j].resume
        BY <1>6, <1>8, <1>18, <3>1, <3>6, <4>1 DEF JobInv, Resumed
      <4> QED BY <1>9, <3>2, <3>4, <3>6, <4>2 DEF Blank, Empty
    <3>7. x.t = "ask" /\ x.v = n /\ x.k = m.k => AskOK(j, x)
      BY <1>6, <1>9, <3>2, <3>3, <3>5, <3>6 DEF AskOK, DigestOK
    <3>8. x.t = "confirm" /\ x.v = 0 /\ n = 0 /\ x.k = m.k => ConfirmOK(j, x)
      BY <3>3, <3>4, <3>6 DEF ConfirmOK, DigestOK, Skip
    <3>9. ~Has(c2s', j, {"digest"}) BY <1>5, <1>6, <1>7, <3>1 DEF Tokens, Took
    <3>10. ~Shown(j) BY <1>5, <1>6, <1>7, <3>1 DEF Tokens, Has
    <3>11. x.t = "ask" => (AskOK(j, x) => AskOK(j, x)')
      BY <1>1, <1>14, <2>3 DEF AskOK, SameFacts
    <3>12. ConfirmOK(j, x) => ConfirmOK(j, x)'
      BY <1>1, <1>14, <2>3 DEF ConfirmOK, SameFacts
    <3> QED BY <1>1, <1>6, <1>10, <1>11, <1>14, <3>1, <3>2, <3>4, <3>7, <3>8,
               <3>9, <3>10, <3>11, <3>12
            DEF Answers, Has, Skip
  <2>5. Ending(j)'
    BY <1>1, <1>5, <1>6, <1>10, <1>11, <1>14, <1>18, <2>3
    DEF JobInv, Ending, Undated, AllWhole, Has, SameFacts, Took
  <2>6. Leftover(j)'
    BY <1>1, <1>6, <1>14, <1>18, <2>3
    DEF JobInv, Leftover, Has, SameItems, SameFacts
  <2> QED BY <1>18, <2>2, <2>4, <2>5, <2>6, QuietStep DEF JobInv
<1>19. Sane' => Sane BY <1>1 DEF Sane
<1> QED BY <1>1, <1>5, <1>6, <1>7, <1>12, <1>13, <1>15, <1>16, <1>17, <1>18,
           <1>19, OwnStep DEF ServerTook

-----------------------------------------------------------------------------
(* The steps that end a job. *)

\* A step that asks and answers nothing keeps the tokens.
LEMMA SameTokens ==
    ASSUME NEW j, sc' = sc, Tokens(j),
           j \in DOMAIN rjob' => j \in DOMAIN rjob /\ rjob'[j] = rjob[j],
           Shown(j)' => Shown(j) /\ dialog' = dialog,
           Clear(Data(j), j) => Clear(Data(j)', j),
           \A m \in Sent(Data(j)', j) : m \in Sent(Data(j), j) \/ m.t # "digest",
           \A m \in Sent(Back(j)', j) :
               m \in Sent(Back(j), j) \/ m.t \notin {"ask", "confirm"},
           Once(Data(j), j, {"digest"}) => Once(Data(j)', j, {"digest"}),
           Once(Back(j), j, {"ask", "confirm"})
               => Once(Back(j)', j, {"ask", "confirm"}),
           Trails(Data(j), j) => Trails(Data(j)', j)
    PROVE  Tokens(j)'
<1>1. SUFFICES ASSUME j \in DOMAIN rjob' PROVE Tokens(j)' BY DEF Tokens
<1>2. /\ Has(Data(j)', j, {"digest"}) => Has(Data(j), j, {"digest"})
      /\ Has(Back(j)', j, {"ask", "confirm"}) => Has(Back(j), j, {"ask", "confirm"})
  BY DEF Has
<1> QED BY <1>1, <1>2 DEF Tokens, Go, WaitsFor

\* A queue of which a message was taken, or none.
Less(q, p, j) ==
    /\ Sent(p, j) \subseteq Sent(q, j)
    /\ \A T : Leads(q, j, T) => Leads(p, j, T)
    /\ \A T : Once(q, j, T) => Once(p, j, T)
    /\ Trails(q, j) => Trails(p, j)
    /\ OffsetFirst(q, j) => OffsetFirst(p, j)

\* Tail is such a step.
LEMMA LessIs ==
    ASSUME NEW q, NEW p, NEW j, p = q \/ \E m : Took(q, p, j, m)
    PROVE  Less(q, p, j)
  BY DEF Less, Took

\* FileResponse::Error.
LEMMA OnErrorClientStep ==
    ASSUME Inv, OnErrorClient
    PROVE  Inv'
<1>1. /\ FTTypeOK /\ s2c # <<>> /\ Head(s2c).t = "error" /\ ClientTakes(<<>>)
      /\ UNCHANGED <<sc, up, breaks, rjob, reads, disk, dialog, saved, from,
                     kept,
                     lost, faulted>>
  BY DEF Inv, OnErrorClient, ClientGets, history
<1>2. PICK m, j :
         /\ ClientTook(m, j, <<>>) /\ m.t = "error"
         /\ wjob' = IF sc.upload[j] THEN wjob ELSE Del(wjob, j)
         /\ state' = [state EXCEPT ![j] = IF @ \in {"cancelled", "done"} THEN @
                                          ELSE "error"]
  BY <1>1, ClientTake DEF OnErrorClient, Report
<1>3. /\ j \in Jobs /\ c2s' = c2s /\ m \in Sent(s2c, j)
      /\ Took(s2c, s2c', j, m) /\ SameItems(s2c, s2c', j)
      /\ Sent(s2c', j) \subseteq Sent(s2c, j)
      /\ sc.upload[j] \in BOOLEAN /\ sc' = sc
  BY <1>1, <1>2, Scenario DEF ClientTook, Took, Item, FTTypeOK, TypeUser
<1>4. /\ Less(c2s, c2s', j) /\ Less(s2c, s2c', j)
      /\ Less(Data(j), Data(j)', j) /\ Less(Back(j), Back(j)', j)
      /\ SameItems(Data(j), Data(j)', j)
  <2>1. Less(c2s, c2s', j) /\ Less(s2c, s2c', j) BY <1>3, LessIs
  <2>2. SameItems(c2s, c2s', j) BY <1>3, SameRefl DEF SameQueue
  <2> QED BY <1>3, <2>1, <2>2 DEF Data, Back
<1>5. Life(j) /\ Tokens(j) /\ Parts(j) /\ (Sane => JobInv(j)) BY <1>3 DEF Inv
<1>6. state[j] \notin {"new", "saved", "gone", "added"}
  BY <1>3, <1>5 DEF Life, LifeIdle
<1>7. /\ state' \in [Jobs -> States] /\ \A i \in Jobs : i # j => state'[i] = state[i]
      /\ state'[j] = IF state[j] \in {"cancelled", "done"} THEN state[j] ELSE "error"
  <2>1. state \in [Jobs -> States] BY <1>1 DEF FTTypeOK, TypeUser
  <2> QED BY <1>2, <1>3, <2>1 DEF States
<1>8. /\ DOMAIN wjob' = DOMAIN wjob \ (IF sc.upload[j] THEN {} ELSE {j})
      /\ \A i \in DOMAIN wjob' : wjob'[i] = wjob[i]
  BY <1>2, <1>3 DEF Del
<1>9. FTTypeOK'
  <2>1. TypeJobs' BY <1>1, <1>3, <1>8, JobsStep DEF FTTypeOK, TypeJobs
  <2>2. TypeQueues'
    BY <1>1, <1>2, <1>3, <1>4, QueuesStep DEF FTTypeOK, ClientTook, Less
  <2>3. TypeUser'
    BY <1>1, <1>7 DEF FTTypeOK, TypeUser, Jobs, Files, IsFile, Size
  <2> QED BY <1>1, <2>1, <2>2, <2>3, HistorySame, FilesSame, ReadsSame
          DEF FTTypeOK
<1>10. ASSUME NEW i \in Jobs \ {j} PROVE Frame(i)
  BY <1>1, <1>2, <1>7, <1>8 DEF Frame, Shown, ClientTook
<1>11. /\ Live(j)' => Live(j) /\ At(j)' = At(j) /\ (Open(j)' <=> Open(j))
       /\ Open(j)' => Open(j) /\ At(j)' = At(j) /\ wjob'[j].on = wjob[j].on
       /\ Shown(j)' <=> Shown(j)
       /\ sc.upload[j] => (Live(j)' <=> Live(j))
       /\ ~sc.upload[j] => ~Live(j)' /\ j \notin DOMAIN wjob'
  <2>1. ~sc.upload[j] => ~Has(c2s, j, {"receive"})
    BY <1>1, <1>3 DEF Has, FTTypeOK, TypeQueues, BackOK, Back
  <2> QED BY <1>1, <1>3, <1>8, <2>1 DEF Live, At, Open, Has, Shown
<1>12. Life(j)'
  <2>1. LifeIdle(j)' BY <1>6, <1>7 DEF LifeIdle
  <2>2. LifeStart(j)'
    BY <1>1, <1>2, <1>3, <1>4, <1>5, <1>8, <1>11
    DEF Life, LifeStart, Less, Has, Took
  <2>3. LifeEnd(j)'
    BY <1>1, <1>3, <1>4, <1>5, <1>7, <1>8, <1>11
    DEF Life, LifeEnd, Less, Has
  <2> QED BY <2>1, <2>2, <2>3 DEF Life
<1>13. Tokens(j)'
  BY <1>1, <1>3, <1>4, <1>5, <1>11, SameTokens DEF Less, SameItems
<1>14. Parts(j)'
  BY <1>1, <1>3, <1>4, <1>5, <1>11 DEF Parts, Less, IsFile, Size
<1>15. ASSUME JobInv(j) PROVE JobInv(j)'
  <2>1. SameDisk(j) BY <1>1 DEF SameDisk
  <2>2. Quiet(j)
    <3>1. Has(Back(j), j, {"confirm"}) /\ Live(j)' => Has(Back(j)', j, {"confirm"})
      BY <1>2, <1>3, <1>11 DEF Has, Back, Took
    <3> QED BY <1>1, <1>3, <1>4, <1>6, <1>7, <1>8, <1>11, <2>1, <3>1
            DEF Quiet, Less
  <2>3. SameFacts(j) BY <2>1, SameDiskFacts
  <2>4. Answers(j)'
    BY <1>1, <1>4, <1>11, <1>15, <2>3
    DEF JobInv, Answers, DigestOK, AskOK, ConfirmOK, ShownOK, SameItems,
        SameFacts,
        Less
  <2>5. Ending(j)'
    BY <1>1, <1>2, <1>3, <1>7, <1>8, <1>11, <1>15, <2>3
    DEF JobInv, Ending, Undated, AllWhole, Has, SameFacts
  <2>6. Leftover(j)'
    <3>1. ~sc.upload[j] => Has(Data(j), j, {"error"})
      BY <1>2, <1>3 DEF Has, Data
    <3> QED BY <1>1, <1>4, <1>11, <1>15, <2>3, <3>1
            DEF JobInv, Leftover, Has, SameItems, SameFacts, Less
  <2> QED BY <1>15, <2>2, <2>4, <2>5, <2>6, QuietStep DEF JobInv
<1>16. Sane' => Sane BY <1>1 DEF Sane
<1> QED BY <1>1, <1>2, <1>3, <1>5, <1>9, <1>10, <1>12, <1>13, <1>14, <1>15,
           <1>16, OwnStep DEF ClientTook

\* FS::WriteError.
LEMMA OnErrorServerStep ==
    ASSUME Inv, OnErrorServer
    PROVE  Inv'
<1>1. /\ FTTypeOK /\ c2s # <<>> /\ Head(c2s).t = "error"
      /\ UNCHANGED <<sc, up, breaks, rjob, reads, disk, dialog, saved, state,
                     from, kept, lost, faulted>>
  BY DEF Inv, OnErrorServer, ServerGets, history
<1>2. PICK m, j, x, msgs :
         /\ ServerTook(m, j, msgs) /\ m.t = "error" /\ wjob' = Del(wjob, j)
         /\ \/ msgs = <<>>
            \/ msgs = <<x>> /\ x.t = "error" /\ x.v = 0
  <2> DEFINE h == Head(c2s)
  <2>1. "error" \in Kinds /\ 0 \in Int /\ h.k \in Nat
    BY <1>1, HeadIs DEF Kinds, FTTypeOK, TypeQueues
  <2>2. CASE ServerTakes(<<>>)
    <3>1. ServerTook(h, h.j, <<>>) BY <1>1, <2>2, ServerTake
    <3> QED BY <1>1, <3>1 DEF OnErrorServer
  <2>3. CASE ServerTakes(<<Msg("error", h.j, h.k, 0)>>)
    <3>1. \E x : ServerTook(h, h.j, <<x>>) /\ x.t = "error" /\ x.v = 0
      <4>1. ServerReplied("error", h.k, 0) BY <1>1, <2>1, <2>3, ServerSends
      <4> QED BY <4>1 DEF ServerReplied
    <3> QED BY <1>1, <3>1 DEF OnErrorServer
  <2> QED BY <2>2, <2>3 DEF OnErrorServer
<1>3. /\ sc.upload[j] /\ Data(j) = c2s /\ Back(j) = s2c /\ j \in Jobs
      /\ Data(j)' = c2s' /\ Back(j)' = s2c' /\ sc' = sc
      /\ Took(c2s, c2s', j, m) /\ m \in Sent(c2s, j)
      /\ Sent(c2s', j) \subseteq Sent(c2s, j) /\ SameItems(c2s, c2s', j)
      /\ Less(c2s, c2s', j)
  <2>1. sc.upload[j] BY <1>2 DEF ServerTook, BackOK
  <2> QED BY <1>1, <1>2, <2>1, LessIs DEF ServerTook, Data, Back, Took, Item
<1>4. /\ Sent(s2c, j) \subseteq Sent(s2c', j)
      /\ \A y \in Sent(s2c', j) : y \in Sent(s2c, j) \/ (y = x /\ x.t = "error")
      /\ \A T : Leads(s2c, j, T) /\ "error" \notin T => Leads(s2c', j, T)
      /\ \A T : Once(s2c, j, T) /\ "error" \notin T => Once(s2c', j, T)
  BY <1>2 DEF ServerTook, Gave
<1>5. Life(j) /\ Tokens(j) /\ Parts(j) /\ (Sane => JobInv(j)) BY <1>3 DEF Inv
<1>6. /\ state[j] \notin {"new", "saved", "gone", "added"}
      /\ ~Has(c2s', j, {"send", "receive"})
  BY <1>3, <1>5 DEF Life, LifeIdle, LifeStart, Took
<1>7. /\ DOMAIN wjob' = DOMAIN wjob \ {j}
      /\ \A i \in DOMAIN wjob' : wjob'[i] = wjob[i]
  BY <1>2 DEF Del
<1>8. FTTypeOK'
  <2>1. TypeJobs' BY <1>1, <1>3, <1>7, JobsStep DEF FTTypeOK, TypeJobs
  <2>2. TypeQueues'
    <3>1. x.t = "error" => BackOK(j, x) BY <1>3 DEF BackOK
    <3> QED BY <1>1, <1>2, <1>3, <1>4, <3>1, QueuesStep DEF FTTypeOK, ServerTook
  <2> QED BY <1>1, <2>1, <2>2, UserSame, HistorySame, FilesSame, ReadsSame
          DEF FTTypeOK
<1>9. ASSUME NEW i \in Jobs \ {j} PROVE Frame(i)
  BY <1>1, <1>2, <1>7 DEF Frame, Shown, ServerTook
<1>10. ~Live(j)' /\ ~Open(j)' /\ (Shown(j)' <=> Shown(j)) /\ j \notin DOMAIN wjob'
  BY <1>1, <1>6, <1>7 DEF Live, Open, Has, Shown
<1>11. Life(j)'
  <2>1. LifeIdle(j)' BY <1>1, <1>6 DEF LifeIdle
  <2>2. LifeStart(j)'
    <3>1. Leads(c2s', j, {"send", "receive"}) BY <1>6, NoneOnce
    <3>2. Leads(s2c', j, {"dir"}) BY <1>4, <1>5 DEF Life, LifeStart
    <3> QED BY <1>6, <1>7, <3>1, <3>2 DEF LifeStart, Has
  <2>3. LifeEnd(j)'
    BY <1>1, <1>3, <1>4, <1>5, <1>7, <1>10 DEF Life, LifeEnd, Less, Has
  <2> QED BY <2>1, <2>2, <2>3 DEF Life
<1>12. Tokens(j)'
  BY <1>1, <1>3, <1>4, <1>5, <1>10, SameTokens DEF Less, SameItems
<1>13. Parts(j)'
  BY <1>1, <1>3, <1>4, <1>5, <1>10 DEF Parts, Less, IsFile, Size
<1>14. ASSUME JobInv(j) PROVE JobInv(j)'
  <2>1. SameDisk(j) BY <1>1 DEF SameDisk
  <2>2. Quiet(j) BY <1>1, <1>3, <1>6, <1>10, <2>1 DEF Quiet
  <2>3. SameFacts(j) BY <2>1, SameDiskFacts
  <2>4. Answers(j)' BY <1>1, <1>3, <1>4, <1>10, <1>14 DEF JobInv, Answers
  <2>5. Ending(j)'
    BY <1>1, <1>3, <1>4, <1>10, <1>14, <2>3
    DEF JobInv, Ending, Undated, AllWhole, Has, SameFacts
  <2>6. Leftover(j)'
    <3>1. Has(Data(j), j, {"error"}) BY <1>2, <1>3 DEF Has
    <3> QED BY <1>1, <1>3, <1>10, <1>14, <2>3, <3>1
            DEF JobInv, Leftover, Has, SameItems, SameFacts
  <2> QED BY <1>14, <2>2, <2>4, <2>5, <2>6, QuietStep DEF JobInv
<1>15. Sane' => Sane BY <1>1 DEF Sane
<1> QED BY <1>1, <1>2, <1>3, <1>5, <1>8, <1>9, <1>11, <1>12, <1>13, <1>14,
           <1>15, OwnStep DEF ServerTook

\* FileAction::SendConfirm of the connection manager: the file may be sent.
LEMMA OnConfirmClientStep ==
    ASSUME Inv, OnConfirmClient
    PROVE  Inv'
<1>1. /\ FTTypeOK /\ s2c # <<>> /\ Head(s2c).t = "confirm" /\ ClientTakes(<<>>)
      /\ UNCHANGED <<sc, up, breaks, wjob, reads, disk, dialog, saved, state,
                     from, kept, lost, faulted>>
  BY DEF Inv, OnConfirmClient, ClientGets, history
<1>2. PICK m, j :
         /\ ClientTook(m, j, <<>>) /\ m.t = "confirm"
         /\ rjob' = IF j \in DOMAIN rjob
                    THEN [rjob EXCEPT ![j] = ConfirmRead(@, m.k, m.v)] ELSE rjob
  BY <1>1, ClientTake DEF OnConfirmClient
<1>3. /\ sc.upload[j] /\ Data(j) = c2s /\ Back(j) = s2c /\ j \in Jobs
      /\ Data(j)' = c2s' /\ Back(j)' = s2c' /\ sc' = sc /\ c2s' = c2s
      /\ Took(s2c, s2c', j, m) /\ m \in Sent(s2c, j) /\ BackOK(j, m)
      /\ Sent(s2c', j) \subseteq Sent(s2c, j)
      /\ Less(s2c, s2c', j) /\ m.k \in Nat /\ m.v = 0 /\ sc.od
  <2>1. sc.upload[j] /\ BackOK(j, m) BY <1>2 DEF ClientTook, DataOK
  <2> QED BY <1>1, <1>2, <2>1, LessIs, MessageIs
          DEF ClientTook, Data, Back, BackOK
<1>4. Life(j) /\ Tokens(j) /\ Parts(j) /\ (Sane => JobInv(j)) BY <1>3 DEF Inv
<1>5. state[j] \notin {"new", "saved", "gone", "added"}
  BY <1>3, <1>4 DEF Life, LifeIdle
<1>6. /\ DOMAIN rjob' = DOMAIN rjob
      /\ \A i \in DOMAIN rjob : i # j => rjob'[i] = rjob[i]
  BY <1>2
<1>7. ASSUME j \in DOMAIN rjob
      PROVE  /\ WaitsFor(j, m.k) /\ Clear(c2s, j) /\ ~Has(c2s, j, {"digest"})
             /\ ~Has(s2c', j, {"ask", "confirm"}) /\ ~Shown(j)
  BY <1>2, <1>3, <1>4, <1>7 DEF Tokens, Has, Took
<1>8. ASSUME j \in DOMAIN rjob
      PROVE  /\ rjob'[j] \in ReadJobs /\ SameRead(rjob[j], rjob'[j])
             /\ rjob'[j].file_num = m.k /\ rjob[j].file_num = m.k
             /\ rjob'[j].pos = 1 /\ rjob[j].pos = 1
             /\ rjob'[j].confirmed /\ ~rjob[j].confirmed /\ ~rjob'[j].skipped
             /\ rjob'[j].waiting
  <2>1. rjob[j] \in ReadJobs BY <1>1, <1>8 DEF FTTypeOK, TypeJobs
  <2>2. rjob'[j] = ConfirmRead(rjob[j], m.k, 0) BY <1>2, <1>3, <1>8
  <2>3. 0 \in Nat \cup {Skip} /\ 0 # Skip /\ ~(0 > 0) BY DEF Skip
  <2>4. /\ ConfirmRead(rjob[j], m.k, 0) \in ReadJobs
        /\ SameRead(rjob[j], ConfirmRead(rjob[j], m.k, 0))
        /\ rjob[j].file_num = m.k =>
              LET s == ConfirmRead(rjob[j], m.k, 0) IN
              /\ s.file_num = m.k /\ s.pos = rjob[j].pos
              /\ s.confirmed /\ s.waiting = rjob[j].waiting /\ ~s.skipped
    <3>1. m.k \in Nat BY <1>3
    <3>2. ReadAfter(rjob[j], m.k, 0, ConfirmRead(rjob[j], m.k, 0))
      BY <2>1, <2>3, <3>1, ConfirmReadIs
    <3> QED BY <2>3, <3>2 DEF ReadAfter
  <2> QED BY <1>7, <1>8, <2>2, <2>4 DEF WaitsFor
<1>9. FTTypeOK'
  <2>1. TypeJobs' BY <1>1, <1>3, <1>6, <1>8, JobsStep DEF FTTypeOK, TypeJobs
  <2>2. TypeQueues'
    BY <1>1, <1>2, <1>3, QueuesStep DEF FTTypeOK, ClientTook
  <2> QED BY <1>1, <1>6, <2>1, <2>2, UserSame, HistorySame, FilesSame, ReadsSame
          DEF FTTypeOK
<1>10. ASSUME NEW i \in Jobs \ {j} PROVE Frame(i)
  BY <1>1, <1>2, <1>6 DEF Frame, Shown, ClientTook
<1>11. /\ Live(j)' <=> Live(j)
       /\ At(j)' = At(j) /\ (Open(j)' <=> Open(j))
       /\ Shown(j)' <=> Shown(j)
  BY <1>1, <1>3 DEF Live, At, Open, Has, Shown
<1>12. Life(j)'
  BY <1>1, <1>2, <1>3, <1>4, <1>5, <1>6, <1>11
  DEF Life, LifeIdle, LifeStart, LifeEnd, Has, Less
<1>13. Tokens(j)'
  BY <1>1, <1>3, <1>4, <1>6, <1>7, <1>8, <1>11 DEF Tokens, Has, Less, Go
<1>14. Parts(j)'
  <2>1. ASSUME j \in DOMAIN rjob
        PROVE  <<j, rjob'[j].file_num>> \notin sc.undated
    BY <1>3, <1>4, <1>7, <1>8, <2>1 DEF Parts, WaitsFor
  <2> QED BY <1>1, <1>3, <1>4, <1>6, <1>11, <2>1 DEF Parts, IsFile, Size, Open
<1>15. ASSUME JobInv(j) PROVE JobInv(j)'
  <2>1. SameDisk(j) BY <1>1 DEF SameDisk
  <2>2. SameFacts(j) BY <2>1, SameDiskFacts
  <2>3. CASE j \notin DOMAIN rjob
    <3>1. Quiet(j)
      BY <1>1, <1>3, <1>6, <1>11, <2>1, <2>3, SameRefl DEF Quiet, SameQueue
    <3>2. Answers(j)' BY <1>6, <2>3 DEF Answers
    <3>3. Ending(j)'
      BY <1>1, <1>3, <1>6, <1>11, <1>15, <2>2, <2>3
      DEF JobInv, Ending, Undated, AllWhole, Has, SameFacts
    <3>4. Leftover(j)'
      BY <1>1, <1>3, <1>6, <1>11, <1>15, <2>2, <2>3
      DEF JobInv, Leftover, Has, SameFacts
    <3> QED BY <1>15, <3>1, <3>2, <3>3, <3>4, QuietStep DEF JobInv
  <2>4. CASE j \in DOMAIN rjob
    <3>1. <<j, m.k>> \notin kept
      <4>1. m.k \in DOMAIN sc.files[j] BY <1>2, <1>3 DEF BackOK, IsFile
      <4>2. UnsentAt(j, m.k) BY <1>3, <1>8, <1>15, <2>4 DEF JobInv, Touch
      <4> QED BY <1>3, <4>1, <4>2 DEF UnsentAt
    <3>2. Touch(j)'
      BY <1>1, <1>3, <1>6, <1>8, <1>11, <1>15, <2>2, <2>4
      DEF JobInv, Touch, SameFacts
    <3>3. Resumed(j)'
      BY <1>1, <1>3, <1>6, <1>8, <1>11, <1>15, <2>4
      DEF JobInv, Resumed, SameRead
    <3>4. Torn(j)' BY <1>1, <1>15, <2>2 DEF JobInv, Torn, IsPrefixOf, SameFacts
    <3>5. Chain(j)'
      <4>1. \A y : ~Opens(c2s', j, y) /\ ~Closes(c2s', j, y)
        BY <1>1, <1>3, <1>7, <2>4, OpensSent, ClearNone DEF FTTypeOK, TypeQueues
      <4>2. \A y, z : ~Follows(c2s', j, y, z)
        BY <1>1, <1>3, <1>7, <2>4, OpensSent, ClearNone DEF FTTypeOK, TypeQueues
      <4>3. ASSUME Live(j) PROVE NoneOK(j)'
        <5>1. NoneOK(j) BY <1>3, <1>7, <1>15, <2>4, <4>3 DEF JobInv, Chain
        <5>2. ConfirmOK(j, m)
          BY <1>2, <1>3, <1>15, <2>4, <4>3 DEF JobInv, Answers
        <5>3. ~Go(j) BY <1>3, <1>8, <2>4 DEF Go
        <5>4. m.k > At(j) \/ (m.k = At(j) /\ ~Open(j) /\ Blank(j, m.k))
          BY <1>3, <5>2 DEF ConfirmOK, Skip
        <5>5. At(j) \in Int
          BY <1>1, <1>3, WriteIs DEF At, FTTypeOK, TypeUser, TypeJobs
        <5> QED BY <1>3, <1>8, <1>11, <2>2, <2>4, <5>1, <5>3, <5>4, <5>5
                DEF NoneOK, SameFacts
      <4> QED BY <1>3, <1>11, <4>1, <4>2, <4>3 DEF Chain
    <3>6. Reached(j)'
      BY <1>1, <1>3, <1>6, <1>8, <1>11, <1>15, <2>4 DEF JobInv, Reached
    <3>7. Answers(j)'
      BY <1>1, <1>3, <1>7, <1>11, <2>4 DEF Answers, Has
    <3>8. Keeps(j)'
      BY <1>1, <1>3, <1>8, <1>11, <1>15, <2>2, <2>4, <3>1
      DEF JobInv, Keeps, SameFacts
    <3>9. Ending(j)'
      BY <1>1, <1>3, <1>6, <1>8, <1>11, <1>15, <2>2, <2>4
      DEF JobInv, Ending, Undated, AllWhole, Has, SameFacts, SameRead
    <3>10. Leftover(j)'
      BY <1>1, <1>3, <1>6, <1>8, <1>11, <1>15, <2>2, <2>4
      DEF JobInv, Leftover, Has, SameFacts, SameRead
    <3> QED BY <3>2, <3>3, <3>4, <3>5, <3>6, <3>7, <3>8, <3>9, <3>10 DEF JobInv
  <2> QED BY <2>3, <2>4
<1>16. Sane' => Sane BY <1>1 DEF Sane
<1> QED BY <1>1, <1>2, <1>3, <1>4, <1>9, <1>10, <1>12, <1>13, <1>14, <1>15,
           <1>16, OwnStep DEF ClientTook

-----------------------------------------------------------------------------
(* The steps of the user and of the timers. *)

\* The client has sent x, of job j.
UserSent(j, x) ==
    /\ x.j = j /\ c2s' \in Seq(Messages)
    /\ \A i : i # j => SameQueue(c2s, c2s', i)
    /\ Gave(c2s, c2s', j, x) /\ Sent(c2s', j) = Sent(c2s, j) \cup {x}

\* A message of the user's commands is sent.
LEMMA UserSends ==
    ASSUME FTTypeOK, NEW t \in Kinds, NEW j \in Jobs, NEW k \in Nat,
           NEW v \in Int,
           c2s' = Append(c2s, Msg(t, j, k, v))
    PROVE  \E x : UserSent(j, x) /\ x.t = t /\ x.k = k /\ x.v = v
<1> DEFINE x == Msg(t, j, k, v)
<1>1. x \in Messages /\ x.t = t /\ x.j = j /\ x.k = k /\ x.v = v BY MsgIs
<1>2. c2s \in Seq(Messages) BY DEF FTTypeOK, TypeQueues
<1>3. c2s' = Append(c2s, x) OBVIOUS
<1> HIDE DEF x
<1>4. /\ c2s' \in Seq(Messages)
      /\ \A i : i # x.j => SameQueue(c2s, c2s', i)
      /\ Gave(c2s, c2s', x.j, x)
  BY <1>1, <1>2, <1>3, AddStep
<1> QED BY <1>1, <1>4 DEF UserSent, Gave

\* The side that reads job j has sent x.
ReaderSent(j, x) ==
    /\ x.j = j /\ c2s' \in Seq(Messages) /\ s2c' \in Seq(Messages)
    /\ \A i : i # j => SameQueue(c2s, c2s', i) /\ SameQueue(s2c, s2c', i)
    /\ Gave(Data(j), Data(j)', j, x)
    /\ Sent(Data(j)', j) = Sent(Data(j), j) \cup {x} /\ Back(j)' = Back(j)
    /\ IF sc.upload[j] THEN s2c' = s2c ELSE c2s' = c2s

\* ToPeer is such a step.
LEMMA ReaderSends ==
    ASSUME FTTypeOK, sc' = sc, NEW t \in Kinds, NEW j \in Jobs, NEW k \in Nat,
           NEW v \in Int, ToPeer(ReadSide(j), <<Msg(t, j, k, v)>>)
    PROVE  \E x : ReaderSent(j, x) /\ x.t = t /\ x.k = k /\ x.v = v
<1> DEFINE x == Msg(t, j, k, v)
<1>1. x \in Messages /\ x.t = t /\ x.j = j /\ x.k = k /\ x.v = v BY MsgIs
<1>2. c2s \in Seq(Messages) /\ s2c \in Seq(Messages) BY DEF FTTypeOK, TypeQueues
<1>3. IF sc.upload[j] THEN c2s' = c2s \o <<x>> /\ s2c' = s2c
      ELSE s2c' = s2c \o <<x>> /\ c2s' = c2s
  BY DEF ToPeer, ReadSide
<1> HIDE DEF x
<1>4. CASE sc.upload[j]
  <2>1. /\ c2s' \in Seq(Messages)
        /\ \A i : i # x.j => SameQueue(c2s, c2s', i)
        /\ Gave(c2s, c2s', x.j, x)
    BY <1>1, <1>2, <1>3, <1>4, AddStep
  <2> QED BY <1>1, <1>2, <1>3, <1>4, <2>1, SameRefl
          DEF ReaderSent, Gave, Data, Back
<1>5. CASE ~sc.upload[j]
  <2>1. /\ s2c' \in Seq(Messages)
        /\ \A i : i # x.j => SameQueue(s2c, s2c', i)
        /\ Gave(s2c, s2c', x.j, x)
    BY <1>1, <1>2, <1>3, <1>5, AddStep
  <2> QED BY <1>1, <1>2, <1>3, <1>5, <2>1, SameRefl
          DEF ReaderSent, Gave, Data, Back
<1> QED BY <1>4, <1>5

\* Data::SendFiles.
LEMMA SendFilesStep ==
    ASSUME Inv, NEW j \in Jobs, SendFiles(j)
    PROVE  Inv'
<1>1. /\ FTTypeOK /\ up /\ state[j] = "new"
      /\ state' = [state EXCEPT ![j] = "running"]
      /\ UNCHANGED <<sc, up, breaks, disk, s2c, dialog, saved, from, kept, lost,
                     faulted>>
  BY DEF Inv, SendFiles, history
<1>2. PICK x :
         /\ UserSent(j, x) /\ x.k = 1 /\ x.v = 0
         /\ \/ /\ sc.upload[j] /\ x.t = "receive" /\ wjob' = wjob
               /\ rjob' = Put(rjob, j, NewRead(1))
               /\ reads' = [reads EXCEPT !.client = Append(@, j)]
            \/ /\ ~sc.upload[j] /\ x.t = "send" /\ UNCHANGED <<rjob, reads>>
               /\ wjob' = Put(wjob, j, NewWrite(1, FALSE))
  <2>1. "send" \in Kinds /\ "receive" \in Kinds /\ 1 \in Nat /\ 0 \in Int
    BY DEF Kinds
  <2>2. CASE sc.upload[j]
    <3>1. c2s' = Append(c2s, Msg("receive", j, 1, 0)) BY <2>2 DEF SendFiles
    <3>2. \E x : UserSent(j, x) /\ x.t = "receive" /\ x.k = 1 /\ x.v = 0
      BY <1>1, <2>1, <3>1, UserSends
    <3> QED BY <2>2, <3>2 DEF SendFiles
  <2>3. CASE ~sc.upload[j]
    <3>1. c2s' = Append(c2s, Msg("send", j, 1, 0)) BY <2>3 DEF SendFiles
    <3>2. \E x : UserSent(j, x) /\ x.t = "send" /\ x.k = 1 /\ x.v = 0
      BY <1>1, <2>1, <3>1, UserSends
    <3> QED BY <2>3, <3>2 DEF SendFiles
  <2> QED BY <2>2, <2>3
<1>3. Life(j) /\ Parts(j) /\ (Sane => JobInv(j)) BY DEF Inv
<1>4. /\ Sent(c2s, j) = {} /\ Sent(s2c, j) = {} /\ ~Shown(j) /\ from[j] = 1
      /\ j \notin DOMAIN rjob /\ j \notin DOMAIN wjob
  BY <1>1, <1>3 DEF Life, LifeIdle
<1>5. /\ Sent(c2s', j) = {x} /\ Sent(s2c', j) = {} /\ Gave(c2s, c2s', j, x)
      /\ x.t \in {"send", "receive"} /\ sc' = sc /\ sc.upload[j] \in BOOLEAN
      /\ Sent(Data(j)', j) \subseteq {x} /\ Sent(Back(j)', j) \subseteq {x}
  BY <1>1, <1>2, <1>4, Scenario DEF UserSent, FTTypeOK, TypeUser, Data, Back
<1>6. /\ state' \in [Jobs -> States] /\ state'[j] = "running"
      /\ \A i \in Jobs : i # j => state'[i] = state[i]
  <2>1. state \in [Jobs -> States] BY <1>1 DEF FTTypeOK, TypeUser
  <2> QED BY <1>1, <2>1 DEF States
<1>7. /\ DOMAIN rjob' = DOMAIN rjob \cup (IF sc.upload[j] THEN {j} ELSE {})
      /\ \A i \in DOMAIN rjob : rjob'[i] = rjob[i]
      /\ DOMAIN wjob' = DOMAIN wjob \cup (IF sc.upload[j] THEN {} ELSE {j})
      /\ \A i \in DOMAIN wjob : wjob'[i] = wjob[i]
      /\ sc.upload[j] =>
            /\ rjob'[j] \in ReadJobs /\ rjob'[j].file_num = 1
            /\ rjob'[j].pos = 0
            /\ ~rjob'[j].confirmed /\ ~rjob'[j].waiting /\ ~rjob'[j].error
            /\ ~rjob'[j].skipped /\ ~rjob'[j].resume
      /\ ~sc.upload[j] =>
            /\ wjob'[j] \in WriteJobs /\ wjob'[j].file_num = 1
            /\ ~wjob'[j].open /\ ~wjob'[j].listed /\ ~wjob'[j].resume
  <2>1. 1 \in Nat /\ FALSE \in BOOLEAN OBVIOUS
  <2>2. CASE sc.upload[j] BY <1>2, <1>4, <2>1, <2>2, NewReadIs DEF Put
  <2>3. CASE ~sc.upload[j]
    <3>1. /\ DOMAIN wjob' = DOMAIN wjob \cup {j}
          /\ wjob'[j] = NewWrite(1, FALSE)
          /\ \A i \in DOMAIN wjob : wjob'[i] = wjob[i]
      BY <1>2, <1>4, <2>3 DEF Put
    <3> QED BY <1>2, <2>1, <2>3, <3>1, NewWriteIs
  <2> QED BY <1>5, <2>2, <2>3
<1>8. FTTypeOK'
  <2>1. TypeJobs' BY <1>1, <1>4, <1>5, <1>7, JobsStep DEF FTTypeOK, TypeJobs
  <2>2. TypeQueues'
    <3>1. IF sc.upload[j] THEN DataOK(j, x) ELSE BackOK(j, x)
      BY <1>2 DEF DataOK, BackOK
    <3>2. /\ \A m \in Sent(Data(j)', j) : m \in Sent(Data(j), j) \/ DataOK(j, m)
          /\ \A m \in Sent(Back(j)', j) : m \in Sent(Back(j), j) \/ BackOK(j, m)
      BY <1>1, <1>5, <3>1 DEF Data, Back
    <3>3. s2c' \in Seq(Messages)
      BY <1>1 DEF FTTypeOK, TypeQueues, Messages, Jobs
    <3> QED BY <1>1, <1>2, <1>5, <3>2, <3>3, QueuesStep, SameRefl
            DEF FTTypeOK, UserSent
  <2>3. TypeReads'
    <3>1. CASE sc.upload[j]
      BY <1>1, <1>2, <1>4, <1>7, <3>1, ReadsAppend DEF ReadSide
    <3>2. CASE ~sc.upload[j] BY <1>1, <1>2, <3>2, ReadsSame
    <3> QED BY <3>1, <3>2
  <2>4. TypeUser'
    BY <1>1, <1>6 DEF FTTypeOK, TypeUser, Jobs, Files, IsFile, Size
  <2> QED BY <1>1, <2>1, <2>2, <2>3, <2>4, HistorySame, FilesSame DEF FTTypeOK
<1>9. ASSUME NEW i \in Jobs \ {j} PROVE Frame(i)
  BY <1>1, <1>2, <1>6, <1>7, SameRefl DEF Frame, Shown, UserSent
<1>10. Live(j)' /\ At(j)' = 1 /\ ~Open(j)' /\ ~Shown(j)'
  BY <1>1, <1>2, <1>4, <1>5, <1>7 DEF Live, At, Open, Has, Shown
<1>11. Life(j)'
  <2>1. /\ Leads(c2s', j, {"send", "receive"}) /\ Leads(s2c', j, {"dir"})
    BY <1>1, <1>3, <1>4, <1>5 DEF Life, LifeStart, Gave
  <2>2. Once(Data(j)', j, {"done"})
    BY <1>1, <1>3, <1>5 DEF Life, LifeEnd, Gave, Data
  <2> QED BY <1>1, <1>2, <1>4, <1>5, <1>6, <1>7, <1>10, <2>1, <2>2
          DEF Life, LifeIdle, LifeStart, LifeEnd, Has
<1>12. Tokens(j)'
  <2>1. ~Has(Data(j)', j, {"digest"}) /\ ~Has(Back(j)', j, {"ask", "confirm"})
    BY <1>5 DEF Has
  <2>2. /\ Once(Data(j)', j, {"digest"}) /\ Trails(Data(j)', j)
        /\ Once(Back(j)', j, {"ask", "confirm"})
    BY <2>1, NoneOnce, NoneTrails
  <2> QED BY <1>4, <1>5, <1>7, <1>10, <2>1, <2>2 DEF Tokens, Has
<1>13. Parts(j)'
  <2>1. OffsetFirst(Data(j)', j)
    BY <1>1, <1>3, <1>5 DEF Parts, Gave, Item, Data
  <2> QED BY <1>1, <1>3, <1>4, <1>5, <1>7, <1>10, <2>1 DEF Parts
<1>14. ASSUME JobInv(j) PROVE JobInv(j)'
  <2>1. SameDisk(j) BY <1>1 DEF SameDisk
  <2>2. SameFacts(j) BY <2>1, SameDiskFacts
  <2>3. Untouched(j, 0) /\ UnsentAt(j, 0) BY <1>1, <1>14 DEF JobInv, Touch
  <2>4. \A k \in DOMAIN sc.files[j] : k \in Nat /\ k > 0
    BY <1>1, Scenario DEF FTTypeOK, TypeUser
  <2>5. \A k \in DOMAIN sc.files[j] : disk[<<j, k>>].part = None
    BY <2>3, <2>4 DEF Untouched
  <2>6. Untouched(j, 1) /\ UnsentAt(j, 1) /\ WholeBefore(j, 1)
    BY <2>3, <2>4, <2>5 DEF Untouched, UnsentAt, WholeBefore
  <2>7. Touch(j)'
    BY <1>1, <1>6, <1>7, <1>10, <2>2, <2>6 DEF Touch, SameFacts
  <2>8. Resumed(j)'
    BY <1>1, <1>4, <1>6, <1>7, <1>10, <1>14, <2>5 DEF JobInv, Resumed
  <2>9. Torn(j)' BY <1>1, <1>14, <2>2 DEF JobInv, Torn, IsPrefixOf, SameFacts
  <2>10. Chain(j)'
    <3>1. \A y : ~Opens(Data(j)', j, y) /\ ~Closes(Data(j)', j, y)
      BY <1>5, OpensSent DEF Item
    <3>2. \A y, z : ~Follows(Data(j)', j, y, z)
      BY <1>5, OpensSent DEF Item
    <3>3. ASSUME j \in DOMAIN rjob' PROVE NoneOK(j)'
      <4>1. <<j, 1>> \notin kept
        BY <1>1, <2>3, <2>4, Scenario
        DEF UnsentAt, FTTypeOK, TypeUser, TypeHistory
      <4>2. Blank(j, 1) BY <2>5, <4>1 DEF Blank, Empty
      <4>3. Blank(j, 1)' BY <2>2, <4>2 DEF SameFacts
      <4> QED BY <1>4, <1>7, <1>10, <3>3, <4>3 DEF NoneOK
    <3> QED BY <3>1, <3>2, <3>3 DEF Chain
  <2>11. Reached(j)' BY <1>4, <1>5, <1>7, <1>10 DEF Reached
  <2>12. Answers(j)' BY <1>5, <1>10 DEF Answers
  <2>13. Keeps(j)'
    BY <1>1, <1>4, <1>5, <1>7, <1>10, <1>14, <2>2, <2>5
    DEF JobInv, Keeps, SameFacts
  <2>14. Ending(j)'
    BY <1>1, <1>4, <1>5, <1>6, <1>7, <1>10 DEF Ending, Has
  <2>15. Leftover(j)'
    <3>1. Clear(Data(j)', j)
      <4>1. Data(j)' \in Seq(Messages)'
        BY <1>8 DEF FTTypeOK, TypeQueues, Data
      <4>2. Seq(Messages)' = Seq(Messages) BY <1>1 DEF Messages, Jobs
      <4> QED BY <1>5, <4>1, <4>2, NoItems DEF Item
    <3> QED BY <1>1, <1>4, <1>5, <1>7, <2>5, <3>1 DEF Leftover, Has
  <2> QED BY <2>7, <2>8, <2>9, <2>10, <2>11, <2>12, <2>13, <2>14, <2>15
          DEF JobInv
<1>15. Sane' => Sane BY <1>1 DEF Sane
<1> QED BY <1>1, <1>3, <1>8, <1>9, <1>11, <1>12, <1>13, <1>14, <1>15, OwnStep

-----------------------------------------------------------------------------
(* Cancelling. *)

\* The files of job j are as they were, but some have no .download any more.
Removed(j) ==
    /\ sc' = sc /\ from'[j] = from[j]
    /\ \A k : <<j, k>> \in kept' <=> <<j, k>> \in kept
    /\ \A k : <<j, k>> \in faulted' <=> <<j, k>> \in faulted
    /\ \A k \in DOMAIN sc.files[j] :
          /\ disk'[<<j, k>>].final = disk[<<j, k>>].final
          /\ disk'[<<j, k>>].spoilt = disk[<<j, k>>].spoilt
          /\ disk'[<<j, k>>].part = None \/ disk'[<<j, k>>] = disk[<<j, k>>]

\* What is said of the files of job j still holds, as far as it must.
LEMMA RemovedFacts ==
    ASSUME NEW j, Removed(j)
    PROVE  /\ \A k : Size(j, k)' = Size(j, k) /\ Whole(<<j, k>>)' = Whole(<<j, k>>)
           /\ \A k \in DOMAIN sc.files[j] : Orig(<<j, k>>)' <=> Orig(<<j, k>>)
           /\ \A b : Untouched(j, b) => Untouched(j, b)'
           /\ \A b : UnsentAt(j, b) => UnsentAt(j, b)'
           /\ \A a, b : Gap(j, a, b)' <=> Gap(j, a, b)
           /\ \A k, b : Shadowed(j, k, b)' <=> Shadowed(j, k, b)
           /\ \A b : WholeBefore(j, b)' <=> WholeBefore(j, b)
           /\ Torn(j) => Torn(j)'
<1>1. \A k : Size(j, k)' = Size(j, k) /\ Whole(<<j, k>>)' = Whole(<<j, k>>)
  BY DEF Removed, Size, Whole
<1>2. \A k \in DOMAIN sc.files[j] : Orig(<<j, k>>)' <=> Orig(<<j, k>>)
  BY <1>1 DEF Removed, Orig
<1>3. \A b : Untouched(j, b) => Untouched(j, b)'
  BY <1>2 DEF Removed, Untouched
<1>4. \A b : UnsentAt(j, b) => UnsentAt(j, b)'
  BY <1>1 DEF Removed, UnsentAt
<1>5. \A a, b : Gap(j, a, b)' <=> Gap(j, a, b)
  BY DEF Removed, Gap
<1>6. \A k, b : Shadowed(j, k, b)' <=> Shadowed(j, k, b)
  BY <1>1, <1>5 DEF Removed, Shadowed
<1>7. \A b : WholeBefore(j, b)' <=> WholeBefore(j, b)
  BY <1>1, <1>6 DEF Removed, WholeBefore
<1>8. Torn(j) => Torn(j)'
  <2>1. /\ DOMAIN sc'.files[j] = DOMAIN sc.files[j]
        /\ \A k : <<j, k>> \in faulted' <=> <<j, k>> \in faulted
        /\ \A k : LaterFails(<<j, k>>)' <=> LaterFails(<<j, k>>)
        /\ \A d, k : IsPrefixOf(d, <<j, k>>)' <=> IsPrefixOf(d, <<j, k>>)
    BY <1>1 DEF Removed, LaterFails, IsPrefixOf
  <2>2. \A k \in DOMAIN sc.files[j] :
           /\ disk'[<<j, k>>].final = disk[<<j, k>>].final
           /\ disk'[<<j, k>>].spoilt = disk[<<j, k>>].spoilt
           /\ disk'[<<j, k>>].part = None \/ disk'[<<j, k>>] = disk[<<j, k>>]
    BY DEF Removed
  <2>3. ASSUME Torn(j), NEW k \in DOMAIN sc.files[j]
        PROVE  /\ Size(j, k) = Dir => disk'[<<j, k>>].part = None
               /\ <<j, k>> \notin faulted =>
                    /\ disk'[<<j, k>>].part # None =>
                          /\ IsPrefixOf(disk'[<<j, k>>].part, <<j, k>>)
                          /\ disk'[<<j, k>>].part = <<>> => Size(j, k) = 0
                    /\ \/ disk'[<<j, k>>].final \in {None, Whole(<<j, k>>)}
                       \/ disk'[<<j, k>>].final = Old
                    /\ disk'[<<j, k>>].spoilt => LaterFails(<<j, k>>)
    <3>1. CASE disk'[<<j, k>>].part = None BY <2>2, <2>3, <3>1 DEF Torn
    <3>2. CASE disk'[<<j, k>>] = disk[<<j, k>>] BY <2>3, <3>2 DEF Torn
    <3> QED BY <2>2, <3>1, <3>2
  <2> QED BY <1>1, <2>1, <2>3 DEF Torn
<1> QED BY <1>1, <1>2, <1>3, <1>4, <1>5, <1>6, <1>7, <1>8

\* remove_download_file, when there is a job that writes.
LEMMA RemovedIs ==
    ASSUME FTTypeOK, NEW j \in Jobs, sc' = sc,
           disk' = IF j \in DOMAIN wjob
                   THEN RemoveDownloadFile(disk, j, wjob[j].file_num) ELSE disk
    PROVE  /\ DiskOK(disk)'
           /\ \A i \in Jobs \ {j} : \A k \in DOMAIN sc.files[i] :
                 disk'[<<i, k>>] = disk[<<i, k>>]
           /\ \A k \in DOMAIN sc.files[j] :
                 /\ disk'[<<j, k>>].final = disk[<<j, k>>].final
                 /\ disk'[<<j, k>>].spoilt = disk[<<j, k>>].spoilt
                 /\ disk'[<<j, k>>].part = None \/ disk'[<<j, k>>] = disk[<<j, k>>]
           /\ j \in DOMAIN wjob /\ wjob[j].file_num \in DOMAIN sc.files[j] =>
                 disk'[<<j, wjob[j].file_num>>].part = None
<1>1. DiskOK(disk) /\ sc \in Scenarios BY DEF FTTypeOK, TypeUser
<1>2. \A i \in Jobs : \A k \in DOMAIN sc.files[i] : <<i, k>> \in Files
  BY <1>1, Scenario
<1>3. CASE j \in DOMAIN wjob
  <2>1. PICK n : n = wjob[j].file_num OBVIOUS
  <2>2. disk' = RemoveDownloadFile(disk, j, n) BY <1>3, <2>1
  <2>3. LET e == RemoveDownloadFile(disk, j, n) IN
        /\ DiskOK(e)
        /\ \A g \in Files : g # <<j, n>> => e[g] = disk[g]
        /\ n \in DOMAIN sc.files[j] =>
              /\ e[<<j, n>>].part = None
              /\ e[<<j, n>>].final = disk[<<j, n>>].final
              /\ e[<<j, n>>].spoilt = disk[<<j, n>>].spoilt
    BY <1>1, RemoveDownloadFileIs
  <2>4. /\ DiskOK(disk')
        /\ \A g \in Files : g # <<j, n>> => disk'[g] = disk[g]
        /\ n \in DOMAIN sc.files[j] =>
              /\ disk'[<<j, n>>].part = None
              /\ disk'[<<j, n>>].final = disk[<<j, n>>].final
              /\ disk'[<<j, n>>].spoilt = disk[<<j, n>>].spoilt
    BY <2>2, <2>3
  <2>5. DiskOK(disk)' BY <2>4 DEF DiskOK, Files, Jobs, Entries, Contents
  <2>6. \A i \in Jobs \ {j} : \A k \in DOMAIN sc.files[i] : <<i, k>> # <<j, n>>
    OBVIOUS
  <2> QED BY <1>2, <2>1, <2>4, <2>5, <2>6
<1>4. CASE j \notin DOMAIN wjob
  BY <1>1, <1>4 DEF DiskOK, Files, Jobs, Entries, Contents
<1> QED BY <1>3, <1>4

\* The side that writes ends: its .download is removed.
LEMMA DropWrite ==
    ASSUME FTTypeOK, NEW j \in Jobs, JobInv(j), sc' = sc,
           UNCHANGED <<up, breaks, saved, from, kept, faulted>>, up,
           rjob' = rjob, Live(j) => j \in DOMAIN wjob,
           disk' = IF j \in DOMAIN wjob
                   THEN RemoveDownloadFile(disk, j, wjob[j].file_num) ELSE disk,
           ~Live(j)', ~Open(j)', state'[j] = "cancelled",
           SameItems(Data(j), Data(j)', j), Sent(Data(j)', j) \subseteq Sent(Data(j), j),
           Has(c2s', j, {"send"}) => Has(c2s, j, {"send"}),
           \A m \in Sent(Back(j)', j) : m \in Sent(Back(j), j) \/ m.t = "cancel"
    PROVE  JobInv(j)'
<1>1. Removed(j) /\ (j \in DOMAIN wjob /\ At(j) \in DOMAIN sc.files[j]
                        => disk'[<<j, At(j)>>].part = None)
  BY RemovedIs DEF Removed, At
<1>2. /\ \A k : Size(j, k)' = Size(j, k) /\ Whole(<<j, k>>)' = Whole(<<j, k>>)
      /\ \A k \in DOMAIN sc.files[j] : Orig(<<j, k>>)' <=> Orig(<<j, k>>)
      /\ \A b : Untouched(j, b) => Untouched(j, b)'
      /\ \A b : UnsentAt(j, b) => UnsentAt(j, b)'
      /\ \A a, b : Gap(j, a, b)' <=> Gap(j, a, b)
      /\ \A k, b : Shadowed(j, k, b)' <=> Shadowed(j, k, b)
      /\ \A b : WholeBefore(j, b)' <=> WholeBefore(j, b)
      /\ Torn(j)'
  BY <1>1, RemovedFacts DEF JobInv
<1>3. Touch(j)' BY <1>2 DEF JobInv, Touch
<1>4. Resumed(j)'
  <2>1. j \notin DOMAIN wjob' BY DEF Live
  <2> QED BY <2>1 DEF JobInv, Resumed
<1>5. Chain(j)'
  BY <1>2 DEF JobInv, Chain, SameItems, FollowOK, LastOK, Begins, Go
<1>6. Reached(j)' BY DEF JobInv, Reached
<1>7. Answers(j)' BY DEF JobInv, Answers
<1>8. Keeps(j)' BY <1>1, <1>2 DEF JobInv, Keeps, Removed
<1>9. Ending(j)'
  BY <1>2 DEF JobInv, Ending, Undated, AllWhole, Has, Live, Data, Back
<1>10. Leftover(j)'
  <2>1. SUFFICES ASSUME breaks = 0, faulted = {} PROVE Leftover(j)'
    BY DEF Leftover
  <2>2. /\ j \in DOMAIN rjob => ~rjob[j].error /\ ~Has(Data(j), j, {"error"})
        /\ j \in DOMAIN rjob /\ rjob[j].skipped /\ Len(sc.files[j]) = 1 =>
              <<j, 1>> \in kept /\ rjob[j].file_num > 1
        /\ Has(Data(j), j, {"error"}) \/ Has(c2s, j, {"send"}) =>
              /\ Clear(Data(j), j)
              /\ \A k \in DOMAIN sc.files[j] : disk[<<j, k>>].part = None
        /\ \A k \in DOMAIN sc.files[j] :
              disk[<<j, k>>].part # None =>
                  IF Live(j) THEN k = At(j) \/ Shadowed(j, k, At(j))
                  ELSE Shadowed(j, k, Len(sc.files[j]))
    BY <2>1 DEF JobInv, Leftover
  <2>3. \A k \in DOMAIN sc.files[j] :
           disk'[<<j, k>>].part # None => disk[<<j, k>>].part # None
    BY <1>1 DEF Removed
  <2>4. \A k \in DOMAIN sc.files[j] :
           disk'[<<j, k>>].part # None => Shadowed(j, k, Len(sc.files[j]))
    <3>1. ASSUME NEW k \in DOMAIN sc.files[j], Shadowed(j, k, At(j))
          PROVE  Shadowed(j, k, Len(sc.files[j]))
      BY <3>1, Scenario DEF Shadowed, FTTypeOK, TypeUser
    <3> QED BY <1>1, <2>2, <2>3, <3>1
  <2>5. Has(Data(j)', j, {"error"}) => Has(Data(j), j, {"error"}) BY DEF Has
  <2> QED BY <1>2, <2>2, <2>3, <2>4, <2>5 DEF Leftover, SameItems
<1> QED BY <1>2, <1>3, <1>4, <1>5, <1>6, <1>7, <1>8, <1>9, <1>10 DEF JobInv

\* Data::CancelJob.
LEMMA CancelJobStep ==
    ASSUME Inv, NEW j \in Jobs, CancelJob(j)
    PROVE  Inv'
<1>1. /\ FTTypeOK /\ up /\ state[j] \in {"running", "error"}
      /\ state' = [state EXCEPT ![j] = "cancelled"]
      /\ UNCHANGED <<sc, up, breaks, s2c, dialog, saved, from, kept, lost,
                     faulted>>
  BY DEF Inv, CancelJob, history
<1>2. PICK x : UserSent(j, x) /\ x.t = "cancel" /\ x.k = 0 /\ x.v = 0
  <2>1. "cancel" \in Kinds /\ 0 \in Nat /\ 0 \in Int BY DEF Kinds
  <2>2. c2s' = Append(c2s, Msg("cancel", j, 0, 0)) BY DEF CancelJob
  <2> QED BY <1>1, <2>1, <2>2, UserSends
<1>3. Life(j) /\ Tokens(j) /\ Parts(j) /\ (Sane => JobInv(j)) BY DEF Inv
<1>4. /\ sc' = sc /\ sc.upload[j] \in BOOLEAN /\ Gave(c2s, c2s', j, x)
      /\ Sent(c2s', j) = Sent(c2s, j) \cup {x}
      /\ SameItems(c2s, c2s', j) /\ s2c' = s2c
  BY <1>1, <1>2, Scenario DEF UserSent, Gave, Item, FTTypeOK, TypeUser
<1>5. /\ state' \in [Jobs -> States] /\ state'[j] = "cancelled"
      /\ \A i \in Jobs : i # j => state'[i] = state[i]
  <2>1. state \in [Jobs -> States] BY <1>1 DEF FTTypeOK, TypeUser
  <2> QED BY <1>1, <2>1 DEF States
<1>6. CASE sc.upload[j]
  <2>1. DropRead(j, "client") /\ wjob' = wjob /\ disk' = disk
    BY <1>6 DEF CancelJob
  <2>2. /\ TypeReads' /\ DOMAIN rjob' = DOMAIN rjob \ {j}
        /\ \A i \in DOMAIN rjob : i # j => rjob'[i] = rjob[i]
    BY <1>1, <1>6, <2>1, ReadsDrop DEF ReadSide
  <2>3. Data(j) = c2s /\ Data(j)' = c2s' /\ Back(j) = s2c /\ Back(j)' = s2c
    BY <1>4, <1>6 DEF Data, Back
  <2>4. FTTypeOK'
    <3>1. TypeJobs' BY <1>1, <2>1, <2>2, JobsStep DEF FTTypeOK, TypeJobs
    <3>2. TypeQueues'
      <4>1. DataOK(j, x) BY <1>2, <1>6 DEF DataOK
      <4>2. s2c' \in Seq(Messages) /\ c2s' \in Seq(Messages)
        BY <1>1, <1>2 DEF FTTypeOK, TypeQueues, UserSent
      <4>3. \A i : i # j => SameQueue(c2s, c2s', i) /\ SameQueue(s2c, s2c', i)
        BY <1>2, <1>4, SameRefl DEF UserSent
      <4> QED BY <1>1, <1>4, <2>3, <4>1, <4>2, <4>3, QueuesStep DEF FTTypeOK
    <3>3. TypeUser'
      BY <1>1, <1>5 DEF FTTypeOK, TypeUser, Jobs, Files, IsFile, Size
    <3> QED BY <1>1, <2>1, <2>2, <3>1, <3>2, <3>3, HistorySame, FilesSame
            DEF FTTypeOK
  <2>5. ASSUME NEW i \in Jobs \ {j} PROVE Frame(i)
    BY <1>1, <1>2, <1>4, <1>5, <2>1, <2>2, SameRefl DEF Frame, Shown, UserSent
  <2>6. /\ Live(j)' <=> Live(j)
        /\ At(j)' = At(j) /\ (Open(j)' <=> Open(j)) /\ (Shown(j)' <=> Shown(j))
    BY <1>1, <1>2, <1>4, <2>1 DEF Live, At, Open, Has, Shown
  <2>7. Life(j)'
    <3>1. Leads(c2s', j, {"send", "receive"})
      BY <1>2, <1>3, <1>4 DEF Life, LifeStart, Gave
    <3>2. Once(c2s', j, {"done"})
      BY <1>2, <1>3, <1>4, <2>3 DEF Life, LifeEnd, Gave
    <3> QED BY <1>1, <1>2, <1>3, <1>4, <1>5, <1>6, <2>1, <2>2, <2>3, <2>6,
               <3>1, <3>2
            DEF Life, LifeIdle, LifeStart, LifeEnd, Has
  <2>8. Tokens(j)' BY <2>2 DEF Tokens
  <2>9. Parts(j)'
    <3>1. OffsetFirst(c2s', j) BY <1>2, <1>3, <1>4, <2>3 DEF Parts, Gave, Item
    <3> QED BY <1>1, <1>2, <1>3, <1>4, <2>1, <2>2, <2>3, <2>6, <3>1
            DEF Parts, IsFile, Size
  <2>10. ASSUME JobInv(j) PROVE JobInv(j)'
    <3>1. SameDisk(j) BY <1>1, <2>1 DEF SameDisk
    <3>2. Quiet(j)
      BY <1>1, <1>2, <1>4, <1>5, <2>1, <2>2, <2>3, <2>6, <3>1 DEF Quiet
    <3>3. SameFacts(j) BY <3>1, SameDiskFacts
    <3>4. Answers(j)' BY <2>2 DEF Answers
    <3>5. Ending(j)'
      <4>1. Has(c2s', j, {"cancel"}) BY <1>2, <1>4 DEF Has
      <4> QED BY <1>1, <1>4, <1>5, <1>6, <2>6, <2>10, <3>3, <4>1
              DEF JobInv, Ending, Undated, AllWhole, Has, SameFacts
    <3>6. Leftover(j)'
      BY <1>1, <1>2, <1>4, <1>6, <2>1, <2>2, <2>3, <2>6, <2>10, <3>3
      DEF JobInv, Leftover, Has, SameItems, SameFacts
    <3> QED BY <2>10, <3>2, <3>4, <3>5, <3>6, QuietStep DEF JobInv
  <2>11. Sane' => Sane BY <1>1 DEF Sane
  <2> QED BY <1>1, <1>3, <2>4, <2>5, <2>7, <2>8, <2>9, <2>10, <2>11, OwnStep
<1>7. CASE ~sc.upload[j]
  <2>1. /\ disk' = IF j \in DOMAIN wjob
                   THEN RemoveDownloadFile(disk, j, wjob[j].file_num) ELSE disk
        /\ wjob' = Del(wjob, j) /\ UNCHANGED <<rjob, reads>>
    BY <1>7 DEF CancelJob
  <2>2. /\ DOMAIN wjob' = DOMAIN wjob \ {j}
        /\ \A i \in DOMAIN wjob' : wjob'[i] = wjob[i]
    BY <2>1 DEF Del
  <2>3. Data(j) = s2c /\ Data(j)' = s2c /\ Back(j) = c2s /\ Back(j)' = c2s'
    BY <1>4, <1>7 DEF Data, Back
  <2>4. /\ DiskOK(disk)'
        /\ \A i \in Jobs \ {j} : \A k \in DOMAIN sc.files[i] :
              disk'[<<i, k>>] = disk[<<i, k>>]
        /\ \A k \in DOMAIN sc.files[j] :
              disk'[<<j, k>>].part = None \/ disk'[<<j, k>>] = disk[<<j, k>>]
    BY <1>1, <1>4, <2>1, RemovedIs
  <2>5. FTTypeOK'
    <3>1. TypeJobs' BY <1>1, <2>1, <2>2, JobsStep DEF FTTypeOK, TypeJobs
    <3>2. TypeQueues'
      <4>1. BackOK(j, x) BY <1>2, <1>7 DEF BackOK
      <4>2. s2c' \in Seq(Messages) /\ c2s' \in Seq(Messages)
        BY <1>1, <1>2 DEF FTTypeOK, TypeQueues, UserSent
      <4>3. \A i : i # j => SameQueue(c2s, c2s', i) /\ SameQueue(s2c, s2c', i)
        BY <1>2, <1>4, SameRefl DEF UserSent
      <4> QED BY <1>1, <1>4, <2>3, <4>1, <4>2, <4>3, QueuesStep DEF FTTypeOK
    <3>3. TypeUser'
      BY <1>1, <1>5 DEF FTTypeOK, TypeUser, Jobs, Files, IsFile, Size
    <3> QED BY <1>1, <2>1, <2>2, <2>4, <3>1, <3>2, <3>3, HistorySame, ReadsSame
            DEF FTTypeOK
  <2>6. ASSUME NEW i \in Jobs \ {j} PROVE Frame(i)
    <3>1. \A k \in DOMAIN sc.files[i] : disk'[<<i, k>>] = disk[<<i, k>>]
      BY <2>4
    <3> QED BY <1>1, <1>2, <1>4, <1>5, <2>1, <2>2, <3>1, SameRefl
            DEF Frame, Shown, UserSent
  <2>7. /\ ~Live(j)' /\ ~Open(j)' /\ (Shown(j)' <=> Shown(j))
        /\ j \notin DOMAIN wjob'
        /\ Live(j) => j \in DOMAIN wjob
    <3>1. ~Has(c2s, j, {"receive"}) /\ ~Has(c2s', j, {"receive"})
      BY <1>1, <1>2, <1>4, <1>7, <2>3 DEF Has, FTTypeOK, TypeQueues, BackOK
    <3> QED BY <1>1, <2>2, <3>1 DEF Live, Open, Shown
  <2>8. Life(j)'
    <3>1. Leads(c2s', j, {"send", "receive"})
      BY <1>2, <1>3, <1>4 DEF Life, LifeStart, Gave
    <3> QED BY <1>1, <1>2, <1>3, <1>4, <1>5, <1>7, <2>1, <2>2, <2>3, <2>7, <3>1
            DEF Life, LifeIdle, LifeStart, LifeEnd, Has
  <2>9. Tokens(j)'
    <3>1. Once(c2s, j, {"ask", "confirm"}) => Once(c2s', j, {"ask", "confirm"})
      BY <1>2, <1>4 DEF Gave
    <3> QED BY <1>1, <1>2, <1>3, <1>4, <2>1, <2>3, <2>7, <3>1, SameTokens
  <2>10. Parts(j)'
    <3>1. \A m \in Sent(Back(j)', j) : m.t # "ask"
      BY <1>1, <1>2, <1>4, <1>7, <2>3 DEF FTTypeOK, TypeQueues, BackOK
    <3> QED BY <1>1, <1>3, <2>1, <2>3, <2>4, <2>7, <3>1 DEF Parts
  <2>11. ASSUME JobInv(j) PROVE JobInv(j)'
    <3>1. SameItems(Data(j), Data(j)', j) BY <2>3, SameRefl DEF SameQueue
    <3>2. Has(c2s', j, {"send"}) => Has(c2s, j, {"send"}) BY <1>2, <1>4 DEF Has
    <3>3. \A m \in Sent(Back(j)', j) : m \in Sent(Back(j), j) \/ m.t = "cancel"
      BY <1>2, <1>4, <2>3
    <3> QED BY <1>1, <1>4, <1>5, <2>1, <2>3, <2>7, <2>11, <3>1, <3>2, <3>3,
               DropWrite
  <2>12. Sane' => Sane BY <1>1 DEF Sane
  <2> QED BY <1>1, <1>3, <2>5, <2>6, <2>8, <2>9, <2>10, <2>11, <2>12, OwnStep
<1> QED BY <1>4, <1>6, <1>7

\* FileAction::Cancel.
LEMMA OnCancelStep ==
    ASSUME Inv, OnCancel
    PROVE  Inv'
<1>1. /\ FTTypeOK /\ c2s # <<>> /\ Head(c2s).t = "cancel" /\ ServerTakes(<<>>)
      /\ UNCHANGED <<sc, up, breaks, dialog, saved, state, from, kept, lost,
                     faulted>>
  BY DEF Inv, OnCancel, ServerGets, history
<1>2. PICK m, j :
         /\ ServerTook(m, j, <<>>) /\ m.t = "cancel"
         /\ IF sc.upload[j]
            THEN /\ disk' = IF j \in DOMAIN wjob
                            THEN RemoveDownloadFile(disk, j, wjob[j].file_num)
                            ELSE disk
                 /\ wjob' = Del(wjob, j) /\ UNCHANGED <<rjob, reads>>
            ELSE DropRead(j, "server") /\ UNCHANGED <<wjob, disk>>
  BY <1>1, ServerTake DEF OnCancel
<1>3. /\ j \in Jobs /\ sc' = sc /\ sc.upload[j] \in BOOLEAN /\ s2c' = s2c /\ up
      /\ Took(c2s, c2s', j, m) /\ m \in Sent(c2s, j)
      /\ Sent(c2s', j) \subseteq Sent(c2s, j) /\ SameItems(c2s, c2s', j)
      /\ Less(c2s, c2s', j)
  BY <1>1, <1>2, Scenario, LessIs DEF ServerTook, Took, Item, FTTypeOK, TypeUser
<1>4. Life(j) /\ Tokens(j) /\ Parts(j) /\ (Sane => JobInv(j)) BY <1>3 DEF Inv
<1>5. state[j] = "cancelled" /\ state'[j] = "cancelled"
  BY <1>1, <1>2, <1>3, <1>4 DEF Life, LifeEnd, Has
<1>6. ~Has(c2s', j, {"send", "receive"})
  BY <1>3, <1>4 DEF Life, LifeStart, Took
<1>7. \A i : i # j => SameQueue(c2s, c2s', i) /\ SameQueue(s2c, s2c', i)
  BY <1>2 DEF ServerTook
<1>8. ~(m.t \in {"send", "receive"}) /\ ~Has(c2s, j, {"send", "receive"})
  BY <1>2, <1>3, <1>6 DEF Has, Took
<1>9. TypeQueues'
  <2>1. c2s' \in Seq(Messages) /\ s2c' \in Seq(Messages) BY <1>2 DEF ServerTook
  <2>2. /\ Sent(Data(j)', j) \subseteq Sent(Data(j), j)
        /\ Sent(Back(j)', j) \subseteq Sent(Back(j), j)
    BY <1>3 DEF Data, Back
  <2> QED BY <1>1, <1>3, <1>7, <2>1, <2>2, QueuesStep DEF FTTypeOK
<1>10. Leads(c2s', j, {"send", "receive"}) BY <1>6, NoneOnce
<1>11. CASE sc.upload[j]
  <2>1. /\ disk' = IF j \in DOMAIN wjob
                   THEN RemoveDownloadFile(disk, j, wjob[j].file_num) ELSE disk
        /\ wjob' = Del(wjob, j) /\ UNCHANGED <<rjob, reads>>
    BY <1>2, <1>11
  <2>2. /\ DOMAIN wjob' = DOMAIN wjob \ {j}
        /\ \A i \in DOMAIN wjob' : wjob'[i] = wjob[i]
    BY <2>1 DEF Del
  <2>3. Data(j) = c2s /\ Data(j)' = c2s' /\ Back(j) = s2c /\ Back(j)' = s2c
    BY <1>3, <1>11 DEF Data, Back
  <2>4. /\ DiskOK(disk)'
        /\ \A i \in Jobs \ {j} : \A k \in DOMAIN sc.files[i] :
              disk'[<<i, k>>] = disk[<<i, k>>]
        /\ \A k \in DOMAIN sc.files[j] :
              disk'[<<j, k>>].part = None \/ disk'[<<j, k>>] = disk[<<j, k>>]
    BY <1>1, <1>3, <2>1, RemovedIs
  <2>5. FTTypeOK'
    <3>1. TypeJobs' BY <1>1, <1>3, <2>1, <2>2, JobsStep DEF FTTypeOK, TypeJobs
    <3> QED BY <1>1, <1>9, <2>1, <2>4, <3>1, UserSame, HistorySame, ReadsSame
            DEF FTTypeOK
  <2>6. ASSUME NEW i \in Jobs \ {j} PROVE Frame(i)
    <3>1. \A k \in DOMAIN sc.files[i] : disk'[<<i, k>>] = disk[<<i, k>>]
      BY <2>4
    <3> QED BY <1>1, <1>3, <1>7, <2>1, <2>2, <3>1 DEF Frame, Shown
  <2>7. /\ ~Live(j)' /\ ~Open(j)' /\ (Shown(j)' <=> Shown(j))
        /\ j \notin DOMAIN wjob'
        /\ Live(j) => j \in DOMAIN wjob
    BY <1>1, <1>6, <1>8, <2>2 DEF Live, Open, Shown, Has
  <2>8. Life(j)'
    BY <1>1, <1>2, <1>3, <1>4, <1>5, <1>6, <1>10, <1>11, <2>1, <2>2, <2>3, <2>7
    DEF Life, LifeIdle, LifeStart, LifeEnd, Has, Less
  <2>9. j \notin DOMAIN rjob BY <1>4, <1>5, <1>11 DEF Life, LifeEnd
  <2>10. Tokens(j)' BY <2>1, <2>9 DEF Tokens
  <2>11. Parts(j)'
    BY <1>1, <1>3, <1>4, <2>1, <2>3, <2>4, <2>7, <2>9 DEF Parts, Less
  <2>12. ASSUME JobInv(j) PROVE JobInv(j)'
    <3>1. Has(c2s', j, {"send"}) => Has(c2s, j, {"send"}) BY <1>3 DEF Has
    <3> QED BY <1>1, <1>3, <1>5, <2>1, <2>3, <2>7, <2>12, <3>1, DropWrite
  <2>13. Sane' => Sane BY <1>1 DEF Sane
  <2> QED BY <1>1, <1>3, <1>4, <2>5, <2>6, <2>8, <2>10, <2>11, <2>12, <2>13,
             OwnStep
<1>12. CASE ~sc.upload[j]
  <2>1. DropRead(j, "server") /\ wjob' = wjob /\ disk' = disk BY <1>2, <1>12
  <2>2. /\ TypeReads' /\ DOMAIN rjob' = DOMAIN rjob \ {j}
        /\ \A i \in DOMAIN rjob : i # j => rjob'[i] = rjob[i]
    BY <1>1, <1>3, <1>12, <2>1, ReadsDrop DEF ReadSide
  <2>3. Data(j) = s2c /\ Data(j)' = s2c /\ Back(j) = c2s /\ Back(j)' = c2s'
    BY <1>3, <1>12 DEF Data, Back
  <2>4. FTTypeOK'
    <3>1. TypeJobs' BY <1>1, <1>3, <2>1, <2>2, JobsStep DEF FTTypeOK, TypeJobs
    <3> QED BY <1>1, <1>9, <2>1, <2>2, <3>1, UserSame, HistorySame, FilesSame
            DEF FTTypeOK
  <2>5. ASSUME NEW i \in Jobs \ {j} PROVE Frame(i)
    BY <1>1, <1>3, <1>7, <2>1, <2>2 DEF Frame, Shown
  <2>6. j \notin DOMAIN wjob BY <1>4, <1>5, <1>12 DEF Life, LifeEnd
  <2>7. /\ ~Live(j)' /\ ~Open(j)' /\ (Shown(j)' <=> Shown(j))
    BY <1>1, <1>6, <2>1, <2>6 DEF Live, Open, Has, Shown
  <2>8. Life(j)'
    BY <1>1, <1>3, <1>4, <1>5, <1>6, <1>10, <1>12, <2>1, <2>2, <2>3, <2>6, <2>7
    DEF Life, LifeIdle, LifeStart, LifeEnd, Has
  <2>9. Tokens(j)' BY <2>2 DEF Tokens
  <2>10. Parts(j)' BY <1>1, <1>3, <1>4, <2>1, <2>2, <2>3, <2>7 DEF Parts
  <2>11. ASSUME JobInv(j) PROVE JobInv(j)'
    <3>1. SameDisk(j) BY <1>1, <2>1 DEF SameDisk
    <3>2. Quiet(j)
      BY <1>1, <1>3, <1>5, <2>1, <2>2, <2>3, <2>6, <2>7, <3>1, SameRefl
      DEF Quiet, SameQueue
    <3>3. SameFacts(j) BY <3>1, SameDiskFacts
    <3>4. Answers(j)' BY <2>2 DEF Answers
    <3>5. Ending(j)'
      BY <1>3, <1>5, <1>12, <2>2, <2>7, <2>11, <2>3
      DEF JobInv, Ending, Has
    <3>6. Leftover(j)'
      <4>1. ~Live(j) BY <1>8, <2>6 DEF Live, Has
      <4>2. Has(c2s', j, {"send"}) => Has(c2s, j, {"send"}) BY <1>3 DEF Has
      <4> QED BY <1>1, <1>3, <2>1, <2>2, <2>3, <2>7, <2>11, <3>3, <4>1, <4>2
              DEF JobInv, Leftover, SameFacts
    <3> QED BY <2>11, <3>2, <3>4, <3>5, <3>6, QuietStep DEF JobInv
  <2>12. Sane' => Sane BY <1>1 DEF Sane
  <2> QED BY <1>1, <1>3, <1>4, <2>4, <2>5, <2>8, <2>9, <2>10, <2>11, <2>12,
             OwnStep
<1> QED BY <1>3, <1>11, <1>12

-----------------------------------------------------------------------------
(* Reading. *)

\* The job that the timer goes on with.
LEMMA CurrentIs ==
    ASSUME Inv, NEW side \in {"client", "server"}, NEW j, Current(side, j)
    PROVE  /\ j \in Jobs /\ j \in DOMAIN rjob /\ side = ReadSide(j) /\ up
           /\ rjob[j] \in ReadJobs /\ ~rjob[j].last
           /\ state[j] \notin {"new", "saved", "gone", "added", "done", "cancelled"}
              \/ (state[j] = "cancelled" /\ ~sc.upload[j])
           /\ ~Has(c2s, j, {"send"})
<1>1. FTTypeOK BY DEF Inv
<1>2. PICK i \in DOMAIN reads[side] : reads[side][i] = j /\ ~rjob[j].last
  BY DEF Current
<1>3. j \in DOMAIN rjob /\ side = ReadSide(j)
  BY <1>1, <1>2 DEF FTTypeOK, TypeReads
<1>4. j \in Jobs /\ rjob[j] \in ReadJobs
  BY <1>1, <1>3 DEF FTTypeOK, TypeJobs
<1>5. Life(j) BY <1>4 DEF Inv
<1>6. state[j] \notin {"new", "saved", "gone", "added"}
  BY <1>2, <1>3, <1>5 DEF Life, LifeIdle
<1>7. /\ state[j] # "done"
      /\ state[j] = "cancelled" => ~sc.upload[j]
      /\ ~Has(c2s, j, {"send"})
  BY <1>3, <1>5 DEF Life, LifeStart, LifeEnd, Has
<1> QED BY <1>2, <1>3, <1>4, <1>6, <1>7 DEF Current

\* A side that does not wait has asked nothing.
LEMMA NotAsked ==
    ASSUME FTTypeOK, NEW j \in Jobs, Tokens(j), j \in DOMAIN rjob,
           sc.od => rjob[j].confirmed \/ ~rjob[j].waiting
    PROVE  /\ ~Has(Data(j), j, {"digest"})
           /\ ~Has(Back(j), j, {"ask", "confirm"})
           /\ ~Shown(j)
<1>1. CASE sc.od BY <1>1 DEF Tokens, Has, WaitsFor
<1>2. CASE ~sc.od
  <2>1. /\ \A m \in Sent(Data(j), j) : DataOK(j, m)
        /\ \A m \in Sent(Back(j), j) : BackOK(j, m)
        /\ dialog = None
    BY <1>2 DEF FTTypeOK, TypeQueues, TypeUser
  <2> QED BY <1>2, <2>1 DEF Has, Shown, DataOK, BackOK
<1> QED BY <1>1, <1>2

\* The life of a job whose reader has sent x.
LEMMA ReaderLife ==
    ASSUME FTTypeOK, NEW j \in Jobs, Life(j), sc' = sc, NEW x,
           ReaderSent(j, x), j \in DOMAIN rjob,
           UNCHANGED <<up, wjob, state, from, dialog>>,
           j \in DOMAIN rjob' \/ (~Has(Data(j)', j, {"digest"}) /\ ~Shown(j)'),
           j \in DOMAIN rjob' => x.t # "done",
           x.t \in {"digest", "block", "done", "error"}, state[j] # "added"
    PROVE  /\ Life(j)' /\ (Live(j)' <=> Live(j)) /\ At(j)' = At(j)
           /\ (Open(j)' <=> Open(j)) /\ (Shown(j)' <=> Shown(j))
           /\ Sent(c2s, j) \subseteq Sent(c2s', j)
           /\ Sent(s2c, j) \subseteq Sent(s2c', j)
           /\ Has(c2s', j, {"send"}) => Has(c2s, j, {"send"})
           /\ Has(c2s, j, {"cancel"}) => Has(c2s', j, {"cancel"})
<1>1. /\ Sent(c2s', j) \subseteq Sent(c2s, j) \cup {x}
      /\ Sent(s2c', j) \subseteq Sent(s2c, j) \cup {x}
      /\ Sent(c2s, j) \subseteq Sent(c2s', j)
      /\ Sent(s2c, j) \subseteq Sent(s2c', j)
      /\ sc.upload[j] => s2c' = s2c
      /\ ~sc.upload[j] => c2s' = c2s
      /\ Data(j) = (IF sc.upload[j] THEN c2s ELSE s2c)
      /\ Data(j)' = (IF sc.upload[j] THEN c2s' ELSE s2c')
  BY DEF ReaderSent, Data
<1>2. /\ Live(j)' <=> Live(j)
      /\ At(j)' = At(j) /\ (Open(j)' <=> Open(j)) /\ (Shown(j)' <=> Shown(j))
      /\ Has(c2s', j, {"send"}) => Has(c2s, j, {"send"})
      /\ Has(c2s, j, {"cancel"}) => Has(c2s', j, {"cancel"})
  BY <1>1 DEF Live, At, Open, Shown, Has
<1>3. LifeIdle(j)' BY DEF Life, LifeIdle, ReaderSent
<1>4. LifeStart(j)'
  <2>1. /\ Leads(c2s', j, {"send", "receive"}) /\ Leads(s2c', j, {"dir"})
    BY <1>1 DEF Life, LifeStart, ReaderSent, Gave
  <2>2. ~Has(c2s, j, {"send"}) BY DEF Life, LifeStart, Has
  <2>3. j \in DOMAIN wjob /\ ~wjob[j].listed =>
            ~sc.upload[j] /\ ~wjob[j].open /\ Has(s2c, j, {"dir"})
    BY DEF Life, LifeStart
  <2>4. Has(s2c, j, {"dir"}) => Has(s2c', j, {"dir"}) BY <1>1 DEF Has
  <2>5. ASSUME NEW m \in Sent(c2s', j), m.t \in {"send", "receive"}
        PROVE  /\ m.k = from[j] /\ Sent(s2c', j) = {} /\ ~Shown(j)'
               /\ m.t = "receive" /\ j \notin DOMAIN wjob
    <3>1. m \in Sent(c2s, j) BY <1>1, <2>5
    <3>2. m.t = "receive" BY <2>2, <2>5, <3>1 DEF Has
    <3>3. m.k = from[j] /\ Sent(s2c, j) = {} /\ ~Shown(j) /\ j \notin DOMAIN wjob
      BY <3>1, <3>2 DEF Life, LifeStart
    <3>4. CASE sc.upload[j] BY <1>1, <1>2, <3>2, <3>3, <3>4
    <3>5. CASE ~sc.upload[j]
      BY <3>1, <3>2, <3>5 DEF FTTypeOK, TypeQueues, BackOK, Back
    <3> QED BY <3>4, <3>5
  <2> QED BY <2>1, <2>3, <2>4, <2>5 DEF LifeStart
<1>5. LifeEnd(j)'
  <2>1. Once(Data(j)', j, {"done"})
    <3>1. ~Has(Data(j), j, {"done"}) /\ Once(Data(j), j, {"done"})
      BY DEF Life, LifeEnd
    <3> QED BY <3>1 DEF ReaderSent, Gave
  <2>2. j \in DOMAIN rjob' => ~Has(Data(j)', j, {"done"})
    BY DEF Life, LifeEnd, ReaderSent, Has
  <2>3. Has(c2s', j, {"cancel"}) => Has(c2s, j, {"cancel"})
    BY <1>1 DEF Has
  <2>4. sc.upload[j] /\ Has(s2c', j, {"done"}) => FALSE
    BY <1>1 DEF Life, LifeEnd
  <2>5. state[j] # "done" BY DEF Life, LifeEnd
  <2>6. ~sc.upload[j] /\ (Has(s2c', j, {"digest"}) \/ Shown(j)')
           => j \in DOMAIN rjob'
    BY <1>1
  <2>7. state[j] = "cancelled" => j \notin DOMAIN (IF sc.upload[j] THEN rjob' ELSE wjob)
    <3>1. state[j] = "cancelled" => j \notin DOMAIN (IF sc.upload[j] THEN rjob ELSE wjob)
      BY DEF Life, LifeEnd
    <3> QED BY <3>1
  <2> QED BY <2>1, <2>2, <2>3, <2>4, <2>5, <2>6, <2>7 DEF Life, LifeEnd
<1> QED BY <1>1, <1>2, <1>3, <1>4, <1>5 DEF Life

\* The queues are well formed if x is.
LEMMA ReaderQueues ==
    ASSUME FTTypeOK, sc' = sc, NEW j \in Jobs, NEW x, ReaderSent(j, x),
           DataOK(j, x)
    PROVE  TypeQueues'
  BY QueuesStep DEF FTTypeOK, ReaderSent

\* job_completed, job_error.
LEMMA ReadEndsStep ==
    ASSUME Inv, NEW side \in {"client", "server"}, NEW j \in Jobs,
           ReadEnds(side, j)
    PROVE  Inv'
<1> DEFINE r == rjob[j]
           n == Len(sc.files[j])
<1>1. /\ FTTypeOK /\ j \in DOMAIN rjob /\ side = ReadSide(j) /\ up
      /\ r \in ReadJobs /\ ~Has(c2s, j, {"send"})
      /\ state[j] \notin {"new", "saved", "gone", "added"}
      /\ UNCHANGED <<sc, up, breaks, wjob, disk, dialog, saved, state, from,
                     kept,
                     lost, faulted>>
      /\ r.file_num > n /\ (~sc.od \/ (~r.confirmed /\ ~r.waiting))
      /\ DropRead(j, side) /\ sc' = sc
  BY CurrentIs DEF Inv, ReadEnds, history
<1>2. PICK x : /\ ReaderSent(j, x) /\ x.k = r.file_num /\ x.v = 0
               /\ x.t = IF (r.skipped /\ n = 1) \/ r.error THEN "error" ELSE "done"
  <2> DEFINE t == IF (r.skipped /\ n = 1) \/ r.error THEN "error" ELSE "done"
  <2>1. t \in Kinds /\ r.file_num \in Nat /\ 0 \in Int BY <1>1, ReadIs DEF Kinds
  <2>2. ToPeer(ReadSide(j), <<Msg(t, j, r.file_num, 0)>>) BY <1>1 DEF ReadEnds
  <2> HIDE DEF t, r
  <2>3. \E x : ReaderSent(j, x) /\ x.t = t /\ x.k = r.file_num /\ x.v = 0
    BY <1>1, <2>1, <2>2, ReaderSends
  <2> QED BY <2>3 DEF t, r
<1> HIDE DEF r
<1>3. Life(j) /\ Tokens(j) /\ Parts(j) /\ (Sane => JobInv(j)) BY DEF Inv
<1>4. /\ Gave(Data(j), Data(j)', j, x) /\ Back(j)' = Back(j)
      /\ Sent(Data(j)', j) = Sent(Data(j), j) \cup {x}
      /\ x.t \in {"done", "error"}
      /\ sc' = sc /\ sc.upload[j] \in BOOLEAN
  BY <1>1, <1>2, Scenario DEF ReaderSent, FTTypeOK, TypeUser
<1>5. /\ TypeReads' /\ DOMAIN rjob' = DOMAIN rjob \ {j}
      /\ \A i \in DOMAIN rjob : i # j => rjob'[i] = rjob[i]
  BY <1>1, ReadsDrop
<1>6. /\ ~Has(Data(j), j, {"digest"}) /\ ~Has(Back(j), j, {"ask", "confirm"})
      /\ ~Shown(j) /\ ~Has(Data(j), j, {"done"})
  BY <1>1, <1>3, NotAsked DEF r, Life, LifeEnd
<1>7. FTTypeOK'
  <2>1. TypeJobs' BY <1>1, <1>5, JobsStep DEF FTTypeOK, TypeJobs
  <2>2. DataOK(j, x) BY <1>1, <1>2, <1>4 DEF DataOK
  <2> QED BY <1>1, <1>2, <1>5, <2>1, <2>2, ReaderQueues, UserSame, HistorySame,
             FilesSame DEF FTTypeOK
<1>8. ASSUME NEW i \in Jobs \ {j} PROVE Frame(i)
  BY <1>1, <1>2, <1>5 DEF Frame, Shown, ReaderSent
<1>9. /\ Life(j)' /\ (Live(j)' <=> Live(j)) /\ At(j)' = At(j)
      /\ (Open(j)' <=> Open(j)) /\ (Shown(j)' <=> Shown(j))
      /\ Has(c2s', j, {"send"}) => Has(c2s, j, {"send"})
      /\ Has(c2s, j, {"cancel"}) => Has(c2s', j, {"cancel"})
  <2>1. ~Has(Data(j)', j, {"digest"}) /\ ~Shown(j)'
    BY <1>1, <1>4, <1>6 DEF Has, Shown
  <2> QED BY <1>1, <1>2, <1>3, <1>4, <1>5, <2>1, ReaderLife
<1>10. Tokens(j)' BY <1>5 DEF Tokens
<1>11. Parts(j)'
  <2>1. OffsetFirst(Data(j)', j) BY <1>3, <1>4 DEF Parts, Gave, Item
  <2> QED BY <1>1, <1>3, <1>4, <1>5, <1>9, <2>1 DEF Parts, IsFile, Size
<1>12. ASSUME JobInv(j) PROVE JobInv(j)'
  <2>1. SameFacts(j) BY <1>1, SameDiskFacts DEF SameDisk
  <2>2. Touch(j)' BY <1>1, <1>5, <1>9, <1>12, <2>1 DEF JobInv, Touch, SameFacts
  <2>3. Resumed(j)' BY <1>1, <1>5, <1>9, <1>12 DEF JobInv, Resumed
  <2>4. Torn(j)' BY <1>1, <1>12, <2>1 DEF JobInv, Torn, IsPrefixOf, SameFacts
  <2>5. Chain(j)'
    <3>1. CASE x.t = "error"
      <4>1. SameItems(Data(j), Data(j)', j) BY <1>4, <3>1 DEF Gave, Item
      <4>2. \A m : StartOK(j, m) => StartOK(j, m)'
        BY <1>1, <1>9, <2>1 DEF StartOK, Begins, SameFacts, SameDisk
      <4>3. \A m, y : FollowOK(j, m, y) => FollowOK(j, m, y)'
        BY <1>1, <2>1 DEF FollowOK, Begins, SameFacts, SameDisk
      <4>4. \A m : Opens(Data(j), j, m) => m \in Sent(Data(j), j)
        BY OpensSent
      <4>5. \A m, y : Follows(Data(j), j, m, y)
                         => m \in Sent(Data(j), j) /\ y \in Sent(Data(j), j)
        BY OpensSent
      <4> QED BY <1>5, <1>9, <1>12, <4>1, <4>2, <4>3, <4>4, <4>5
              DEF JobInv, Chain, SameItems
    <3>2. CASE x.t = "done"
      <4>1. Item(x, j) BY <1>4, <3>2 DEF Item, Gave
      <4>2. \A m : StartOK(j, m) => StartOK(j, m)'
        BY <1>1, <1>9, <2>1 DEF StartOK, Begins, SameFacts, SameDisk
      <4>3. \A m, y : FollowOK(j, m, y) => FollowOK(j, m, y)'
        BY <1>1, <2>1 DEF FollowOK, Begins, SameFacts, SameDisk
      <4>4. Begins(j, x) BY <3>2 DEF Begins
      <4>5. ASSUME Live(j), Clear(Data(j), j) PROVE StartOK(j, x)
        <5>1. NoneOK(j) BY <1>1, <1>12, <4>5 DEF JobInv, Chain
        <5>2. r.file_num \notin DOMAIN sc.files[j]
          BY <1>1, Scenario DEF FTTypeOK, TypeUser
        <5>3. <<j, r.file_num>> \notin kept
          BY <1>1, <5>2, Scenario DEF FTTypeOK, TypeUser, TypeHistory
        <5>4. Blank(j, r.file_num) BY <5>2, <5>3 DEF Blank, Empty
        <5>5. ~Received(j, r.file_num, r.pos - 1) BY <5>2 DEF Received, IsFile
        <5>6. ~Has(Back(j), j, {"confirm"}) BY <1>6 DEF Has
        <5> QED BY <1>2, <4>4, <5>1, <5>4, <5>5, <5>6 DEF NoneOK, StartOK, r
      <4>6. ASSUME NEW y, Closes(Data(j), j, y) PROVE FollowOK(j, y, x)
        <5>1. y \in Sent(Data(j), j) /\ Item(y, j) BY <4>6, OpensSent
        <5>2. LastOK(j, y) BY <1>1, <1>12, <4>6, <5>1 DEF JobInv, Chain
        <5>3. y.t # "done" BY <1>6, <5>1 DEF Has
        <5>4. y.k \in DOMAIN sc.files[j]
          BY <1>1, <5>1, <5>3 DEF Item, FTTypeOK, TypeQueues, DataOK, IsFile
        <5>5. r.file_num # y.k BY <1>1, <5>4, Scenario DEF FTTypeOK, TypeUser
        <5> QED BY <1>2, <4>4, <5>2, <5>5 DEF LastOK, FollowOK, r
      <4>7. ASSUME NEW m \in Sent(Data(j)', j), Live(j), Opens(Data(j)', j, m)
            PROVE  StartOK(j, m)
        BY <1>4, <1>12, <4>1, <4>5, <4>7, OpensSent DEF Gave, JobInv, Chain
      <4>8. ASSUME NEW m, NEW y, Follows(Data(j)', j, m, y)
            PROVE  FollowOK(j, m, y)
        <5>1. Follows(Data(j), j, m, y) \/ (y = x /\ Closes(Data(j), j, m))
          BY <1>4, <4>1, <4>8 DEF Gave
        <5>2. CASE Follows(Data(j), j, m, y)
          BY <1>12, <5>2, OpensSent DEF JobInv, Chain
        <5> QED BY <4>6, <5>1, <5>2
      <4> QED BY <1>5, <1>9, <4>2, <4>3, <4>7, <4>8 DEF Chain
    <3> QED BY <1>4, <3>1, <3>2
  <2>6. Reached(j)' BY <1>5 DEF Reached
  <2>7. Answers(j)' BY <1>5 DEF Answers
  <2>8. Keeps(j)'
    BY <1>1, <1>4, <1>5, <1>9, <1>12, <2>1 DEF JobInv, Keeps, SameFacts
  <2>9. Ending(j)'
    <3>1. IF sc.upload[j] THEN s2c' = s2c ELSE Data(j) = s2c /\ Data(j)' = s2c'
      BY <1>2, <1>4 DEF ReaderSent, Data
    <3>2. x.t = "done" => ~r.error BY <1>2
    <3>3. CASE sc.upload[j]
      BY <1>1, <1>9, <1>12, <2>1, <3>1, <3>3
      DEF JobInv, Ending, Undated, AllWhole, SameFacts
    <3>4. ~Undated(j)
      BY <1>1, Scenario DEF Undated, FTTypeOK, TypeUser, r
    <3>5. CASE ~sc.upload[j]
      BY <3>4, <1>1, <1>4, <1>5, <1>6, <1>9, <1>12, <2>1, <3>1, <3>2, <3>5
      DEF JobInv, Ending, Undated, AllWhole, SameFacts, Has, r
    <3> QED BY <1>4, <3>3, <3>5
  <2>10. Leftover(j)'
    <3>1. SUFFICES ASSUME breaks = 0, faulted = {} PROVE Leftover(j)'
      BY <1>1 DEF Leftover
    <3>2. /\ ~r.error /\ ~Has(Data(j), j, {"error"})
          /\ r.skipped /\ n = 1 => <<j, 1>> \in kept
          /\ \A k \in DOMAIN sc.files[j] :
                disk[<<j, k>>].part # None =>
                    IF Live(j) THEN k = At(j) \/ Shadowed(j, k, At(j))
                    ELSE Shadowed(j, k, n)
      BY <1>1, <1>12, <3>1 DEF JobInv, Leftover, r
    <3>3. ~Has(c2s', j, {"send"}) BY <1>1, <1>9
    <3>4. ASSUME Has(Data(j)', j, {"error"})
          PROVE  /\ Clear(Data(j)', j)
                 /\ \A k \in DOMAIN sc.files[j] : disk[<<j, k>>].part = None
      <4>1. x.t = "error" /\ n = 1 /\ <<j, 1>> \in kept
        BY <1>2, <1>4, <3>2, <3>4 DEF Has
      <4>2. \A k \in DOMAIN sc.files[j] : k = 1
        BY <1>1, <4>1, Scenario DEF FTTypeOK, TypeUser
      <4>3. \A k \in DOMAIN sc.files[j] : disk[<<j, k>>].part = None
        <5>1. SUFFICES ASSUME 1 \in DOMAIN sc.files[j], disk[<<j, 1>>].part # None
                       PROVE  FALSE
          BY <4>2
        <5>2. \A b : ~Shadowed(j, 1, b) BY <4>2 DEF Shadowed
        <5>3. Live(j) /\ At(j) = 1 BY <3>2, <5>1, <5>2
        <5>4. <<j, 1>> \in kept \ faulted BY <3>1, <4>1
        <5> QED BY <1>12, <3>1, <5>1, <5>3, <5>4 DEF JobInv, Keeps
      <4>4. \A m \in Sent(Data(j)', j) : ~Item(m, j)
        <5>1. ASSUME NEW m \in Sent(Data(j), j), Item(m, j) PROVE FALSE
          <6>1. m.t # "done" BY <1>6, <5>1 DEF Has
          <6>2. m.k = 1
            BY <1>1, <4>2, <5>1, <6>1
            DEF Item, FTTypeOK, TypeQueues, DataOK, IsFile
          <6>3. <<j, m.k>> \notin kept
            <7>1. m.t = "confirm" => m.v \in Int
              BY <1>1, <5>1 DEF FTTypeOK, TypeQueues, DataOK, Skip
            <7> QED BY <1>12, <5>1, <6>1, <7>1 DEF Item, JobInv, Keeps
          <6> QED BY <4>1, <6>2, <6>3
        <5> QED BY <1>4, <4>1, <5>1 DEF Item
      <4>5. Data(j)' \in Seq(Messages) BY <1>2 DEF ReaderSent, Data
      <4> QED BY <4>3, <4>4, <4>5, NoItems
    <3> QED BY <1>1, <1>5, <1>9, <2>1, <3>2, <3>3, <3>4 DEF Leftover, SameFacts
  <2> QED BY <2>2, <2>3, <2>4, <2>5, <2>6, <2>7, <2>8, <2>9, <2>10 DEF JobInv
<1>13. Sane' => Sane BY <1>1 DEF Sane
<1> QED BY <1>1, <1>3, <1>7, <1>8, <1>9, <1>10, <1>11, <1>12, <1>13, OwnStep

\* A file of job j that fails takes away from what must hold.
LEMMA FaultedFacts ==
    ASSUME NEW j, sc' = sc, from'[j] = from[j], disk' = disk, kept' = kept,
           faulted \subseteq faulted'
    PROVE  /\ \A k : Size(j, k)' = Size(j, k) /\ Whole(<<j, k>>)' = Whole(<<j, k>>)
           /\ \A k \in DOMAIN sc.files[j] : Orig(<<j, k>>)' <=> Orig(<<j, k>>)
           /\ \A b : Untouched(j, b) => Untouched(j, b)'
           /\ \A b : UnsentAt(j, b) => UnsentAt(j, b)'
           /\ \A a, b : Gap(j, a, b) => Gap(j, a, b)'
           /\ \A k, b : Shadowed(j, k, b) => Shadowed(j, k, b)'
           /\ \A b : WholeBefore(j, b) => WholeBefore(j, b)'
           /\ \A k : LaterFails(<<j, k>>) => LaterFails(<<j, k>>)'
           /\ \A k : Blank(j, k) => Blank(j, k)'
           /\ \A k, n : Holds(j, k, n) => Holds(j, k, n)'
           /\ \A k : Passed(j, k) => Passed(j, k)'
           /\ \A k, n : Received(j, k, n) => Received(j, k, n)'
           /\ Torn(j) => Torn(j)'
<1>1. \A k : Size(j, k)' = Size(j, k) /\ Whole(<<j, k>>)' = Whole(<<j, k>>)
  BY DEF Size, Whole
<1>2. \A k \in DOMAIN sc.files[j] : Orig(<<j, k>>)' <=> Orig(<<j, k>>)
  BY <1>1 DEF Orig
<1>3. \A b : Untouched(j, b) => Untouched(j, b)' BY <1>2 DEF Untouched
<1>4. \A b : UnsentAt(j, b) => UnsentAt(j, b)' BY <1>1 DEF UnsentAt
<1>5. \A a, b : Gap(j, a, b) => Gap(j, a, b)' BY DEF Gap
<1>6. \A k, b : Shadowed(j, k, b) => Shadowed(j, k, b)'
  BY <1>1, <1>5 DEF Shadowed
<1>7. \A b : WholeBefore(j, b) => WholeBefore(j, b)'
  BY <1>1, <1>6 DEF WholeBefore
<1>8. \A k : Blank(j, k) => Blank(j, k)' BY DEF Blank, Empty
<1>9. \A k, n : Holds(j, k, n) => Holds(j, k, n)' BY DEF Holds
<1>10. \A k : Passed(j, k) => Passed(j, k)' BY <1>1 DEF Passed
<1>11. \A k, n : Received(j, k, n) => Received(j, k, n)'
  BY <1>1 DEF Received, IsFile
<1>12. \A k : LaterFails(<<j, k>>) => LaterFails(<<j, k>>)' BY DEF LaterFails
<1>13. \A s, k : IsPrefixOf(s, <<j, k>>)' <=> IsPrefixOf(s, <<j, k>>)
  BY <1>1 DEF IsPrefixOf
<1>14. Torn(j) => Torn(j)'
  BY <1>1, <1>12, <1>13 DEF Torn, IsPrefixOf, LaterFails
<1> QED BY <1>1, <1>2, <1>3, <1>4, <1>5, <1>6, <1>7, <1>8, <1>9, <1>10, <1>11,
           <1>12, <1>14

\* A file that cannot be read.
LEMMA ReadFailsStep ==
    ASSUME Inv, NEW side \in {"client", "server"}, NEW j \in Jobs,
           ReadFails(side, j)
    PROVE  Inv'
<1>1. PICK r, k, s : r = rjob[j] /\ k = r.file_num /\ s = rjob'[j] OBVIOUS
<1>2. /\ FTTypeOK /\ j \in DOMAIN rjob /\ side = ReadSide(j) /\ up
      /\ r \in ReadJobs /\ ~Has(c2s, j, {"send"})
      /\ state[j] \notin {"new", "saved", "gone", "added"}
      /\ UNCHANGED <<sc, up, breaks, wjob, reads, disk, dialog, saved, state,
                     from, kept, lost>>
      /\ k \in DOMAIN sc.files[j] /\ Size(j, k) # Dir
      /\ (r.waiting => r.confirmed)
      /\ rjob' = [rjob EXCEPT ![j] = [NextFile(r) EXCEPT !.error = TRUE]]
      /\ faulted' = faulted \cup {<<j, k>>} /\ sc' = sc /\ k \in Nat
  BY <1>1, CurrentIs, ReadIs DEF Inv, ReadFails
<1>3. PICK x : ReaderSent(j, x) /\ x.k = k + 1 /\ x.v = 0 /\ x.t = "error"
  <2>1. "error" \in Kinds /\ k + 1 \in Nat /\ 0 \in Int BY <1>1, <1>2 DEF Kinds
  <2>2. ToPeer(ReadSide(j), <<Msg("error", j, k + 1, 0)>>)
    BY <1>1, <1>2 DEF ReadFails
  <2> QED BY <1>1, <1>2, <2>1, <2>2, ReaderSends
<1>4. Life(j) /\ Tokens(j) /\ Parts(j) /\ (Sane => JobInv(j)) BY DEF Inv
<1>5. /\ Gave(Data(j), Data(j)', j, x) /\ Back(j)' = Back(j)
      /\ Sent(Data(j)', j) = Sent(Data(j), j) \cup {x}
      /\ sc' = sc /\ sc.upload[j] \in BOOLEAN /\ ~Item(x, j)
      /\ SameItems(Data(j), Data(j)', j)
  BY <1>1, <1>2, <1>3, Scenario DEF ReaderSent, FTTypeOK, TypeUser, Gave, Item
<1>6. /\ DOMAIN rjob' = DOMAIN rjob
      /\ \A i \in DOMAIN rjob : i # j => rjob'[i] = rjob[i]
      /\ s \in ReadJobs /\ s.file_num = k + 1 /\ s.pos = 0 /\ ~s.confirmed
      /\ ~s.waiting /\ s.error /\ s.last = r.last /\ s.resume = r.resume
      /\ s.skipped = r.skipped
  <2>1. s = [NextFile(r) EXCEPT !.error = TRUE] BY <1>1, <1>2
  <2>2. \A q \in ReadJobs : [q EXCEPT !.error = TRUE] \in ReadJobs
    BY DEF ReadJobs
  <2>3. \A q \in ReadJobs :
           LET p == [q EXCEPT !.error = TRUE] IN
           /\ p.file_num = q.file_num /\ p.pos = q.pos
           /\ p.confirmed = q.confirmed
           /\ p.waiting = q.waiting /\ p.error = TRUE /\ p.last = q.last
           /\ p.resume = q.resume /\ p.skipped = q.skipped
    BY DEF ReadJobs
  <2>4. LET q == NextFile(r) IN
        /\ q \in ReadJobs /\ SameRead(r, q) /\ q.file_num = r.file_num + 1
        /\ q.pos = 0 /\ ~q.confirmed /\ ~q.waiting /\ q.skipped = r.skipped
    BY <1>1, <1>2, NextFileIs
  <2>5. PICK q : q = NextFile(r) OBVIOUS
  <2>6. s \in ReadJobs BY <2>1, <2>2, <2>4
  <2>7. /\ s.file_num = k + 1 /\ s.pos = 0 /\ ~s.confirmed
        /\ ~s.waiting /\ s.error /\ s.last = r.last /\ s.resume = r.resume
        /\ s.skipped = r.skipped
    BY <1>1, <2>1, <2>3, <2>4, <2>5 DEF SameRead
  <2> QED BY <1>1, <1>2, <2>6, <2>7
<1>7. /\ ~Has(Data(j), j, {"digest"}) /\ ~Has(Back(j), j, {"ask", "confirm"})
      /\ ~Shown(j) /\ ~Has(Data(j), j, {"done"})
  BY <1>1, <1>2, <1>4, NotAsked DEF Life, LifeEnd
<1>8. FTTypeOK'
  <2>1. TypeJobs' BY <1>1, <1>2, <1>6, JobsStep DEF FTTypeOK, TypeJobs
  <2>2. DataOK(j, x) BY <1>3 DEF DataOK
  <2>3. TypeHistory'
    <3>1. <<j, k>> \in Files BY <1>1, <1>2, Scenario DEF FTTypeOK, TypeUser
    <3> QED BY <1>1, <1>2, <3>1
            DEF FTTypeOK, TypeHistory, Jobs, Files, IsFile, Size
  <2> QED BY <1>1, <1>2, <1>3, <1>6, <2>1, <2>2, <2>3, ReaderQueues, UserSame,
             ReadsSame,
             FilesSame DEF FTTypeOK
<1>9. ASSUME NEW i \in Jobs \ {j} PROVE Frame(i)
  BY <1>1, <1>2, <1>3, <1>6 DEF Frame, Shown, ReaderSent
<1>10. /\ Life(j)' /\ (Live(j)' <=> Live(j)) /\ At(j)' = At(j)
       /\ (Open(j)' <=> Open(j)) /\ (Shown(j)' <=> Shown(j))
       /\ Has(c2s, j, {"cancel"}) => Has(c2s', j, {"cancel"})
  <2>1. j \in DOMAIN rjob' /\ x.t \in {"digest", "block", "done", "error"}
        /\ x.t # "done" /\ state[j] # "added"
        /\ UNCHANGED <<up, wjob, state, from, dialog>>
        /\ FTTypeOK /\ j \in DOMAIN rjob /\ sc' = sc
    BY <1>2, <1>3, <1>6
  <2> QED BY <1>3, <1>4, <2>1, ReaderLife
<1>11. Tokens(j)'
  <2>1. ~Has(Data(j)', j, {"digest"}) /\ ~Has(Back(j)', j, {"ask", "confirm"})
    BY <1>3, <1>5, <1>7 DEF Has
  <2>2. /\ Once(Data(j)', j, {"digest"}) /\ Trails(Data(j)', j)
        /\ Once(Back(j)', j, {"ask", "confirm"})
    BY <2>1, NoneOnce, NoneTrails
  <2> QED BY <1>1, <1>6, <1>7, <1>10, <2>1, <2>2 DEF Tokens, Has
<1>12. Parts(j)'
  <2>1. OffsetFirst(Data(j)', j) BY <1>4, <1>5 DEF Parts, Gave
  <2> QED BY <1>1, <1>2, <1>3, <1>4, <1>5, <1>6, <1>10, <2>1
          DEF Parts, IsFile, Size
<1>13. ASSUME JobInv(j) PROVE JobInv(j)'
  <2>1. /\ \A i : Size(j, i)' = Size(j, i) /\ Whole(<<j, i>>)' = Whole(<<j, i>>)
        /\ \A i \in DOMAIN sc.files[j] : Orig(<<j, i>>)' <=> Orig(<<j, i>>)
        /\ \A b : Untouched(j, b) => Untouched(j, b)'
        /\ \A b : UnsentAt(j, b) => UnsentAt(j, b)'
        /\ \A a, b : Gap(j, a, b) => Gap(j, a, b)'
        /\ \A b : WholeBefore(j, b) => WholeBefore(j, b)'
        /\ \A i : Blank(j, i) => Blank(j, i)'
        /\ \A i, n : Holds(j, i, n) => Holds(j, i, n)'
        /\ \A i : Passed(j, i) => Passed(j, i)'
        /\ \A i, n : Received(j, i, n) => Received(j, i, n)'
        /\ Torn(j)'
    BY <1>1, <1>2, <1>13, FaultedFacts DEF JobInv
  <2>2. Touch(j)'
    <3>1. sc.upload[j] => Untouched(j, k + 1)' /\ UnsentAt(j, k + 1)'
      <4>1. SUFFICES ASSUME sc.upload[j]
            PROVE  Untouched(j, k + 1) /\ UnsentAt(j, k + 1)
        BY <2>1
      <4>2. Untouched(j, k) /\ UnsentAt(j, k)
        BY <1>1, <1>2, <1>13, <4>1 DEF JobInv, Touch
      <4>3. \A i \in DOMAIN sc.files[j] : i \in Nat
        BY <1>1, <1>2, Scenario DEF FTTypeOK, TypeUser
      <4> QED BY <1>1, <1>2, <4>2, <4>3 DEF Untouched, UnsentAt
    <3> QED BY <1>1, <1>2, <1>6, <1>10, <1>13, <2>1, <3>1 DEF JobInv, Touch
  <2>3. Resumed(j)' BY <1>1, <1>2, <1>6, <1>10, <1>13 DEF JobInv, Resumed
  <2>4. \A a : Gap(j, a, k) => Gap(j, a, k + 1)'
    <3>1. \A i \in DOMAIN sc.files[j] : i \in Nat
      BY <1>1, <1>2, Scenario DEF FTTypeOK, TypeUser
    <3> QED BY <1>1, <1>2, <3>1 DEF Gap
  <2>5. Gap(j, k, k + 1)'
    <3>1. \A i \in DOMAIN sc.files[j] : i \in Nat
      BY <1>1, <1>2, Scenario DEF FTTypeOK, TypeUser
    <3>2. k \in Nat /\ sc' = sc BY <1>1, <1>2, ReadIs DEF FTTypeOK, TypeJobs
    <3> QED BY <3>1, <3>2 DEF Gap
  <2>6. Chain(j)'
    <3>1. \A m : StartOK(j, m) => StartOK(j, m)'
      BY <1>1, <1>2, <1>10, <2>1 DEF StartOK, Begins
    <3>2. \A m, y : FollowOK(j, m, y) => FollowOK(j, m, y)'
      BY <1>1, <1>2, <2>1 DEF FollowOK, Begins
    <3>3. ASSUME NEW y \in Sent(Data(j), j), LastOK(j, y) PROVE LastOK(j, y)'
      <4>1. y.k \in Nat
        BY <1>1, <1>2, MessageIs, InSent DEF FTTypeOK, TypeQueues, Data
      <4>2. Gap(j, k, k + 1)' BY <2>5
      <4>3. CASE k > y.k /\ Gap(j, y.k, k) /\
                 ((y.t = "block" /\ y.v = 0) \/ <<j, y.k>> \in faulted)
        BY <1>1, <1>2, <1>6, <2>4, <4>1, <4>3 DEF LastOK
      <4>4. CASE k = y.k
        BY <1>1, <1>2, <1>6, <4>1, <4>2, <4>4 DEF LastOK
      <4> QED BY <1>1, <3>3, <4>3, <4>4 DEF LastOK
    <3>4. ASSUME Live(j), NoneOK(j) PROVE NoneOK(j)'
      <4>1. At(j) \in Int
        BY <1>1, <1>2, WriteIs DEF At, FTTypeOK, TypeUser, TypeJobs
      <4>2. ~Has(Back(j), j, {"confirm"}) BY <1>7 DEF Has
      <4>3. CASE k > At(j) /\ Passed(j, At(j)) /\ Gap(j, At(j), k)
        BY <1>1, <1>2, <1>6, <1>10, <2>1, <2>4, <4>1, <4>3 DEF NoneOK
      <4>4. CASE k = At(j)
        <5>1. Passed(j, k)' BY <1>1, <1>2 DEF Passed
        <5>2. Gap(j, k, k + 1)' BY <2>5
        <5> QED BY <1>1, <1>2, <1>6, <1>10, <4>1, <4>4, <5>1, <5>2 DEF NoneOK
      <4> QED BY <1>1, <3>4, <4>2, <4>3, <4>4 DEF NoneOK
    <3> QED BY <1>1, <1>2, <1>6, <1>10, <1>13, <1>5, <3>1, <3>2, <3>3, <3>4,
               OpensSent
            DEF JobInv, Chain, SameItems
  <2>7. Reached(j)'
    <3>1. \A m \in Sent(Data(j), j) : m.k \in Nat
      BY <1>1, <1>2, MessageIs, InSent DEF FTTypeOK, TypeQueues, Data
    <3>2. At(j) \in Int
      BY <1>1, <1>2, WriteIs DEF At, FTTypeOK, TypeUser, TypeJobs
    <3>3. \A m \in Sent(Data(j), j) :
             (m.t = "block" => m.k <= k) /\ (m.t = "confirm" => m.k <= k)
      BY <1>1, <1>2, <1>13, <3>1 DEF JobInv, Reached
    <3>4. sc.upload[j] /\ Live(j) => At(j) <= k
      BY <1>1, <1>2, <1>13 DEF JobInv, Reached
    <3>5. \A m \in Sent(Data(j)', j) :
             (m.t = "block" => m.k < k + 1) /\ (m.t = "confirm" => m.k < k + 1)
      BY <1>1, <1>2, <1>3, <1>5, <3>1, <3>3
    <3> QED BY <1>1, <1>2, <1>5, <1>6, <1>10, <3>2, <3>4, <3>5 DEF Reached
  <2>8. Answers(j)'
    BY <1>3, <1>5, <1>7, <1>10 DEF Answers, Has
  <2>9. Keeps(j)'
    BY <1>1, <1>2, <1>3, <1>5, <1>6, <1>10, <1>13, <2>1 DEF JobInv, Keeps
  <2>10. Ending(j)'
    <3>1. IF sc.upload[j] THEN s2c' = s2c ELSE Data(j) = s2c /\ Data(j)' = s2c'
      BY <1>3, <1>5 DEF ReaderSent, Data
    <3>2. CASE sc.upload[j]
      BY <1>1, <1>2, <1>10, <1>13, <2>1, <3>1, <3>2
      DEF JobInv, Ending, Undated, AllWhole
    <3>3. CASE ~sc.upload[j]
      BY <1>1, <1>2, <1>3, <1>5, <1>6, <1>7, <1>10, <1>13, <2>1, <3>1, <3>3
      DEF JobInv, Ending, Undated, AllWhole, Has
    <3> QED BY <1>5, <3>2, <3>3
  <2>11. Leftover(j)' BY <1>1, <1>2 DEF Leftover
  <2> QED BY <2>1, <2>2, <2>3, <2>6, <2>7, <2>8, <2>9, <2>10, <2>11 DEF JobInv
<1>14. Sane' => Sane BY <1>1, <1>2 DEF Sane
<1> QED BY <1>1, <1>2, <1>4, <1>8, <1>9, <1>10, <1>11, <1>12, <1>13, <1>14,
           OwnStep

\* The digest of a file cannot be told.
LEMMA DigestFailsStep ==
    ASSUME Inv, NEW side \in {"client", "server"}, NEW j \in Jobs,
           DigestFails(side, j)
    PROVE  Inv'
<1>1. PICK r, k, s : r = rjob[j] /\ k = r.file_num /\ s = rjob'[j] OBVIOUS
<1>2. /\ FTTypeOK /\ j \in DOMAIN rjob /\ side = ReadSide(j) /\ up
      /\ r \in ReadJobs /\ ~Has(c2s, j, {"send"})
      /\ state[j] \notin {"new", "saved", "gone", "added"}
      /\ UNCHANGED <<sc, up, breaks, wjob, reads, disk, dialog, saved, state,
                     from, kept, lost>>
      /\ k \in DOMAIN sc.files[j] /\ Size(j, k) # Dir
      /\ sc.od /\ <<j, k>> \in sc.undated
      /\ rjob' = [rjob EXCEPT ![j] = Opened(r)]
      /\ faulted' = faulted \cup {<<j, k>>} /\ sc' = sc /\ k \in Nat
  BY <1>1, CurrentIs, ReadIs DEF Inv, DigestFails
<1>3. PICK x : ReaderSent(j, x) /\ x.k = k /\ x.v = 0 /\ x.t = "error"
  <2>1. "error" \in Kinds /\ 0 \in Int BY DEF Kinds
  <2>2. ToPeer(ReadSide(j), <<Msg("error", j, k, 0)>>)
    BY <1>1, <1>2 DEF DigestFails
  <2> QED BY <1>1, <1>2, <2>1, <2>2, ReaderSends
<1>4. Life(j) /\ Tokens(j) /\ Parts(j) /\ (Sane => JobInv(j)) BY DEF Inv
<1>5. /\ Gave(Data(j), Data(j)', j, x) /\ Back(j)' = Back(j)
      /\ Sent(Data(j)', j) = Sent(Data(j), j) \cup {x}
      /\ sc' = sc /\ sc.upload[j] \in BOOLEAN /\ ~Item(x, j)
      /\ SameItems(Data(j), Data(j)', j)
  BY <1>1, <1>2, <1>3, Scenario DEF ReaderSent, FTTypeOK, TypeUser, Gave, Item
<1>6. /\ DOMAIN rjob' = DOMAIN rjob
      /\ \A i \in DOMAIN rjob : i # j => rjob'[i] = rjob[i]
      /\ s \in ReadJobs /\ s.file_num = k /\ s.pos <= 1 /\ ~s.confirmed
      /\ ~s.waiting /\ s.error = r.error /\ s.last = r.last
      /\ s.resume = r.resume
      /\ s.skipped = r.skipped /\ r.pos <= 1 /\ ~r.confirmed /\ ~r.waiting
  <2>1. ~r.confirmed /\ ~r.waiting BY <1>1, <1>2, <1>4 DEF Parts
  <2>2. r.pos <= 1 BY <1>1, <1>2, <1>4, <2>1 DEF Tokens, Go
  <2>3. LET q == Opened(r) IN
        /\ q \in ReadJobs /\ SameRead(r, q) /\ q.file_num = r.file_num
        /\ q.skipped = r.skipped
        /\ IF r.pos = 0 THEN q.pos = 1 /\ ~q.confirmed /\ ~q.waiting ELSE q = r
    BY <1>2, OpenedIs
  <2>4. s = Opened(r) BY <1>1, <1>2
  <2> QED BY <1>1, <1>2, <2>1, <2>2, <2>3, <2>4 DEF SameRead
<1>7. /\ ~Has(Data(j), j, {"digest"}) /\ ~Has(Back(j), j, {"ask", "confirm"})
      /\ ~Shown(j) /\ ~Has(Data(j), j, {"done"})
  BY <1>1, <1>2, <1>4, <1>6, NotAsked DEF Life, LifeEnd
<1>8. FTTypeOK'
  <2>1. TypeJobs' BY <1>1, <1>2, <1>6, JobsStep DEF FTTypeOK, TypeJobs
  <2>2. DataOK(j, x) BY <1>3 DEF DataOK
  <2>3. TypeHistory'
    <3>1. IsFile(j, k) BY <1>2 DEF IsFile
    <3> QED BY <1>2, <3>1, HistoryFails
  <2> QED BY <1>1, <1>2, <1>3, <1>6, <2>1, <2>2, <2>3, ReaderQueues, UserSame,
             ReadsSame,
             FilesSame DEF FTTypeOK
<1>9. ASSUME NEW i \in Jobs \ {j} PROVE Frame(i)
  BY <1>1, <1>2, <1>3, <1>6 DEF Frame, Shown, ReaderSent
<1>10. /\ Life(j)' /\ (Live(j)' <=> Live(j)) /\ At(j)' = At(j)
       /\ (Open(j)' <=> Open(j)) /\ (Shown(j)' <=> Shown(j))
       /\ Has(c2s, j, {"cancel"}) => Has(c2s', j, {"cancel"})
  <2>1. j \in DOMAIN rjob' /\ x.t \in {"digest", "block", "done", "error"}
        /\ x.t # "done" /\ state[j] # "added"
        /\ UNCHANGED <<up, wjob, state, from, dialog>>
        /\ FTTypeOK /\ j \in DOMAIN rjob /\ sc' = sc
    BY <1>2, <1>3, <1>6
  <2> QED BY <1>3, <1>4, <2>1, ReaderLife
<1>11. Tokens(j)'
  <2>1. ~Has(Data(j)', j, {"digest"}) /\ ~Has(Back(j)', j, {"ask", "confirm"})
    BY <1>3, <1>5, <1>7 DEF Has
  <2>2. /\ Once(Data(j)', j, {"digest"}) /\ Trails(Data(j)', j)
        /\ Once(Back(j)', j, {"ask", "confirm"})
    BY <2>1, NoneOnce, NoneTrails
  <2> QED BY <1>1, <1>6, <1>7, <1>10, <2>1, <2>2 DEF Tokens, Has
<1>12. Parts(j)'
  <2>1. OffsetFirst(Data(j)', j) BY <1>4, <1>5 DEF Parts, Gave
  <2> QED BY <1>1, <1>2, <1>3, <1>4, <1>5, <1>6, <1>10, <2>1
          DEF Parts, IsFile, Size
<1>13. ASSUME JobInv(j) PROVE JobInv(j)'
  <2>1. /\ \A i : Size(j, i)' = Size(j, i) /\ Whole(<<j, i>>)' = Whole(<<j, i>>)
        /\ \A i \in DOMAIN sc.files[j] : Orig(<<j, i>>)' <=> Orig(<<j, i>>)
        /\ \A b : Untouched(j, b) => Untouched(j, b)'
        /\ \A b : UnsentAt(j, b) => UnsentAt(j, b)'
        /\ \A a, b : Gap(j, a, b) => Gap(j, a, b)'
        /\ \A b : WholeBefore(j, b) => WholeBefore(j, b)'
        /\ \A i : Blank(j, i) => Blank(j, i)'
        /\ \A i, n : Holds(j, i, n) => Holds(j, i, n)'
        /\ \A i : Passed(j, i) => Passed(j, i)'
        /\ \A i, n : Received(j, i, n) => Received(j, i, n)'
        /\ Torn(j)'
    BY <1>1, <1>2, <1>13, FaultedFacts DEF JobInv
  <2>2. Touch(j)' BY <1>1, <1>2, <1>6, <1>10, <1>13, <2>1 DEF JobInv, Touch
  <2>3. Resumed(j)' BY <1>1, <1>2, <1>6, <1>10, <1>13 DEF JobInv, Resumed
  <2>4. Chain(j)'
    <3>1. \A m : StartOK(j, m) => StartOK(j, m)'
      BY <1>1, <1>2, <1>10, <2>1 DEF StartOK, Begins
    <3>2. \A m, y : FollowOK(j, m, y) => FollowOK(j, m, y)'
      BY <1>1, <1>2, <2>1 DEF FollowOK, Begins
    <3>3. \A y : LastOK(j, y) => LastOK(j, y)'
      BY <1>1, <1>2, <1>6, <2>1 DEF LastOK, Go
    <3>4. NoneOK(j) => NoneOK(j)'
      BY <1>1, <1>2, <1>6, <1>10, <2>1 DEF NoneOK, Go
    <3> QED BY <1>1, <1>2, <1>6, <1>10, <1>13, <1>5, <3>1, <3>2, <3>3, <3>4,
               OpensSent
            DEF JobInv, Chain, SameItems
  <2>5. Reached(j)'
    BY <1>1, <1>2, <1>3, <1>5, <1>6, <1>10, <1>13 DEF JobInv, Reached
  <2>6. Answers(j)' BY <1>3, <1>5, <1>7, <1>10 DEF Answers, Has
  <2>7. Keeps(j)'
    BY <1>1, <1>2, <1>3, <1>5, <1>6, <1>10, <1>13, <2>1 DEF JobInv, Keeps
  <2>8. Ending(j)'
    <3>1. IF sc.upload[j] THEN s2c' = s2c ELSE Data(j) = s2c /\ Data(j)' = s2c'
      BY <1>3, <1>5 DEF ReaderSent, Data
    <3>2. Undated(j)' BY <1>1, <1>2, <1>6 DEF Undated
    <3>3. CASE sc.upload[j]
      BY <1>1, <1>2, <1>10, <1>13, <2>1, <3>1, <3>3 DEF JobInv, Ending, AllWhole
    <3>4. CASE ~sc.upload[j]
      BY <1>1, <1>2, <1>3, <1>5, <1>6, <1>7, <1>10, <1>13, <2>1, <3>1, <3>2,
         <3>4
      DEF JobInv, Ending, AllWhole, Has
    <3> QED BY <1>5, <3>3, <3>4
  <2>9. Leftover(j)' BY <1>1, <1>2 DEF Leftover
  <2> QED BY <2>1, <2>2, <2>3, <2>4, <2>5, <2>6, <2>7, <2>8, <2>9 DEF JobInv
<1>14. Sane' => Sane BY <1>1, <1>2 DEF Sane
<1> QED BY <1>1, <1>2, <1>4, <1>8, <1>9, <1>10, <1>11, <1>12, <1>13, <1>14,
           OwnStep

-----------------------------------------------------------------------------
(* It reads. *)

\* A side that waits for no file has asked nothing.
LEMMA NoneAsked ==
    ASSUME FTTypeOK, NEW j \in Jobs, Tokens(j), j \in DOMAIN rjob,
           sc.od => \A k : IsFile(j, k) => ~WaitsFor(j, k)
    PROVE  /\ ~Has(Data(j), j, {"digest"})
           /\ ~Has(Back(j), j, {"ask", "confirm"})
           /\ ~Shown(j)
<1>1. /\ \A m \in Sent(Data(j), j) : m.t = "digest" => sc.od /\ IsFile(j, m.k)
      /\ \A m \in Sent(Back(j), j) : m.t \in {"ask", "confirm"}
                                        => sc.od /\ IsFile(j, m.k)
      /\ Shown(j) => sc.od /\ IsFile(j, dialog[2])
  BY DEF FTTypeOK, TypeQueues, TypeUser, DataOK, BackOK, Shown
<1>2. /\ \A m \in Sent(Data(j), j) : m.t = "digest" => WaitsFor(j, m.k)
      /\ \A m \in Sent(Back(j), j) : m.t \in {"ask", "confirm"} => WaitsFor(j, m.k)
      /\ Shown(j) => WaitsFor(j, dialog[2])
  BY DEF Tokens
<1> QED BY <1>1, <1>2 DEF Has

\* The side that reads adds x to the chain.
LEMMA AppendChain ==
    ASSUME NEW j, NEW x, Chain(j), Gave(Data(j), Data(j)', j, x), Item(x, j),
           SameFacts(j), Live(j)' <=> Live(j), At(j)' = At(j),
           Open(j)' <=> Open(j),
           j \in DOMAIN rjob, sc' = sc, faulted \subseteq faulted',
           Live(j) /\ Clear(Data(j), j) => StartOK(j, x),
           \A y : Closes(Data(j), j, y) => FollowOK(j, y, x),
           LastOK(j, x)'
    PROVE  Chain(j)'
<1>1. \A m : StartOK(j, m) => StartOK(j, m)'
  BY DEF StartOK, Begins, SameFacts, SameDisk
<1>2. \A m, y : FollowOK(j, m, y) => FollowOK(j, m, y)'
  BY DEF FollowOK, Begins, SameFacts, SameDisk
<1>3. ASSUME NEW m, Live(j), Opens(Data(j)', j, m) PROVE StartOK(j, m)
  BY <1>3, OpensSent DEF Gave, Chain
<1>4. ASSUME NEW m, NEW y, Follows(Data(j)', j, m, y) PROVE FollowOK(j, m, y)
  <2>1. Follows(Data(j), j, m, y) \/ (y = x /\ Closes(Data(j), j, m))
    BY <1>4 DEF Gave
  <2>2. CASE Follows(Data(j), j, m, y) BY <2>2, OpensSent DEF Chain
  <2> QED BY <2>1, <2>2
<1>5. ASSUME NEW m, Closes(Data(j)', j, m) PROVE LastOK(j, m)'
  BY <1>5 DEF Gave
<1>6. ~Clear(Data(j)', j) BY DEF Gave
<1> QED BY <1>1, <1>2, <1>3, <1>4, <1>5, <1>6 DEF Chain

\* The side that reads has passed file k, or stays at it.
LEMMA UntouchedNext ==
    ASSUME sc \in Scenarios, NEW j \in Jobs, NEW k \in Nat,
           Untouched(j, k), UnsentAt(j, k)
    PROVE  Untouched(j, k + 1) /\ UnsentAt(j, k + 1)
<1>1. \A i \in DOMAIN sc.files[j] : i \in Nat BY Scenario
<1> QED BY <1>1 DEF Untouched, UnsentAt

\* What a tick of the timer does with the file r is at.
MarkerSent(j, r, s, x) ==
    /\ Size(j, r.file_num) = Dir /\ s = NextFile(r) /\ x.t = "block" /\ x.v = 0
DigestSent(j, r, o, s, x) ==
    /\ Size(j, r.file_num) # Dir /\ sc.od /\ ~o.confirmed /\ ~o.waiting
    /\ <<j, r.file_num>> \notin sc.undated
    /\ s = [o EXCEPT !.waiting = TRUE]
    /\ x.t = "digest" /\ x.v = IF r.resume THEN 1 ELSE 0
EndSent(j, r, o, s, x) ==
    /\ Size(j, r.file_num) # Dir /\ (sc.od => o.confirmed)
    /\ o.pos > Size(j, r.file_num)
    /\ s = NextFile(o) /\ x.t = "block" /\ x.v = 0
BlockSent(j, r, o, s, x) ==
    /\ Size(j, r.file_num) # Dir /\ (sc.od => o.confirmed)
    /\ o.pos <= Size(j, r.file_num)
    /\ s = [o EXCEPT !.pos = @ + 1] /\ x.t = "block" /\ x.v = o.pos

\* A tick of the timer does one of the four.
LEMMA ReadJobIs ==
    ASSUME Inv, NEW side \in {"client", "server"}, NEW j \in Jobs,
           ReadJob(side, j)
    PROVE  \E x : /\ ReaderSent(j, x) /\ x.k = rjob[j].file_num
                  /\ rjob' = [rjob EXCEPT ![j] = rjob'[j]]
                  /\ LET r == rjob[j]
                         o == Opened(r)
                         s == rjob'[j]
                     IN  \/ MarkerSent(j, r, s, x) \/ DigestSent(j, r, o, s, x)
                         \/ EndSent(j, r, o, s, x) \/ BlockSent(j, r, o, s, x)
<1>1. PICK r, k, o : r = rjob[j] /\ k = r.file_num /\ o = Opened(r) OBVIOUS
<1>2. /\ FTTypeOK /\ j \in DOMAIN rjob /\ side = ReadSide(j) /\ r \in ReadJobs
      /\ k \in DOMAIN sc.files[j] /\ k \in Nat /\ sc' = sc
  BY <1>1, CurrentIs, ReadIs DEF Inv, ReadJob
<1>3. /\ o \in ReadJobs /\ o.pos \in Nat /\ o.pos \in Int
      /\ Size(j, k) \in Int
  BY <1>1, <1>2, OpenedIs, ReadIs, Scenario DEF FTTypeOK, TypeUser
<1>4. "block" \in Kinds /\ "digest" \in Kinds /\ 0 \in Int /\ 1 \in Int
  BY DEF Kinds
<1>5. CASE /\ Size(j, k) = Dir /\ rjob' = [rjob EXCEPT ![j] = NextFile(r)]
           /\ ToPeer(side, <<Msg("block", j, k, 0)>>)
  <2>1. ToPeer(ReadSide(j), <<Msg("block", j, k, 0)>>) BY <1>2, <1>5
  <2>2. PICK x : ReaderSent(j, x) /\ x.t = "block" /\ x.k = k /\ x.v = 0
    BY <1>2, <1>4, <2>1, ReaderSends
  <2> QED BY <1>1, <1>2, <1>5, <2>2 DEF MarkerSent
<1>6. CASE /\ Size(j, k) # Dir /\ sc.od /\ ~o.confirmed /\ ~o.waiting
           /\ <<j, k>> \notin sc.undated
           /\ rjob' = [rjob EXCEPT ![j] = [o EXCEPT !.waiting = TRUE]]
           /\ ToPeer(side, <<Msg("digest", j, k, IF r.resume THEN 1 ELSE 0)>>)
  <2>1. PICK v \in Int : v = IF r.resume THEN 1 ELSE 0 BY <1>4
  <2>2. ToPeer(ReadSide(j), <<Msg("digest", j, k, v)>>) BY <1>2, <1>6, <2>1
  <2>3. PICK x : ReaderSent(j, x) /\ x.t = "digest" /\ x.k = k /\ x.v = v
    BY <1>2, <1>4, <2>2, ReaderSends
  <2> QED BY <1>1, <1>2, <1>6, <2>1, <2>3 DEF DigestSent
<1>7. CASE /\ Size(j, k) # Dir /\ (sc.od => o.confirmed) /\ o.pos > Size(j, k)
           /\ rjob' = [rjob EXCEPT ![j] = NextFile(o)]
           /\ ToPeer(side, <<Msg("block", j, k, 0)>>)
  <2>1. ToPeer(ReadSide(j), <<Msg("block", j, k, 0)>>) BY <1>2, <1>7
  <2>2. PICK x : ReaderSent(j, x) /\ x.t = "block" /\ x.k = k /\ x.v = 0
    BY <1>2, <1>4, <2>1, ReaderSends
  <2> QED BY <1>1, <1>2, <1>7, <2>2 DEF EndSent
<1>8. CASE /\ Size(j, k) # Dir /\ (sc.od => o.confirmed) /\ o.pos <= Size(j, k)
           /\ rjob' = [rjob EXCEPT ![j] = [o EXCEPT !.pos = @ + 1]]
           /\ ToPeer(side, <<Msg("block", j, k, o.pos)>>)
  <2>1. ToPeer(ReadSide(j), <<Msg("block", j, k, o.pos)>>) BY <1>2, <1>8
  <2>2. PICK x : ReaderSent(j, x) /\ x.t = "block" /\ x.k = k /\ x.v = o.pos
    BY <1>2, <1>3, <1>4, <2>1, ReaderSends
  <2> QED BY <1>1, <1>2, <1>8, <2>2 DEF BlockSent
<1>9. IF Size(j, k) = Dir
      THEN /\ rjob' = [rjob EXCEPT ![j] = NextFile(r)]
           /\ ToPeer(side, <<Msg("block", j, k, 0)>>)
      ELSE IF sc.od /\ ~o.confirmed
      THEN /\ ~o.waiting /\ <<j, k>> \notin sc.undated
           /\ rjob' = [rjob EXCEPT ![j] = [o EXCEPT !.waiting = TRUE]]
           /\ ToPeer(side, <<Msg("digest", j, k, IF r.resume THEN 1 ELSE 0)>>)
      ELSE IF o.pos > Size(j, k)
      THEN /\ rjob' = [rjob EXCEPT ![j] = NextFile(o)]
           /\ ToPeer(side, <<Msg("block", j, k, 0)>>)
      ELSE /\ rjob' = [rjob EXCEPT ![j] = [o EXCEPT !.pos = @ + 1]]
           /\ ToPeer(side, <<Msg("block", j, k, o.pos)>>)
  BY <1>1 DEF ReadJob
<1> HIDE <1>1
<1>10. o.pos > Size(j, k) \/ o.pos <= Size(j, k) BY <1>3
<1> QED BY <1>5, <1>6, <1>7, <1>8, <1>9, <1>10 DEF ToPeer

\* What the job is then.
ReadTo(j, r, s, x) ==
    \/ /\ x.t = "block" /\ x.v = 0 /\ s.file_num = r.file_num + 1 /\ s.pos = 0
       /\ ~s.confirmed /\ ~s.waiting
       /\ \/ Size(j, r.file_num) = Dir
          \/ /\ Size(j, r.file_num) # Dir /\ (sc.od => r.confirmed /\ r.pos > 0)
             /\ IF r.pos = 0 THEN Size(j, r.file_num) = 0
                ELSE r.pos > Size(j, r.file_num)
    \/ /\ x.t = "digest" /\ Size(j, r.file_num) # Dir /\ s.file_num = r.file_num
       /\ sc.od /\ s.pos = 1 /\ ~s.confirmed /\ s.waiting
       /\ <<j, r.file_num>> \notin sc.undated
       /\ r.pos = 0 \/ (~r.confirmed /\ ~r.waiting)
       /\ x.v = IF r.resume THEN 1 ELSE 0
    \/ /\ x.t = "block" /\ x.v > 0 /\ Size(j, r.file_num) # Dir
       /\ x.v = (IF r.pos = 0 THEN 1 ELSE r.pos) /\ x.v <= Size(j, r.file_num)
       /\ s.file_num = r.file_num /\ s.pos = x.v + 1
       /\ sc.od => r.confirmed /\ r.pos > 0
       /\ r.pos > 0 => s.confirmed = r.confirmed

\* Each of the four leads there.
LEMMA ReadToIs ==
    ASSUME FTTypeOK, NEW j \in Jobs, Tokens(j), j \in DOMAIN rjob,
           NEW r \in ReadJobs,
           NEW x, NEW s, r = rjob[j], r.file_num \in DOMAIN sc.files[j],
           \/ MarkerSent(j, r, s, x) \/ DigestSent(j, r, Opened(r), s, x)
           \/ EndSent(j, r, Opened(r), s, x) \/ BlockSent(j, r, Opened(r), s, x)
    PROVE  ReadTo(j, r, s, x) /\ s \in ReadJobs /\ SameRead(r, s)
           /\ s.skipped = r.skipped
<1>1. PICK o : o = Opened(r) OBVIOUS
<1>2. /\ o \in ReadJobs /\ SameRead(r, o) /\ o.file_num = r.file_num
      /\ o.skipped = r.skipped /\ o.strategy = r.strategy
      /\ IF r.pos = 0 THEN o.pos = 1 /\ ~o.confirmed /\ ~o.waiting ELSE o = r
  BY <1>1, OpenedIs
<1>3. /\ r.pos \in Nat /\ o.pos \in Nat /\ r.file_num \in Nat
      /\ Size(j, r.file_num) \in Int
      /\ Size(j, r.file_num) # Dir => Size(j, r.file_num) >= 0
  BY <1>2, ReadIs, Scenario DEF FTTypeOK, TypeUser
<1>4. CASE MarkerSent(j, r, s, x)
  <2>1. /\ s \in ReadJobs /\ SameRead(r, s) /\ s.file_num = r.file_num + 1
        /\ s.pos = 0 /\ ~s.confirmed /\ ~s.waiting /\ s.skipped = r.skipped
    BY <1>4, NextFileIs DEF MarkerSent
  <2> QED BY <1>4, <2>1 DEF MarkerSent, ReadTo
<1>5. CASE DigestSent(j, r, o, s, x)
  <2>1. \A q \in ReadJobs :
           LET p == [q EXCEPT !.waiting = TRUE] IN
           /\ p.file_num = q.file_num /\ p.pos = q.pos
           /\ p.confirmed = q.confirmed /\ p.waiting = TRUE /\ p.error = q.error
           /\ p.last = q.last /\ p.resume = q.resume /\ p.skipped = q.skipped
    BY DEF ReadJobs
  <2>2. \A q \in ReadJobs : [q EXCEPT !.waiting = TRUE] \in ReadJobs
    BY DEF ReadJobs
  <2>3. s = [o EXCEPT !.waiting = TRUE] BY <1>5 DEF DigestSent
  <2>4. s \in ReadJobs BY <1>2, <2>2, <2>3
  <2>5. /\ s.file_num = o.file_num /\ s.pos = o.pos
        /\ s.confirmed = o.confirmed /\ s.waiting = TRUE /\ s.error = o.error
        /\ s.last = o.last /\ s.resume = o.resume /\ s.skipped = o.skipped
    BY <1>2, <2>1, <2>3
  <2>6. /\ Size(j, r.file_num) # Dir /\ sc.od /\ ~o.confirmed /\ ~o.waiting
        /\ <<j, r.file_num>> \notin sc.undated
        /\ x.t = "digest" /\ x.v = IF r.resume THEN 1 ELSE 0
    BY <1>5 DEF DigestSent
  <2>7. r.pos <= 1 BY <1>2, <1>3, <2>6 DEF Tokens, Go
  <2>8. o.pos = 1 BY <1>2, <1>3, <2>7
  <2>9. r.pos = 0 \/ (~r.confirmed /\ ~r.waiting) BY <1>2, <2>6
  <2>10. ReadTo(j, r, s, x) BY <1>2, <2>5, <2>6, <2>8, <2>9 DEF ReadTo
  <2>11. SameRead(r, s) BY <1>2, <2>5 DEF SameRead
  <2> QED BY <1>2, <2>4, <2>5, <2>10, <2>11
<1>6. CASE EndSent(j, r, o, s, x)
  <2>1. /\ s \in ReadJobs /\ SameRead(o, s) /\ s.file_num = o.file_num + 1
        /\ s.pos = 0 /\ ~s.confirmed /\ ~s.waiting /\ s.skipped = o.skipped
    BY <1>2, <1>6, NextFileIs DEF EndSent
  <2>2. /\ Size(j, r.file_num) # Dir /\ (sc.od => o.confirmed)
        /\ o.pos > Size(j, r.file_num) /\ x.t = "block" /\ x.v = 0
    BY <1>6 DEF EndSent
  <2>3. ReadTo(j, r, s, x) BY <1>2, <1>3, <2>1, <2>2 DEF ReadTo
  <2> QED BY <1>2, <2>1, <2>3 DEF SameRead
<1>7. CASE BlockSent(j, r, o, s, x)
  <2>1. \A q \in ReadJobs, n \in Nat :
           LET p == [q EXCEPT !.pos = n] IN
           /\ p.file_num = q.file_num /\ p.pos = n
           /\ p.confirmed = q.confirmed /\ p.waiting = q.waiting
           /\ p.error = q.error
           /\ p.last = q.last /\ p.resume = q.resume /\ p.skipped = q.skipped
    BY DEF ReadJobs
  <2>2. \A q \in ReadJobs, n \in Nat : [q EXCEPT !.pos = n] \in ReadJobs
    BY DEF ReadJobs
  <2>3. PICK n \in Nat : n = o.pos + 1 BY <1>3
  <2>4. s = [o EXCEPT !.pos = n] BY <1>2, <1>7, <2>3 DEF BlockSent, ReadJobs
  <2>5. s \in ReadJobs BY <1>2, <2>2, <2>4
  <2>6. /\ s.file_num = o.file_num /\ s.pos = n
        /\ s.confirmed = o.confirmed /\ s.error = o.error
        /\ s.last = o.last /\ s.resume = o.resume /\ s.skipped = o.skipped
    BY <1>2, <2>1, <2>4
  <2>7. /\ Size(j, r.file_num) # Dir /\ (sc.od => o.confirmed)
        /\ o.pos <= Size(j, r.file_num) /\ x.t = "block" /\ x.v = o.pos
    BY <1>7 DEF BlockSent
  <2>8. ReadTo(j, r, s, x) BY <1>2, <1>3, <2>3, <2>6, <2>7 DEF ReadTo
  <2> QED BY <1>2, <2>5, <2>6, <2>8 DEF SameRead
<1> QED BY <1>1, <1>4, <1>5, <1>6, <1>7

\* What the side that reads sends continues the chain.
LEMMA ReadChain ==
    ASSUME Inv, NEW j \in Jobs, JobInv(j), j \in DOMAIN rjob, NEW r, NEW s,
           NEW x,
           r = rjob[j], s = rjob'[j], r \in ReadJobs, s \in ReadJobs,
           r.file_num \in DOMAIN sc.files[j],
           ReadTo(j, r, s, x), ReaderSent(j, x), x.k = r.file_num,
           SameFacts(j), sc' = sc, faulted' = faulted,
           ~Has(Back(j), j, {"ask", "confirm"}),
           Live(j)' <=> Live(j), At(j)' = At(j), Open(j)' <=> Open(j)
    PROVE  Chain(j)'
<1> DEFINE k == r.file_num
<1>1. /\ FTTypeOK /\ k \in Nat /\ r.pos \in Nat /\ At(j) \in Int
      /\ Size(j, k) \in Int /\ (Size(j, k) # Dir => Size(j, k) >= 0)
      /\ sc \in Scenarios
  BY ReadIs, WriteIs, Scenario DEF Inv, At, FTTypeOK, TypeUser, TypeJobs
<1>2. Tokens(j) /\ Life(j) BY DEF Inv
<1>3. ~Has(Back(j), j, {"confirm"}) BY DEF Has
<1>4. ~Go(j) => r.pos <= 1 BY <1>2 DEF Tokens
<1>5. /\ Gave(Data(j), Data(j)', j, x) /\ Back(j)' = Back(j) /\ x.j = j
  BY DEF ReaderSent
<1>6. Torn(j) /\ Chain(j) BY DEF JobInv
<1>7. CASE x.t = "digest"
  <2>1. /\ s.file_num = k /\ s.pos = 1 /\ ~s.confirmed /\ s.waiting /\ sc.od
        /\ r.pos = 0 \/ (~r.confirmed /\ ~r.waiting)
    BY <1>7 DEF ReadTo
  <2>2. r.pos <= 1 BY <1>1, <1>4, <2>1 DEF Go
  <2>3. SameItems(Data(j), Data(j)', j) BY <1>5, <1>7 DEF Gave, Item
  <2>4. \A m : StartOK(j, m) => StartOK(j, m)'
    BY DEF StartOK, Begins, SameFacts, SameDisk
  <2>5. \A m, y : FollowOK(j, m, y) => FollowOK(j, m, y)'
    BY DEF FollowOK, Begins, SameFacts, SameDisk
  <2>6. ASSUME NEW m \in Sent(Data(j), j), LastOK(j, m) PROVE LastOK(j, m)'
    <3>1. ~(Go(j) /\ r.pos > 0) BY <1>1, <2>1 DEF Go
    <3> QED BY <2>1, <2>6, <3>1 DEF LastOK, SameFacts
  <2>7. NoneOK(j) => NoneOK(j)'
    <3>1. ~Go(j)' BY <2>1 DEF Go
    <3>2. ~(Go(j) /\ r.pos > 0) /\ ~(Go(j) /\ r.pos > 1)
      BY <1>1, <2>1, <2>2 DEF Go
    <3> QED BY <1>3, <2>1, <3>1, <3>2 DEF NoneOK, SameFacts
  <2>8. \A m : Opens(Data(j), j, m) \/ Closes(Data(j), j, m)
                  => m \in Sent(Data(j), j)
    BY OpensSent
  <2>9. \A m, y : Follows(Data(j), j, m, y)
                     => m \in Sent(Data(j), j) /\ y \in Sent(Data(j), j)
    BY OpensSent
  <2> QED BY <1>6, <2>3, <2>4, <2>5, <2>6, <2>7, <2>8, <2>9 DEF Chain, SameItems
<1>8. CASE x.t = "block"
  <2>1. Item(x, j) BY <1>5, <1>8 DEF Item
  <2>2. <<j, k>> \notin kept
    <3>1. <<j, k>> \in kept => Size(j, k) # Dir /\ sc.od
      BY <1>1 DEF FTTypeOK, TypeHistory, IsFile
    <3>2. Size(j, k) # Dir /\ sc.od => r.confirmed BY <1>8 DEF ReadTo
    <3>3. r.confirmed => <<j, k>> \notin kept BY DEF JobInv, Keeps
    <3> QED BY <3>1, <3>2, <3>3
  <2>3. Size(j, k) # Dir => Go(j) BY <1>8 DEF ReadTo, Go
  <2>4. r.pos <= 1 \/ <<j, k>> \in faulted => Begins(j, x)
    BY <1>1, <1>8 DEF ReadTo, Begins, Dir
  <2>5. Size(j, k) = Dir => disk[<<j, k>>].part = None BY <1>6 DEF Torn
  <2>6. ASSUME Live(j), Clear(Data(j), j) PROVE StartOK(j, x)
    <3>1. NoneOK(j) BY <1>6, <2>6 DEF Chain
    <3>2. CASE /\ k > At(j) /\ Passed(j, At(j)) /\ Gap(j, At(j), k)
               /\ r.pos <= 1 \/ <<j, k>> \in faulted
      BY <2>4, <3>2 DEF StartOK
    <3>3. CASE /\ k = At(j) /\ ~Open(j) /\ (Go(j) => Blank(j, k))
               /\ r.pos <= 1 \/ <<j, k>> \in faulted
      <4>1. Blank(j, k) BY <2>2, <2>3, <2>5, <3>3 DEF Blank, Empty
      <4> QED BY <2>4, <3>3, <4>1 DEF StartOK
    <3>4. CASE /\ k = At(j) /\ Open(j) /\ Go(j) /\ Received(j, k, r.pos - 1)
               /\ r.pos > 0
      <4>1. Size(j, k) # Dir BY <3>4 DEF Received, IsFile
      <4>2. CASE x.v = 0
        <5>1. r.pos > Size(j, k) BY <1>1, <1>8, <3>4, <4>1, <4>2 DEF ReadTo
        <5>2. \/ <<j, k>> \in faulted
              \/ disk[<<j, k>>].part # None /\ Len(disk[<<j, k>>].part) = r.pos - 1
          BY <3>4 DEF Received
        <5>3. <<j, k>> \notin faulted => Len(disk[<<j, k>>].part) <= Size(j, k)
          BY <1>6, <5>2 DEF Torn, IsPrefixOf
        <5>4. <<j, k>> \notin faulted => Len(disk[<<j, k>>].part) = Size(j, k)
          BY <1>1, <5>1, <5>2, <5>3
        <5>5. Received(j, k, Size(j, k)) BY <3>4, <5>2, <5>4 DEF Received
        <5> QED BY <1>8, <3>4, <4>1, <4>2, <5>5 DEF StartOK
      <4>3. CASE x.v # 0
        <5>1. x.v = r.pos BY <1>1, <1>8, <3>4, <4>1, <4>3 DEF ReadTo
        <5> QED BY <1>8, <3>4, <4>1, <4>3, <5>1 DEF StartOK
      <4> QED BY <4>2, <4>3
    <3> QED BY <1>1, <1>3, <3>1, <3>2, <3>3, <3>4 DEF NoneOK
  <2>7. ASSUME NEW y, Closes(Data(j), j, y) PROVE FollowOK(j, y, x)
    <3>1. y \in Sent(Data(j), j) /\ Item(y, j) BY <2>7, OpensSent
    <3>2. LastOK(j, y) BY <1>6, <2>7, <3>1 DEF Chain
    <3>3. y.v \in Int /\ y.k \in Nat
      BY <1>1, <3>1, MessageIs, InSent DEF FTTypeOK, TypeQueues, Data
    <3>4. y.t # "done" BY <1>2, <3>1 DEF Life, LifeEnd, Has
    <3>5. CASE /\ k > y.k /\ r.pos <= 1 /\ Gap(j, y.k, k)
               /\ (y.t = "block" /\ y.v = 0) \/ <<j, y.k>> \in faulted
      BY <2>4, <3>5 DEF FollowOK
    <3>6. CASE k = y.k /\ y.v > 0 /\ <<j, k>> \in faulted
      BY <1>8, <3>4, <3>6 DEF FollowOK
    <3>7. CASE k = y.k /\ y.v > 0 /\ r.pos = y.v + 1 /\ Go(j)
      <4>1. DataOK(j, y) BY <1>1, <3>1 DEF FTTypeOK, TypeQueues
      <4>2. Size(j, k) # Dir
        <5>1. y.t \in {"block", "confirm"} BY <3>1, <3>4 DEF Item
        <5>2. y.t = "confirm" => Size(j, y.k) # Dir BY <4>1 DEF DataOK, IsFile
        <5>3. y.t = "block" => y.v <= Size(j, y.k) BY <3>7, <4>1 DEF DataOK
        <5> QED BY <3>3, <3>7, <5>1, <5>2, <5>3 DEF Dir
      <4>3. x.v = y.v + 1 \/ (x.v = 0 /\ y.v >= Size(j, k))
        BY <1>1, <1>8, <3>3, <3>7, <4>2 DEF ReadTo
      <4> QED BY <1>8, <3>4, <3>7, <4>3 DEF FollowOK
    <3> QED BY <3>2, <3>5, <3>7, <3>6 DEF LastOK
  <2>8. LastOK(j, x)'
    <3>1. Gap(j, k, k + 1)
      BY <1>1, Scenario DEF Gap
    <3>2. CASE s.file_num = k + 1 /\ s.pos = 0 /\ x.v = 0
      BY <1>1, <1>8, <3>1, <3>2 DEF LastOK, SameFacts
    <3>3. CASE /\ s.file_num = k /\ x.v > 0 /\ s.pos = x.v + 1 /\ Go(j)'
               /\ s.pos > 0
      BY <3>3 DEF LastOK
    <3>4. s.pos \in Nat BY ReadIs
    <3> QED BY <1>1, <1>8, <3>2, <3>3, <3>4 DEF ReadTo, Go
  <2> QED BY <1>5, <1>6, <2>1, <2>6, <2>7, <2>8, AppendChain
<1> QED BY <1>7, <1>8 DEF ReadTo

\* A tick of the file timer.
LEMMA ReadJobStep ==
    ASSUME Inv, NEW side \in {"client", "server"}, NEW j \in Jobs,
           ReadJob(side, j)
    PROVE  Inv'
<1>1. PICK x, r, k, s :
         /\ ReaderSent(j, x) /\ x.k = rjob[j].file_num
         /\ rjob' = [rjob EXCEPT ![j] = s]
         /\ r = rjob[j] /\ k = r.file_num /\ s = rjob'[j]
         /\ \/ MarkerSent(j, r, s, x) \/ DigestSent(j, r, Opened(r), s, x)
            \/ EndSent(j, r, Opened(r), s, x) \/ BlockSent(j, r, Opened(r), s, x)
  BY ReadJobIs
<1>2. /\ FTTypeOK /\ j \in DOMAIN rjob /\ up /\ r \in ReadJobs
      /\ ~Has(c2s, j, {"send"})
      /\ state[j] \notin {"new", "saved", "gone", "added"}
      /\ UNCHANGED <<sc, up, breaks, wjob, reads, disk, dialog, saved, state,
                     from, kept, lost, faulted>>
      /\ k \in DOMAIN sc.files[j] /\ sc' = sc /\ k \in Nat /\ r.pos \in Nat
  BY <1>1, CurrentIs, ReadIs DEF Inv, ReadJob, history
<1>3. Life(j) /\ Tokens(j) /\ Parts(j) /\ (Sane => JobInv(j)) BY DEF Inv
<1>4. ReadTo(j, r, s, x) /\ s \in ReadJobs /\ SameRead(r, s) /\ s.skipped = r.skipped
  BY <1>1, <1>2, <1>3, ReadToIs
<1>5. /\ Gave(Data(j), Data(j)', j, x) /\ Back(j)' = Back(j) /\ x.j = j
      /\ x.k = k
      /\ Sent(Data(j)', j) = Sent(Data(j), j) \cup {x}
      /\ sc' = sc /\ sc.upload[j] \in BOOLEAN
      /\ Size(j, k) \in Int /\ (Size(j, k) # Dir => Size(j, k) >= 0)
  BY <1>1, <1>2, Scenario DEF ReaderSent, FTTypeOK, TypeUser
<1>6. /\ DOMAIN rjob' = DOMAIN rjob
      /\ \A i \in DOMAIN rjob : i # j => rjob'[i] = rjob[i]
  BY <1>1, <1>2
<1>7. /\ ~Has(Data(j), j, {"digest"}) /\ ~Has(Back(j), j, {"ask", "confirm"})
      /\ ~Shown(j)
  <2>1. sc.od => \A i : IsFile(j, i) => ~WaitsFor(j, i)
    BY <1>1, <1>2, <1>4 DEF WaitsFor, ReadTo, IsFile
  <2> QED BY <1>2, <1>3, <2>1, NoneAsked
<1>8. /\ x.t \in {"block", "digest"} /\ s.file_num \in {k, k + 1}
      /\ s.file_num \in Nat
      /\ x.t = "digest" => x.v \in {0, 1}
      /\ x.t = "block" => x.v \in Nat
      /\ s.last = r.last /\ s.resume = r.resume /\ s.error = r.error
  BY <1>1, <1>2, <1>4 DEF ReadTo, SameRead
<1>9. FTTypeOK'
  <2>1. TypeJobs' BY <1>1, <1>2, <1>4, <1>6, JobsStep DEF FTTypeOK, TypeJobs
  <2>2. DataOK(j, x)
    BY <1>1, <1>2, <1>4, <1>5, <1>8 DEF DataOK, IsFile, ReadTo
  <2> QED BY <1>1, <1>2, <1>6, <2>1, <2>2, ReaderQueues, UserSame, HistorySame,
             FilesSame, ReadsSame DEF FTTypeOK
<1>10. ASSUME NEW i \in Jobs \ {j} PROVE Frame(i)
  BY <1>1, <1>2, <1>6 DEF Frame, Shown, ReaderSent
<1>11. /\ Life(j)' /\ (Live(j)' <=> Live(j)) /\ At(j)' = At(j)
       /\ (Open(j)' <=> Open(j)) /\ (Shown(j)' <=> Shown(j))
       /\ Has(c2s', j, {"send"}) => Has(c2s, j, {"send"})
       /\ Has(c2s, j, {"cancel"}) => Has(c2s', j, {"cancel"})
  BY <1>1, <1>2, <1>3, <1>6, <1>8, ReaderLife
<1>12. Tokens(j)'
  <2>1. ~Has(Back(j)', j, {"ask", "confirm"}) /\ ~Shown(j)' BY <1>5, <1>7, <1>11
  <2>2. Once(Back(j)', j, {"ask", "confirm"}) BY <2>1, NoneOnce
  <2>3. Once(Data(j)', j, {"digest"}) /\ Trails(Data(j)', j)
    <3>1. Once(Data(j), j, {"digest"}) /\ Trails(Data(j), j)
      BY <1>7, NoneOnce, NoneTrails
    <3> QED BY <1>5, <1>7, <3>1 DEF Gave
  <2>4. ~Go(j)' => s.pos <= 1
    BY <1>1, <1>2, <1>4, <1>5 DEF Go, ReadTo
  <2>5. \A m \in Sent(Data(j)', j) :
           m.t = "digest" => /\ WaitsFor(j, m.k)'
                             /\ m.v = IF s.resume THEN 1 ELSE 0
    <3>1. \A m \in Sent(Data(j)', j) : m.t = "digest" => m = x
      BY <1>5, <1>7 DEF Has
    <3>2. x.t = "digest" => /\ WaitsFor(j, x.k)'
                            /\ x.v = IF s.resume THEN 1 ELSE 0
      BY <1>1, <1>4, <1>5, <1>8 DEF WaitsFor, ReadTo
    <3> QED BY <3>1, <3>2
  <2> QED BY <1>1, <2>1, <2>2, <2>3, <2>4, <2>5 DEF Tokens, Has
<1>13. Parts(j)'
  <2>1. OffsetFirst(Data(j)', j) BY <1>3, <1>5, <1>8 DEF Parts, Gave, Item
  <2>2. sc.od /\ <<j, s.file_num>> \in sc.undated => ~s.confirmed /\ ~s.waiting
    BY <1>1, <1>2, <1>3, <1>4 DEF Parts, ReadTo
  <2> QED BY <1>1, <1>2, <1>3, <1>5, <1>6, <1>8, <1>11, <2>1, <2>2
          DEF Parts, IsFile, Size, Open
<1>14. ASSUME JobInv(j) PROVE JobInv(j)'
  <2>1. SameFacts(j) BY <1>2, SameDiskFacts DEF SameDisk
  <2>2. Touch(j)'
    <3>1. sc.upload[j] => Untouched(j, s.file_num) /\ UnsentAt(j, s.file_num)
      <4>1. SUFFICES ASSUME sc.upload[j]
            PROVE  Untouched(j, s.file_num) /\ UnsentAt(j, s.file_num)
        OBVIOUS
      <4>2. Untouched(j, k) /\ UnsentAt(j, k)
        BY <1>1, <1>2, <1>14, <4>1 DEF JobInv, Touch
      <4>3. Untouched(j, k + 1) /\ UnsentAt(j, k + 1)
        BY <1>2, <4>2, UntouchedNext DEF FTTypeOK, TypeUser
      <4> QED BY <1>8, <4>2, <4>3
    <3> QED BY <1>1, <1>2, <1>6, <1>11, <1>14, <2>1, <3>1
            DEF JobInv, Touch, SameFacts
  <2>3. Resumed(j)' BY <1>1, <1>2, <1>6, <1>8, <1>11, <1>14 DEF JobInv, Resumed
  <2>4. Torn(j)' BY <1>2, <1>14, <2>1 DEF JobInv, Torn, IsPrefixOf, SameFacts
  <2>5. Chain(j)'
    <3>1. x.k = r.file_num /\ r.file_num \in DOMAIN sc.files[j] BY <1>1, <1>2
    <3> QED BY <1>1, <1>2, <1>4, <1>7, <1>11, <1>14, <2>1, <3>1, ReadChain
  <2>6. Reached(j)'
    <3>1. \A m \in Sent(Data(j), j) : m.k \in Nat /\ m.v \in Int
      BY <1>2, MessageIs, InSent DEF FTTypeOK, TypeQueues, Data
    <3>2. At(j) \in Int BY <1>2, WriteIs DEF At, FTTypeOK, TypeUser, TypeJobs
    <3>3. ASSUME NEW m \in Sent(Data(j), j)
          PROVE  /\ m.t = "block" => \/ m.k < s.file_num
                                     \/ m.k = s.file_num /\ m.v > 0
                 /\ m.t = "confirm" => \/ m.k < s.file_num
                                       \/ /\ m.k = s.file_num /\ m.v >= 0
                                          /\ s.confirmed /\ s.pos > 0
      <4>1. /\ m.t = "block" => m.k < k \/ (m.k = k /\ m.v > 0)
            /\ m.t = "confirm" =>
                  m.k < k \/ (m.k = k /\ m.v >= 0 /\ r.confirmed /\ r.pos > 0)
        BY <1>1, <1>2, <1>14 DEF JobInv, Reached
      <4>2. CASE s.file_num = k + 1 BY <1>2, <3>1, <4>1, <4>2
      <4>3. CASE s.file_num = k
        <5>1. r.confirmed /\ r.pos > 0 => s.confirmed /\ s.pos > 0
          <6>1. SUFFICES ASSUME r.confirmed, r.pos > 0
                PROVE  s.confirmed /\ s.pos > 0
            OBVIOUS
          <6>2. r.file_num # r.file_num + 1 /\ ~(r.pos = 0) BY <1>1, <1>2, <6>1
          <6>3. /\ x.v > 0 /\ x.t = "block" /\ s.pos = x.v + 1
                /\ s.confirmed = r.confirmed
            BY <1>1, <1>4, <4>3, <6>1, <6>2 DEF ReadTo
          <6> QED BY <1>8, <6>1, <6>3
        <5> QED BY <4>1, <4>3, <5>1
      <4> QED BY <1>8, <4>2, <4>3
    <3>4. /\ x.t = "block" => x.k < s.file_num \/ (x.k = s.file_num /\ x.v > 0)
          /\ x.t # "confirm"
      BY <1>1, <1>2, <1>4, <1>8 DEF ReadTo
    <3>5. sc.upload[j] /\ Live(j) => At(j) <= s.file_num
      BY <1>1, <1>2, <1>8, <1>14, <3>2 DEF JobInv, Reached
    <3> QED BY <1>1, <1>2, <1>5, <1>11, <3>3, <3>4, <3>5 DEF Reached
  <2>7. Answers(j)'
    <3>1. ASSUME x.t = "digest", Live(j), Clear(Data(j)', j)
          PROVE DigestOK(j, x)
      <4>1. Clear(Data(j), j) BY <1>5, <3>1 DEF Gave, Item, SameItems
      <4>2. NoneOK(j) BY <1>2, <1>14, <3>1, <4>1 DEF JobInv, Chain
      <4>3. ~(Go(j) /\ r.pos > 0) /\ ~(Go(j) /\ r.pos > 1)
        BY <1>1, <1>2, <1>4, <3>1 DEF ReadTo, Go
      <4>4. ~Has(Back(j), j, {"confirm"}) BY <1>7 DEF Has
      <4> QED BY <1>1, <4>2, <4>3, <4>4 DEF NoneOK, DigestOK
    <3>2. \A m \in Sent(Data(j)', j) : m.t = "digest" => m = x
      BY <1>5, <1>7 DEF Has
    <3> QED BY <1>5, <1>7, <1>11, <3>1, <3>2 DEF Answers, DigestOK, Has
  <2>8. Keeps(j)'
    <3>1. s.confirmed => s.file_num = k BY <1>1, <1>4 DEF ReadTo
    <3>2. x.t = "block" => <<j, k>> \notin kept
      <4>1. <<j, k>> \in kept => Size(j, k) # Dir /\ sc.od
        BY <1>2 DEF FTTypeOK, TypeHistory, IsFile
      <4>2. r.confirmed => <<j, k>> \notin kept
        BY <1>1, <1>2, <1>14 DEF JobInv, Keeps
      <4> QED BY <1>1, <1>4, <4>1, <4>2 DEF ReadTo
    <3>3. s.confirmed => <<j, s.file_num>> \notin kept
      <4>1. s.confirmed => x.t = "block" BY <1>4 DEF ReadTo
      <4> QED BY <3>1, <3>2, <4>1
    <3> QED BY <1>1, <1>2, <1>5, <1>6, <1>8, <1>11, <1>14, <2>1, <3>2, <3>3
            DEF JobInv, Keeps, SameFacts
  <2>9. Ending(j)'
    <3>1. IF sc.upload[j] THEN s2c' = s2c ELSE Data(j) = s2c /\ Data(j)' = s2c'
      BY <1>1, <1>5 DEF ReaderSent, Data
    <3>2. CASE sc.upload[j]
      BY <1>2, <1>11, <1>14, <2>1, <3>1, <3>2
      DEF JobInv, Ending, Undated, AllWhole, SameFacts
    <3>3. CASE ~sc.upload[j]
      <4>1. ~Undated(j)
        <5>1. ASSUME sc.od, <<j, k>> \in sc.undated PROVE FALSE
          <6>1. Size(j, k) # Dir
            BY <1>2, <5>1, Scenario DEF FTTypeOK, TypeUser, IsFile
          <6>2. ~r.confirmed BY <1>1, <1>2, <1>3, <5>1 DEF Parts
          <6> QED BY <1>1, <1>4, <5>1, <6>1, <6>2 DEF ReadTo
        <5> QED BY <1>1, <5>1 DEF Undated
      <4> QED BY <1>1, <1>2, <1>5, <1>6, <1>8, <1>11, <1>14, <2>1, <3>1, <3>3,
                 <4>1
              DEF JobInv, Ending, AllWhole, SameFacts, Has
    <3> QED BY <1>5, <3>2, <3>3
  <2>10. Leftover(j)'
    <3>1. SUFFICES ASSUME breaks = 0, faulted = {} PROVE Leftover(j)'
      BY <1>2 DEF Leftover
    <3>2. /\ ~r.error /\ ~Has(Data(j), j, {"error"})
          /\ r.skipped /\ Len(sc.files[j]) = 1 => <<j, 1>> \in kept /\ k > 1
          /\ \A i \in DOMAIN sc.files[j] :
                disk[<<j, i>>].part # None =>
                    IF Live(j) THEN i = At(j) \/ Shadowed(j, i, At(j))
                    ELSE Shadowed(j, i, Len(sc.files[j]))
      BY <1>1, <1>2, <1>14, <3>1 DEF JobInv, Leftover
    <3>3. ~Has(c2s', j, {"send"}) /\ ~Has(Data(j)', j, {"error"})
      BY <1>2, <1>5, <1>8, <1>11, <3>2 DEF Has
    <3>4. k > 1 => s.file_num > 1 BY <1>2, <1>8
    <3> QED BY <1>1, <1>2, <1>4, <1>6, <1>8, <1>11, <2>1, <3>2, <3>3, <3>4
            DEF Leftover, SameFacts
  <2> QED BY <2>2, <2>3, <2>4, <2>5, <2>6, <2>7, <2>8, <2>9, <2>10 DEF JobInv
<1>15. Sane' => Sane BY <1>2 DEF Sane
<1> QED BY <1>2, <1>3, <1>9, <1>10, <1>11, <1>12, <1>13, <1>14, <1>15, OwnStep

-----------------------------------------------------------------------------
(* The end of the data. *)

\* A first part of a file that is as long as the file is the file.
LEMMA PrefixWhole ==
    ASSUME NEW j, NEW k, NEW s \in Seq(Nat), IsPrefixOf(s, <<j, k>>),
           Len(s) = Size(j, k)
    PROVE  s = Whole(<<j, k>>)
<1>1. <<j, k>>[1] = j /\ <<j, k>>[2] = k OBVIOUS
<1>2. \A i \in DOMAIN s : s[i] = i BY DEF IsPrefixOf
<1>3. DOMAIN s = 1 .. Size(j, k) OBVIOUS
<1>4. s = [i \in DOMAIN s |-> s[i]] OBVIOUS
<1>5. Whole(<<j, k>>) = [i \in 1 .. Size(j, k) |-> i] BY <1>1 DEF Whole
<1> QED BY <1>2, <1>3, <1>4, <1>5

\* An item that nobody takes.
LEMMA TakeUnheard ==
    ASSUME NEW j, JobInv(j), ~Live(j), ~Live(j)', SameDisk(j), NEW m,
           Took(Data(j), Data(j)', j, m), Back(j)' = Back(j),
           UNCHANGED <<up, breaks, saved, dialog>>, state'[j] = state[j],
           faulted' = faulted, j \in DOMAIN rjob' => j \in DOMAIN rjob,
           j \in DOMAIN rjob <=> j \in DOMAIN rjob', rjob'[j] = rjob[j],
           Has(c2s', j, {"send"}) => Has(c2s, j, {"send"})
    PROVE  JobInv(j)'
<1>1. SameFacts(j) /\ sc' = sc BY SameDiskFacts DEF SameDisk
<1>2. /\ Sent(Data(j)', j) \subseteq Sent(Data(j), j)
      /\ j \notin DOMAIN wjob /\ j \notin DOMAIN wjob' /\ ~Open(j)'
  BY DEF Took, Live, Open
<1>3. Touch(j)' BY <1>1 DEF JobInv, Touch, SameFacts
<1>4. Resumed(j)' BY <1>1, <1>2 DEF JobInv, Resumed
<1>5. Torn(j)' BY <1>1 DEF JobInv, Torn, IsPrefixOf, SameFacts, SameDisk
<1>6. Chain(j)'
  <2>1. \A y, z : FollowOK(j, y, z) => FollowOK(j, y, z)'
    BY <1>1 DEF FollowOK, Begins, SameFacts, SameDisk
  <2>2. \A y : LastOK(j, y) /\ j \in DOMAIN rjob => LastOK(j, y)'
    BY <1>1 DEF LastOK, SameFacts, Go
  <2>3. /\ \A y : Closes(Data(j)', j, y) => Closes(Data(j), j, y)
        /\ \A y, z : Follows(Data(j)', j, y, z) => Follows(Data(j), j, y, z)
    BY DEF Took, SameItems
  <2> QED BY <1>2, <2>1, <2>2, <2>3 DEF JobInv, Chain
<1>7. Reached(j)' BY <1>1, <1>2 DEF JobInv, Reached
<1>8. Answers(j)' BY <1>1, <1>2 DEF JobInv, Answers, SameDisk
<1>9. Keeps(j)' BY <1>1, <1>2 DEF JobInv, Keeps, SameFacts, SameDisk
<1>10. Ending(j)'
  <2>1. IF sc.upload[j] THEN Data(j) = c2s /\ Data(j)' = c2s' /\ s2c' = s2c
        ELSE Data(j) = s2c /\ Data(j)' = s2c' /\ c2s' = c2s
    BY <1>1 DEF Data, Back
  <2> QED BY <1>1, <1>2, <2>1
          DEF JobInv, Ending, Undated, AllWhole, Has, SameFacts, SameDisk
<1>11. Leftover(j)'
  <2>1. SUFFICES ASSUME breaks = 0, faulted = {} PROVE Leftover(j)'
    BY DEF Leftover
  <2>2. Has(Data(j)', j, {"error"}) => Has(Data(j), j, {"error"})
    BY <1>2 DEF Has
  <2>3. Clear(Data(j), j) => Clear(Data(j)', j) BY DEF Took, SameItems
  <2> QED BY <1>1, <1>2, <2>1, <2>2, <2>3
          DEF JobInv, Leftover, SameFacts, SameDisk
<1> QED BY <1>3, <1>4, <1>5, <1>6, <1>7, <1>8, <1>9, <1>10, <1>11 DEF JobInv

\* The last file gets its name, and the side that writes ends.
LEMMA DoneWrite ==
    ASSUME FTTypeOK, NEW j \in Jobs, Life(j), JobInv(j), sc' = sc,
           UNCHANGED <<up, breaks, saved, from, kept, faulted, dialog>>, up,
           rjob' = rjob, j \in DOMAIN wjob,
           disk' = ModifyTime(disk, j, wjob[j].file_num),
           ~Live(j)', NEW m, m.t = "done", Took(Data(j), Data(j)', j, m),
           Has(c2s', j, {"send"}) => Has(c2s, j, {"send"}),
           state'[j] = "done" \/ state'[j] = state[j] \/ state'[j] = "error",
           state'[j] # "done" => state'[j] # "cancelled" \/ sc.upload[j],
           sc.upload[j] \/ s2c' = Data(j)',
           sc.upload[j] => state'[j] = state[j]
    PROVE  JobInv(j)'
<1> DEFINE n == wjob[j].file_num
           L == Len(sc.files[j])
<1>1. /\ m \in Sent(Data(j), j) /\ Item(m, j) /\ Opens(Data(j), j, m)
      /\ ~Clear(Data(j), j) /\ m.j = j
      /\ Sent(Data(j)', j) \subseteq Sent(Data(j), j)
  BY DEF Took, Item
<1>2. /\ sc \in Scenarios /\ DiskOK(disk) /\ n \in Nat /\ At(j) = n
      /\ DOMAIN sc.files[j] = 1 .. L /\ L \in Nat /\ m.k > L /\ m.k \in Nat
      /\ \A k : <<j, k>> \in Files <=> k \in DOMAIN sc.files[j]
  <2>1. m \in Messages BY <1>1, InSent DEF FTTypeOK, TypeQueues, Data
  <2>2. DataOK(j, m) BY <1>1 DEF FTTypeOK, TypeQueues
  <2> QED BY <2>1, <2>2, MessageIs, WriteIs, Scenario
          DEF FTTypeOK, TypeUser, TypeJobs, At, DataOK
<1>3. j \notin DOMAIN rjob /\ state[j] # "new" /\ state[j] # "done"
  <2>1. Has(Data(j), j, {"done"}) BY <1>1 DEF Has
  <2>2. Sent(c2s, j) # {} \/ Sent(s2c, j) # {} BY <1>1 DEF Data
  <2> QED BY <2>1, <2>2 DEF Life, LifeIdle, LifeEnd, Live
<1>4. /\ \A k \in DOMAIN sc.files[j] : k # n => disk'[<<j, k>>] = disk[<<j, k>>]
      /\ n \in DOMAIN sc.files[j] =>
            /\ disk'[<<j, n>>].part = None
            /\ disk'[<<j, n>>].spoilt = disk[<<j, n>>].spoilt
            /\ disk'[<<j, n>>].final = IF disk[<<j, n>>].part # None
                                       THEN disk[<<j, n>>].part
                                       ELSE disk[<<j, n>>].final
  <2>1. /\ \A g \in Files : g # <<j, n>> => disk'[g] = disk[g]
        /\ n \in DOMAIN sc.files[j] =>
              /\ disk'[<<j, n>>].part = None
              /\ disk'[<<j, n>>].spoilt = disk[<<j, n>>].spoilt
              /\ disk'[<<j, n>>].final = IF disk[<<j, n>>].part # None
                                         THEN disk[<<j, n>>].part
                                         ELSE disk[<<j, n>>].final
    BY <1>2, ModifyTimeIs
  <2>2. \A k : k # n => <<j, k>> # <<j, n>> OBVIOUS
  <2> QED BY <1>2, <2>1, <2>2
<1>5. StartOK(j, m) BY <1>1 DEF JobInv, Chain, Live
<1>6. n \in DOMAIN sc.files[j] => Passed(j, n) /\ Gap(j, n, m.k)
  BY <1>2, <1>5 DEF StartOK
<1>7. /\ n \in DOMAIN sc.files[j] => Gap(j, n, m.k)
      /\ \A k \in DOMAIN sc.files[j] : k > n => <<j, k>> \in kept \cup faulted
  <2>1. ASSUME NEW k \in DOMAIN sc.files[j], k > n
        PROVE <<j, k>> \in kept \cup faulted
    <3>1. k < m.k BY <1>2, <2>1
    <3>2. n # m.k BY <1>2, <2>1
    <3>3. Gap(j, n, m.k) BY <1>2, <1>5, <3>2 DEF StartOK
    <3> QED BY <2>1, <3>1, <3>3 DEF Gap
  <2> QED BY <1>6, <2>1
<1>8. /\ \A k : Size(j, k)' = Size(j, k) /\ Whole(<<j, k>>)' = Whole(<<j, k>>)
      /\ \A a, b : Gap(j, a, b)' <=> Gap(j, a, b)
      /\ \A k, b : Shadowed(j, k, b)' <=> Shadowed(j, k, b)
  BY DEF Size, Whole, Gap, Shadowed
\* What file n is now.
<1>9. ASSUME n \in DOMAIN sc.files[j], <<j, n>> \notin faulted
      PROVE  \/ /\ disk[<<j, n>>].part = None
                /\ disk'[<<j, n>>].final = disk[<<j, n>>].final
                /\ <<j, n>> \in kept \/ Size(j, n) = Dir
             \/ /\ disk'[<<j, n>>].final = Whole(<<j, n>>) /\ Size(j, n) # Dir
                /\ <<j, n>> \notin kept
  <2>1. CASE Size(j, n) = Dir BY <1>4, <1>9, <2>1 DEF JobInv, Torn
  <2>2. CASE <<j, n>> \in kept /\ Size(j, n) # Dir
    BY <1>4, <1>6, <1>9, <2>2 DEF Passed
  <2>3. CASE <<j, n>> \notin kept /\ Size(j, n) # Dir
    <3>1. disk[<<j, n>>].part # None /\ Len(disk[<<j, n>>].part) = Size(j, n)
      BY <1>6, <1>9, <2>3 DEF Passed
    <3>2. IsPrefixOf(disk[<<j, n>>].part, <<j, n>>)
      BY <1>9, <3>1 DEF JobInv, Torn
    <3>3. disk[<<j, n>>].part \in Seq(Nat) BY <1>2, <1>9, <3>1, DiskAt
    <3>4. disk[<<j, n>>].part = Whole(<<j, n>>) BY <3>1, <3>2, <3>3, PrefixWhole
    <3> QED BY <1>4, <1>9, <2>3, <3>1, <3>4
  <2> QED BY <2>1, <2>2, <2>3
<1>10. \A k \in DOMAIN sc.files[j] :
          k # n => (Orig(<<j, k>>)' <=> Orig(<<j, k>>))
  BY <1>4, <1>8 DEF Orig
<1>11. AllWhole(j)'
  <2>1. SUFFICES
           ASSUME NEW k \in DOMAIN sc.files[j], Size(j, k) # Dir,
                  <<j, k>> \notin kept \cup faulted,
                  sc.upload[j] => k >= from[j]
           PROVE  disk'[<<j, k>>].final = Whole(<<j, k>>) \/ Shadowed(j, k, L + 1)
    BY <1>8 DEF AllWhole, WholeBefore
  <2>2. k \in Nat /\ k <= L BY <1>2
  <2>3. CASE k > n BY <1>7, <2>1, <2>3
  <2>4. CASE k = n BY <1>9, <2>1, <2>4
  <2>5. CASE k < n
    <3>1. disk[<<j, k>>].final = Whole(<<j, k>>) \/ Shadowed(j, k, n)
      BY <1>2, <2>1, <2>5 DEF JobInv, Touch, Live, WholeBefore
    <3>2. Shadowed(j, k, n) => Shadowed(j, k, L + 1)
      BY <1>2 DEF Shadowed
    <3> QED BY <1>2, <1>4, <2>2, <2>5, <3>1, <3>2
  <2> QED BY <1>2, <2>2, <2>3, <2>4, <2>5
<1>12. Torn(j)'
  <2>1. ASSUME NEW k \in DOMAIN sc.files[j]
        PROVE  /\ Size(j, k) = Dir => disk'[<<j, k>>].part = None
               /\ <<j, k>> \notin faulted =>
                    /\ disk'[<<j, k>>].part # None =>
                          /\ IsPrefixOf(disk'[<<j, k>>].part, <<j, k>>)
                          /\ disk'[<<j, k>>].part = <<>> => Size(j, k) = 0
                    /\ \/ disk'[<<j, k>>].final \in {None, Whole(<<j, k>>)}
                       \/ disk'[<<j, k>>].final = Old
                    /\ disk'[<<j, k>>].spoilt => LaterFails(<<j, k>>)
    <3>1. CASE k # n BY <1>4, <3>1 DEF JobInv, Torn
    <3>2. CASE k = n BY <1>4, <1>9, <3>2 DEF JobInv, Torn
    <3> QED BY <3>1, <3>2
  <2>2. \A s, k : IsPrefixOf(s, <<j, k>>)' <=> IsPrefixOf(s, <<j, k>>)
    BY <1>8 DEF IsPrefixOf
  <2>3. \A k : LaterFails(<<j, k>>)' <=> LaterFails(<<j, k>>) BY DEF LaterFails
  <2> QED BY <1>8, <2>1, <2>2, <2>3 DEF Torn
<1>13. Keeps(j)'
  <2>1. ASSUME NEW k \in DOMAIN sc.files[j], <<j, k>> \in kept \ faulted
        PROVE  Orig(<<j, k>>)'
    <3>1. Orig(<<j, k>>) BY <2>1 DEF JobInv, Keeps
    <3>2. CASE k # n BY <1>4, <1>10, <3>1, <3>2
    <3>3. CASE k = n
      <4>1. disk'[<<j, k>>].final = disk[<<j, k>>].final BY <1>9, <2>1, <3>3
      <4> QED BY <1>4, <1>8, <2>1, <3>1, <3>3, <4>1 DEF Orig
    <3> QED BY <3>2, <3>3
  <2>2. ~Open(j)' BY DEF Open, Live
  <2> QED BY <1>1, <1>3, <2>1, <2>2 DEF JobInv, Keeps
<1>14. Touch(j)' BY <1>3 DEF Touch
<1>15. Resumed(j)'
  <2>1. j \notin DOMAIN wjob' BY DEF Live
  <2> QED BY <1>3, <2>1 DEF JobInv, Resumed
<1>16. Chain(j)'
  <2>1. \A y, z : FollowOK(j, y, z) => FollowOK(j, y, z)'
    BY <1>8 DEF FollowOK, Begins
  <2>2. \A y, z : Follows(Data(j)', j, y, z) => Follows(Data(j), j, y, z)
    BY <1>1 DEF Took
  <2> QED BY <1>1, <1>3, <2>1, <2>2 DEF JobInv, Chain
<1>17. Reached(j)' BY <1>3 DEF Reached
<1>18. Answers(j)' BY <1>3 DEF Answers
<1>19. Ending(j)'
  <2>1. ~Has(Data(j)', j, {"done"}) BY DEF Life, LifeEnd, Took
  <2>2. CASE sc.upload[j]
    BY <1>3, <1>11, <2>2 DEF Ending
  <2>3. CASE ~sc.upload[j]
    BY <1>3, <1>11, <2>1, <2>3 DEF Ending
  <2> QED BY <2>2, <2>3
<1>20. Leftover(j)'
  <2>1. SUFFICES ASSUME breaks = 0, faulted = {} PROVE Leftover(j)'
    BY DEF Leftover
  <2>2. /\ ~Has(Data(j), j, {"error"}) /\ ~Has(c2s, j, {"send"})
        /\ \A k \in DOMAIN sc.files[j] :
              disk[<<j, k>>].part # None => k = At(j) \/ Shadowed(j, k, At(j))
    BY <1>1, <2>1 DEF JobInv, Leftover, Live
  <2>3. ~Has(Data(j)', j, {"error"}) BY <1>1, <2>2 DEF Has
  <2>4. \A k : Shadowed(j, k, n) => Shadowed(j, k, L) BY <1>2 DEF Shadowed
  <2>5. \A k \in DOMAIN sc.files[j] :
           disk'[<<j, k>>].part # None => Shadowed(j, k, L)
    BY <1>2, <1>4, <2>2, <2>4
  <2> QED BY <1>3, <1>8, <2>2, <2>3, <2>5 DEF Leftover
<1> QED BY <1>12, <1>13, <1>14, <1>15, <1>16, <1>17, <1>18, <1>19, <1>20
        DEF JobInv

\* The last file of a job gets its name: the files of the others are left.
LEMMA ModifyOthers ==
    ASSUME FTTypeOK, NEW j \in Jobs, sc' = sc,
           disk' = ModifyTime(disk, j, wjob[j].file_num)
    PROVE  /\ DiskOK(disk)'
           /\ \A i \in Jobs : i # j =>
                 \A k \in DOMAIN sc.files[i] : disk'[<<i, k>>] = disk[<<i, k>>]
           /\ \A k \in DOMAIN sc.files[j] :
                 disk'[<<j, k>>].part = None \/ disk'[<<j, k>>] = disk[<<j, k>>]
<1> DEFINE n == wjob[j].file_num
<1>1. DiskOK(disk) /\ sc \in Scenarios BY DEF FTTypeOK, TypeUser
<1>2. /\ DiskOK(disk') /\ \A g \in Files : g # <<j, n>> => disk'[g] = disk[g]
      /\ n \in DOMAIN sc.files[j] => disk'[<<j, n>>].part = None
  <2>1. DiskOK(disk') BY <1>1, ModifyTimeIs
  <2>2. /\ \A g \in Files : g # <<j, n>> => disk'[g] = disk[g]
        /\ n \in DOMAIN sc.files[j] =>
              /\ disk'[<<j, n>>].part = None
              /\ disk'[<<j, n>>].final = IF disk[<<j, n>>].part # None
                                         THEN disk[<<j, n>>].part
                                         ELSE disk[<<j, n>>].final
    BY <1>1, ModifyTimeIs
  <2> QED BY <2>1, <2>2
<1>3. /\ \A i, k : i # j => <<i, k>> # <<j, n>>
      /\ \A k : k # n => <<j, k>> # <<j, n>>
  OBVIOUS
<1>4. \A i \in Jobs : \A k \in DOMAIN sc.files[i] : <<i, k>> \in Files
  BY <1>1, Scenario
<1> QED BY <1>2, <1>3, <1>4 DEF DiskOK, Files, Jobs

\* FS::WriteDone.
LEMMA OnDoneServerStep ==
    ASSUME Inv, OnDoneServer
    PROVE  Inv'
<1>1. /\ FTTypeOK /\ c2s # <<>> /\ Head(c2s).t = "done"
      /\ UNCHANGED <<sc, up, breaks, rjob, reads, dialog, saved, state, from,
                     kept,
                     lost, faulted>>
  BY DEF Inv, OnDoneServer, ServerGets, history
<1>2. CASE Head(c2s).j \in DOMAIN wjob
  <2>1. ServerTakes(<<Msg("done", Head(c2s).j, Head(c2s).k, 0)>>)
    BY <1>2 DEF OnDoneServer
  <2>2. PICK x : /\ ServerTook(Head(c2s), Head(c2s).j, <<x>>)
                 /\ x.t = "done" /\ x.v = 0
                 /\ Gave(s2c, s2c', Head(c2s).j, x)
                 /\ Sent(s2c', Head(c2s).j) = Sent(s2c, Head(c2s).j) \cup {x}
    <3>1. "done" \in Kinds /\ 0 \in Int BY DEF Kinds
    <3>2. Head(c2s).k \in Nat BY <1>1, HeadIs DEF FTTypeOK, TypeQueues
    <3>3. FTTypeOK /\ c2s # <<>> BY <1>1
    <3>4. ServerReplied("done", Head(c2s).k, 0)
      BY <2>1, <3>1, <3>2, <3>3, ServerSends
    <3> QED BY <3>4 DEF ServerReplied
  <2>3. PICK m, j :
           /\ ServerTook(m, j, <<x>>) /\ m.t = "done" /\ j \in DOMAIN wjob
           /\ Gave(s2c, s2c', j, x) /\ Sent(s2c', j) = Sent(s2c, j) \cup {x}
           /\ disk' = ModifyTime(disk, j, wjob[j].file_num)
           /\ wjob' = Del(wjob, j)
    BY <1>1, <1>2, <2>2 DEF OnDoneServer
  <2>4. /\ j \in Jobs /\ sc' = sc /\ sc.upload[j] /\ up
        /\ Took(c2s, c2s', j, m) /\ m \in Sent(c2s, j)
        /\ Sent(c2s', j) \subseteq Sent(c2s, j)
        /\ \A i : i # j => SameQueue(c2s, c2s', i) /\ SameQueue(s2c, s2c', i)
        /\ c2s' \in Seq(Messages) /\ s2c' \in Seq(Messages)
        /\ Less(c2s, c2s', j)
    BY <1>1, <2>3, LessIs DEF ServerTook, BackOK
  <2>5. Data(j) = c2s /\ Data(j)' = c2s' /\ Back(j) = s2c /\ Back(j)' = s2c'
    BY <2>4 DEF Data, Back
  <2>6. Life(j) /\ Tokens(j) /\ Parts(j) /\ (Sane => JobInv(j)) BY <2>4 DEF Inv
  <2>7. /\ j \notin DOMAIN rjob /\ ~Has(c2s', j, {"done"})
        /\ state[j] \notin {"new", "saved", "gone", "added", "done"}
    <3>1. Has(c2s, j, {"done"}) /\ Sent(c2s, j) # {} BY <2>3, <2>4 DEF Has
    <3> QED BY <2>3, <2>4, <2>5, <2>6, <3>1
            DEF Life, LifeIdle, LifeEnd, Took, Live
  <2>8. ~Has(c2s', j, {"send", "receive"}) /\ Leads(c2s', j, {"send", "receive"})
    BY <2>4, <2>6 DEF Life, LifeStart, Took
  <2>9. /\ DOMAIN wjob' = DOMAIN wjob \ {j} /\ j \notin DOMAIN wjob'
        /\ \A i \in DOMAIN wjob' : wjob'[i] = wjob[i]
    BY <2>3 DEF Del
  <2>10. ~Live(j)' /\ ~Open(j)' BY <2>8, <2>9 DEF Live, Open, Has
  <2>11. /\ DiskOK(disk)'
         /\ \A i \in Jobs : i # j =>
               \A k \in DOMAIN sc.files[i] : disk'[<<i, k>>] = disk[<<i, k>>]
         /\ \A k \in DOMAIN sc.files[j] :
               disk'[<<j, k>>].part = None \/ disk'[<<j, k>>] = disk[<<j, k>>]
    BY <1>1, <2>3, <2>4, ModifyOthers
  <2>12. FTTypeOK'
    <3>1. TypeJobs' BY <1>1, <2>4, <2>9, JobsStep DEF FTTypeOK, TypeJobs
    <3>2. TypeQueues'
      <4>1. BackOK(j, x) BY <2>2, <2>4 DEF BackOK
      <4> QED BY <1>1, <2>3, <2>4, <2>5, <4>1, QueuesStep DEF FTTypeOK
    <3> QED BY <1>1, <2>11, <3>1, <3>2, UserSame, HistorySame, ReadsSame
            DEF FTTypeOK
  <2>13. ASSUME NEW i \in Jobs \ {j} PROVE Frame(i)
    BY <1>1, <2>4, <2>9, <2>11 DEF Frame, Shown
  <2>14. Life(j)'
    <3>1. Leads(s2c', j, {"dir"}) BY <2>2, <2>3, <2>6 DEF Life, LifeStart, Gave
    <3>2. Once(c2s', j, {"done"}) BY <2>7, NoneOnce
    <3> QED BY <1>1, <2>4, <2>5, <2>6, <2>7, <2>8, <2>9, <2>10, <3>1, <3>2
            DEF Life, LifeIdle, LifeStart, LifeEnd, Has
  <2>15. Tokens(j)' BY <1>1, <2>7 DEF Tokens
  <2>16. Parts(j)'
    BY <1>1, <2>4, <2>5, <2>6, <2>7, <2>10, <2>11 DEF Parts, Less
  <2>17. ASSUME JobInv(j) PROVE JobInv(j)'
    <3>1. Has(c2s', j, {"send"}) => Has(c2s, j, {"send"}) BY <2>4 DEF Has
    <3> QED BY <1>1, <2>3, <2>4, <2>5, <2>6, <2>10, <2>17, <3>1, DoneWrite
  <2>18. Sane' => Sane BY <1>1 DEF Sane
  <2> QED BY <1>1, <2>4, <2>6, <2>12, <2>13, <2>14, <2>15, <2>16, <2>17, <2>18,
             OwnStep
<1>3. CASE Head(c2s).j \notin DOMAIN wjob
  <2>1. ServerTakes(<<>>) /\ UNCHANGED <<wjob, disk>> BY <1>3 DEF OnDoneServer
  <2>2. PICK m, j : ServerTook(m, j, <<>>) /\ m.t = "done" /\ j \notin DOMAIN wjob
    BY <1>1, <1>3, <2>1, ServerTake
  <2>3. /\ j \in Jobs /\ sc' = sc /\ sc.upload[j] /\ up /\ s2c' = s2c
        /\ Took(c2s, c2s', j, m) /\ m \in Sent(c2s, j)
        /\ Sent(c2s', j) \subseteq Sent(c2s, j)
        /\ \A i : i # j => SameQueue(c2s, c2s', i) /\ SameQueue(s2c, s2c', i)
        /\ c2s' \in Seq(Messages) /\ s2c' \in Seq(Messages)
        /\ Less(c2s, c2s', j) /\ Item(m, j)
    BY <1>1, <2>2, LessIs DEF ServerTook, BackOK, Item
  <2>4. Data(j) = c2s /\ Data(j)' = c2s' /\ Back(j) = s2c /\ Back(j)' = s2c'
    BY <2>3 DEF Data, Back
  <2>5. Life(j) /\ Tokens(j) /\ Parts(j) /\ (Sane => JobInv(j)) BY <2>3 DEF Inv
  <2>6. /\ j \notin DOMAIN rjob /\ ~Has(c2s', j, {"done"})
        /\ state[j] \notin {"new", "saved", "gone", "added"}
    <3>1. Has(c2s, j, {"done"}) /\ Sent(c2s, j) # {} BY <2>2, <2>3 DEF Has
    <3> QED BY <2>2, <2>3, <2>4, <2>5, <3>1 DEF Life, LifeIdle, LifeEnd, Took
  <2>7. ~Has(c2s', j, {"send", "receive"}) /\ Leads(c2s', j, {"send", "receive"})
    BY <2>3, <2>5 DEF Life, LifeStart, Took
  <2>8. /\ ~Live(j) /\ ~Live(j)' /\ ~Open(j)'
    BY <2>1, <2>2, <2>3, <2>7 DEF Live, Open, Has, Took
  <2>9. FTTypeOK'
    <3>1. TypeJobs' BY <1>1, <2>1, <2>3, JobsStep DEF FTTypeOK, TypeJobs
    <3>2. TypeQueues' BY <1>1, <2>3, <2>4, QueuesStep DEF FTTypeOK
    <3> QED BY <1>1, <2>1, <3>1, <3>2, UserSame, HistorySame, ReadsSame,
               FilesSame
            DEF FTTypeOK
  <2>10. ASSUME NEW i \in Jobs \ {j} PROVE Frame(i)
    BY <1>1, <2>1, <2>3 DEF Frame, Shown
  <2>11. Life(j)'
    <3>1. Once(c2s', j, {"done"}) BY <2>6, NoneOnce
    <3> QED BY <1>1, <2>1, <2>2, <2>3, <2>4, <2>5, <2>6, <2>7, <2>8, <3>1
            DEF Life, LifeIdle, LifeStart, LifeEnd, Has
  <2>12. Tokens(j)' BY <1>1, <2>6 DEF Tokens
  <2>13. Parts(j)' BY <1>1, <2>1, <2>3, <2>4, <2>5, <2>6, <2>8 DEF Parts, Less
  <2>14. ASSUME JobInv(j) PROVE JobInv(j)'
    <3>1. Has(c2s', j, {"send"}) => Has(c2s, j, {"send"}) BY <2>3 DEF Has
    <3>2. SameDisk(j) BY <1>1, <2>1 DEF SameDisk
    <3> QED BY <1>1, <2>3, <2>4, <2>8, <2>14, <3>1, <3>2, TakeUnheard
  <2>15. Sane' => Sane BY <1>1 DEF Sane
  <2> QED BY <1>1, <2>3, <2>5, <2>9, <2>10, <2>11, <2>12, <2>13, <2>14, <2>15,
             OwnStep
<1> QED BY <1>2, <1>3

\* FileResponse::Done.
LEMMA OnDoneClientStep ==
    ASSUME Inv, OnDoneClient
    PROVE  Inv'
<1>1. /\ FTTypeOK /\ s2c # <<>> /\ Head(s2c).t = "done" /\ ClientTakes(<<>>)
      /\ UNCHANGED <<sc, up, breaks, rjob, reads, dialog, saved, from, kept,
                     lost,
                     faulted>>
  BY DEF Inv, OnDoneClient, ClientGets, history
<1>2. PICK m, j :
         /\ ClientTook(m, j, <<>>) /\ m.t = "done"
         /\ \/ /\ j \in DOMAIN wjob /\ ~sc.upload[j]
               /\ disk' = ModifyTime(disk, j, wjob[j].file_num)
               /\ \E what \in {"error", "done"} : Report(j, what)
               /\ wjob' = Del(wjob, j)
            \/ /\ j \notin DOMAIN wjob \/ sc.upload[j]
               /\ Report(j, "done") /\ wjob' = wjob /\ disk' = disk
  BY <1>1, ClientTake DEF OnDoneClient
<1>3. /\ j \in Jobs /\ c2s' = c2s /\ m \in Sent(s2c, j) /\ up /\ Item(m, j)
      /\ Took(s2c, s2c', j, m) /\ Less(s2c, s2c', j)
      /\ Sent(s2c', j) \subseteq Sent(s2c, j)
      /\ sc.upload[j] \in BOOLEAN /\ sc' = sc
      /\ \A i : i # j => SameQueue(c2s, c2s', i) /\ SameQueue(s2c, s2c', i)
      /\ c2s' \in Seq(Messages) /\ s2c' \in Seq(Messages)
  BY <1>1, <1>2, Scenario, LessIs DEF ClientTook, Item, FTTypeOK, TypeUser
<1>4. Life(j) /\ Tokens(j) /\ Parts(j) /\ (Sane => JobInv(j)) BY <1>3 DEF Inv
<1>5. state[j] \notin {"new", "saved", "gone", "added"} /\ Sent(s2c, j) # {}
  BY <1>3, <1>4 DEF Life, LifeIdle
<1>6. /\ state' \in [Jobs -> States] /\ \A i \in Jobs : i # j => state'[i] = state[i]
      /\ state'[j] = state[j] \/ state'[j] = "error" \/ state'[j] = "done"
      /\ state[j] \in {"cancelled", "done"} => state'[j] = state[j]
      /\ state[j] \notin {"cancelled", "done"} => state'[j] \in {"error", "done"}
      /\ j \notin DOMAIN wjob \/ sc.upload[j] => state'[j] \in {"cancelled", "done"}
  <2>1. state \in [Jobs -> States] BY <1>1 DEF FTTypeOK, TypeUser
  <2>2. ASSUME NEW what \in {"error", "done"}, Report(j, what)
        PROVE  /\ state' \in [Jobs -> States]
               /\ \A i \in Jobs : i # j => state'[i] = state[i]
               /\ state'[j] = IF state[j] \in {"cancelled", "done"} THEN state[j]
                              ELSE what
    BY <1>3, <2>1, <2>2 DEF Report, States
  <2> QED BY <1>2, <2>2
<1>7. \A x \in Sent(c2s, j) : x.t \notin {"send", "receive"}
  BY <1>4, <1>5 DEF Life, LifeStart
<1>8. TypeQueues'
  <2>1. /\ Sent(Data(j)', j) \subseteq Sent(Data(j), j)
        /\ Sent(Back(j)', j) \subseteq Sent(Back(j), j)
    BY <1>3 DEF Data, Back
  <2> QED BY <1>1, <1>3, <2>1, QueuesStep DEF FTTypeOK
<1>9. TypeUser'
  BY <1>1, <1>6 DEF FTTypeOK, TypeUser, Jobs, Files, IsFile, Size
<1>10. j \notin DOMAIN rjob
  <2>1. Has(s2c, j, {"done"}) BY <1>2, <1>3 DEF Has
  <2> QED BY <1>3, <1>4, <2>1 DEF Life, LifeEnd, Data
<1>11. Tokens(j)' BY <1>1, <1>10 DEF Tokens
<1>12. Sane' => Sane BY <1>1 DEF Sane
<1>13. /\ Leads(s2c', j, {"dir"}) /\ Leads(c2s', j, {"send", "receive"})
       /\ ~sc.upload[j] => Once(s2c', j, {"done"})
       /\ sc.upload[j] => Once(c2s', j, {"done"})
  BY <1>3, <1>4 DEF Life, LifeStart, LifeEnd, Less, Data
<1>14. CASE ~sc.upload[j] /\ j \in DOMAIN wjob
  <2>1. /\ disk' = ModifyTime(disk, j, wjob[j].file_num) /\ wjob' = Del(wjob, j)
    BY <1>2, <1>14
  <2>2. /\ DOMAIN wjob' = DOMAIN wjob \ {j} /\ j \notin DOMAIN wjob'
        /\ \A i \in DOMAIN wjob' : wjob'[i] = wjob[i]
    BY <2>1 DEF Del
  <2>3. Data(j) = s2c /\ Data(j)' = s2c' /\ Back(j) = c2s /\ Back(j)' = c2s
    BY <1>3, <1>14 DEF Data, Back
  <2>4. ~Live(j)' /\ ~Open(j)' BY <1>3, <1>7, <2>2 DEF Live, Open, Has
  <2>5. state[j] \notin {"cancelled", "done"} /\ state'[j] \in {"error", "done"}
    BY <1>4, <1>6, <1>14 DEF Life, LifeEnd, Live
  <2>6. /\ DiskOK(disk)'
        /\ \A i \in Jobs : i # j =>
              \A k \in DOMAIN sc.files[i] : disk'[<<i, k>>] = disk[<<i, k>>]
        /\ \A k \in DOMAIN sc.files[j] :
              disk'[<<j, k>>].part = None \/ disk'[<<j, k>>] = disk[<<j, k>>]
    BY <1>1, <1>3, <2>1, ModifyOthers
  <2>7. FTTypeOK'
    <3>1. TypeJobs' BY <1>1, <1>3, <2>2, JobsStep DEF FTTypeOK, TypeJobs
    <3> QED BY <1>1, <1>8, <1>9, <2>6, <3>1, HistorySame, ReadsSame DEF FTTypeOK
  <2>8. ASSUME NEW i \in Jobs \ {j} PROVE Frame(i)
    BY <1>1, <1>3, <1>6, <2>2, <2>6 DEF Frame, Shown
  <2>9. Life(j)'
    <3>1. LifeIdle(j)' BY <1>3, <2>5 DEF LifeIdle
    <3>2. LifeStart(j)' BY <1>3, <1>7, <1>13, <2>2 DEF LifeStart
    <3>3. LifeEnd(j)'
      <4>1. ~Has(c2s', j, {"cancel"}) BY <1>3, <1>4, <2>5 DEF Life, LifeEnd
      <4> QED BY <1>1, <1>3, <1>10, <1>13, <1>14, <2>2, <2>3, <2>4, <2>5, <4>1
              DEF LifeEnd
    <3> QED BY <3>1, <3>2, <3>3 DEF Life
  <2>10. Parts(j)' BY <1>1, <1>3, <1>4, <1>10, <2>3, <2>4, <2>6 DEF Parts, Less
  <2>11. ASSUME JobInv(j) PROVE JobInv(j)'
    <3>1. Has(c2s', j, {"send"}) => Has(c2s, j, {"send"}) BY <1>3
    <3>2. /\ state'[j] = "done" \/ state'[j] = state[j] \/ state'[j] = "error"
          /\ state'[j] # "done" => state'[j] # "cancelled" \/ sc.upload[j]
          /\ sc.upload[j] => state'[j] = state[j]
      BY <1>14, <2>5
    <3> QED BY <1>1, <1>2, <1>3, <1>4, <1>14, <2>1, <2>3, <2>4, <2>11, <3>1,
               <3>2,
               DoneWrite
  <2> QED BY <1>1, <1>3, <1>4, <1>11, <1>12, <2>7, <2>8, <2>9, <2>10, <2>11,
             OwnStep
<1>15. CASE sc.upload[j] \/ j \notin DOMAIN wjob
  <2>1. wjob' = wjob /\ disk' = disk BY <1>2, <1>15
  <2>2. ~Live(j) /\ ~Live(j)' /\ ~Open(j)' /\ j \notin DOMAIN wjob
    <3>1. Has(s2c, j, {"done"}) BY <1>2, <1>3 DEF Has
    <3>2. ~Live(j) BY <1>4, <1>7, <1>15, <3>1 DEF Life, LifeEnd, Live, Has
    <3> QED BY <1>3, <2>1, <3>2 DEF Live, Open, Has
  <2>3. state'[j] \in {"cancelled", "done"} BY <1>6, <1>15
  <2>4. FTTypeOK'
    <3>1. TypeJobs' BY <1>1, <1>3, <2>1, JobsStep DEF FTTypeOK, TypeJobs
    <3> QED BY <1>1, <1>8, <1>9, <2>1, <3>1, HistorySame, ReadsSame, FilesSame
            DEF FTTypeOK
  <2>5. ASSUME NEW i \in Jobs \ {j} PROVE Frame(i)
    BY <1>1, <1>3, <1>6, <2>1 DEF Frame, Shown
  <2>6. Life(j)'
    <3>1. LifeIdle(j)' BY <1>3, <2>3 DEF LifeIdle
    <3>2. LifeStart(j)' BY <1>3, <1>7, <1>13, <2>1, <2>2 DEF LifeStart
    <3>3. LifeEnd(j)'
      <4>1. Has(c2s', j, {"cancel"}) => state'[j] = "cancelled"
        BY <1>3, <1>4, <1>6 DEF Life, LifeEnd
      <4>2. Once(Data(j)', j, {"done"}) BY <1>3, <1>13 DEF Data
      <4> QED BY <1>1, <1>3, <1>10, <2>1, <2>2, <2>3, <4>1, <4>2 DEF LifeEnd
    <3> QED BY <3>1, <3>2, <3>3 DEF Life
  <2>7. Parts(j)'
    <3>1. OffsetFirst(Data(j)', j) BY <1>3, <1>4 DEF Parts, Less, Data
    <3> QED BY <1>1, <1>3, <1>4, <1>10, <2>1, <2>2, <3>1 DEF Parts
  <2>8. ASSUME JobInv(j) PROVE JobInv(j)'
    <3>1. SameDisk(j) BY <1>1, <2>1 DEF SameDisk
    <3>2. SameFacts(j) BY <3>1, SameDiskFacts
    <3>3. CASE ~sc.upload[j]
      <4>1. Data(j) = s2c /\ Data(j)' = s2c' /\ Back(j) = c2s /\ Back(j)' = c2s
        BY <1>3, <3>3 DEF Data, Back
      <4>2. state[j] = "cancelled"
        <5>1. Has(s2c, j, {"done"}) BY <1>2, <1>3 DEF Has
        <5> QED BY <2>2, <2>8, <3>3, <5>1 DEF JobInv, Ending
      <4>3. state'[j] = state[j] BY <1>6, <4>2
      <4> QED BY <1>1, <1>3, <2>2, <2>8, <3>1, <4>1, <4>3, TakeUnheard
    <3>4. CASE sc.upload[j]
      <4>1. Data(j) = c2s /\ Data(j)' = c2s /\ Back(j) = s2c /\ Back(j)' = s2c'
        BY <1>3, <3>4 DEF Data, Back
      <4>2. Quiet(j)
        BY <1>1, <1>3, <1>5, <1>10, <2>1, <2>2, <2>3, <3>1, <4>1, SameRefl
        DEF Quiet, SameQueue
      <4>3. Answers(j)' BY <1>1, <1>10 DEF Answers
      <4>4. AllWhole(j)'
        <5>1. Has(s2c, j, {"done"}) BY <1>2, <1>3 DEF Has
        <5>2. AllWhole(j) BY <2>8, <3>4, <5>1 DEF JobInv, Ending
        <5> QED BY <1>3, <3>2, <5>2 DEF SameFacts, AllWhole
      <4>5. Ending(j)' BY <1>3, <2>2, <3>4, <4>4 DEF Ending
      <4>6. Leftover(j)'
        BY <1>1, <1>3, <2>1, <2>2, <2>8, <3>2, <4>1
        DEF JobInv, Leftover, SameFacts
      <4> QED BY <2>8, <4>2, <4>3, <4>5, <4>6, QuietStep DEF JobInv
    <3> QED BY <3>3, <3>4
  <2> QED BY <1>1, <1>3, <1>4, <1>11, <1>12, <2>4, <2>5, <2>6, <2>7, <2>8,
             OwnStep
<1> QED BY <1>3, <1>14, <1>15

-----------------------------------------------------------------------------
(* A block, at the side that writes. *)

\* The side that writes is at the block's file then: the block was written, or
\* the file could not be opened, or the data not be written.
BlockMoves(m) ==
    \/ Block(m) /\ UNCHANGED faulted
    \/ Size(m.j, m.k) # Dir /\ (OpenFails(m) \/ WriteFails(m))

\* Block m of job j was taken; one that fails may be answered.
BlockTaken(m, j) ==
    /\ FTTypeOK /\ j \in Jobs /\ Life(j) /\ Tokens(j) /\ Parts(j) /\ up
    /\ sc' = sc /\ UNCHANGED <<up, breaks, saved, from, kept, dialog, rjob,
                               state>>
    /\ j \in DOMAIN wjob /\ wjob[j].listed
    /\ m \in Messages /\ m.t = "block" /\ m.j = j
    /\ Took(Data(j), Data(j)', j, m)
    /\ Sent(Back(j), j) \subseteq Sent(Back(j)', j)
    /\ \A x \in Sent(Back(j)', j) :
          x \in Sent(Back(j), j) \/ (sc.upload[j] /\ x.t = "error")
    /\ \A T : "error" \notin T /\ Leads(Back(j), j, T) => Leads(Back(j)', j, T)
    /\ \A T : "error" \notin T /\ Once(Back(j), j, T) => Once(Back(j)', j, T)
    /\ BlockMoves(m) \/ (Size(j, m.k) # Dir /\ SyncFails(m))

\* The job that writes, after it.
JobMoved(m, j, w, x) ==
    /\ x \in WriteJobs /\ x.listed = w.listed /\ x.resume = w.resume
    /\ x.file_num = m.k /\ (w.open => x.open)
    /\ Size(j, m.k) = Dir => x.open = w.open /\ x.on = w.on
    /\ Size(j, m.k) # Dir =>
          \/ x.open /\ x.on = (IF Reopens(w, m.k) THEN m.k ELSE w.on)
          \/ x.open = w.open /\ x.on = w.on /\ <<j, m.k>> \in faulted'

\* A block moves the job that writes.
LEMMA JobMoves ==
    ASSUME NEW m, NEW j, m.j = j, m.k \in Nat, j \in DOMAIN wjob,
           wjob[j] \in WriteJobs, BlockMoves(m)
    PROVE  /\ DOMAIN wjob' = DOMAIN wjob
           /\ \A i \in DOMAIN wjob : i # j => wjob'[i] = wjob[i]
           /\ JobMoved(m, j, wjob[j], wjob'[j])
<1>1. PICK w, k : w = wjob[j] /\ k = m.k OBVIOUS
<1>2. w \in WriteJobs /\ k \in Nat BY <1>1
<1>3. \A n \in Nat :
         LET x == [w EXCEPT !.file_num = n] IN
         /\ x \in WriteJobs /\ x.listed = w.listed /\ x.resume = w.resume
         /\ x.file_num = n /\ x.open = w.open /\ x.on = w.on
  BY <1>2 DEF WriteJobs
<1>4. \A n, o \in Nat :
         LET x == [w EXCEPT !.file_num = n, !.open = TRUE, !.on = o] IN
         /\ x \in WriteJobs /\ x.listed = w.listed /\ x.resume = w.resume
         /\ x.file_num = n /\ x.open /\ x.on = o
  BY <1>2 DEF WriteJobs
<1>5. CASE wjob' = [wjob EXCEPT ![j].file_num = k]
           /\ (Size(j, k) # Dir => <<j, k>> \in faulted')
  <2>1. PICK x : x = [w EXCEPT !.file_num = k] OBVIOUS
  <2>2. /\ DOMAIN wjob' = DOMAIN wjob /\ wjob'[j] = x
        /\ \A i \in DOMAIN wjob : i # j => wjob'[i] = wjob[i]
    BY <1>1, <1>5, <2>1
  <2>3. /\ x \in WriteJobs /\ x.listed = w.listed /\ x.resume = w.resume
        /\ x.file_num = k /\ x.open = w.open /\ x.on = w.on
    BY <1>2, <1>3, <2>1
  <2> QED BY <1>1, <1>5, <2>2, <2>3 DEF JobMoved
<1>6. ASSUME wjob' = [wjob EXCEPT ![j].file_num = k, ![j].open = TRUE,
                                  ![j].on = IF Reopens(w, k) THEN k ELSE @],
             Size(j, k) # Dir
      PROVE  /\ DOMAIN wjob' = DOMAIN wjob
             /\ \A i \in DOMAIN wjob : i # j => wjob'[i] = wjob[i]
             /\ JobMoved(m, j, wjob[j], wjob'[j])
  <2>1. PICK o : o = IF Reopens(w, k) THEN k ELSE w.on OBVIOUS
  <2>2. PICK x : x = [w EXCEPT !.file_num = k, !.open = TRUE, !.on = o] OBVIOUS
  <2>3. /\ DOMAIN wjob' = DOMAIN wjob /\ wjob'[j] = x
        /\ \A i \in DOMAIN wjob : i # j => wjob'[i] = wjob[i]
    BY <1>1, <1>6, <2>1, <2>2
  <2>4. o \in Nat BY <1>2, <2>1, WriteIs
  <2>5. /\ x \in WriteJobs /\ x.listed = w.listed /\ x.resume = w.resume
        /\ x.file_num = k /\ x.open /\ x.on = o
    BY <1>2, <1>4, <2>2, <2>4
  <2> QED BY <1>1, <1>6, <2>1, <2>3, <2>5 DEF JobMoved
<1>7. CASE Block(m)
  <2>1. CASE Size(j, k) = Dir
    <3>1. wjob' = [wjob EXCEPT ![j].file_num = k] BY <1>1, <1>7, <2>1 DEF Block
    <3> QED BY <1>5, <2>1, <3>1
  <2>2. CASE Size(j, k) # Dir
    <3>1. wjob' = [wjob EXCEPT ![j].file_num = k, ![j].open = TRUE,
                               ![j].on = IF Reopens(w, k) THEN k ELSE @]
      BY <1>1, <1>7, <2>2 DEF Block
    <3> QED BY <1>6, <2>2, <3>1
  <2> QED BY <2>1, <2>2
<1>8. CASE Size(j, k) # Dir /\ OpenFails(m)
  <2>1. /\ wjob' = [wjob EXCEPT ![j].file_num = k] /\ <<j, k>> \in faulted'
    BY <1>1, <1>8 DEF OpenFails
  <2> QED BY <1>5, <2>1
<1>9. CASE Size(j, k) # Dir /\ WriteFails(m)
  <2>1. wjob' = [wjob EXCEPT ![j].file_num = k, ![j].open = TRUE,
                             ![j].on = IF Reopens(w, k) THEN k ELSE @]
    BY <1>1, <1>9 DEF WriteFails
  <2> QED BY <1>6, <1>9, <2>1
<1> QED BY <1>1, <1>7, <1>8, <1>9 DEF BlockMoves

\* Where the side that writes is then, and what is on the way.
LEMMA BlockIs ==
    ASSUME NEW m, NEW j, BlockTaken(m, j)
    PROVE  /\ DataOK(j, m) /\ m.k \in DOMAIN sc.files[j] /\ m.k \in Nat
           /\ m.v \in Nat
           /\ m.v > 0 => m.v <= Size(j, m.k) /\ Size(j, m.k) # Dir
           /\ wjob[j] \in WriteJobs /\ At(j) = wjob[j].file_num /\ At(j) \in Nat
           /\ Open(j) <=> wjob[j].open
           /\ Live(j) /\ Live(j)' /\ j \in DOMAIN wjob'
           /\ DOMAIN wjob' = DOMAIN wjob
           /\ \A i \in DOMAIN wjob : i # j => wjob'[i] = wjob[i]
           /\ wjob'[j] \in WriteJobs /\ wjob'[j].listed
           /\ wjob'[j].resume = wjob[j].resume
           /\ At(j)' = wjob'[j].file_num /\ (Open(j)' <=> wjob'[j].open)
           /\ ~Has(c2s, j, {"send", "receive"})
           /\ ~Has(c2s', j, {"send", "receive"})
           /\ state[j] \notin {"new", "saved", "gone", "added", "done"}
           /\ ~Clear(Data(j), j) /\ Item(m, j) /\ m \in Sent(Data(j), j)
           /\ Sent(Data(j)', j) \subseteq Sent(Data(j), j)
           /\ j \in DOMAIN rjob => /\ ~Has(Back(j), j, {"ask", "confirm"})
                                   /\ ~Has(Back(j)', j, {"ask", "confirm"})
                                   /\ ~Shown(j)
           /\ Shown(j)' <=> Shown(j)
<1>1. /\ Item(m, j) /\ m \in Sent(Data(j), j) /\ ~Clear(Data(j), j)
      /\ Sent(Data(j)', j) \subseteq Sent(Data(j), j)
  BY DEF BlockTaken, Took, Item
<1>2. DataOK(j, m) BY <1>1 DEF BlockTaken, FTTypeOK, TypeQueues
<1>3. m.k \in Nat /\ m.v \in Int BY MessageIs DEF BlockTaken
<1>4. m.k \in DOMAIN sc.files[j] /\ m.v \in Nat /\ (m.v > 0 => m.v <= Size(j, m.k))
  BY <1>2 DEF DataOK, BlockTaken
<1>5. m.v > 0 => Size(j, m.k) # Dir BY <1>4 DEF Dir
<1>6. wjob[j] \in WriteJobs /\ m.j = j /\ j \in DOMAIN wjob /\ wjob[j].listed
  BY DEF BlockTaken, FTTypeOK, TypeJobs
<1>7. /\ At(j) = wjob[j].file_num /\ At(j) \in Nat
      /\ Open(j) <=> wjob[j].open
  BY <1>6, WriteIs DEF At, Open
<1>8. /\ DOMAIN wjob' = DOMAIN wjob /\ j \in DOMAIN wjob'
      /\ \A i \in DOMAIN wjob : i # j => wjob'[i] = wjob[i]
      /\ wjob'[j] \in WriteJobs /\ wjob'[j].listed
      /\ wjob'[j].resume = wjob[j].resume
  <2>1. CASE BlockMoves(m)
    <3>1. /\ DOMAIN wjob' = DOMAIN wjob
          /\ \A i \in DOMAIN wjob : i # j => wjob'[i] = wjob[i]
          /\ JobMoved(m, j, wjob[j], wjob'[j])
      BY <1>3, <1>6, <2>1, JobMoves
    <3> QED BY <1>6, <3>1 DEF JobMoved
  <2>2. CASE SyncFails(m) BY <1>6, <2>2 DEF SyncFails
  <2> QED BY <2>1, <2>2 DEF BlockTaken
<1>9. /\ Live(j) /\ Live(j)' /\ At(j)' = wjob'[j].file_num
      /\ Open(j)' <=> wjob'[j].open
  BY <1>6, <1>8 DEF At, Live, Open
<1>10. /\ ~Has(c2s, j, {"send", "receive"})
       /\ ~Has(c2s', j, {"send", "receive"})
       /\ Sent(c2s, j) # {} \/ Sent(s2c, j) # {}
  <2>1. CASE sc.upload[j]
    <3>1. Data(j) = c2s /\ Data(j)' = c2s' BY <2>1 DEF Data, BlockTaken
    <3>2. ~Has(c2s', j, {"send", "receive"})
      BY <3>1 DEF BlockTaken, Life, LifeStart, Took
    <3> QED BY <1>1, <3>1, <3>2 DEF BlockTaken, Took, Has
  <2>2. CASE ~sc.upload[j]
    <3>1. Data(j) = s2c /\ Back(j) = c2s /\ Back(j)' = c2s'
      BY <2>2 DEF Data, Back, BlockTaken
    <3>2. ~Has(c2s, j, {"send", "receive"})
      BY <1>1, <3>1 DEF BlockTaken, Life, LifeStart, Has
    <3> QED BY <1>1, <2>2, <3>1, <3>2 DEF BlockTaken, Has
  <2> QED BY <2>1, <2>2
<1>11. state[j] \notin {"new", "saved", "gone", "added", "done"}
  BY <1>9, <1>10 DEF BlockTaken, Life, LifeIdle, LifeEnd
<1>12. j \in DOMAIN rjob => /\ ~Has(Back(j), j, {"ask", "confirm"})
                            /\ ~Has(Back(j)', j, {"ask", "confirm"})
                            /\ ~Shown(j)
  BY <1>1 DEF BlockTaken, Tokens, Has
<1>13. Shown(j)' <=> Shown(j) BY DEF Shown, BlockTaken
<1> QED BY <1>1, <1>2, <1>3, <1>4, <1>5, <1>6, <1>7, <1>8, <1>9, <1>10, <1>11,
           <1>12,
           <1>13

\* What the first block of file k does to the disk: e is the disk after it.
\* how: "block", or what failed.
Reopened(e, j, k, v, how) ==
    LET n == wjob[j].file_num IN
    /\ \A g \in Files : g # <<j, k>> /\ g # <<j, n>> => e[g] = disk[g]
    /\ e[<<j, k>>].spoilt = disk[<<j, k>>].spoilt
    /\ e[<<j, k>>].part = IF how = "open" THEN (IF k = n THEN None
                                                ELSE disk[<<j, k>>].part)
                          ELSE IF how = "write" \/ v = 0 THEN <<>>
                          ELSE Append(<<>>, v)
    /\ how # "open" => e[<<j, k>>].digest
    /\ e[<<j, k>>].final = IF k = n /\ disk[<<j, k>>].part # None
                           THEN disk[<<j, k>>].part ELSE disk[<<j, k>>].final
    /\ k # n /\ n \in DOMAIN sc.files[j] =>
          /\ e[<<j, n>>].part = None
          /\ e[<<j, n>>].spoilt = disk[<<j, n>>].spoilt
          /\ e[<<j, n>>].final = IF disk[<<j, n>>].part # None
                                 THEN disk[<<j, n>>].part
                                 ELSE disk[<<j, n>>].final

\* Block v of file k, of job j, is written or fails: e is the disk after it.
Landed(e, j, k, v) ==
    LET w == wjob[j] IN
    /\ DiskOK(e)
    /\ Reopens(w, k) =>
          \E how \in {"block", "write", "open"} :
              /\ Reopened(e, j, k, v, how)
              /\ how # "block" => <<j, k>> \in faulted'
              /\ how # "open" => wjob'[j].open
    /\ ~Reopens(w, k) =>
          \/ Appended(disk, e, j, k, w.on, v)
          \/ e = disk /\ <<j, k>> \in faulted'

\* The file before it gets its name.
LEMMA NamedIs ==
    ASSUME FTTypeOK, NEW j \in Jobs, NEW k \in DOMAIN sc.files[j], NEW d,
           d = ModifyTime(disk, j, wjob[j].file_num)
    PROVE  LET n == wjob[j].file_num IN
           /\ DiskOK(d)
           /\ \A g \in Files : g # <<j, n>> => d[g] = disk[g]
           /\ d[<<j, k>>].spoilt = disk[<<j, k>>].spoilt
           /\ d[<<j, k>>].part = IF k = n THEN None ELSE disk[<<j, k>>].part
           /\ d[<<j, k>>].final = IF k = n /\ disk[<<j, k>>].part # None
                                  THEN disk[<<j, k>>].part ELSE disk[<<j, k>>].final
           /\ k # n /\ n \in DOMAIN sc.files[j] =>
                 /\ d[<<j, n>>].part = None
                 /\ d[<<j, n>>].spoilt = disk[<<j, n>>].spoilt
                 /\ d[<<j, n>>].final = IF disk[<<j, n>>].part # None
                                        THEN disk[<<j, n>>].part
                                        ELSE disk[<<j, n>>].final
<1>1. PICK n : n = wjob[j].file_num OBVIOUS
<1>2. DiskOK(disk) /\ sc \in Scenarios BY DEF FTTypeOK, TypeUser
<1>3. /\ DiskOK(d)
      /\ \A g \in Files : g # <<j, n>> => d[g] = disk[g]
      /\ n \in DOMAIN sc.files[j] =>
            /\ d[<<j, n>>].part = None /\ ~d[<<j, n>>].digest
            /\ d[<<j, n>>].spoilt = disk[<<j, n>>].spoilt
            /\ d[<<j, n>>].final = IF disk[<<j, n>>].part # None
                                   THEN disk[<<j, n>>].part
                                   ELSE disk[<<j, n>>].final
  BY <1>1, <1>2, ModifyTimeIs
<1>4. <<j, k>> \in Files BY <1>2, Scenario
<1>5. CASE k = n BY <1>1, <1>3, <1>5
<1>6. CASE k # n
  <2>1. <<j, k>> # <<j, n>> BY <1>6
  <2>2. d[<<j, k>>] = disk[<<j, k>>] BY <1>3, <1>4, <2>1
  <2> QED BY <1>1, <1>3, <1>6, <2>2
<1> QED BY <1>5, <1>6

\* The file is created, and perhaps its first block written.
LEMMA CreatedLands ==
    ASSUME FTTypeOK, NEW j \in Jobs, NEW k \in DOMAIN sc.files[j],
           NEW v \in Nat,
           NEW c, c = Created(ModifyTime(disk, j, wjob[j].file_num), j, k)
    PROVE  /\ DiskOK(c) /\ Reopened(c, j, k, v, "write")
           /\ DiskOK(WriteAll(c, j, k, k, v))
           /\ Reopened(WriteAll(c, j, k, k, v), j, k, v, "block")
<1>1. PICK n : n = wjob[j].file_num OBVIOUS
<1>2. DiskOK(disk) /\ sc \in Scenarios BY DEF FTTypeOK, TypeUser
<1>3. PICK d : d = ModifyTime(disk, j, n) OBVIOUS
<1>4. /\ DiskOK(d)
      /\ \A g \in Files : g # <<j, n>> => d[g] = disk[g]
      /\ d[<<j, k>>].spoilt = disk[<<j, k>>].spoilt
      /\ d[<<j, k>>].final = IF k = n /\ disk[<<j, k>>].part # None
                             THEN disk[<<j, k>>].part ELSE disk[<<j, k>>].final
      /\ k # n /\ n \in DOMAIN sc.files[j] =>
            /\ d[<<j, n>>].part = None
            /\ d[<<j, n>>].spoilt = disk[<<j, n>>].spoilt
            /\ d[<<j, n>>].final = IF disk[<<j, n>>].part # None
                                   THEN disk[<<j, n>>].part
                                   ELSE disk[<<j, n>>].final
  BY <1>1, <1>3, NamedIs
<1>5. c = Created(d, j, k) BY <1>1, <1>3
<1>6. /\ DiskOK(c) /\ \A g \in Files : g # <<j, k>> => c[g] = d[g]
      /\ c[<<j, k>>].part = <<>> /\ c[<<j, k>>].digest
      /\ c[<<j, k>>].final = d[<<j, k>>].final
      /\ c[<<j, k>>].spoilt = d[<<j, k>>].spoilt
  BY <1>2, <1>4, <1>5, CreatedIs
<1>7. /\ k # n => <<j, k>> # <<j, n>>
      /\ n \in DOMAIN sc.files[j] => <<j, n>> \in Files
  BY <1>2, Scenario
<1>8. Reopened(c, j, k, v, "write")
  <2>1. \A g \in Files : g # <<j, k>> /\ g # <<j, n>> => c[g] = disk[g]
    BY <1>4, <1>6
  <2>2. k # n /\ n \in DOMAIN sc.files[j] => c[<<j, n>>] = d[<<j, n>>]
    BY <1>6, <1>7
  <2> QED BY <1>1, <1>4, <1>6, <2>1, <2>2 DEF Reopened
<1>9. PICK e : e = WriteAll(c, j, k, k, v) OBVIOUS
<1>10. c[<<j, k>>].part # None BY <1>6, NotNone
<1>11. /\ DiskOK(e)
       /\ v = 0 => e = c
       /\ \A g \in Files : g # <<j, k>> => e[g] = c[g]
       /\ \A g \in Files : e[g].final = c[g].final /\ e[g].digest = c[g].digest
       /\ v > 0 => /\ e[<<j, k>>].part = Append(c[<<j, k>>].part, v)
                   /\ e[<<j, k>>].spoilt = c[<<j, k>>].spoilt
  <2>1. DiskOK(e) /\ Appended(c, e, j, k, k, v) BY <1>2, <1>6, <1>9, WriteAllIs
  <2> QED BY <1>10, <2>1 DEF Appended
<1>12. /\ e[<<j, k>>].part = IF v = 0 THEN <<>> ELSE Append(<<>>, v)
       /\ e[<<j, k>>].spoilt = c[<<j, k>>].spoilt
       /\ e[<<j, k>>].final = c[<<j, k>>].final /\ e[<<j, k>>].digest
  <2>1. <<j, k>> \in Files BY <1>2, Scenario
  <2>2. CASE v = 0 BY <1>6, <1>11, <2>2
  <2>3. CASE v > 0 BY <1>6, <1>11, <2>1, <2>3
  <2> QED BY <2>2, <2>3
<1>13. Reopened(e, j, k, v, "block")
  <2>1. /\ \A g \in Files : g # <<j, k>> /\ g # <<j, n>> => e[g] = c[g]
        /\ k # n /\ n \in DOMAIN sc.files[j] => e[<<j, n>>] = c[<<j, n>>]
    BY <1>7, <1>11
  <2> QED BY <1>1, <1>8, <1>12, <2>1 DEF Reopened
<1> QED BY <1>6, <1>8, <1>9, <1>11, <1>13

\* A block of a file is taken.
LEMMA BlockLands ==
    ASSUME NEW m, NEW j, BlockTaken(m, j), BlockMoves(m), Size(j, m.k) # Dir,
           NEW k, NEW v, k = m.k, v = m.v
    PROVE  Landed(disk', j, k, v)
<1>1. /\ k \in DOMAIN sc.files[j] /\ v \in Nat /\ j \in Jobs
      /\ j \in DOMAIN wjob
      /\ FTTypeOK /\ DiskOK(disk) /\ sc \in Scenarios /\ m.j = j
      /\ wjob[j] \in WriteJobs /\ (Open(j) <=> wjob[j].open)
      /\ wjob'[j] \in WriteJobs
  BY BlockIs DEF BlockTaken, FTTypeOK, TypeUser
<1>2. PICK w, n : w = wjob[j] /\ n = w.file_num OBVIOUS
<1>3. PICK d : d = ModifyTime(disk, j, n) OBVIOUS
<1>4. PICK c : c = Created(d, j, k) OBVIOUS
<1>5. /\ DiskOK(c) /\ Reopened(c, j, k, v, "write")
      /\ DiskOK(WriteAll(c, j, k, k, v))
      /\ Reopened(WriteAll(c, j, k, k, v), j, k, v, "block")
  BY <1>1, <1>2, <1>3, <1>4, CreatedLands
<1>6. ASSUME wjob' = [wjob EXCEPT ![j].file_num = k, ![j].open = TRUE,
                                  ![j].on = IF Reopens(w, k) THEN k ELSE @]
      PROVE  wjob'[j].open
  <2>1. PICK o : o = IF Reopens(w, k) THEN k ELSE w.on OBVIOUS
  <2>2. wjob'[j] = [w EXCEPT !.file_num = k, !.open = TRUE, !.on = o]
    BY <1>1, <1>2, <1>6, <2>1
  <2> QED BY <1>1, <1>2, <2>2 DEF WriteJobs
<1>7. CASE Block(m)
  <2>1. disk' = Written(j, k, v) /\ wjob'[j].open
    BY <1>1, <1>2, <1>6, <1>7 DEF Block
  <2>2. CASE Reopens(w, k)
    <3>1. disk' = WriteAll(c, j, k, k, v)
      BY <1>2, <1>3, <1>4, <2>1, <2>2 DEF Written
    <3> QED BY <1>2, <1>5, <2>1, <2>2, <3>1 DEF Landed
  <2>3. CASE ~Reopens(w, k)
    <3>1. disk' = WriteAll(disk, j, k, w.on, v) BY <1>2, <2>1, <2>3 DEF Written
    <3>2. w.on \in DOMAIN sc.files[j]
      BY <1>1, <1>2, <2>3 DEF BlockTaken, Parts, Reopens, IsFile
    <3>3. DiskOK(disk') /\ Appended(disk, disk', j, k, w.on, v)
      BY <1>1, <3>1, <3>2, WriteAllIs
    <3> QED BY <1>2, <2>3, <3>3 DEF Landed
  <2> QED BY <2>2, <2>3
<1>8. CASE WriteFails(m)
  <2>1. <<j, k>> \in faulted' /\ wjob'[j].open
    BY <1>1, <1>2, <1>6, <1>8 DEF WriteFails
  <2>2. CASE Reopens(w, k)
    <3>1. disk' = c BY <1>1, <1>2, <1>3, <1>4, <1>8, <2>2 DEF WriteFails
    <3> QED BY <1>2, <1>5, <2>1, <2>2, <3>1 DEF Landed
  <2>3. CASE ~Reopens(w, k)
    <3>1. disk' = disk BY <1>1, <1>2, <1>8, <2>3 DEF WriteFails
    <3> QED BY <1>1, <1>2, <2>1, <2>3, <3>1 DEF Landed
  <2> QED BY <2>2, <2>3
<1>9. CASE OpenFails(m)
  <2>1. <<j, k>> \in faulted' /\ Reopens(w, k) BY <1>1, <1>2, <1>9 DEF OpenFails
  <2>2. /\ DiskOK(d) /\ Reopened(d, j, k, v, "open")
    <3>1. /\ DiskOK(d)
          /\ \A g \in Files : g # <<j, n>> => d[g] = disk[g]
          /\ d[<<j, k>>].spoilt = disk[<<j, k>>].spoilt
          /\ d[<<j, k>>].part = IF k = n THEN None ELSE disk[<<j, k>>].part
          /\ d[<<j, k>>].final = IF k = n /\ disk[<<j, k>>].part # None
                                 THEN disk[<<j, k>>].part ELSE disk[<<j, k>>].final
          /\ k # n /\ n \in DOMAIN sc.files[j] =>
                /\ d[<<j, n>>].part = None
                /\ d[<<j, n>>].spoilt = disk[<<j, n>>].spoilt
                /\ d[<<j, n>>].final = IF disk[<<j, n>>].part # None
                                       THEN disk[<<j, n>>].part
                                       ELSE disk[<<j, n>>].final
      BY <1>1, <1>2, <1>3, NamedIs
    <3> QED BY <1>2, <3>1 DEF Reopened
  <2>3. disk' = d \/ disk' = [d EXCEPT ![<<j, k>>].digest = FALSE]
    BY <1>1, <1>2, <1>3, <1>9 DEF OpenFails
  <2>4. CASE disk' = [d EXCEPT ![<<j, k>>].digest = FALSE]
    <3>1. <<j, k>> \in Files /\ d[<<j, k>>] \in Entries
      BY <1>1, <2>2, Scenario, DiskAt
    <3>2. PICK b : b = [d[<<j, k>>] EXCEPT !.digest = FALSE] OBVIOUS
    <3>3. /\ b \in Entries /\ ~b.digest /\ b.part = d[<<j, k>>].part
          /\ b.final = d[<<j, k>>].final /\ b.spoilt = d[<<j, k>>].spoilt
      BY <3>1, <3>2 DEF Entries
    <3>4. disk' = [d EXCEPT ![<<j, k>>] = b] BY <2>4, <3>2
    <3>5. /\ DiskOK([d EXCEPT ![<<j, k>>] = b])
          /\ [d EXCEPT ![<<j, k>>] = b][<<j, k>>] = b
          /\ \A g \in Files : g # <<j, k>> => [d EXCEPT ![<<j, k>>] = b][g] = d[g]
      BY <2>2, <3>1, <3>3, DiskPut
    <3>6. k # n /\ n \in DOMAIN sc.files[j] => disk'[<<j, n>>] = d[<<j, n>>]
      BY <1>1, <3>4, <3>5, Scenario
    <3>7. PICK e : e = disk' OBVIOUS
    <3>8. Reopened(e, j, k, v, "open")
      BY <1>2, <2>2, <3>3, <3>4, <3>5, <3>6, <3>7 DEF Reopened
    <3> QED BY <1>2, <2>1, <3>4, <3>5, <3>7, <3>8 DEF Landed
  <2> QED BY <1>2, <2>1, <2>2, <2>3, <2>4 DEF Landed
<1> QED BY <1>7, <1>8, <1>9 DEF BlockMoves

\* The failures a block may bring.
LEMMA BlockFaulted ==
    ASSUME NEW m, NEW j, BlockTaken(m, j)
    PROVE  /\ faulted \subseteq faulted' /\ faulted' \subseteq Files
           /\ \A i, x : i # j => (<<i, x>> \in faulted' <=> <<i, x>> \in faulted)
           /\ BlockMoves(m) =>
                 \A x : x # m.k => (<<j, x>> \in faulted' <=> <<j, x>> \in faulted)
           /\ Size(j, m.k) = Dir => faulted' = faulted
           /\ SyncFails(m) => /\ <<j, m.k>> \in faulted' /\ <<j, wjob[j].on>> \in faulted'
                              /\ Open(j) /\ Reopens(wjob[j], m.k)
<1>1. /\ m.j = j /\ faulted \subseteq Files /\ m.k \in DOMAIN sc.files[j]
      /\ sc \in Scenarios /\ j \in Jobs /\ (Open(j) <=> wjob[j].open)
  BY BlockIs DEF BlockTaken, FTTypeOK, TypeUser, TypeHistory
<1>2. PICK k, o : k = m.k /\ o = wjob[j].on OBVIOUS
<1>3. <<j, k>> \in Files BY <1>1, <1>2, Scenario
<1>4. CASE BlockMoves(m)
  <2>1. \/ faulted' = faulted
        \/ Size(j, k) # Dir /\ faulted' = faulted \cup {<<j, k>>}
    BY <1>1, <1>2, <1>4 DEF BlockMoves, OpenFails, WriteFails
  <2>2. ~SyncFails(m) \/ (faulted' = faulted \cup {<<j, k>>, <<j, o>>} /\ Open(j)
                          /\ Reopens(wjob[j], m.k))
    BY <1>1, <1>2 DEF SyncFails
  <2>3. faulted \subseteq faulted' /\ faulted' \subseteq Files
    BY <1>1, <1>3, <2>1
  <2>4. /\ \A i, x : i # j => (<<i, x>> \in faulted' <=> <<i, x>> \in faulted)
        /\ \A x : x # k => (<<j, x>> \in faulted' <=> <<j, x>> \in faulted)
    BY <2>1
  <2>5. Size(j, k) = Dir => faulted' = faulted BY <2>1
  <2>6. SyncFails(m) => <<j, k>> \in faulted' /\ <<j, o>> \in faulted' BY <2>2
  <2> QED BY <1>2, <2>2, <2>3, <2>4, <2>5, <2>6
<1>5. CASE Size(j, k) # Dir /\ SyncFails(m) /\ ~BlockMoves(m)
  <2>1. /\ faulted' = faulted \cup {<<j, k>>, <<j, o>>} /\ Open(j)
        /\ Reopens(wjob[j], m.k)
    BY <1>1, <1>2, <1>5 DEF SyncFails
  <2>2. <<j, o>> \in Files
    BY <1>1, <1>2, <2>1, Scenario DEF BlockTaken, Parts, IsFile
  <2> QED BY <1>1, <1>2, <1>3, <1>5, <2>1, <2>2
<1> QED BY <1>2, <1>4, <1>5 DEF BlockTaken

\* The disk after it.
LEMMA BlockDisk ==
    ASSUME NEW m, NEW j, BlockTaken(m, j)
    PROVE  /\ DiskOK(disk)'
           /\ \A i \in Jobs : i # j =>
                 \A k \in DOMAIN sc.files[i] : disk'[<<i, k>>] = disk[<<i, k>>]
           /\ Size(j, m.k) = Dir => disk' = disk
           /\ \A k \in DOMAIN sc.files[j] :
                 disk'[<<j, k>>].part # None =>
                    disk'[<<j, k>>].digest \/ <<j, k>> \in faulted'
           /\ wjob'[j].open => IsFile(j, wjob'[j].on)
           /\ wjob'[j].open /\ IsFile(j, wjob'[j].file_num)
              /\ <<j, wjob'[j].file_num>> \notin faulted' =>
                    /\ wjob'[j].on = wjob'[j].file_num
                    /\ disk'[<<j, wjob'[j].file_num>>].part # None
<1>1. /\ m.k \in DOMAIN sc.files[j] /\ m.k \in Nat /\ m.v \in Nat /\ j \in Jobs
      /\ sc' = sc /\ m.j = j /\ j \in DOMAIN wjob /\ wjob[j] \in WriteJobs
      /\ Open(j) <=> wjob[j].open
      /\ At(j) = wjob[j].file_num /\ DiskOK(disk) /\ sc \in Scenarios
      /\ FTTypeOK
  BY BlockIs DEF BlockTaken, FTTypeOK, TypeUser
<1>2. PICK n, k, v, w : n = wjob[j].file_num /\ k = m.k /\ v = m.v /\ w = wjob[j]
  OBVIOUS
<1>3. /\ \A i, x : i # j => <<i, x>> # <<j, k>> /\ <<i, x>> # <<j, n>>
                           /\ <<i, x>> # <<j, w.on>>
      /\ \A x : x # k => <<j, x>> # <<j, k>>
      /\ \A x : x # n => <<j, x>> # <<j, n>>
      /\ \A i \in Jobs : \A x \in DOMAIN sc.files[i] : <<i, x>> \in Files
  BY <1>1, Scenario
<1>4. /\ \A x \in DOMAIN sc.files[j] :
            disk[<<j, x>>].part # None =>
                disk[<<j, x>>].digest \/ <<j, x>> \in faulted
      /\ w.open => IsFile(j, w.on)
      /\ w.open /\ IsFile(j, n) /\ <<j, n>> \notin faulted =>
            w.on = n /\ disk[<<j, n>>].part # None
  BY <1>1, <1>2 DEF BlockTaken, Parts
<1>5. faulted \subseteq faulted' BY BlockFaulted
<1>6. CASE Size(j, k) = Dir
  <2>1. BlockMoves(m) BY <1>2, <1>6 DEF BlockTaken
  <2>2. Block(m) /\ faulted' = faulted
    BY <1>1, <1>2, <1>6, <2>1 DEF BlockMoves
  <2>3. disk' = disk BY <1>1, <1>2, <1>6, <2>2 DEF Block
  <2>4. JobMoved(m, j, wjob[j], wjob'[j]) BY <1>1, <2>1, JobMoves
  <2>5. /\ wjob'[j].open = w.open /\ wjob'[j].on = w.on /\ wjob'[j].file_num = k
    BY <1>2, <1>6, <2>4 DEF JobMoved
  <2>6. ~IsFile(j, k) BY <1>6 DEF IsFile
  <2> QED BY <1>1, <1>2, <1>4, <1>6, <2>2, <2>3, <2>5, <2>6, FilesSame
<1>7. CASE Size(j, k) # Dir /\ BlockMoves(m)
  <2>1. JobMoved(m, j, wjob[j], wjob'[j]) BY <1>1, <1>7, JobMoves
  <2>2. Landed(disk', j, k, v) BY <1>2, <1>7, BlockLands
  <2>3. /\ wjob'[j].file_num = k
        /\ \/ wjob'[j].open /\ wjob'[j].on = (IF Reopens(w, k) THEN k ELSE w.on)
           \/ wjob'[j].open = w.open /\ wjob'[j].on = w.on /\ <<j, k>> \in faulted'
        /\ IsFile(j, k) /\ (~Reopens(w, k) => w.open /\ k = n)
    BY <1>1, <1>2, <1>7, <2>1 DEF JobMoved, IsFile, Reopens
  <2>4. DiskOK(disk') BY <2>2 DEF Landed
  <2>5. DiskOK(disk)' BY <1>1, <2>4 DEF DiskOK, Files, Jobs
  <2>6. ASSUME NEW how \in {"block", "write", "open"}, Reopened(disk', j, k, v, how),
               how # "block" => <<j, k>> \in faulted'
        PROVE  /\ \A i \in Jobs : i # j =>
                     \A x \in DOMAIN sc.files[i] : disk'[<<i, x>>] = disk[<<i, x>>]
               /\ \A x \in DOMAIN sc.files[j] :
                     disk'[<<j, x>>].part # None =>
                        disk'[<<j, x>>].digest \/ <<j, x>> \in faulted'
               /\ <<j, k>> \notin faulted' => disk'[<<j, k>>].part # None
    <3>1. /\ \A g \in Files : g # <<j, k>> /\ g # <<j, n>> => disk'[g] = disk[g]
          /\ k # n /\ n \in DOMAIN sc.files[j] => disk'[<<j, n>>].part = None
          /\ how # "open" => disk'[<<j, k>>].digest
      BY <1>2, <2>6 DEF Reopened
    <3>2. \A i \in Jobs : i # j =>
             \A x \in DOMAIN sc.files[i] : disk'[<<i, x>>] = disk[<<i, x>>]
      BY <1>3, <3>1
    <3>3. <<j, k>> \notin faulted' => disk'[<<j, k>>].part # None
      BY <1>1, <1>2, <1>3, <2>4, <2>6, <3>1, DiskAt
    <3>4. \A x \in DOMAIN sc.files[j] :
             disk'[<<j, x>>].part # None =>
                disk'[<<j, x>>].digest \/ <<j, x>> \in faulted'
      BY <1>1, <1>3, <1>4, <1>5, <2>6, <3>1
    <3> QED BY <3>2, <3>3, <3>4
  <2>7. CASE Reopens(w, k)
    <3>1. PICK how \in {"block", "write", "open"} :
             /\ Reopened(disk', j, k, v, how)
             /\ how # "block" => <<j, k>> \in faulted'
      BY <1>2, <2>2, <2>7 DEF Landed
    <3>2. wjob'[j].open => wjob'[j].on = k \/ (w.open /\ wjob'[j].on = w.on)
      BY <2>3
    <3>3. <<j, k>> \notin faulted' => wjob'[j].on = k BY <2>3, <2>7
    <3>4. /\ wjob'[j].open => IsFile(j, wjob'[j].on)
          /\ <<j, k>> \notin faulted' =>
                wjob'[j].on = k /\ disk'[<<j, k>>].part # None
      BY <1>4, <2>3, <2>6, <3>1, <3>2, <3>3
    <3> QED BY <1>2, <1>7, <2>3, <2>6, <2>5, <3>1, <3>4
  <2>8. CASE ~Reopens(w, k)
    <3>1. /\ \A g \in Files : g # <<j, w.on>> => disk'[g] = disk[g]
          /\ \A g \in Files : disk'[g].digest = disk[g].digest
          /\ disk'[<<j, w.on>>].part # None <=> disk[<<j, w.on>>].part # None
      <4>1. \/ Appended(disk, disk', j, k, w.on, v)
            \/ disk' = disk
        BY <1>2, <2>2, <2>8 DEF Landed
      <4>2. <<j, w.on>> \in Files BY <1>3, <1>1, <1>4, <2>3, <2>8 DEF IsFile
      <4>3. v = 0 \/ v > 0 BY <1>1, <1>2
      <4>4. disk'[<<j, k>>].digest => disk'[<<j, k>>].part # None
        BY <1>1, <1>2, <1>3, <2>4, DiskAt
      <4>5. ASSUME Appended(disk, disk', j, k, w.on, v)
            PROVE  disk'[<<j, w.on>>].part # None <=> disk[<<j, w.on>>].part # None
        <5>1. CASE v > 0 /\ w.on = k /\ disk[<<j, k>>].part # None
          <6>1. disk'[<<j, k>>].part = Append(disk[<<j, k>>].part, v)
            BY <4>5, <5>1 DEF Appended
          <6>2. disk[<<j, k>>].part \in Seq(Nat)
            BY <1>1, <1>2, <1>3, <5>1, DiskAt
          <6>3. Append(disk[<<j, k>>].part, v) \in Seq(Nat) BY <1>1, <1>2, <6>2
          <6> QED BY <5>1, <6>1, <6>3, NotNone
        <5>2. CASE ~(v > 0 /\ w.on = k /\ disk[<<j, k>>].part # None)
          BY <4>3, <4>5, <5>2 DEF Appended
        <5> QED BY <5>1, <5>2
      <4> QED BY <4>1, <4>5 DEF Appended
    <3>2. \A i \in Jobs : i # j =>
             \A x \in DOMAIN sc.files[i] : disk'[<<i, x>>] = disk[<<i, x>>]
      BY <1>3, <3>1
    <3>3. \A x \in DOMAIN sc.files[j] :
             /\ disk'[<<j, x>>].digest = disk[<<j, x>>].digest
             /\ disk'[<<j, x>>].part # None <=> disk[<<j, x>>].part # None
      BY <1>1, <1>3, <3>1
    <3>4. wjob'[j].on = w.on /\ IsFile(j, w.on) BY <1>4, <2>3, <2>8
    <3>5. <<j, k>> \notin faulted' => w.on = k /\ disk'[<<j, k>>].part # None
      BY <1>1, <1>2, <1>4, <1>5, <2>3, <2>8, <3>3
    <3>6. \A x \in DOMAIN sc.files[j] :
             disk'[<<j, x>>].part # None =>
                disk'[<<j, x>>].digest \/ <<j, x>> \in faulted'
      BY <1>4, <1>5, <3>3
    <3> QED BY <1>2, <1>7, <2>3, <2>5, <3>2, <3>4, <3>5, <3>6
  <2> QED BY <2>7, <2>8
<1>8. CASE Size(j, k) # Dir /\ SyncFails(m)
  <2>1. /\ disk' = ModifyTime(disk, j, wjob[j].file_num) /\ wjob' = wjob
    BY <1>1, <1>8 DEF SyncFails
  <2>2. /\ DiskOK(disk)'
        /\ \A i \in Jobs : i # j =>
              \A x \in DOMAIN sc.files[i] : disk'[<<i, x>>] = disk[<<i, x>>]
        /\ \A x \in DOMAIN sc.files[j] :
              disk'[<<j, x>>].part = None \/ disk'[<<j, x>>] = disk[<<j, x>>]
    BY <1>1, <2>1, ModifyOthers
  <2>3. <<j, w.on>> \in faulted' BY <1>2, <1>8, BlockFaulted
  <2>4. ~(w.open /\ IsFile(j, n) /\ <<j, n>> \notin faulted')
    BY <1>4, <1>5, <2>3
  <2> QED BY <1>2, <1>4, <1>5, <1>8, <2>1, <2>2, <2>4
<1> QED BY <1>2, <1>6, <1>7, <1>8 DEF BlockTaken

\* The life of the job, and its questions.
LEMMA BlockLife ==
    ASSUME NEW m, NEW j, BlockTaken(m, j)
    PROVE  Life(j)' /\ Tokens(j)' /\ Parts(j)'
<1>1. /\ Live(j) /\ Live(j)' /\ j \in DOMAIN wjob' /\ wjob'[j].listed
      /\ At(j)' = wjob'[j].file_num /\ (Open(j)' <=> wjob'[j].open)
      /\ ~Has(c2s, j, {"send", "receive"}) /\ ~Has(c2s', j, {"send", "receive"})
      /\ state[j] \notin {"new", "saved", "gone", "added", "done"}
      /\ ~Clear(Data(j), j) /\ Item(m, j) /\ m \in Sent(Data(j), j)
      /\ Sent(Data(j)', j) \subseteq Sent(Data(j), j)
      /\ j \in DOMAIN rjob => /\ ~Has(Back(j), j, {"ask", "confirm"})
                              /\ ~Has(Back(j)', j, {"ask", "confirm"})
                              /\ ~Shown(j)
      /\ Shown(j)' <=> Shown(j)
  BY BlockIs
<1>2. /\ sc' = sc /\ sc.upload[j] \in BOOLEAN /\ Life(j) /\ Tokens(j)
      /\ Parts(j)
      /\ UNCHANGED <<up, breaks, saved, from, kept, dialog, rjob, state>>
      /\ up /\ j \in DOMAIN wjob
  BY Scenario DEF BlockTaken, FTTypeOK, TypeUser
<1>3. Less(Data(j), Data(j)', j) BY LessIs DEF BlockTaken
<1>4. Life(j)'
  <2>1. LifeIdle(j)' BY <1>1, <1>2 DEF LifeIdle
  <2>2. /\ Leads(c2s', j, {"send", "receive"}) /\ Leads(s2c', j, {"dir"})
    <3>1. Leads(c2s', j, {"send", "receive"}) BY <1>1, NoneOnce
    <3>2. Leads(s2c, j, {"dir"}) BY <1>2 DEF Life, LifeStart
    <3>3. CASE sc.upload[j]
      BY <1>2, <3>1, <3>2, <3>3 DEF BlockTaken, Back
    <3>4. CASE ~sc.upload[j]
      BY <1>2, <1>3, <3>1, <3>2, <3>4 DEF Less, Data
    <3> QED BY <3>3, <3>4
  <2>3. LifeStart(j)' BY <1>1, <2>2 DEF LifeStart, Has
  <2>4. LifeEnd(j)'
    <3>1. /\ Has(c2s', j, {"cancel"}) => Has(c2s, j, {"cancel"})
          /\ Has(s2c', j, {"digest"}) /\ ~sc.upload[j] => Has(s2c, j, {"digest"})
          /\ Has(Data(j)', j, {"done"}) => Has(Data(j), j, {"done"})
          /\ Has(s2c', j, {"done"}) => Has(s2c, j, {"done"})
      <4>1. CASE sc.upload[j]
        BY <1>1, <1>2, <4>1 DEF BlockTaken, Has, Data, Back
      <4>2. CASE ~sc.upload[j]
        BY <1>1, <1>2, <4>2 DEF BlockTaken, Has, Data, Back
      <4> QED BY <4>1, <4>2
    <3>2. Once(Data(j)', j, {"done"}) BY <1>2, <1>3 DEF Life, LifeEnd, Less
    <3> QED BY <1>1, <1>2, <3>1, <3>2 DEF Life, LifeEnd
  <2> QED BY <2>1, <2>3, <2>4 DEF Life
<1>5. Tokens(j)'
  <2>1. Once(Back(j), j, {"ask", "confirm"}) => Once(Back(j)', j, {"ask", "confirm"})
    BY DEF BlockTaken
  <2>2. \A x \in Sent(Back(j)', j) :
           x \in Sent(Back(j), j) \/ x.t \notin {"ask", "confirm"}
    BY DEF BlockTaken
  <2> QED BY <1>1, <1>2, <1>3, <2>1, <2>2, SameTokens DEF Less
<1>6. Parts(j)'
  <2>1. /\ Open(j)' => IsFile(j, wjob'[j].on)
        /\ Open(j)' /\ IsFile(j, wjob'[j].file_num)
           /\ <<j, wjob'[j].file_num>> \notin faulted' =>
              /\ wjob'[j].on = wjob'[j].file_num
              /\ disk'[<<j, wjob'[j].file_num>>].part # None
        /\ \A x \in DOMAIN sc.files[j] :
              disk'[<<j, x>>].part # None =>
                  disk'[<<j, x>>].digest \/ <<j, x>> \in faulted'
    BY <1>1, BlockDisk
  <2>2. \A x : IsFile(j, x)' <=> IsFile(j, x) BY <1>2 DEF IsFile, Size
  <2>3. OffsetFirst(Data(j)', j) BY <1>2, <1>3 DEF Parts, Less
  <2>4. \A x \in Sent(Data(j)', j) : ~(x.t = "confirm" /\ x.v > 0)
    <3>1. \A x \in Sent(Data(j)', j) : Item(x, j) => x.t # "confirm"
      BY <1>1, <1>2 DEF BlockTaken, Took, Parts
    <3>2. \A x \in Sent(Data(j)', j) : x.j = j BY InSent
    <3> QED BY <3>1, <3>2 DEF Item
  <2>5. j \in DOMAIN rjob' => \A x \in Sent(Back(j)', j) : x.t # "ask"
    BY <1>1, <1>2 DEF Has
  <2>6. j \in DOMAIN rjob /\ sc.od /\ <<j, rjob[j].file_num>> \in sc.undated =>
           ~rjob[j].confirmed /\ ~rjob[j].waiting
    BY <1>2 DEF Parts
  <2>7. (Open(j) => /\ IsFile(j, wjob[j].on)
                    /\ IsFile(j, At(j)) /\ <<j, At(j)>> \notin faulted =>
                          wjob[j].on = At(j) /\ disk[<<j, At(j)>>].part # None)'
    <3>1. PICK a, o : a = wjob'[j].file_num /\ o = wjob'[j].on OBVIOUS
    <3>2. IsFile(j, a)' = IsFile(j, a) /\ IsFile(j, o)' = IsFile(j, o)
      BY <1>2 DEF IsFile, Size
    <3>3. /\ Open(j)' => IsFile(j, o)'
          /\ Open(j)' /\ IsFile(j, a)' /\ <<j, a>> \notin faulted' =>
                o = a /\ disk'[<<j, a>>].part # None
      BY <1>1, <2>1, <3>1, <3>2
    <3>4. At(j)' = a /\ wjob'[j].on = o BY <1>1, <3>1
    <3> QED BY <3>3, <3>4
  <2>8. (j \in DOMAIN rjob => \A x \in Sent(Back(j), j) :
            x.t = "ask" /\ x.v > 0 => disk[<<j, x.k>>].digest)'
    BY <1>2, <2>5
  <2>9. (\A x \in DOMAIN sc.files[j] :
            disk[<<j, x>>].part # None =>
                disk[<<j, x>>].digest \/ <<j, x>> \in faulted)'
    BY <1>2, <2>1
  <2> QED BY <1>2, <2>3, <2>4, <2>6, <2>7, <2>8, <2>9 DEF Parts
<1> QED BY <1>4, <1>5, <1>6

\* The marker of an empty directory: what is before it is shadowed.
LEMMA BlockMarker ==
    ASSUME NEW m, NEW j, BlockTaken(m, j), JobInv(j), Size(j, m.k) = Dir
    PROVE  JobInv(j)'
<1>1. PICK k, n : k = m.k /\ n = At(j) OBVIOUS
<1>2. /\ k \in DOMAIN sc.files[j] /\ k \in Nat /\ m.v = 0 /\ n \in Nat
      /\ n = wjob[j].file_num /\ At(j)' = k /\ At(j) = n
      /\ Live(j) /\ Live(j)' /\ j \in DOMAIN wjob' /\ j \in DOMAIN wjob
      /\ wjob'[j].resume = wjob[j].resume /\ (Open(j)' <=> Open(j))
      /\ wjob'[j].on = wjob[j].on
      /\ ~Has(c2s, j, {"send", "receive"}) /\ ~Has(c2s', j, {"send", "receive"})
      /\ state[j] \notin {"new", "saved", "gone", "added", "done"}
      /\ ~Clear(Data(j), j) /\ Item(m, j) /\ m \in Sent(Data(j), j)
      /\ Sent(Data(j)', j) \subseteq Sent(Data(j), j)
      /\ m.t = "block" /\ m.k = k
  <2>1. BlockMoves(m) BY DEF BlockTaken
  <2>2. m.j = j /\ m.k \in Nat /\ j \in DOMAIN wjob /\ wjob[j] \in WriteJobs
    BY BlockIs DEF BlockTaken
  <2>3. JobMoved(m, j, wjob[j], wjob'[j]) BY <2>1, <2>2, JobMoves
  <2>4. /\ wjob'[j].file_num = m.k /\ wjob'[j].open = wjob[j].open
        /\ wjob'[j].on = wjob[j].on
    BY <2>3 DEF JobMoved
  <2> QED BY <1>1, <2>4, BlockIs DEF BlockTaken
<1>3. j \in DOMAIN rjob => /\ ~Has(Back(j), j, {"ask", "confirm"})
                           /\ ~Has(Back(j)', j, {"ask", "confirm"})
                           /\ ~Shown(j) /\ ~Shown(j)'
  BY BlockIs
<1>4. /\ sc' = sc /\ UNCHANGED <<up, breaks, saved, from, kept, dialog, rjob,
                                 state>>
      /\ up /\ FTTypeOK /\ Tokens(j) /\ j \in Jobs /\ sc \in Scenarios
      /\ Took(Data(j), Data(j)', j, m)
  BY DEF BlockTaken, FTTypeOK, TypeUser
<1>5. disk' = disk /\ faulted' = faulted
  BY BlockDisk, BlockFaulted
<1>6. SameDisk(j) /\ SameFacts(j)
  BY <1>4, <1>5, SameDiskFacts DEF SameDisk
<1>7. DOMAIN sc.files[j] = 1 .. Len(sc.files[j]) /\ Len(sc.files[j]) \in Nat
  BY <1>4, Scenario
<1>8. /\ n <= k /\ (n < k => Gap(j, n, k)) /\ (n = k => ~Open(j))
  <2>1. StartOK(j, m) BY <1>2, <1>4 DEF JobInv, Chain, Took
  <2> QED BY <1>2, <2>1 DEF StartOK
<1>9. Size(j, k) = Dir /\ <<j, k>> \notin kept
  BY <1>1, <1>2 DEF JobInv, Keeps
<1>10. ASSUME NEW x \in DOMAIN sc.files[j], Shadowed(j, x, n)
       PROVE Shadowed(j, x, k)
  BY <1>2, <1>7, <1>8, <1>10 DEF Shadowed
<1>11. n < k => Shadowed(j, n, k) BY <1>2, <1>8, <1>9 DEF Shadowed
<1>12. Touch(j)'
  <2>1. Untouched(j, k)
    <3>1. Untouched(j, n) BY <1>2 DEF JobInv, Touch
    <3> QED BY <1>2, <1>7, <1>8, <3>1 DEF Untouched
  <2>2. WholeBefore(j, k)
    <3>1. WholeBefore(j, n) BY <1>2 DEF JobInv, Touch
    <3>2. SUFFICES
             ASSUME NEW x \in DOMAIN sc.files[j], x < k, Size(j, x) # Dir,
                    <<j, x>> \notin kept \cup faulted,
                    sc.upload[j] => x >= from[j]
             PROVE  disk[<<j, x>>].final = Whole(<<j, x>>) \/ Shadowed(j, x, k)
      BY DEF WholeBefore
    <3>3. x \in Nat BY <1>7
    <3>4. CASE x < n BY <1>10, <3>1, <3>2, <3>4 DEF WholeBefore
    <3>5. CASE x = n BY <1>11, <3>2, <3>5
    <3>6. CASE n < x BY <1>2, <1>8, <3>2, <3>3, <3>6 DEF Gap
    <3> QED BY <1>2, <3>3, <3>4, <3>5, <3>6
  <2> QED BY <1>2, <1>4, <1>6, <2>1, <2>2 DEF JobInv, Touch, SameFacts
<1>13. Resumed(j)'
  <2>1. disk'[<<j, k>>].part = None BY <1>2, <1>5, <1>9 DEF JobInv, Torn
  <2> QED BY <1>2, <1>4, <2>1 DEF JobInv, Resumed
<1>14. Torn(j)'
  BY <1>4, <1>5, <1>6 DEF JobInv, Torn, IsPrefixOf, SameFacts, SameDisk
<1>15. Passed(j, k) BY <1>9 DEF Passed
<1>16. j \in DOMAIN rjob /\ Clear(Data(j)', j) =>
          rjob[j].file_num > k /\ rjob[j].pos <= 1 /\ Gap(j, k, rjob[j].file_num)
  <2>1. SUFFICES ASSUME j \in DOMAIN rjob, Clear(Data(j)', j)
        PROVE  /\ rjob[j].file_num > k /\ rjob[j].pos <= 1
               /\ Gap(j, k, rjob[j].file_num)
    OBVIOUS
  <2>2. Closes(Data(j), j, m) BY <1>2, <1>4, <2>1 DEF Took
  <2>3. LastOK(j, m) BY <1>2, <2>1, <2>2 DEF JobInv, Chain
  <2> QED BY <1>2, <2>3 DEF LastOK
<1>17. Chain(j)'
  <2>1. \A x : Opens(Data(j)', j, x) /\ x \in Sent(Data(j)', j) => StartOK(j, x)'
    <3>1. SUFFICES ASSUME NEW x \in Sent(Data(j)', j), Follows(Data(j), j, m, x)
                   PROVE  StartOK(j, x)'
      BY <1>2, <1>4 DEF Took
    <3>2. FollowOK(j, m, x) BY <1>2, <3>1 DEF JobInv, Chain
    <3>3. x.k > k /\ Begins(j, x) /\ Gap(j, k, x.k) BY <1>2, <3>2 DEF FollowOK
    <3>4. Begins(j, x)' BY <1>6, <3>3 DEF Begins, SameFacts, SameDisk
    <3> QED BY <1>2, <1>6, <1>15, <3>3, <3>4 DEF StartOK, SameFacts
  <2>2. \A y, z : FollowOK(j, y, z) => FollowOK(j, y, z)'
    BY <1>5, <1>6 DEF FollowOK, Begins, SameFacts
  <2>3. \A y : LastOK(j, y) => LastOK(j, y)'
    BY <1>4, <1>5, <1>6 DEF LastOK, SameFacts, Go
  <2>4. j \in DOMAIN rjob /\ Clear(Data(j)', j) => NoneOK(j)'
    BY <1>2, <1>4, <1>6, <1>15, <1>16 DEF NoneOK, SameFacts
  <2>5. /\ \A y : Closes(Data(j)', j, y) => Closes(Data(j), j, y)
        /\ \A y, z : Follows(Data(j)', j, y, z) => Follows(Data(j), j, y, z)
    BY <1>2, <1>4 DEF Took
  <2> QED BY <1>2, <1>4, <2>1, <2>2, <2>3, <2>4, <2>5 DEF JobInv, Chain
<1>18. Reached(j)'
  <2>1. j \in DOMAIN rjob => k <= rjob[j].file_num
    BY <1>2, <1>4, ReadIs DEF JobInv, Reached, FTTypeOK, TypeJobs
  <2> QED BY <1>2, <1>4, <2>1 DEF JobInv, Reached
<1>19. Answers(j)'
  <2>1. \A x \in Sent(Data(j)', j) :
           j \in DOMAIN rjob /\ x.t = "digest" => x.k = rjob[j].file_num
    BY <1>2, <1>4 DEF Tokens, WaitsFor
  <2> QED BY <1>2, <1>3, <1>4, <1>16, <2>1 DEF Answers, Has, DigestOK
<1>20. Keeps(j)'
  <2>1. \A x \in DOMAIN sc.files[j] : x >= k => x >= n BY <1>2, <1>7, <1>8
  <2>2. Open(j)' => /\ <<j, At(j)'>> \notin kept
                    /\ <<j, wjob'[j].on>> \notin kept /\ wjob'[j].on <= At(j)'
    <3>1. wjob[j].on \in Nat BY <1>2, <1>4, WriteIs DEF FTTypeOK, TypeJobs
    <3>2. Open(j) => <<j, wjob[j].on>> \notin kept /\ wjob[j].on <= n
      BY <1>2 DEF JobInv, Keeps
    <3> QED BY <1>2, <1>8, <1>9, <3>1, <3>2
  <2>3. /\ \A x \in Sent(Data(j)', j) :
              /\ x.t = "block" \/ (x.t = "confirm" /\ x.v >= 0)
                 => <<j, x.k>> \notin kept
              /\ x.t = "confirm" /\ x.v = Skip => <<j, x.k>> \in kept
        /\ j \in DOMAIN rjob /\ rjob[j].confirmed => <<j, rjob[j].file_num>> \notin kept
    BY <1>2 DEF JobInv, Keeps
  <2>4. \A x \in DOMAIN sc.files[j] :
           <<j, x>> \in kept \ faulted =>
               /\ Orig(<<j, x>>)'
               /\ x >= k /\ (sc.upload[j] \/ breaks = 0)
                     => disk[<<j, x>>].part = None
    BY <1>2, <1>6, <2>1 DEF JobInv, Keeps, SameFacts
  <2> QED BY <1>2, <1>4, <1>5, <2>2, <2>3, <2>4 DEF Keeps
<1>21. Ending(j)'
  <2>1. /\ Has(s2c', j, {"done"}) => Has(s2c, j, {"done"})
        /\ Has(s2c', j, {"error"}) /\ ~sc.upload[j] => Has(s2c, j, {"error"})
        /\ Has(c2s, j, {"cancel"}) => Has(c2s', j, {"cancel"})
    <3>1. CASE sc.upload[j]
      BY <1>2, <1>4, <3>1 DEF BlockTaken, Has, Data, Back, Took
    <3>2. CASE ~sc.upload[j]
      BY <1>2, <1>4, <3>2 DEF BlockTaken, Has, Data, Back, Took
    <3> QED BY <3>1, <3>2
  <2> QED BY <1>2, <1>4, <1>6, <2>1
          DEF JobInv, Ending, Undated, AllWhole, SameFacts
<1>22. Leftover(j)'
  <2>1. SUFFICES ASSUME breaks = 0, faulted = {} PROVE Leftover(j)'
    BY <1>4, <1>5 DEF Leftover
  <2>2. /\ j \in DOMAIN rjob => ~rjob[j].error
        /\ j \in DOMAIN rjob /\ rjob[j].skipped /\ Len(sc.files[j]) = 1 =>
              <<j, 1>> \in kept /\ rjob[j].file_num > 1
        /\ ~Has(Data(j), j, {"error"})
        /\ \A x \in DOMAIN sc.files[j] :
              disk[<<j, x>>].part # None => x = n \/ Shadowed(j, x, n)
    BY <1>2, <2>1 DEF JobInv, Leftover
  <2>3. ~Has(Data(j)', j, {"error"}) /\ ~Has(c2s', j, {"send"})
    BY <1>2, <2>2 DEF Has
  <2>4. \A x \in DOMAIN sc.files[j] :
           disk[<<j, x>>].part # None => x = k \/ Shadowed(j, x, k)
    BY <1>2, <1>8, <1>10, <1>11, <2>2
  <2> QED BY <1>2, <1>4, <1>5, <1>6, <2>2, <2>3, <2>4 DEF Leftover, SameFacts
<1> QED BY <1>12, <1>13, <1>14, <1>17, <1>18, <1>19, <1>20, <1>21, <1>22
        DEF JobInv

\* A .download with one block more.
LEMMA PrefixAppend ==
    ASSUME NEW j, NEW k, NEW s \in Seq(Nat), NEW v \in Nat, v = Len(s) + 1,
           \A i \in DOMAIN s : s[i] = i, v <= Size(j, k), Size(j, k) \in Nat
    PROVE  /\ Append(s, v) \in Seq(Nat) /\ IsPrefixOf(Append(s, v), <<j, k>>)
           /\ Append(s, v) # <<>> /\ Len(Append(s, v)) = v
<1>1. PICK t : t = Append(s, v) OBVIOUS
<1>2. /\ t \in Seq(Nat) /\ Len(t) = Len(s) + 1 /\ DOMAIN t = 1 .. Len(s) + 1
      /\ DOMAIN s = 1 .. Len(s) /\ Len(s) \in Nat
      /\ \A i \in 1 .. Len(s) : t[i] = s[i]
      /\ t[Len(s) + 1] = v
  BY <1>1, AppendAt
<1>3. \A i \in DOMAIN t : t[i] = i BY <1>2
<1>4. <<j, k>>[1] = j /\ <<j, k>>[2] = k OBVIOUS
<1>5. IsPrefixOf(t, <<j, k>>) BY <1>2, <1>3, <1>4 DEF IsPrefixOf
<1>6. t # <<>> BY <1>2
<1> QED BY <1>1, <1>2, <1>5, <1>6

\* What a block of a file does: the file before it gets its name, and the
\* .download is as long as the block says, unless it failed; then blocks may
\* have been put behind an earlier file.
BlockDone(j, k, v, n) ==
    /\ n <= k /\ (n < k => Gap(j, n, k)) /\ <<j, k>> \notin kept
    /\ faulted \subseteq faulted'
    /\ \A x \in DOMAIN sc.files[j] :
          x # k => (<<j, x>> \in faulted' <=> <<j, x>> \in faulted)
    /\ \A x \in DOMAIN sc.files[j] : x # n /\ x # k =>
          /\ disk'[<<j, x>>].part = disk[<<j, x>>].part
          /\ disk'[<<j, x>>].final = disk[<<j, x>>].final
          /\ x > k \/ <<j, x>> \in kept => disk'[<<j, x>>] = disk[<<j, x>>]
          /\ disk'[<<j, x>>].spoilt =>
                disk[<<j, x>>].spoilt \/ (x < k /\ <<j, k>> \in faulted')
    /\ Open(j)' \/ (disk'[<<j, k>>].part = None /\ <<j, k>> \in faulted')
    /\ Open(j)' => <<j, wjob'[j].on>> \notin kept /\ wjob'[j].on <= k
    /\ <<j, k>> \notin faulted' =>
          /\ disk'[<<j, k>>].part # None
          /\ IsPrefixOf(disk'[<<j, k>>].part, <<j, k>>)
          /\ disk'[<<j, k>>].part = <<>> => Size(j, k) = 0
          /\ Len(disk'[<<j, k>>].part) = IF v = 0 THEN Size(j, k) ELSE v
          /\ Orig(<<j, k>>)'
          /\ \/ disk'[<<j, k>>].final \in {None, Whole(<<j, k>>)}
             \/ disk'[<<j, k>>].final = Old
    /\ n < k /\ n \in DOMAIN sc.files[j] =>
          /\ disk'[<<j, n>>].part = None
          /\ disk'[<<j, n>>].spoilt = disk[<<j, n>>].spoilt
          /\ <<j, n>> \notin faulted =>
                \/ /\ disk'[<<j, n>>].final = disk[<<j, n>>].final
                   /\ <<j, n>> \in kept \/ Size(j, n) = Dir
                \/ /\ disk'[<<j, n>>].final = Whole(<<j, n>>)
                   /\ Size(j, n) # Dir /\ <<j, n>> \notin kept

\* write does that.
LEMMA BlockDoes ==
    ASSUME NEW m, NEW j, BlockTaken(m, j), BlockMoves(m), JobInv(j),
           Size(j, m.k) # Dir, NEW k, NEW v, NEW n, k = m.k, v = m.v, n = At(j)
    PROVE  BlockDone(j, k, v, n)
<1>1. PICK w : w = wjob[j] OBVIOUS
<1>2. /\ k \in DOMAIN sc.files[j] /\ k \in Nat /\ v \in Nat /\ n \in Nat
      /\ n = w.file_num /\ Live(j) /\ j \in DOMAIN wjob /\ w.on \in Nat
      /\ v > 0 => v <= Size(j, k)
      /\ Item(m, j) /\ m \in Sent(Data(j), j) /\ m.t = "block"
      /\ Open(j) <=> w.open
      /\ Open(j)' <=> wjob'[j].open
      /\ Reopens(w, k) <=> n # k \/ ~Open(j)
  BY <1>1, BlockIs, WriteIs DEF BlockTaken, Reopens
<1>3. /\ sc' = sc /\ FTTypeOK /\ j \in Jobs /\ sc \in Scenarios /\ DiskOK(disk)
      /\ Took(Data(j), Data(j)', j, m) /\ kept' = kept /\ m.j = j
  BY DEF BlockTaken, FTTypeOK, TypeUser
<1>4. /\ DOMAIN sc.files[j] = 1 .. Len(sc.files[j]) /\ Len(sc.files[j]) \in Nat
      /\ \A x : <<j, x>> \in Files <=> x \in DOMAIN sc.files[j]
      /\ Size(j, k) \in Nat
  BY <1>2, <1>3, Scenario
<1>5. <<j, k>> \notin kept BY <1>2 DEF JobInv, Keeps
<1>6. /\ faulted \subseteq faulted'
      /\ \A x : x # k => (<<j, x>> \in faulted' <=> <<j, x>> \in faulted)
  BY BlockFaulted
<1>7. Landed(disk', j, k, v) BY BlockLands
<1>8. /\ \A x : Size(j, x)' = Size(j, x) /\ Whole(<<j, x>>)' = Whole(<<j, x>>)
      /\ disk[<<j, k>>].part # None => disk[<<j, k>>].part \in Seq(Nat)
      /\ n \in DOMAIN sc.files[j] /\ disk[<<j, n>>].part # None
            => disk[<<j, n>>].part \in Seq(Nat)
  BY <1>2, <1>3, <1>4, DiskAt DEF Size, Whole
<1>9. StartOK(j, m) BY <1>2, <1>3 DEF JobInv, Chain, Took
<1>10. /\ n <= k /\ (n < k => Gap(j, n, k) /\ Passed(j, n))
       /\ n < k \/ ~Open(j) =>
             v = 1 \/ (v = 0 /\ Size(j, k) = 0) \/ <<j, k>> \in faulted
       /\ n = k /\ ~Open(j) => Blank(j, k)
       /\ n = k /\ Open(j) => Received(j, k, IF v = 0 THEN Size(j, k) ELSE v - 1)
  BY <1>2, <1>9 DEF StartOK, Begins
<1>11. /\ Open(j) => <<j, w.on>> \notin kept /\ w.on <= n /\ IsFile(j, w.on)
       /\ Open(j) /\ n = k /\ <<j, k>> \notin faulted =>
             w.on = k /\ disk[<<j, k>>].part # None
  BY <1>1, <1>2, <1>4 DEF JobInv, Keeps, BlockTaken, Parts, IsFile
<1>12. /\ wjob'[j].open => wjob'[j].on = k \/ (w.open /\ wjob'[j].on = w.on)
       /\ Open(j) => Open(j)'
  <2>1. wjob[j] \in WriteJobs /\ k \in Nat BY BlockIs
  <2>2. JobMoved(m, j, wjob[j], wjob'[j]) BY <1>2, <1>3, <2>1, JobMoves
  <2> QED BY <1>1, <1>2, <2>2 DEF JobMoved
<1>13. Open(j)' => <<j, wjob'[j].on>> \notin kept /\ wjob'[j].on <= k
  BY <1>2, <1>5, <1>10, <1>11, <1>12
\* The first block of the file, and another one.
<1>14. Reopens(w, k) =>
          \E how \in {"block", "write", "open"} :
              /\ Reopened(disk', j, k, v, how)
              /\ how # "block" => <<j, k>> \in faulted'
              /\ how # "open" => Open(j)'
  BY <1>1, <1>2, <1>7 DEF Landed
<1>15. ~Reopens(w, k) =>
          /\ n = k /\ Open(j)
          /\ \/ Appended(disk, disk', j, k, w.on, v)
             \/ disk' = disk /\ <<j, k>> \in faulted'
  BY <1>1, <1>2, <1>7 DEF Landed
<1>16. Open(j)' \/ (disk'[<<j, k>>].part = None /\ <<j, k>> \in faulted')
  <2>1. CASE Reopens(w, k) /\ ~Open(j)'
    <3>1. Reopened(disk', j, k, v, "open") /\ <<j, k>> \in faulted'
      BY <1>14, <2>1
    <3>2. disk'[<<j, k>>].part = IF k = n THEN None ELSE disk[<<j, k>>].part
      BY <1>1, <1>2, <3>1 DEF Reopened
    <3>3. k # n => disk[<<j, k>>].part = None
      BY <1>2, <1>10 DEF JobInv, Touch, Untouched
    <3> QED BY <3>1, <3>2, <3>3
  <2> QED BY <1>12, <1>15, <2>1
<1>17. ASSUME NEW x \in DOMAIN sc.files[j], x # n, x # k
       PROVE  /\ disk'[<<j, x>>].part = disk[<<j, x>>].part
              /\ disk'[<<j, x>>].final = disk[<<j, x>>].final
              /\ x > k \/ <<j, x>> \in kept => disk'[<<j, x>>] = disk[<<j, x>>]
              /\ disk'[<<j, x>>].spoilt =>
                    disk[<<j, x>>].spoilt \/ (x < k /\ <<j, k>> \in faulted')
  <2>1. <<j, x>> \in Files /\ <<j, x>> # <<j, k>> /\ <<j, x>> # <<j, n>>
    BY <1>4, <1>17
  <2>2. CASE Reopens(w, k)
    <3>1. disk'[<<j, x>>] = disk[<<j, x>>]
      BY <1>1, <1>2, <1>14, <2>1, <2>2 DEF Reopened
    <3> QED BY <3>1
  <2>3. CASE ~Reopens(w, k) /\ x # w.on
    <3>1. <<j, x>> # <<j, w.on>> BY <2>3
    <3>2. disk'[<<j, x>>] = disk[<<j, x>>]
      BY <1>15, <2>1, <2>3, <3>1 DEF Appended
    <3> QED BY <3>2
  <2>4. CASE ~Reopens(w, k) /\ x = w.on
    <3>1. /\ <<j, k>> \in faulted' /\ x < k /\ <<j, x>> \notin kept
      <4>1. n = k /\ Open(j) BY <1>15, <2>4
      <4> QED BY <1>2, <1>6, <1>11, <1>17, <2>4, <4>1
    <3>2. /\ disk'[<<j, x>>].part = disk[<<j, x>>].part
          /\ disk'[<<j, x>>].final = disk[<<j, x>>].final
      BY <1>15, <1>17, <2>1, <2>4 DEF Appended
    <3> QED BY <1>2, <1>4, <3>1, <3>2
  <2> QED BY <2>2, <2>3, <2>4
\* The .download of the file.
<1>18. ASSUME <<j, k>> \notin faulted'
       PROVE  /\ disk'[<<j, k>>].part # None
              /\ IsPrefixOf(disk'[<<j, k>>].part, <<j, k>>)
              /\ disk'[<<j, k>>].part = <<>> => Size(j, k) = 0
              /\ Len(disk'[<<j, k>>].part) = IF v = 0 THEN Size(j, k) ELSE v
  <2>1. <<j, k>> \notin faulted BY <1>6, <1>18
  <2>2. CASE Reopens(w, k)
    <3>1. disk'[<<j, k>>].part = IF v = 0 THEN <<>> ELSE Append(<<>>, v)
      <4>1. Reopened(disk', j, k, v, "block") BY <1>14, <1>18, <2>2
      <4> QED BY <4>1 DEF Reopened
    <3>2. CASE v = 0
      <4>1. disk'[<<j, k>>].part = <<>> /\ Size(j, k) = 0
        BY <1>2, <1>10, <2>1, <2>2, <3>1, <3>2
      <4>2. IsPrefixOf(<<>>, <<j, k>>) BY <4>1 DEF IsPrefixOf
      <4> QED BY <3>2, <4>1, <4>2, NotNone
    <3>3. CASE v # 0
      <4>1. v = 1 /\ disk'[<<j, k>>].part = Append(<<>>, v) /\ v <= Size(j, k)
        BY <1>2, <1>10, <2>1, <2>2, <3>1, <3>3
      <4>2. /\ IsPrefixOf(Append(<<>>, v), <<j, k>>)
            /\ Append(<<>>, v) \in Seq(Nat)
            /\ Append(<<>>, v) # <<>> /\ Len(Append(<<>>, v)) = v
        <5>1. PICK s \in Seq(Nat) : s = <<>> BY NotNone
        <5>2. v = Len(s) + 1 /\ \A i \in DOMAIN s : s[i] = i BY <4>1, <5>1
        <5>3. /\ IsPrefixOf(Append(s, v), <<j, k>>) /\ Append(s, v) \in Seq(Nat)
              /\ Append(s, v) # <<>> /\ Len(Append(s, v)) = v
          BY <1>2, <1>4, <4>1, <5>2, PrefixAppend
        <5> QED BY <5>1, <5>3
      <4> QED BY <3>3, <4>1, <4>2, NotNone
    <3> QED BY <3>2, <3>3
  <2>3. CASE ~Reopens(w, k)
    <3>1. /\ n = k /\ Open(j) /\ Appended(disk, disk', j, k, k, v)
          /\ disk[<<j, k>>].part # None
          /\ Len(disk[<<j, k>>].part) = IF v = 0 THEN Size(j, k) ELSE v - 1
      BY <1>10, <1>11, <1>15, <1>18, <2>1, <2>3 DEF Received
    <3>2. /\ IsPrefixOf(disk[<<j, k>>].part, <<j, k>>)
          /\ disk[<<j, k>>].part = <<>> => Size(j, k) = 0
      BY <1>2, <2>1, <3>1 DEF JobInv, Torn
    <3>3. disk'[<<j, k>>].part = IF v = 0 THEN disk[<<j, k>>].part
                                 ELSE Append(disk[<<j, k>>].part, v)
      <4>1. /\ v = 0 => disk' = disk
            /\ v > 0 => disk'[<<j, k>>].part = Append(disk[<<j, k>>].part, v)
        BY <3>1 DEF Appended
      <4>2. v = 0 \/ v > 0 BY <1>2
      <4>3. CASE v = 0 BY <4>1, <4>3
      <4>4. CASE v > 0
        <5>1. v # 0 BY <4>4
        <5> QED BY <4>1, <4>4, <5>1, Zenon
      <4> QED BY <4>2, <4>3, <4>4
    <3>4. CASE v = 0 BY <3>1, <3>2, <3>3, <3>4
    <3>5. CASE v # 0
      <4>1. PICK s \in Seq(Nat) : s = disk[<<j, k>>].part BY <1>8, <3>1
      <4>2. v = Len(s) + 1 /\ \A i \in DOMAIN s : s[i] = i
        <5>1. Len(s) = v - 1 /\ IsPrefixOf(s, <<j, k>>)
          BY <3>1, <3>2, <3>5, <4>1
        <5> QED BY <1>2, <5>1 DEF IsPrefixOf
      <4>3. v <= Size(j, k) BY <1>2, <3>5
      <4>4. /\ IsPrefixOf(Append(s, v), <<j, k>>) /\ Append(s, v) \in Seq(Nat)
            /\ Append(s, v) # <<>> /\ Len(Append(s, v)) = v
        BY <1>2, <1>4, <4>2, <4>3, PrefixAppend
      <4> QED BY <3>3, <3>5, <4>1, <4>4, NotNone
    <3> QED BY <3>4, <3>5
  <2> QED BY <2>2, <2>3
\* What bears its name.
<1>19. ASSUME <<j, k>> \notin faulted'
       PROVE  /\ Orig(<<j, k>>)'
              /\ \/ disk'[<<j, k>>].final \in {None, Whole(<<j, k>>)}
                 \/ disk'[<<j, k>>].final = Old
  <2>1. <<j, k>> \notin faulted BY <1>6, <1>19
  <2>2. Orig(<<j, k>>)
    <3>1. Untouched(j, n) BY <1>2 DEF JobInv, Touch
    <3> QED BY <1>2, <1>10, <2>1, <3>1 DEF Untouched
  <2>3. /\ disk'[<<j, k>>].spoilt = disk[<<j, k>>].spoilt
        /\ \/ disk'[<<j, k>>].final = disk[<<j, k>>].final
           \/ Size(j, k) = 0 /\ disk'[<<j, k>>].final = Whole(<<j, k>>)
    <3>1. CASE ~Reopens(w, k)
      <4>1. /\ Appended(disk, disk', j, k, k, v) /\ disk[<<j, k>>].part # None
            /\ <<j, k>> \in Files
        BY <1>2, <1>4, <1>11, <1>15, <1>19, <2>1, <3>1
      <4> QED BY <1>2, <4>1 DEF Appended
    <3>2. CASE Reopens(w, k)
      <4>1. Reopened(disk', j, k, v, "block") BY <1>14, <1>19, <3>2
      <4>2. /\ disk'[<<j, k>>].spoilt = disk[<<j, k>>].spoilt
            /\ disk'[<<j, k>>].final = IF k = n /\ disk[<<j, k>>].part # None
                                       THEN disk[<<j, k>>].part ELSE disk[<<j, k>>].final
        BY <1>1, <1>2, <4>1 DEF Reopened
      <4>3. CASE k = n /\ disk[<<j, k>>].part # None
        <5>1. disk[<<j, k>>].part = <<>>
          BY <1>2, <1>10, <2>1, <3>2, <4>3 DEF Blank, Empty
        <5>2. /\ IsPrefixOf(disk[<<j, k>>].part, <<j, k>>) /\ Size(j, k) = 0
          BY <1>2, <2>1, <4>3, <5>1 DEF JobInv, Torn
        <5>3. disk[<<j, k>>].part = Whole(<<j, k>>)
          BY <1>8, <4>3, <5>1, <5>2, PrefixWhole
        <5> QED BY <4>2, <4>3, <5>2, <5>3
      <4> QED BY <4>2, <4>3
    <3> QED BY <3>1, <3>2
  <2>4. Orig(<<j, k>>)'
    <3>1. <<j, k>>[1] = j /\ <<j, k>>[2] = k OBVIOUS
    <3> QED BY <1>3, <1>8, <2>2, <2>3, <3>1 DEF Orig
  <2>5. \/ disk[<<j, k>>].final \in {None, Whole(<<j, k>>)}
        \/ disk[<<j, k>>].final = Old
    BY <1>2, <2>1 DEF JobInv, Torn
  <2> QED BY <2>3, <2>4, <2>5
\* The file before it.
<1>20. ASSUME n < k, n \in DOMAIN sc.files[j]
       PROVE  /\ disk'[<<j, n>>].part = None
              /\ disk'[<<j, n>>].spoilt = disk[<<j, n>>].spoilt
              /\ <<j, n>> \notin faulted =>
                    \/ /\ disk'[<<j, n>>].final = disk[<<j, n>>].final
                       /\ <<j, n>> \in kept \/ Size(j, n) = Dir
                    \/ /\ disk'[<<j, n>>].final = Whole(<<j, n>>)
                       /\ Size(j, n) # Dir /\ <<j, n>> \notin kept
  <2>1. /\ disk'[<<j, n>>].part = None
        /\ disk'[<<j, n>>].spoilt = disk[<<j, n>>].spoilt
        /\ disk'[<<j, n>>].final = IF disk[<<j, n>>].part # None
                                   THEN disk[<<j, n>>].part ELSE disk[<<j, n>>].final
    BY <1>1, <1>2, <1>14, <1>20 DEF Reopened
  <2>2. SUFFICES ASSUME <<j, n>> \notin faulted
                 PROVE  \/ /\ disk'[<<j, n>>].final = disk[<<j, n>>].final
                           /\ <<j, n>> \in kept \/ Size(j, n) = Dir
                        \/ /\ disk'[<<j, n>>].final = Whole(<<j, n>>)
                           /\ Size(j, n) # Dir /\ <<j, n>> \notin kept
    BY <2>1
  <2>3. Passed(j, n) BY <1>10, <1>20
  <2>4. CASE Size(j, n) = Dir BY <1>20, <2>1, <2>4 DEF JobInv, Torn
  <2>5. CASE <<j, n>> \in kept /\ Size(j, n) # Dir
    BY <1>20, <2>1, <2>2, <2>3, <2>5 DEF Passed
  <2>6. CASE <<j, n>> \notin kept /\ Size(j, n) # Dir
    <3>1. disk[<<j, n>>].part # None /\ Len(disk[<<j, n>>].part) = Size(j, n)
      BY <1>20, <2>2, <2>3, <2>6 DEF Passed
    <3>2. IsPrefixOf(disk[<<j, n>>].part, <<j, n>>)
      BY <1>20, <2>2, <3>1 DEF JobInv, Torn
    <3>3. disk[<<j, n>>].part = Whole(<<j, n>>)
      BY <1>8, <1>20, <3>1, <3>2, PrefixWhole
    <3> QED BY <2>1, <2>6, <3>1, <3>3
  <2> QED BY <2>4, <2>5, <2>6
<1> QED BY <1>5, <1>6, <1>10, <1>13, <1>16, <1>17, <1>18, <1>19, <1>20
        DEF BlockDone

\* A block of a file continues what was received.
LEMMA BlockFile ==
    ASSUME NEW m, NEW j, BlockTaken(m, j), BlockMoves(m), JobInv(j),
           Size(j, m.k) # Dir
    PROVE  JobInv(j)'
<1>1. PICK k, n, v : k = m.k /\ n = At(j) /\ v = m.v OBVIOUS
<1>2. /\ k \in DOMAIN sc.files[j] /\ k \in Nat /\ v \in Nat /\ n \in Nat
      /\ v > 0 => v <= Size(j, k)
      /\ n = wjob[j].file_num /\ At(j)' = k /\ At(j) = n
      /\ Live(j) /\ Live(j)' /\ j \in DOMAIN wjob' /\ j \in DOMAIN wjob
      /\ wjob'[j].resume = wjob[j].resume /\ Size(j, k) # Dir
      /\ ~Has(c2s, j, {"send", "receive"}) /\ ~Has(c2s', j, {"send", "receive"})
      /\ state[j] \notin {"new", "saved", "gone", "added", "done"}
      /\ ~Clear(Data(j), j) /\ Item(m, j) /\ m \in Sent(Data(j), j)
      /\ Sent(Data(j)', j) \subseteq Sent(Data(j), j)
      /\ m.t = "block" /\ m.k = k /\ m.v = v
  <2>1. m.j = j /\ m.k \in Nat /\ j \in DOMAIN wjob /\ wjob[j] \in WriteJobs
    BY BlockIs DEF BlockTaken
  <2>2. JobMoved(m, j, wjob[j], wjob'[j]) BY <2>1, JobMoves
  <2>3. wjob'[j].file_num = m.k BY <2>2 DEF JobMoved
  <2> QED BY <1>1, <2>3, BlockIs DEF BlockTaken
<1>3. j \in DOMAIN rjob => /\ ~Has(Back(j), j, {"ask", "confirm"})
                           /\ ~Has(Back(j)', j, {"ask", "confirm"})
                           /\ ~Shown(j) /\ ~Shown(j)'
  BY BlockIs
<1>4. /\ sc' = sc /\ UNCHANGED <<up, breaks, saved, from, kept, dialog, rjob,
                                 state>>
      /\ up /\ FTTypeOK /\ Tokens(j) /\ Life(j) /\ j \in Jobs
      /\ sc \in Scenarios
      /\ Took(Data(j), Data(j)', j, m)
  BY DEF BlockTaken, FTTypeOK, TypeUser
<1>5. BlockDone(j, k, v, n) BY <1>1, BlockDoes
<1>6. /\ n <= k /\ (n < k => Gap(j, n, k)) /\ <<j, k>> \notin kept
      /\ faulted \subseteq faulted'
      /\ Open(j)' \/ (disk'[<<j, k>>].part = None /\ <<j, k>> \in faulted')
      /\ Open(j)' => <<j, wjob'[j].on>> \notin kept /\ wjob'[j].on <= k
      /\ \A x \in DOMAIN sc.files[j] : x # n /\ x # k =>
            /\ disk'[<<j, x>>].part = disk[<<j, x>>].part
            /\ disk'[<<j, x>>].final = disk[<<j, x>>].final
            /\ x > k \/ <<j, x>> \in kept => disk'[<<j, x>>] = disk[<<j, x>>]
            /\ disk'[<<j, x>>].spoilt =>
                  disk[<<j, x>>].spoilt \/ (x < k /\ <<j, k>> \in faulted')
      /\ n < k /\ n \in DOMAIN sc.files[j] => disk'[<<j, n>>].part = None
  BY <1>5 DEF BlockDone
<1>7. /\ DOMAIN sc.files[j] = 1 .. Len(sc.files[j]) /\ Len(sc.files[j]) \in Nat
      /\ Size(j, k) \in Nat
  BY <1>2, <1>4, Scenario
<1>8. /\ \A x : Size(j, x)' = Size(j, x) /\ Whole(<<j, x>>)' = Whole(<<j, x>>)
      /\ \A a, b : Gap(j, a, b) => Gap(j, a, b)'
      /\ \A x, b : Shadowed(j, x, b) => Shadowed(j, x, b)'
  BY <1>4, <1>6 DEF Size, Whole, Gap, Shadowed
<1>9. \A x \in DOMAIN sc.files[j] :
         x # n /\ x # k /\ (x > k \/ <<j, x>> \in kept)
            => (Orig(<<j, x>>)' <=> Orig(<<j, x>>))
  BY <1>4, <1>6, <1>8 DEF Orig
<1>10. ASSUME NEW x \in DOMAIN sc.files[j], Shadowed(j, x, n)
       PROVE Shadowed(j, x, k)'
  <2>1. Shadowed(j, x, k) BY <1>2, <1>6, <1>7, <1>10 DEF Shadowed
  <2> QED BY <1>8, <2>1
<1>11. j \in DOMAIN rjob =>
          /\ rjob[j] \in ReadJobs /\ rjob[j].file_num \in Nat
          /\ rjob[j].pos \in Nat
          /\ k < rjob[j].file_num \/ (k = rjob[j].file_num /\ v > 0)
  BY <1>2, <1>4, ReadIs DEF JobInv, Reached, FTTypeOK, TypeJobs
\* After the block, nothing is touched from file b on, if b is not before k.
<1>12. ASSUME NEW b \in Nat, b >= k, Untouched(j, n)
       PROVE  Untouched(j, b)'
  <2>1. ASSUME NEW x \in DOMAIN sc.files[j]
        PROVE  /\ x > b => disk'[<<j, x>>].part = None
               /\ x >= b /\ <<j, x>> \notin faulted' => Orig(<<j, x>>)'
    <3>1. x \in Nat BY <1>7
    <3>2. CASE x = k BY <1>5, <1>12, <3>1, <3>2 DEF BlockDone
    <3>3. CASE x > k BY <1>2, <1>6, <1>9, <1>12, <3>1, <3>3 DEF Untouched
    <3>4. CASE x < k BY <1>2, <1>12, <3>1, <3>4
    <3> QED BY <1>2, <3>1, <3>2, <3>3, <3>4
  <2> QED BY <1>4, <2>1 DEF Untouched
<1>13. Touch(j)'
  <2>1. Untouched(j, n) /\ WholeBefore(j, n) BY <1>2 DEF JobInv, Touch
  <2>2. Untouched(j, k)' BY <1>2, <1>12, <2>1
  <2>3. WholeBefore(j, k)'
    <3>1. SUFFICES
             ASSUME NEW x \in DOMAIN sc.files[j], x < k, Size(j, x) # Dir,
                    <<j, x>> \notin kept \cup faulted',
                    sc.upload[j] => x >= from[j]
             PROVE  disk'[<<j, x>>].final = Whole(<<j, x>>) \/ Shadowed(j, x, k)'
      BY <1>4, <1>8 DEF WholeBefore
    <3>2. x \in Nat /\ <<j, x>> \notin faulted BY <1>6, <1>7, <3>1
    <3>3. CASE x < n
      BY <1>2, <1>6, <1>10, <2>1, <3>1, <3>2, <3>3 DEF WholeBefore
    <3>4. CASE x = n BY <1>5, <3>1, <3>2, <3>4 DEF BlockDone
    <3>5. CASE n < x BY <1>2, <1>6, <3>1, <3>2, <3>5 DEF Gap
    <3> QED BY <1>2, <3>2, <3>3, <3>4, <3>5
  <2>4. sc.upload[j] /\ j \in DOMAIN rjob =>
           Untouched(j, rjob[j].file_num)' /\ UnsentAt(j, rjob[j].file_num)'
    <3>1. SUFFICES ASSUME sc.upload[j], j \in DOMAIN rjob
          PROVE  Untouched(j, rjob[j].file_num)' /\ UnsentAt(j, rjob[j].file_num)'
      OBVIOUS
    <3>2. PICK R \in Nat : R = rjob[j].file_num BY <1>11, <3>1
    <3>3. R >= k /\ (R = k => v > 0) BY <1>2, <1>11, <3>1, <3>2
    <3>4. Untouched(j, R)' BY <1>12, <2>1, <3>3
    <3>5. UnsentAt(j, R) BY <3>1, <3>2 DEF JobInv, Touch
    <3>6. ASSUME NEW x \in DOMAIN sc.files[j]
          PROVE  /\ x = R /\ Size(j, x) = 0 /\ <<j, x>> \notin faulted'
                    => disk'[<<j, x>>].part = None
                 /\ x >= R => <<j, x>> \notin kept
      <4>1. x >= R => <<j, x>> \notin kept BY <3>5 DEF UnsentAt
      <4>2. SUFFICES ASSUME x = R, Size(j, x) = 0, <<j, x>> \notin faulted'
                     PROVE  disk'[<<j, x>>].part = None
        BY <4>1
      <4>3. x # k BY <1>2, <3>3, <4>2
      <4>4. x # n BY <1>2, <1>6, <3>3, <4>2, <4>3
      <4>5. <<j, x>> \notin faulted BY <1>6, <4>2
      <4>6. disk[<<j, x>>].part = None BY <3>5, <4>2, <4>5 DEF UnsentAt
      <4> QED BY <1>6, <4>3, <4>4, <4>6
    <3>7. UnsentAt(j, R)' BY <1>4, <1>8, <3>6 DEF UnsentAt
    <3>8. R = rjob'[j].file_num /\ rjob' = rjob BY <1>4, <3>2
    <3> QED BY <3>4, <3>7, <3>8
  <2> QED BY <1>2, <1>4, <2>2, <2>3, <2>4 DEF Touch
<1>14. Resumed(j)' BY <1>2, <1>4, <1>6 DEF JobInv, Resumed
<1>15. Torn(j)'
  <2>1. ASSUME NEW x \in DOMAIN sc.files[j]
        PROVE  /\ Size(j, x) = Dir => disk'[<<j, x>>].part = None
               /\ <<j, x>> \notin faulted' =>
                    /\ disk'[<<j, x>>].part # None =>
                          /\ IsPrefixOf(disk'[<<j, x>>].part, <<j, x>>)
                          /\ disk'[<<j, x>>].part = <<>> => Size(j, x) = 0
                    /\ \/ disk'[<<j, x>>].final \in {None, Whole(<<j, x>>)}
                       \/ disk'[<<j, x>>].final = Old
                    /\ disk'[<<j, x>>].spoilt => LaterFails(<<j, x>>)'
    <3>1. LaterFails(<<j, x>>) => LaterFails(<<j, x>>)'
      BY <1>4, <1>6 DEF LaterFails
    <3>2. CASE x = k
      <4>1. <<j, k>> \notin faulted' => ~disk'[<<j, k>>].spoilt
        BY <1>5 DEF BlockDone, Orig
      <4> QED BY <1>2, <1>5, <3>2, <4>1 DEF BlockDone
    <3>3. CASE x = n /\ x # k
      <4>1. n < k /\ n \in DOMAIN sc.files[j] BY <1>2, <1>6, <3>3
      <4>2. /\ disk'[<<j, n>>].part = None
            /\ <<j, n>> \notin faulted =>
                  \/ disk'[<<j, n>>].final = disk[<<j, n>>].final
                  \/ disk'[<<j, n>>].final = Whole(<<j, n>>)
            /\ disk'[<<j, n>>].spoilt = disk[<<j, n>>].spoilt
        BY <1>5, <4>1 DEF BlockDone
      <4>3. <<j, n>> \notin faulted =>
               /\ \/ disk[<<j, n>>].final \in {None, Whole(<<j, n>>)}
                  \/ disk[<<j, n>>].final = Old
               /\ disk[<<j, n>>].spoilt => LaterFails(<<j, n>>)
        BY <4>1 DEF JobInv, Torn
      <4> QED BY <1>6, <3>1, <3>3, <4>2, <4>3
    <3>4. CASE x # n /\ x # k
      <4>1. /\ disk'[<<j, x>>].part = disk[<<j, x>>].part
            /\ disk'[<<j, x>>].final = disk[<<j, x>>].final
            /\ disk'[<<j, x>>].spoilt =>
                  disk[<<j, x>>].spoilt \/ (x < k /\ <<j, k>> \in faulted')
        BY <1>6, <3>4
      <4>2. <<j, x>> \notin faulted' => <<j, x>> \notin faulted BY <1>6
      <4>3. x < k /\ <<j, k>> \in faulted' => LaterFails(<<j, x>>)'
        BY <1>2, <1>4 DEF LaterFails
      <4> QED BY <3>1, <4>1, <4>2, <4>3 DEF JobInv, Torn
    <3> QED BY <3>2, <3>3, <3>4
  <2>2. \A s, x : IsPrefixOf(s, <<j, x>>)' <=> IsPrefixOf(s, <<j, x>>)
    BY <1>8 DEF IsPrefixOf
  <2> QED BY <1>4, <1>8, <2>1, <2>2 DEF Torn
\* How much there is of file k.
<1>16. /\ v = 0 \/ <<j, k>> \in faulted => Passed(j, k)'
       /\ v > 0 => Received(j, k, v)'
       /\ v > 0 /\ v >= Size(j, k) => Received(j, k, Size(j, k))'
       /\ <<j, k>> \in faulted' => \A x : Received(j, k, x)'
       /\ ~Open(j)' => Blank(j, k)'
  <2>1. IsFile(j, k)' BY <1>2, <1>4 DEF IsFile, Size
  <2>2. <<j, k>> \notin faulted' =>
           Len(disk'[<<j, k>>].part) = IF v = 0 THEN Size(j, k) ELSE v
    BY <1>5 DEF BlockDone
  <2>3. v = 0 \/ <<j, k>> \in faulted => Passed(j, k)'
    BY <1>4, <1>5, <1>6, <1>8, <2>2 DEF Passed, BlockDone
  <2>4. v > 0 => Received(j, k, v)'
    BY <1>2, <1>4, <1>5, <2>1, <2>2 DEF Received, BlockDone
  <2>5. v > 0 /\ v >= Size(j, k) => v = Size(j, k) BY <1>2, <1>7
  <2>6. v > 0 /\ v >= Size(j, k) => Received(j, k, Size(j, k))'
    <3>1. SUFFICES ASSUME v > 0, v >= Size(j, k)
                   PROVE Received(j, k, Size(j, k))'
      OBVIOUS
    <3>2. Size(j, k)' = v BY <1>8, <2>5, <3>1
    <3> QED BY <2>4, <3>1, <3>2
  <2>7. <<j, k>> \in faulted' => \A x : Received(j, k, x)' BY <2>1 DEF Received
  <2>8. ~Open(j)' => Blank(j, k)' BY <1>4, <1>6 DEF Blank, Empty
  <2> QED BY <2>3, <2>4, <2>6, <2>7, <2>8
<1>17. ASSUME j \in DOMAIN rjob, Clear(Data(j)', j)
       PROVE  \/ /\ rjob[j].file_num > k /\ rjob[j].pos <= 1
                 /\ Gap(j, k, rjob[j].file_num) /\ Passed(j, k)'
              \/ /\ rjob[j].file_num = k /\ v > 0 /\ Go(j) /\ rjob[j].pos > 0
                 /\ rjob[j].pos = v + 1 \/ <<j, k>> \in faulted
  <2>1. Closes(Data(j), j, m) BY <1>2, <1>4, <1>17 DEF Took
  <2>2. LastOK(j, m) BY <1>2, <1>17, <2>1 DEF JobInv, Chain
  <2> QED BY <1>2, <1>16, <2>2 DEF LastOK
<1>18. Chain(j)'
  <2>1. \A x : Opens(Data(j)', j, x) /\ x \in Sent(Data(j)', j) => StartOK(j, x)'
    <3>1. SUFFICES ASSUME NEW x \in Sent(Data(j)', j), Follows(Data(j), j, m, x)
                   PROVE  StartOK(j, x)'
      BY <1>2, <1>4 DEF Took
    <3>2. FollowOK(j, m, x) BY <1>2, <3>1 DEF JobInv, Chain
    <3>3. CASE /\ x.k > k /\ Begins(j, x) /\ Gap(j, k, x.k)
               /\ v = 0 \/ <<j, k>> \in faulted
      <4>1. Begins(j, x)' BY <1>6, <1>8, <3>3 DEF Begins
      <4>2. Passed(j, k)' BY <1>16, <3>3
      <4>3. Gap(j, k, x.k)' BY <1>8, <3>3
      <4> QED BY <1>2, <3>3, <4>1, <4>2, <4>3 DEF StartOK
    <3>4. CASE /\ x.k = k /\ v > 0 /\ x.t = "block"
               /\ \/ x.v = v + 1 \/ (x.v = 0 /\ v >= Size(j, k))
                  \/ <<j, k>> \in faulted
      <4>1. Received(j, x.k, IF x.v = 0 THEN Size(j, x.k) ELSE x.v - 1)'
        <5>1. CASE <<j, k>> \in faulted
          <6>1. \A y : Received(j, k, y)' BY <1>6, <1>16, <5>1
          <6> QED BY <3>4, <6>1
        <5>2. CASE x.v = 0 /\ <<j, k>> \notin faulted
          <6>1. Received(j, k, Size(j, k))' BY <1>2, <1>16, <3>4, <5>2
          <6> QED BY <3>4, <5>2, <6>1
        <5>3. CASE x.v # 0 /\ <<j, k>> \notin faulted
          <6>1. x.v - 1 = v BY <1>2, <3>4, <5>3
          <6>2. Received(j, k, v)' BY <1>16, <3>4
          <6> QED BY <3>4, <5>3, <6>1, <6>2
        <5> QED BY <5>1, <5>2, <5>3
      <4>2. Size(j, x.k)' # Dir BY <1>2, <1>8, <3>4
      <4>3. CASE Open(j)' BY <1>2, <3>4, <4>1, <4>2, <4>3 DEF StartOK
      <4>4. CASE ~Open(j)'
        <5>1. Begins(j, x)' BY <1>6, <3>4, <4>4 DEF Begins
        <5>2. Blank(j, x.k)' BY <1>16, <3>4, <4>4
        <5> QED BY <1>2, <3>4, <4>4, <5>1, <5>2 DEF StartOK
      <4> QED BY <4>3, <4>4
    <3> QED BY <1>2, <3>2, <3>3, <3>4 DEF FollowOK
  <2>2. \A y, z : FollowOK(j, y, z) => FollowOK(j, y, z)'
    BY <1>6, <1>8 DEF FollowOK, Begins
  <2>3. \A y : LastOK(j, y) => LastOK(j, y)'
    BY <1>4, <1>6, <1>8 DEF LastOK, Go
  <2>4. j \in DOMAIN rjob /\ Clear(Data(j)', j) => NoneOK(j)'
    <3>1. SUFFICES ASSUME j \in DOMAIN rjob, Clear(Data(j)', j) PROVE NoneOK(j)'
      OBVIOUS
    <3>2. CASE /\ rjob[j].file_num > k /\ rjob[j].pos <= 1
               /\ Gap(j, k, rjob[j].file_num) /\ Passed(j, k)'
      <4>1. Gap(j, k, rjob[j].file_num)' BY <1>4, <1>8, <3>2
      <4> QED BY <1>2, <1>4, <3>2, <4>1 DEF NoneOK
    <3>3. CASE /\ rjob[j].file_num = k /\ v > 0 /\ Go(j) /\ rjob[j].pos > 0
               /\ rjob[j].pos = v + 1 \/ <<j, k>> \in faulted
      <4>1. Go(j)' BY <1>4, <3>3 DEF Go
      <4>2. CASE ~Open(j)'
        <5>1. <<j, k>> \in faulted' /\ Blank(j, k)' BY <1>6, <1>16, <4>2
        <5> QED BY <1>2, <1>4, <3>3, <4>2, <5>1 DEF NoneOK
      <4>3. CASE Open(j)'
        <5>1. PICK p : p = rjob[j].pos OBVIOUS
        <5>2. Received(j, k, p - 1)'
          <6>1. CASE p = v + 1
            <7>1. p - 1 = v BY <1>2, <6>1
            <7>2. Received(j, k, v)' BY <1>16, <3>3
            <7> QED BY <7>1, <7>2
          <6>2. CASE <<j, k>> \in faulted
            <7>1. \A y : Received(j, k, y)' BY <1>6, <1>16, <6>2
            <7> QED BY <7>1
          <6> QED BY <3>3, <5>1, <6>1, <6>2
        <5>3. p > 1 \/ (p > 0 /\ <<j, k>> \in faulted')
          BY <1>2, <1>6, <3>3, <5>1
        <5>4. Received(j, rjob[j].file_num, rjob[j].pos - 1)'
          BY <1>4, <3>3, <5>1, <5>2
        <5> QED BY <1>2, <1>4, <3>3, <4>1, <4>3, <5>1, <5>3, <5>4 DEF NoneOK
      <4> QED BY <4>2, <4>3
    <3> QED BY <1>17, <3>1, <3>2, <3>3
  <2>5. /\ \A y : Closes(Data(j)', j, y) => Closes(Data(j), j, y)
        /\ \A y, z : Follows(Data(j)', j, y, z) => Follows(Data(j), j, y, z)
    BY <1>2, <1>4 DEF Took
  <2> QED BY <1>2, <1>4, <2>1, <2>2, <2>3, <2>4, <2>5 DEF JobInv, Chain
<1>19. Reached(j)' BY <1>2, <1>4, <1>11 DEF JobInv, Reached
<1>20. Answers(j)'
  <2>1. ASSUME NEW x \in Sent(Data(j)', j), j \in DOMAIN rjob, x.t = "digest"
        PROVE  x.k = rjob[j].file_num /\ ~Go(j)
    <3>1. WaitsFor(j, x.k) BY <1>2, <1>4, <2>1 DEF Tokens
    <3>2. sc.od BY <1>2, <1>4, <2>1 DEF FTTypeOK, TypeQueues, DataOK
    <3> QED BY <3>1, <3>2 DEF WaitsFor, Go
  <2> QED BY <1>2, <1>3, <1>4, <1>17, <2>1 DEF Answers, Has, DigestOK
<1>21. Keeps(j)'
  <2>1. ASSUME NEW x \in DOMAIN sc.files[j], <<j, x>> \in kept \ faulted'
        PROVE  /\ Orig(<<j, x>>)'
               /\ x >= k /\ (sc.upload[j] \/ breaks = 0)
                     => disk'[<<j, x>>].part = None
    <3>1. x # k /\ <<j, x>> \notin faulted BY <1>6, <2>1
    <3>2. /\ Orig(<<j, x>>)
          /\ x >= k /\ (sc.upload[j] \/ breaks = 0)
                => disk[<<j, x>>].part = None
      <4>1. x >= k => x >= n BY <1>2, <1>6, <1>7
      <4> QED BY <1>2, <2>1, <3>1, <4>1 DEF JobInv, Keeps
    <3>3. CASE x # n BY <1>6, <1>9, <2>1, <3>1, <3>2, <3>3
    <3>4. CASE x = n
      <4>1. n < k BY <1>2, <1>6, <3>1, <3>4
      <4>2. disk'[<<j, n>>].final = disk[<<j, n>>].final
        BY <1>5, <2>1, <3>1, <3>4, <4>1 DEF BlockDone
      <4>3. disk'[<<j, n>>].spoilt = disk[<<j, n>>].spoilt
        BY <1>5, <2>1, <3>4, <4>1 DEF BlockDone
      <4>4. Orig(<<j, x>>)' BY <1>4, <1>8, <3>2, <3>4, <4>2, <4>3 DEF Orig
      <4> QED BY <1>6, <3>4, <4>1, <4>4
    <3> QED BY <3>3, <3>4
  <2>2. \A x \in Sent(Data(j)', j) :
           /\ x.t = "block" \/ (x.t = "confirm" /\ x.v >= 0)
              => <<j, x.k>> \notin kept
           /\ x.t = "confirm" /\ x.v = Skip => <<j, x.k>> \in kept
    BY <1>2 DEF JobInv, Keeps
  <2>3. j \in DOMAIN rjob /\ rjob[j].confirmed => <<j, rjob[j].file_num>> \notin kept
    BY DEF JobInv, Keeps
  <2> QED BY <1>2, <1>4, <1>6, <2>1, <2>2, <2>3 DEF Keeps
<1>22. Ending(j)'
  <2>1. /\ Has(s2c', j, {"done"}) => Has(s2c, j, {"done"})
        /\ Has(s2c', j, {"error"}) /\ ~sc.upload[j] => Has(s2c, j, {"error"})
        /\ Has(c2s, j, {"cancel"}) => Has(c2s', j, {"cancel"})
    <3>1. CASE sc.upload[j]
      BY <1>2, <1>4, <3>1 DEF BlockTaken, Has, Data, Back, Took
    <3>2. CASE ~sc.upload[j]
      BY <1>2, <1>4, <3>2 DEF BlockTaken, Has, Data, Back, Took
    <3> QED BY <3>1, <3>2
  <2>2. ~(sc.upload[j] /\ Has(s2c, j, {"done"}))
    BY <1>2, <1>4 DEF Life, LifeEnd
  <2>3. Undated(j)' <=> Undated(j) BY <1>4 DEF Undated
  <2> QED BY <1>2, <1>4, <2>1, <2>2, <2>3 DEF JobInv, Ending
<1>23. Leftover(j)'
  <2>1. SUFFICES ASSUME breaks = 0, faulted' = {} PROVE Leftover(j)'
    BY <1>4 DEF Leftover
  <2>2. faulted = {} BY <1>6, <2>1
  <2>3. /\ j \in DOMAIN rjob => ~rjob[j].error
        /\ j \in DOMAIN rjob /\ rjob[j].skipped /\ Len(sc.files[j]) = 1 =>
              <<j, 1>> \in kept /\ rjob[j].file_num > 1
        /\ ~Has(Data(j), j, {"error"})
        /\ \A x \in DOMAIN sc.files[j] :
              disk[<<j, x>>].part # None => x = n \/ Shadowed(j, x, n)
    BY <1>2, <2>1, <2>2 DEF JobInv, Leftover
  <2>4. ~Has(Data(j)', j, {"error"}) /\ ~Has(c2s', j, {"send"})
    BY <1>2, <2>3 DEF Has
  <2>5. \A x \in DOMAIN sc.files[j] :
           disk'[<<j, x>>].part # None => x = k \/ Shadowed(j, x, k)'
    BY <1>2, <1>6, <1>10, <2>3
  <2> QED BY <1>2, <1>4, <2>3, <2>4, <2>5 DEF Leftover
<1> QED BY <1>13, <1>14, <1>15, <1>18, <1>19, <1>20, <1>21, <1>22, <1>23
        DEF JobInv

\* What was written before the block cannot be synced.
LEMMA BlockUnsynced ==
    ASSUME NEW m, NEW j, BlockTaken(m, j), SyncFails(m), JobInv(j),
           Size(j, m.k) # Dir
    PROVE  JobInv(j)'
<1>1. PICK k, n, v : k = m.k /\ n = At(j) /\ v = m.v OBVIOUS
<1>2. /\ k \in DOMAIN sc.files[j] /\ k \in Nat /\ v \in Nat /\ n \in Nat
      /\ n = wjob[j].file_num /\ wjob' = wjob /\ At(j)' = n /\ At(j) = n
      /\ Live(j) /\ Live(j)' /\ j \in DOMAIN wjob /\ Open(j) /\ Open(j)'
      /\ disk' = ModifyTime(disk, j, n) /\ k # n
      /\ ~Has(c2s, j, {"send", "receive"}) /\ ~Has(c2s', j, {"send", "receive"})
      /\ state[j] \notin {"new", "saved", "gone", "added", "done"}
      /\ ~Clear(Data(j), j) /\ Item(m, j) /\ m \in Sent(Data(j), j)
      /\ Sent(Data(j)', j) \subseteq Sent(Data(j), j)
      /\ m.t = "block" /\ m.k = k /\ m.v = v
  <2>1. Open(j) /\ Reopens(wjob[j], m.k) BY BlockFaulted
  <2>2. m.j = j /\ disk' = ModifyTime(disk, m.j, wjob[m.j].file_num) /\ wjob' = wjob
    BY DEF SyncFails, BlockTaken
  <2> QED BY <1>1, <2>1, <2>2, BlockIs DEF BlockTaken, Reopens
<1>3. j \in DOMAIN rjob => /\ ~Has(Back(j), j, {"ask", "confirm"})
                           /\ ~Has(Back(j)', j, {"ask", "confirm"})
                           /\ ~Shown(j) /\ ~Shown(j)'
  BY BlockIs
<1>4. /\ sc' = sc /\ UNCHANGED <<up, breaks, saved, from, kept, dialog, rjob,
                                 state>>
      /\ up /\ FTTypeOK /\ Tokens(j) /\ Life(j) /\ Parts(j) /\ j \in Jobs
      /\ sc \in Scenarios /\ Took(Data(j), Data(j)', j, m) /\ DiskOK(disk)
  BY DEF BlockTaken, FTTypeOK, TypeUser
<1>5. /\ k > n /\ Gap(j, n, k)
  <2>1. StartOK(j, m) BY <1>2, <1>4 DEF JobInv, Chain, Took
  <2> QED BY <1>2, <2>1 DEF StartOK
<1>6. /\ faulted \subseteq faulted' /\ <<j, k>> \in faulted'
      /\ IsFile(j, n) => <<j, n>> \in faulted'
  <2>1. /\ faulted \subseteq faulted' /\ <<j, k>> \in faulted'
        /\ <<j, wjob[j].on>> \in faulted'
    BY <1>2, BlockFaulted
  <2>2. IsFile(j, n) /\ <<j, n>> \notin faulted => wjob[j].on = n
    BY <1>2, <1>4 DEF Parts
  <2> QED BY <2>1, <2>2
<1>7. DOMAIN sc.files[j] = 1 .. Len(sc.files[j]) /\ Len(sc.files[j]) \in Nat
  BY <1>2, <1>4, Scenario
\* Only file n has changed: it failed, or is a marker that has no .download.
<1>8. \A x \in DOMAIN sc.files[j] :
         /\ disk[<<j, x>>].part = None => disk'[<<j, x>>].part = None
         /\ <<j, x>> \notin faulted' =>
               /\ disk'[<<j, x>>].part = disk[<<j, x>>].part
               /\ disk'[<<j, x>>].final = disk[<<j, x>>].final
               /\ disk'[<<j, x>>].spoilt = disk[<<j, x>>].spoilt
         /\ Size(j, x) = Dir => disk'[<<j, x>>].part = None
  <2>1. /\ \A g \in Files : g # <<j, n>> => disk'[g] = disk[g]
        /\ n \in DOMAIN sc.files[j] =>
              /\ disk'[<<j, n>>].part = None
              /\ disk'[<<j, n>>].spoilt = disk[<<j, n>>].spoilt
              /\ disk'[<<j, n>>].final = IF disk[<<j, n>>].part # None
                                         THEN disk[<<j, n>>].part
                                         ELSE disk[<<j, n>>].final
    BY <1>2, <1>4, ModifyTimeIs
  <2>2. ASSUME NEW x \in DOMAIN sc.files[j], x # n
        PROVE  disk'[<<j, x>>] = disk[<<j, x>>]
    BY <1>4, <2>1, <2>2, Scenario
  <2>3. \A x \in DOMAIN sc.files[j] : Size(j, x) = Dir => disk[<<j, x>>].part = None
    BY DEF JobInv, Torn
  <2>4. n \in DOMAIN sc.files[j] /\ <<j, n>> \notin faulted' => Size(j, n) = Dir
    BY <1>6 DEF IsFile
  <2> QED BY <2>1, <2>2, <2>3, <2>4
<1>9. /\ \A x : Size(j, x)' = Size(j, x) /\ Whole(<<j, x>>)' = Whole(<<j, x>>)
      /\ \A a, b : Gap(j, a, b) => Gap(j, a, b)'
      /\ \A x, b : Shadowed(j, x, b) => Shadowed(j, x, b)'
  BY <1>4, <1>6 DEF Size, Whole, Gap, Shadowed
<1>10. \A x \in DOMAIN sc.files[j] :
          <<j, x>> \notin faulted' => (Orig(<<j, x>>)' <=> Orig(<<j, x>>))
  BY <1>4, <1>8, <1>9 DEF Orig
<1>11. j \in DOMAIN rjob => rjob[j].file_num \in Nat /\ k <= rjob[j].file_num
  BY <1>2, <1>4, ReadIs DEF JobInv, Reached, FTTypeOK, TypeJobs
<1>12. Touch(j)'
  <2>1. ASSUME NEW b PROVE Untouched(j, b) => Untouched(j, b)'
    BY <1>4, <1>6, <1>8, <1>10 DEF Untouched
  <2>2. ASSUME NEW b PROVE UnsentAt(j, b) => UnsentAt(j, b)'
    BY <1>4, <1>6, <1>8, <1>9 DEF UnsentAt
  <2>3. ASSUME NEW b PROVE WholeBefore(j, b) => WholeBefore(j, b)'
    BY <1>4, <1>6, <1>8, <1>9 DEF WholeBefore
  <2> QED BY <1>2, <1>4, <2>1, <2>2, <2>3 DEF JobInv, Touch
<1>13. Resumed(j)' BY <1>2, <1>4 DEF JobInv, Resumed
<1>14. Torn(j)'
  <2>1. ASSUME NEW x \in DOMAIN sc.files[j]
        PROVE  LaterFails(<<j, x>>) => LaterFails(<<j, x>>)'
    BY <1>4, <1>6 DEF LaterFails
  <2>2. ASSUME NEW s, NEW x
        PROVE IsPrefixOf(s, <<j, x>>)' <=> IsPrefixOf(s, <<j, x>>)
    BY <1>9 DEF IsPrefixOf
  <2>3. ASSUME NEW x \in DOMAIN sc.files[j], <<j, x>> \notin faulted'
        PROVE  /\ disk'[<<j, x>>].part # None =>
                     /\ IsPrefixOf(disk'[<<j, x>>].part, <<j, x>>)
                     /\ disk'[<<j, x>>].part = <<>> => Size(j, x) = 0
               /\ \/ disk'[<<j, x>>].final \in {None, Whole(<<j, x>>)}
                  \/ disk'[<<j, x>>].final = Old
               /\ disk'[<<j, x>>].spoilt => LaterFails(<<j, x>>)'
    <3>1. <<j, x>> \notin faulted BY <1>6, <2>3
    <3> QED BY <1>8, <2>1, <2>3, <3>1 DEF JobInv, Torn
  <2> QED BY <1>4, <1>8, <1>9, <2>2, <2>3 DEF Torn
<1>15. Passed(j, n)' BY <1>4, <1>6 DEF Passed, IsFile, Size
<1>16. ASSUME NEW b, Gap(j, k, b) PROVE Gap(j, n, b)'
  <2>1. ASSUME NEW x \in DOMAIN sc.files[j], n < x, x < b
        PROVE  <<j, x>> \in kept \cup faulted'
    BY <1>2, <1>5, <1>6, <1>7, <1>16, <2>1 DEF Gap
  <2> QED BY <1>4, <2>1 DEF Gap
<1>17. Chain(j)'
  <2>1. \A x : Opens(Data(j)', j, x) /\ x \in Sent(Data(j)', j) => StartOK(j, x)'
    <3>1. SUFFICES ASSUME NEW x \in Sent(Data(j)', j), Follows(Data(j), j, m, x)
                   PROVE  StartOK(j, x)'
      BY <1>2, <1>4 DEF Took
    <3>2. FollowOK(j, m, x) BY <1>2, <3>1 DEF JobInv, Chain
    <3>3. CASE x.k > k /\ Begins(j, x) /\ Gap(j, k, x.k)
      <4>1. Begins(j, x)' BY <1>6, <1>9, <3>3 DEF Begins
      <4>2. x.k > n
        <5>1. x \in Messages
          <6>1. Data(j) \in Seq(Messages) BY <1>4 DEF FTTypeOK, TypeQueues, Data
          <6>2. PICK q : q = Data(j) /\ q \in Seq(Messages) BY <6>1
          <6>3. x \in Sent(q, j) BY <1>2, <3>1, <6>2
          <6>4. PICK i \in DOMAIN q : q[i] = x BY <6>3, InSent
          <6> QED BY <6>2, <6>4
        <5> QED BY <1>2, <1>5, <3>3, <5>1, MessageIs
      <4> QED BY <1>2, <1>15, <1>16, <3>3, <4>1, <4>2 DEF StartOK
    <3>4. CASE x.k = k /\ x.t = "block"
      <4>1. Begins(j, x)' BY <1>6, <3>4 DEF Begins
      <4> QED BY <1>2, <1>5, <1>9, <1>15, <3>4, <4>1 DEF StartOK
    <3> QED BY <1>2, <3>2, <3>3, <3>4 DEF FollowOK
  <2>2. \A y, z : FollowOK(j, y, z) => FollowOK(j, y, z)'
    BY <1>6, <1>9 DEF FollowOK, Begins
  <2>3. \A y : LastOK(j, y) => LastOK(j, y)'
    BY <1>4, <1>6, <1>9 DEF LastOK, Go
  <2>4. j \in DOMAIN rjob /\ Clear(Data(j)', j) => NoneOK(j)'
    <3>1. SUFFICES ASSUME j \in DOMAIN rjob, Clear(Data(j)', j) PROVE NoneOK(j)'
      OBVIOUS
    <3>2. Closes(Data(j), j, m) BY <1>2, <1>4, <3>1 DEF Took
    <3>3. LastOK(j, m) BY <1>2, <3>1, <3>2 DEF JobInv, Chain
    <3>4. rjob[j].file_num > n BY <1>2, <1>5, <1>11, <3>1
    <3>5. Gap(j, n, rjob[j].file_num)'
      <4>1. CASE rjob[j].file_num = k BY <1>4, <1>5, <1>9, <4>1
      <4>2. CASE Gap(j, k, rjob[j].file_num) BY <1>4, <1>16, <4>2
      <4> QED BY <1>2, <3>3, <4>1, <4>2 DEF LastOK
    <3>6. rjob[j].pos <= 1 \/ <<j, rjob[j].file_num>> \in faulted'
      BY <1>2, <1>6, <3>3 DEF LastOK
    <3> QED BY <1>2, <1>4, <1>15, <3>4, <3>5, <3>6 DEF NoneOK
  <2>5. /\ \A y : Closes(Data(j)', j, y) => Closes(Data(j), j, y)
        /\ \A y, z : Follows(Data(j)', j, y, z) => Follows(Data(j), j, y, z)
    BY <1>2, <1>4 DEF Took
  <2> QED BY <1>2, <1>4, <2>1, <2>2, <2>3, <2>4, <2>5 DEF JobInv, Chain
<1>18. Reached(j)' BY <1>2, <1>4 DEF JobInv, Reached
<1>19. Answers(j)'
  <2>1. ASSUME NEW x \in Sent(Data(j)', j), j \in DOMAIN rjob, x.t = "digest"
        PROVE  x.k > n
    <3>1. WaitsFor(j, x.k) BY <1>2, <1>4, <2>1 DEF Tokens
    <3> QED BY <1>2, <1>5, <1>11, <2>1, <3>1 DEF WaitsFor
  <2> QED BY <1>2, <1>3, <1>4, <2>1 DEF Answers, Has, DigestOK
<1>20. Keeps(j)'
  <2>1. \A x \in DOMAIN sc.files[j] : <<j, x>> \in kept \ faulted' =>
           /\ Orig(<<j, x>>)'
           /\ x >= n /\ (sc.upload[j] \/ breaks = 0) => disk'[<<j, x>>].part = None
    BY <1>2, <1>6, <1>8, <1>10 DEF JobInv, Keeps
  <2>2. /\ \A x \in Sent(Data(j)', j) :
              /\ x.t = "block" \/ (x.t = "confirm" /\ x.v >= 0)
                 => <<j, x.k>> \notin kept
              /\ x.t = "confirm" /\ x.v = Skip => <<j, x.k>> \in kept
        /\ j \in DOMAIN rjob /\ rjob[j].confirmed => <<j, rjob[j].file_num>> \notin kept
        /\ <<j, n>> \notin kept /\ <<j, wjob[j].on>> \notin kept
        /\ wjob[j].on <= n
    BY <1>2 DEF JobInv, Keeps
  <2> QED BY <1>2, <1>4, <2>1, <2>2 DEF Keeps
<1>21. Ending(j)'
  <2>1. /\ Has(s2c', j, {"done"}) => Has(s2c, j, {"done"})
        /\ Has(s2c', j, {"error"}) /\ ~sc.upload[j] => Has(s2c, j, {"error"})
        /\ Has(c2s, j, {"cancel"}) => Has(c2s', j, {"cancel"})
    <3>1. CASE sc.upload[j]
      BY <1>2, <1>4, <3>1 DEF BlockTaken, Has, Data, Back, Took
    <3>2. CASE ~sc.upload[j]
      BY <1>2, <1>4, <3>2 DEF BlockTaken, Has, Data, Back, Took
    <3> QED BY <3>1, <3>2
  <2>2. ~(sc.upload[j] /\ Has(s2c, j, {"done"}))
    BY <1>2, <1>4 DEF Life, LifeEnd
  <2>3. Undated(j)' <=> Undated(j) BY <1>4 DEF Undated
  <2> QED BY <1>2, <1>4, <2>1, <2>2, <2>3 DEF JobInv, Ending
<1>22. Leftover(j)' BY <1>6 DEF Leftover
<1> QED BY <1>12, <1>13, <1>14, <1>17, <1>18, <1>19, <1>20, <1>21, <1>22
        DEF JobInv

\* A message with the data that nobody takes.
LEMMA UnheardStep ==
    ASSUME Inv, NEW j \in Jobs, NEW m, up,
           UNCHANGED <<sc, up, breaks, rjob, wjob, reads, disk, dialog, saved,
                       state,
                       from, kept, lost, faulted>>,
           Took(Data(j), Data(j)', j, m), Back(j)' = Back(j),
           c2s' \in Seq(Messages), s2c' \in Seq(Messages),
           \A i : i # j => SameQueue(c2s, c2s', i) /\ SameQueue(s2c, s2c', i),
           ~Live(j), ~Live(j)'
    PROVE  Inv'
<1>1. /\ FTTypeOK /\ sc' = sc /\ sc.upload[j] \in BOOLEAN
      /\ Life(j) /\ Tokens(j) /\ Parts(j) /\ (Sane => JobInv(j))
  BY Scenario DEF Inv, FTTypeOK, TypeUser
<1>2. /\ Less(Data(j), Data(j)', j) /\ Less(Back(j), Back(j)', j)
      /\ Less(c2s, c2s', j) /\ Less(s2c, s2c', j) /\ m \in Sent(Data(j), j)
      /\ Clear(Data(j), j) => Clear(Data(j)', j)
      /\ j \notin DOMAIN wjob /\ ~Open(j)'
  <2>1. /\ Less(Data(j), Data(j)', j) /\ Less(Back(j), Back(j)', j) BY LessIs
  <2>2. /\ Less(c2s, c2s', j) /\ Less(s2c, s2c', j) BY <1>1, <2>1 DEF Data, Back
  <2>3. Clear(Data(j), j) => Clear(Data(j)', j) BY DEF Took, SameItems
  <2> QED BY <2>1, <2>2, <2>3 DEF Took, Live, Open
<1>3. state[j] \notin {"new", "saved", "gone", "added"}
  BY <1>1, <1>2 DEF Life, LifeIdle, Data
<1>4. FTTypeOK'
  <2>1. TypeJobs' BY <1>1, JobsStep DEF FTTypeOK, TypeJobs
  <2>2. TypeQueues' BY <1>1, <1>2, QueuesStep DEF FTTypeOK, Less
  <2> QED BY <1>1, <2>1, <2>2, UserSame, HistorySame, ReadsSame, FilesSame
          DEF FTTypeOK
<1>5. ASSUME NEW i \in Jobs \ {j} PROVE Frame(i) BY DEF Frame, Shown
<1>6. Life(j)'
  <2>1. LifeIdle(j)' BY <1>3 DEF LifeIdle
  <2>2. LifeStart(j)' BY <1>1, <1>2, <1>3 DEF Life, LifeStart, Less, Shown
  <2>3. LifeEnd(j)' BY <1>1, <1>2 DEF Life, LifeEnd, Less, Has, Live
  <2> QED BY <2>1, <2>2, <2>3 DEF Life
<1>7. Tokens(j)'
  BY <1>1, <1>2, SameTokens DEF Less, Shown
<1>8. Parts(j)'
  <2>1. SameDisk(j) BY DEF SameDisk
  <2>2. \A x : IsFile(j, x)' <=> IsFile(j, x) BY <1>1 DEF IsFile, Size
  <2> QED BY <1>1, <1>2, <2>1, <2>2 DEF Parts, Less, Live, At, Open
<1>9. ASSUME JobInv(j) PROVE JobInv(j)'
  <2>1. SameDisk(j) BY DEF SameDisk
  <2>2. Has(c2s', j, {"send"}) => Has(c2s, j, {"send"}) BY <1>2 DEF Has, Less
  <2> QED BY <1>9, <2>1, <2>2, TakeUnheard
<1>10. Sane' => Sane BY DEF Sane
<1> QED BY <1>1, <1>4, <1>5, <1>6, <1>7, <1>8, <1>9, <1>10, OwnStep

\* A block that is taken.
LEMMA BlockStep ==
    ASSUME Inv, NEW m, NEW j, BlockTaken(m, j),
           UNCHANGED <<reads, lost>>,
           c2s' \in Seq(Messages), s2c' \in Seq(Messages),
           \A i : i # j => SameQueue(c2s, c2s', i) /\ SameQueue(s2c, s2c', i)
    PROVE  Inv'
<1>1. /\ FTTypeOK /\ j \in Jobs /\ up /\ sc' = sc /\ sc \in Scenarios
      /\ UNCHANGED <<sc, up, breaks, saved, from, kept, dialog, rjob, state>>
  BY DEF BlockTaken, FTTypeOK, TypeUser
<1>2. /\ DOMAIN wjob' = DOMAIN wjob /\ wjob'[j] \in WriteJobs
      /\ \A i \in DOMAIN wjob : i # j => wjob'[i] = wjob[i]
      /\ m.k \in DOMAIN sc.files[j]
      /\ Sent(Data(j)', j) \subseteq Sent(Data(j), j)
  BY BlockIs
<1>3. /\ DiskOK(disk)'
      /\ \A i \in Jobs : i # j =>
            \A k \in DOMAIN sc.files[i] : disk'[<<i, k>>] = disk[<<i, k>>]
  BY BlockDisk
<1>4. FTTypeOK'
  <2>1. TypeJobs' BY <1>1, <1>2, JobsStep DEF FTTypeOK, TypeJobs
  <2>2. TypeQueues'
    <3>1. \A x \in Sent(Back(j)', j) : x \in Sent(Back(j), j) \/ BackOK(j, x)
      BY DEF BlockTaken, BackOK
    <3> QED BY <1>1, <1>2, <3>1, QueuesStep DEF FTTypeOK
  <2>3. TypeHistory'
    <3>1. faulted' \subseteq Files BY BlockFaulted
    <3> QED BY <1>1, <3>1 DEF FTTypeOK, TypeHistory, Files, Jobs, IsFile, Size
  <2> QED BY <1>1, <1>3, <2>1, <2>2, <2>3, UserSame, ReadsSame DEF FTTypeOK
<1>5. ASSUME NEW i \in Jobs \ {j} PROVE Frame(i)
  <2>1. /\ \A k : <<i, k>> \in faulted' <=> <<i, k>> \in faulted
        /\ faulted \subseteq faulted'
    BY BlockFaulted
  <2> QED BY <1>1, <1>2, <1>3, <2>1 DEF Frame, Shown
<1>6. Life(j)' /\ Tokens(j)' /\ Parts(j)' BY BlockLife
<1>7. JobInv(j) => JobInv(j)'
  BY BlockMarker, BlockFile, BlockUnsynced DEF BlockTaken
<1>8. Sane' => JobInv(j) BY <1>1 DEF Inv, Sane
<1> QED BY <1>1, <1>4, <1>5, <1>6, <1>7, <1>8, OwnStep

\* FileResponse::Block.
LEMMA OnBlockClientStep ==
    ASSUME Inv, OnBlockClient
    PROVE  Inv'
<1>1. /\ FTTypeOK /\ s2c # <<>> /\ Head(s2c).t = "block" /\ ClientTakes(<<>>)
      /\ UNCHANGED <<sc, up, breaks, rjob, reads, dialog, saved, state, from,
                     kept,
                     lost>>
  BY DEF Inv, OnBlockClient, ClientGets
<1>2. PICK m, j :
         /\ ClientTook(m, j, <<>>) /\ m.t = "block"
         /\ \/ ~(j \in DOMAIN wjob /\ wjob[j].listed) /\ UNCHANGED <<wjob,
                                                                     disk,
                                                                     faulted>>
            \/ /\ j \in DOMAIN wjob /\ wjob[j].listed
               /\ (Block(m) /\ UNCHANGED faulted) \/ BlockFails(m)
  <2>1. ClientTook(Head(s2c), Head(s2c).j, <<>>) BY <1>1, ClientTake
  <2> QED BY <1>1, <2>1 DEF OnBlockClient
<1>3. /\ j \in Jobs /\ c2s' = c2s /\ m \in Sent(s2c, j) /\ up /\ m \in Messages
      /\ Took(s2c, s2c', j, m) /\ m.j = j /\ ~sc.upload[j] /\ sc' = sc
      /\ \A i : i # j => SameQueue(c2s, c2s', i) /\ SameQueue(s2c, s2c', i)
      /\ c2s' \in Seq(Messages) /\ s2c' \in Seq(Messages)
  BY <1>1, <1>2 DEF ClientTook, BackOK
<1>4. Data(j) = s2c /\ Data(j)' = s2c' /\ Back(j) = c2s /\ Back(j)' = c2s
  BY <1>3 DEF Data, Back
<1>5. Life(j) /\ Tokens(j) /\ Parts(j) BY <1>3 DEF Inv
<1>6. CASE ~(j \in DOMAIN wjob /\ wjob[j].listed) /\ UNCHANGED <<wjob, disk,
                                                                 faulted>>
  <2>1. ~Has(s2c, j, {"dir"})
    BY <1>2, <1>3, <1>5 DEF Life, LifeStart, Took, Has
  <2>2. j \notin DOMAIN wjob
    BY <1>2, <1>3, <1>5, <1>6, <2>1 DEF Life, LifeStart
  <2>3. ~Has(c2s, j, {"receive"})
    BY <1>1, <1>3, <1>4 DEF FTTypeOK, TypeQueues, BackOK, Has
  <2>4. ~Live(j) /\ ~Live(j)' BY <1>3, <1>6, <2>2, <2>3 DEF Live
  <2> QED BY <1>1, <1>3, <1>4, <1>6, <2>4, UnheardStep
<1>7. CASE /\ j \in DOMAIN wjob /\ wjob[j].listed
           /\ (Block(m) /\ UNCHANGED faulted) \/ BlockFails(m)
  <2>1. BlockMoves(m) \/ (Size(j, m.k) # Dir /\ SyncFails(m))
    BY <1>3, <1>7 DEF BlockFails, BlockMoves
  <2>2. BlockTaken(m, j)
    BY <1>1, <1>2, <1>3, <1>4, <1>5, <1>7, <2>1 DEF BlockTaken
  <2> QED BY <1>1, <1>3, <2>2, BlockStep
<1> QED BY <1>2, <1>6, <1>7

\* FS::WriteBlock.
LEMMA OnBlockServerStep ==
    ASSUME Inv, OnBlockServer
    PROVE  Inv'
<1>1. /\ FTTypeOK /\ c2s # <<>> /\ Head(c2s).t = "block"
      /\ UNCHANGED <<sc, up, breaks, rjob, reads, dialog, saved, state, from,
                     kept,
                     lost>>
  BY DEF Inv, OnBlockServer, ServerGets
<1>2. ASSUME NEW msgs, NEW m, NEW j, ServerTook(m, j, msgs), m.t = "block"
      PROVE  /\ j \in Jobs /\ m \in Sent(c2s, j) /\ up /\ m \in Messages
             /\ Took(c2s, c2s', j, m) /\ m.j = j /\ sc.upload[j] /\ sc' = sc
             /\ \A i : i # j => SameQueue(c2s, c2s', i) /\ SameQueue(s2c, s2c', i)
             /\ c2s' \in Seq(Messages) /\ s2c' \in Seq(Messages)
             /\ msgs = <<>> => s2c' = s2c
             /\ Data(j) = c2s /\ Data(j)' = c2s' /\ Back(j) = s2c
             /\ Back(j)' = s2c'
             /\ Life(j) /\ Tokens(j) /\ Parts(j)
             /\ ~Has(c2s, j, {"send", "receive"})
             /\ ~Has(c2s', j, {"send", "receive"})
             /\ j \in DOMAIN wjob => wjob[j].listed
  <2>1. /\ j \in Jobs /\ m \in Sent(c2s, j) /\ up /\ m \in Messages
        /\ Took(c2s, c2s', j, m) /\ m.j = j /\ sc.upload[j] /\ sc' = sc
        /\ \A i : i # j => SameQueue(c2s, c2s', i) /\ SameQueue(s2c, s2c', i)
        /\ c2s' \in Seq(Messages) /\ s2c' \in Seq(Messages)
        /\ msgs = <<>> => s2c' = s2c
    BY <1>1, <1>2 DEF ServerTook, BackOK
  <2>2. Data(j) = c2s /\ Data(j)' = c2s' /\ Back(j) = s2c /\ Back(j)' = s2c'
    BY <2>1 DEF Data, Back
  <2>3. Life(j) /\ Tokens(j) /\ Parts(j) BY <2>1 DEF Inv
  <2>4. ~Has(c2s, j, {"send", "receive"}) /\ ~Has(c2s', j, {"send", "receive"})
    BY <1>2, <2>1, <2>3 DEF Life, LifeStart, Took, Has
  <2>5. j \in DOMAIN wjob => wjob[j].listed
    BY <2>1, <2>3 DEF Life, LifeStart
  <2> QED BY <2>1, <2>2, <2>3, <2>4, <2>5
<1>3. CASE /\ Head(c2s).j \notin DOMAIN wjob /\ ServerTakes(<<>>)
           /\ UNCHANGED <<wjob, disk, faulted>>
  <2>1. PICK m, j : ServerTook(m, j, <<>>) /\ m.t = "block" /\ j \notin DOMAIN wjob
    BY <1>1, <1>3, ServerTake
  <2>2. ~Live(j) /\ ~Live(j)' BY <1>2, <1>3, <2>1 DEF Live, Has
  <2> QED BY <1>1, <1>2, <1>3, <2>1, <2>2, UnheardStep
<1>4. CASE /\ Head(c2s).j \in DOMAIN wjob /\ Block(Head(c2s))
           /\ ServerTakes(<<>>) /\ UNCHANGED faulted
  <2>1. PICK m, j : /\ ServerTook(m, j, <<>>) /\ m.t = "block"
                    /\ j \in DOMAIN wjob
                    /\ BlockMoves(m)
    BY <1>1, <1>4, ServerTake DEF BlockMoves
  <2>2. BlockTaken(m, j) BY <1>1, <1>2, <2>1 DEF BlockTaken
  <2> QED BY <1>1, <1>2, <2>1, <2>2, BlockStep
<1>5. CASE /\ Head(c2s).j \in DOMAIN wjob /\ BlockFails(Head(c2s))
           /\ ServerTakes(<<Msg("error", Head(c2s).j, Head(c2s).k, 0)>>)
  <2>1. PICK x : /\ ServerTook(Head(c2s), Head(c2s).j, <<x>>)
                 /\ x.t = "error" /\ x.k = Head(c2s).k /\ x.v = 0
                 /\ x.j = Head(c2s).j
                 /\ Gave(s2c, s2c', Head(c2s).j, x)
                 /\ Sent(s2c', Head(c2s).j) = Sent(s2c, Head(c2s).j) \cup {x}
    <3>1. "error" \in Kinds /\ 0 \in Int BY DEF Kinds
    <3>2. Head(c2s).k \in Nat BY <1>1, HeadIs DEF FTTypeOK, TypeQueues
    <3>3. ServerTakes(<<Msg("error", Head(c2s).j, Head(c2s).k, 0)>>) BY <1>5
    <3> HIDE <1>5
    <3>4. FTTypeOK /\ c2s # <<>> BY <1>1
    <3>5. ServerReplied("error", Head(c2s).k, 0)
      BY <3>1, <3>2, <3>3, <3>4, ServerSends
    <3> QED BY <3>5 DEF ServerReplied
  <2>2. PICK m, j : /\ ServerTook(m, j, <<x>>) /\ m.t = "block"
                    /\ j \in DOMAIN wjob
                    /\ Gave(s2c, s2c', j, x)
                    /\ Sent(s2c', j) = Sent(s2c, j) \cup {x}
                    /\ BlockFails(m)
    BY <1>1, <1>5, <2>1
  <2>3. BlockMoves(m) \/ (Size(m.j, m.k) # Dir /\ SyncFails(m))
    BY <2>2 DEF BlockFails, BlockMoves
  <2>4. BlockTaken(m, j)
    <3>1. /\ Data(j) = c2s /\ Data(j)' = c2s' /\ Back(j) = s2c
          /\ Back(j)' = s2c'
          /\ j \in Jobs /\ up /\ m \in Messages
          /\ Took(c2s, c2s', j, m) /\ m.j = j /\ sc.upload[j] /\ sc' = sc
          /\ Life(j) /\ Tokens(j) /\ Parts(j) /\ wjob[j].listed
      BY <1>2, <2>2
    <3>2. /\ \A T : "error" \notin T /\ Leads(Back(j), j, T) => Leads(Back(j)', j, T)
          /\ \A T : "error" \notin T /\ Once(Back(j), j, T) => Once(Back(j)', j, T)
      BY <2>1, <2>2, <3>1 DEF Gave
    <3> QED BY <1>1, <2>1, <2>2, <2>3, <3>1, <3>2 DEF BlockTaken
  <2> QED BY <1>1, <1>2, <2>2, <2>4, BlockStep
<1> QED BY <1>3, <1>4, <1>5 DEF OnBlockServer

=============================================================================
