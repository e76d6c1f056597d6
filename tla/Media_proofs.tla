---------------------------- MODULE Media_proofs ----------------------------
(***************************************************************************)
(* The semaphore of Media for any number of requests and permits: what is  *)
(* free, held and lost always adds up, no process runs outside a permit    *)
(* but those of cancelled requests, and nobody waits beside a free permit. *)
(* And what a range response sends, for any sizes, ranges and chunk size:  *)
(* the bytes sent are the positions from the first byte asked for up to    *)
(* where the reader is, and an end over an unchanged file is the end of    *)
(* the range.  And what an upload sends: full parts, which make up what    *)
(* was read together with what is still buffered.                          *)
(***************************************************************************)
EXTENDS Media, FiniteSetTheorems, SequenceTheorems, TLAPS

(* The requests by what they have to do with the semaphore. *)
Waiters == {r \in Requests : job[r].pc = "waiting"}
Gone == {r \in Requests : Dropped(job[r])}

(* The books of the semaphore: f free permits, q waiting, held by H, waited *)
(* for by W, cut off from their release G.                                 *)
Books(f, q, H, W, G) ==
  /\ f \in Nat /\ q \in Seq(Requests)
  /\ H \subseteq Requests /\ G \subseteq Requests
  /\ f + Cardinality(H) <= Limit
  /\ Limit <= f + Cardinality(H) + Cardinality(G)
  /\ q # <<>> => f = 0
  /\ \A i, k \in 1..Len(q) : q[i] = q[k] => i = k
  /\ W = {q[i] : i \in 1..Len(q)}

(* What holds of one job whatever the others do. *)
JobOK(j) ==
  /\ j \in Jobs
  /\ j.pc \in {"new", "waiting", "granted", "starting"} => j.proc = "none"
  /\ j.pc \in {"reading", "yielded", "closing"} => j.op = "transcode"
  /\ j.cut => j.left \in {"reading", "closing"}
  /\ j.proc \in {"running", "stuck"} =>
       j.pc \in HoldingPcs \/ j.left \in {"feeding", "talking", "reading", "closing"}

JobsInv ==
  /\ job \in [Requests -> Jobs]
  /\ \A r \in Requests : JobOK(job[r])
  /\ Books(free, queue, Holders, Waiters, Gone)

-----------------------------------------------------------------------------
(* The books, set by set. *)

LEMMA Finite ==
  ASSUME NEW S, S \subseteq Requests
  PROVE  IsFiniteSet(S) /\ Cardinality(S) \in Nat
BY FS_Subset, FS_CardinalityType, MediaAssumption

LEMMA MoreGone ==
  ASSUME NEW f, NEW q, NEW H, NEW W, NEW G, Books(f, q, H, W, G),
         NEW D, G \subseteq D, D \subseteq Requests
  PROVE  Books(f, q, H, W, D)
<1>1. Cardinality(G) <= Cardinality(D)
  BY FS_Subset, Finite
<1>2. Cardinality(H) \in Nat /\ Cardinality(G) \in Nat /\ Cardinality(D) \in Nat
  BY Finite DEF Books
<1> QED BY <1>1, <1>2, MediaAssumption DEF Books

LEMMA TakeFree ==
  ASSUME NEW f, NEW q, NEW H, NEW W, NEW G, Books(f, q, H, W, G),
         NEW r \in Requests, r \notin H, f > 0
  PROVE  Books(f - 1, q, H \cup {r}, W, G)
<1>1. Cardinality(H \cup {r}) = Cardinality(H) + 1
  BY FS_AddElement, Finite DEF Books
<1>2. Cardinality(H) \in Nat /\ Cardinality(G) \in Nat
  BY Finite DEF Books
<1> QED BY <1>1, <1>2, MediaAssumption DEF Books

LEMMA JoinQueue ==
  ASSUME NEW f, NEW q, NEW H, NEW W, NEW G, Books(f, q, H, W, G),
         NEW r \in Requests, r \notin W, f = 0 \/ q # <<>>
  PROVE  Books(f, Append(q, r), H, W \cup {r}, G)
<1> DEFINE p == Append(q, r)
<1>0. q \in Seq(Requests)
  BY DEF Books
<1>1. /\ p \in Seq(Requests) /\ p # <<>> /\ Len(p) = Len(q) + 1 /\ Len(q) \in Nat
      /\ p[Len(q) + 1] = r
      /\ \A i \in 1..Len(q) : p[i] = q[i]
  BY <1>0
<1> HIDE DEF p
<1>2. \A i \in 1..Len(q) : q[i] # r
  BY DEF Books
<1>3. \A i, k \in 1..Len(p) : p[i] = p[k] => i = k
  BY <1>1, <1>2 DEF Books
<1>4. W \cup {r} = {p[i] : i \in 1..Len(p)}
  BY <1>1 DEF Books
<1> QED BY <1>1, <1>3, <1>4 DEF Books, p

LEMMA GiveBack ==
  ASSUME NEW f, NEW q, NEW H, NEW W, NEW G, Books(f, q, H, W, G),
         NEW r \in H, q = <<>>
  PROVE  Books(f + 1, q, H \ {r}, W, G)
<1>1. Cardinality(H \ {r}) = Cardinality(H) - 1
  BY FS_RemoveElement, Finite DEF Books
<1>2. Cardinality(H) \in Nat /\ Cardinality(H \ {r}) \in Nat /\ Cardinality(G) \in Nat
  BY Finite DEF Books
<1> QED BY <1>1, <1>2, MediaAssumption DEF Books

LEMMA PassOn ==
  ASSUME NEW f, NEW q, NEW H, NEW W, NEW G, Books(f, q, H, W, G),
         NEW r \in H, q # <<>>, Head(q) \notin H
  PROVE  Books(f, Tail(q), (H \ {r}) \cup {Head(q)}, W \ {Head(q)}, G)
<1> DEFINE h == Head(q)  t == Tail(q)
<1>1. /\ h \in Requests /\ h = q[1] /\ t \in Seq(Requests)
      /\ Len(t) = Len(q) - 1 /\ Len(q) \in Nat /\ Len(q) >= 1
      /\ \A i \in 1..Len(t) : t[i] = q[i + 1]
  BY DEF Books
<1> HIDE DEF h, t
<1>2. Cardinality((H \ {r}) \cup {h}) = Cardinality(H)
  <2>1. Cardinality(H \ {r}) = Cardinality(H) - 1 /\ IsFiniteSet(H \ {r})
    BY FS_RemoveElement, Finite DEF Books
  <2>2. Cardinality((H \ {r}) \cup {h}) = Cardinality(H \ {r}) + 1
    BY <2>1, FS_AddElement DEF h
  <2> QED BY <2>1, <2>2, Finite DEF Books
<1>3. \A i, k \in 1..Len(t) : t[i] = t[k] => i = k
  <2> SUFFICES ASSUME NEW i \in 1..Len(t), NEW k \in 1..Len(t), t[i] = t[k]
               PROVE  i = k
    OBVIOUS
  <2>1. i + 1 \in 1..Len(q) /\ k + 1 \in 1..Len(q) /\ q[i + 1] = q[k + 1]
    BY <1>1
  <2> QED BY <2>1 DEF Books
<1>4. W \ {h} = {t[i] : i \in 1..Len(t)}
  <2>1. ASSUME NEW w \in W \ {h} PROVE \E i \in 1..Len(t) : t[i] = w
    <3>1. PICK i \in 1..Len(q) : q[i] = w
      BY DEF Books
    <3>2. i - 1 \in 1..Len(t) /\ t[i - 1] = w
      BY <3>1, <1>1
    <3> QED BY <3>2
  <2>2. ASSUME NEW i \in 1..Len(t) PROVE t[i] \in W \ {h}
    <3>1. i + 1 \in 1..Len(q) /\ 1 \in 1..Len(q) /\ i + 1 # 1 /\ t[i] = q[i + 1]
      BY <1>1
    <3> QED BY <3>1, <1>1 DEF Books
  <2> QED BY <2>1, <2>2
<1>5. f = 0 /\ (H \ {r}) \cup {h} \subseteq Requests
  BY <1>1 DEF Books
<1> QED BY <1>1, <1>2, <1>3, <1>4, <1>5 DEF Books, h, t

LEMMA LosePermit ==
  ASSUME NEW f, NEW q, NEW H, NEW W, NEW G, Books(f, q, H, W, G),
         NEW r \in H, r \notin G
  PROVE  Books(f, q, H \ {r}, W, G \cup {r})
<1>1. Cardinality(H \ {r}) = Cardinality(H) - 1
  BY FS_RemoveElement, Finite DEF Books
<1>2. Cardinality(G \cup {r}) = Cardinality(G) + 1
  BY FS_AddElement, Finite DEF Books
<1>3. Cardinality(H) \in Nat /\ Cardinality(G) \in Nat
  BY Finite DEF Books
<1> QED BY <1>1, <1>2, <1>3, MediaAssumption DEF Books

LEMMA LeaveQueue ==
  ASSUME NEW f, NEW q, NEW H, NEW W, NEW G, Books(f, q, H, W, G),
         NEW n \in 1..Len(q)
  PROVE  Books(f, RemoveAt(q, n), H, W \ {q[n]}, G)
<1> DEFINE p == RemoveAt(q, n)
<1>1. /\ p \in Seq(Requests) /\ Len(p) = Len(q) - 1 /\ Len(q) \in Nat
      /\ \A i \in 1..Len(p) : p[i] = q[IF i < n THEN i ELSE i + 1]
  <2> DEFINE a == SubSeq(q, 1, n - 1)  b == SubSeq(q, n + 1, Len(q))
  <2>1. q \in Seq(Requests) /\ Len(q) \in Nat /\ p = a \o b
    BY DEF Books, RemoveAt
  <2>2. /\ a \in Seq(Requests) /\ Len(a) = n - 1
        /\ \A i \in 1..Len(a) : a[i] = q[i]
    BY <2>1
  <2>3. /\ b \in Seq(Requests) /\ Len(b) = Len(q) - n
        /\ \A i \in 1..Len(b) : b[i] = q[n + i]
    BY <2>1
  <2> HIDE DEF a, b, p
  <2>4. p \in Seq(Requests) /\ Len(p) = Len(a) + Len(b)
    <3>1. a \o b \in Seq(Requests) /\ Len(a \o b) = Len(a) + Len(b)
      BY <2>2, <2>3, ConcatProperties
    <3> QED BY <3>1, <2>1
  <2>5. ASSUME NEW i \in 1..Len(p)
        PROVE  p[i] = q[IF i < n THEN i ELSE i + 1]
    <3>1. CASE i < n
      BY <3>1, <2>1, <2>2, <2>3, <2>4
    <3>2. CASE ~(i < n)
      <4>1. p[i] = b[i - (n - 1)] /\ i - (n - 1) \in 1..Len(b)
        BY <3>2, <2>1, <2>2, <2>3, <2>4
      <4> QED BY <4>1, <2>3, <3>2
    <3> QED BY <3>1, <3>2
  <2> QED BY <2>1, <2>2, <2>3, <2>4, <2>5
<1> HIDE DEF p
<1>2. \A i, k \in 1..Len(p) : p[i] = p[k] => i = k
  <2> SUFFICES ASSUME NEW i \in 1..Len(p), NEW k \in 1..Len(p), p[i] = p[k]
               PROVE  i = k
    OBVIOUS
  <2> DEFINE up(x) == IF x < n THEN x ELSE x + 1
  <2>1. up(i) \in 1..Len(q) /\ up(k) \in 1..Len(q) /\ q[up(i)] = q[up(k)]
    BY <1>1
  <2>2. up(i) = up(k)
    BY <2>1 DEF Books
  <2> QED BY <2>2
<1>3. W \ {q[n]} = {p[i] : i \in 1..Len(p)}
  <2>1. ASSUME NEW w \in W \ {q[n]} PROVE \E i \in 1..Len(p) : p[i] = w
    <3>1. PICK i \in 1..Len(q) : q[i] = w
      BY DEF Books
    <3>2. CASE i < n
      BY <3>1, <3>2, <1>1
    <3>3. CASE i > n
      <4>1. i - 1 \in 1..Len(p) /\ p[i - 1] = q[i]
        BY <3>3, <1>1
      <4> QED BY <4>1, <3>1
    <3> QED BY <3>1, <3>2, <3>3
  <2>2. ASSUME NEW i \in 1..Len(p) PROVE p[i] \in W \ {q[n]}
    <3> DEFINE u == IF i < n THEN i ELSE i + 1
    <3>1. u \in 1..Len(q) /\ u # n /\ p[i] = q[u]
      BY <1>1
    <3> HIDE DEF u
    <3> QED BY <3>1 DEF Books
  <2> QED BY <2>1, <2>2
<1>4. q # <<>>
  BY DEF Books
<1> QED BY <1>1, <1>2, <1>3, <1>4 DEF Books, p

-----------------------------------------------------------------------------
(* What acquire, release and the rest do to the jobs and the books.        *)

LEMMA Acquires ==
  ASSUME JobsInv, NEW r \in Requests, NEW j, Acquire(r, j),
         JobOK([j EXCEPT !.pc = "starting"]), JobOK([j EXCEPT !.pc = "waiting"]),
         j \in Jobs, job[r].pc \notin HoldingPcs \cup {"waiting", "done"}
  PROVE  JobsInv'
<1>0. r \notin Holders /\ r \notin Waiters /\ r \notin Gone
  BY DEF Holders, Waiters, Gone, Dropped
<1>1. CASE free > 0 /\ queue = <<>>
  <2> DEFINE k == [j EXCEPT !.pc = "starting"]
  <2>1. job' = [job EXCEPT ![r] = k] /\ free' = free - 1 /\ queue' = queue
    BY <1>1 DEF Acquire
  <2>2. k \in Jobs /\ k.pc = "starting"
    BY DEF Jobs, HoldingPcs
  <2> HIDE DEF k
  <2>3. job' \in [Requests -> Jobs] /\ \A u \in Requests : JobOK(job'[u])
    BY <2>1, <2>2 DEF JobsInv, k
  <2>4. Holders' = Holders \cup {r} /\ Waiters' = Waiters /\ Gone' = Gone
    BY <1>0, <2>1, <2>2 DEF JobsInv, Holders, Waiters, Gone, Dropped, HoldingPcs
  <2>5. Books(free', queue', Holders', Waiters', Gone')
    BY <1>0, <1>1, <2>1, <2>4, TakeFree DEF JobsInv
  <2> QED BY <2>3, <2>5 DEF JobsInv, Books, JobOK, Jobs
<1>2. CASE ~(free > 0 /\ queue = <<>>)
  <2> DEFINE k == [j EXCEPT !.pc = "waiting"]
  <2>1. job' = [job EXCEPT ![r] = k] /\ free' = free /\ queue' = Append(queue, r)
    BY <1>2 DEF Acquire
  <2>2. k \in Jobs /\ k.pc = "waiting"
    BY DEF Jobs, HoldingPcs
  <2> HIDE DEF k
  <2>3. job' \in [Requests -> Jobs] /\ \A u \in Requests : JobOK(job'[u])
    BY <2>1, <2>2 DEF JobsInv, k
  <2>4. Holders' = Holders /\ Waiters' = Waiters \cup {r} /\ Gone' = Gone
    BY <1>0, <2>1, <2>2 DEF JobsInv, Holders, Waiters, Gone, Dropped, HoldingPcs
  <2>5. free = 0 \/ queue # <<>>
    BY <1>2 DEF JobsInv, Books
  <2>6. Books(free', queue', Holders', Waiters', Gone')
    BY <1>0, <2>1, <2>4, <2>5, JoinQueue DEF JobsInv
  <2> QED BY <2>3, <2>6 DEF JobsInv
<1> QED BY <1>1, <1>2

LEMMA Releases ==
  ASSUME JobsInv, NEW r \in Requests, NEW j, Release(r, j), JobOK(j),
         job[r].pc \in HoldingPcs, j.pc \notin HoldingPcs \cup {"waiting"}
  PROVE  JobsInv'
<1>0. r \in Holders /\ r \notin Waiters /\ r \notin Gone
  BY DEF Holders, Waiters, Gone, Dropped, HoldingPcs
<1>1. j \in Jobs
  BY DEF JobOK
<1>2. CASE queue = <<>>
  <2>1. job' = [job EXCEPT ![r] = j] /\ free' = free + 1 /\ queue' = queue
    BY <1>2 DEF Release
  <2>2. job' \in [Requests -> Jobs] /\ \A u \in Requests : JobOK(job'[u])
    BY <1>1, <2>1 DEF JobsInv
  <2>3. Holders' = Holders \ {r} /\ Waiters' = Waiters
    BY <1>0, <2>1 DEF JobsInv, Holders, Waiters
  <2>4. Gone \subseteq Gone' /\ Gone' \subseteq Requests
    BY <1>0, <2>1 DEF JobsInv, Gone
  <2>5. Books(free + 1, queue, Holders \ {r}, Waiters, Gone)
    BY <1>0, <1>2, GiveBack DEF JobsInv
  <2>6. Books(free', queue', Holders', Waiters', Gone')
    BY <2>1, <2>3, <2>4, <2>5, MoreGone
  <2> QED BY <2>2, <2>6 DEF JobsInv
<1>3. CASE queue # <<>>
  <2> DEFINE h == Head(queue)
  <2>1. /\ job' = [job EXCEPT ![r] = j, ![h].pc = "granted"]
        /\ free' = free /\ queue' = Tail(queue)
    BY <1>3 DEF Release
  <2>2. h \in Requests /\ h \in Waiters
    BY <1>3 DEF JobsInv, Books
  <2>3. h # r /\ h \notin Holders /\ h \notin Gone /\ job[h].pc = "waiting"
    BY <1>0, <2>2 DEF Holders, Waiters, Gone, Dropped, HoldingPcs
  <2>4. /\ job' \in [Requests -> Jobs]
        /\ job'[r] = j /\ job'[h] = [job[h] EXCEPT !.pc = "granted"]
        /\ \A u \in Requests \ {r, h} : job'[u] = job[u]
    BY <1>1, <2>1, <2>2, <2>3 DEF JobsInv, Jobs, HoldingPcs
  <2>5. \A u \in Requests : JobOK(job'[u])
    <3>1. JobOK(job'[h])
      BY <2>2, <2>3, <2>4 DEF JobsInv, JobOK, Jobs, HoldingPcs
    <3> QED BY <2>4, <3>1 DEF JobsInv
  <2>6. job'[h].pc = "granted"
    BY <2>2, <2>4 DEF JobsInv, Jobs
  <2> HIDE DEF h
  <2>7. Holders' = (Holders \ {r}) \cup {h} /\ Waiters' = Waiters \ {h}
    <3>1. job'[r].pc \notin HoldingPcs \cup {"waiting"} /\ job[r].pc # "waiting"
      BY <2>4 DEF HoldingPcs
    <3>2. Holders' = (Holders \ {r}) \cup {h}
      BY <2>2, <2>4, <2>6, <3>1 DEF Holders, HoldingPcs
    <3>3. Waiters' = Waiters \ {h}
      BY <2>2, <2>4, <2>6, <3>1 DEF Waiters
    <3> QED BY <3>2, <3>3
  <2>8. Gone \subseteq Gone' /\ Gone' \subseteq Requests
    BY <1>0, <2>3, <2>4 DEF Gone
  <2>9. Books(free, Tail(queue), (Holders \ {r}) \cup {h}, Waiters \ {h}, Gone)
    BY <1>0, <1>3, <2>3, PassOn DEF JobsInv, h
  <2>10. Books(free', queue', Holders', Waiters', Gone')
    BY <2>1, <2>7, <2>8, <2>9, MoreGone
  <2> QED BY <2>4, <2>5, <2>10 DEF JobsInv
<1> QED BY <1>2, <1>3

(* A step that leaves the semaphore alone. *)
LEMMA GoesOn ==
  ASSUME JobsInv, NEW r \in Requests, NEW j, JobOK(j),
         job' = [job EXCEPT ![r] = j], UNCHANGED <<free, queue>>,
         job[r].pc \in HoldingPcs <=> j.pc \in HoldingPcs,
         job[r].pc = "waiting" <=> j.pc = "waiting",
         Dropped(job[r]) => Dropped(j)
  PROVE  JobsInv'
<1>1. job' \in [Requests -> Jobs] /\ \A u \in Requests : JobOK(job'[u])
  BY DEF JobsInv, JobOK
<1>2. Holders' = Holders /\ Waiters' = Waiters
  BY DEF JobsInv, Holders, Waiters
<1>3. Gone \subseteq Gone' /\ Gone' \subseteq Requests
  BY DEF JobsInv, Gone
<1>4. Books(free', queue', Holders', Waiters', Gone')
  BY <1>2, <1>3, MoreGone DEF JobsInv
<1> QED BY <1>1, <1>4 DEF JobsInv

(* A stream that is cut off from its release. *)
LEMMA Loses ==
  ASSUME JobsInv, NEW r \in Requests, NEW j, JobOK(j),
         job' = [job EXCEPT ![r] = j], UNCHANGED <<free, queue>>,
         job[r].pc \in HoldingPcs, Dropped(j)
  PROVE  JobsInv'
<1>1. job' \in [Requests -> Jobs] /\ \A u \in Requests : JobOK(job'[u])
  BY DEF JobsInv, JobOK
<1>2. r \in Holders /\ r \notin Waiters /\ r \notin Gone
  BY DEF Holders, Waiters, Gone, Dropped, HoldingPcs
<1>3. j.pc = "done"
  BY DEF Dropped
<1>4. Holders' = Holders \ {r} /\ Waiters' = Waiters
  BY <1>2, <1>3 DEF JobsInv, Holders, Waiters, HoldingPcs
<1>5. Gone' = Gone \cup {r}
  BY DEF JobsInv, Gone
<1>6. Books(free', queue', Holders', Waiters', Gone')
  BY <1>2, <1>4, <1>5, LosePermit DEF JobsInv
<1> QED BY <1>1, <1>6 DEF JobsInv

(* A client that leaves the queue. *)
LEMMA Quits ==
  ASSUME JobsInv, NEW n \in 1..Len(queue), NEW j, JobOK(j),
         job' = [job EXCEPT ![queue[n]] = j], free' = free,
         queue' = RemoveAt(queue, n), j.pc \notin HoldingPcs \cup {"waiting"}
  PROVE  JobsInv'
<1> DEFINE r == queue[n]
<1>1. r \in Requests /\ r \in Waiters
  BY DEF JobsInv, Books
<1>2. job[r].pc = "waiting" /\ r \notin Holders /\ r \notin Gone
  BY <1>1 DEF Waiters, Holders, Gone, Dropped, HoldingPcs
<1>3. job' \in [Requests -> Jobs] /\ \A u \in Requests : JobOK(job'[u])
  BY <1>1 DEF JobsInv, JobOK
<1>4. Holders' = Holders /\ Waiters' = Waiters \ {r}
  BY <1>1, <1>2 DEF JobsInv, Holders, Waiters
<1>5. Gone \subseteq Gone' /\ Gone' \subseteq Requests
  BY <1>1, <1>2 DEF JobsInv, Gone
<1>6. Books(free, RemoveAt(queue, n), Holders, Waiters \ {r}, Gone)
  BY LeaveQueue DEF JobsInv
<1>7. Books(free', queue', Holders', Waiters', Gone')
  BY <1>4, <1>5, <1>6, MoreGone
<1> QED BY <1>3, <1>7 DEF JobsInv

-----------------------------------------------------------------------------
(* The actions, one by one. *)

LEMMA JobsTyped ==
  ASSUME JobsInv, NEW r \in Requests
  PROVE  job[r] \in Jobs /\ JobOK(job[r])
BY DEF JobsInv

LEMMA Moves ==
  ASSUME JobsInv, NEW r \in Requests, NEW pc, Goes(r, pc),
         JobOK([job[r] EXCEPT !.pc = pc]),
         job[r].pc \in HoldingPcs <=> pc \in HoldingPcs,
         job[r].pc \notin {"waiting", "done"}, pc # "waiting"
  PROVE  JobsInv'
<1> DEFINE j == [job[r] EXCEPT !.pc = pc]
<1>1. job[r] \in Jobs
  BY JobsTyped
<1>2. j.pc = pc /\ job' = [job EXCEPT ![r] = j] /\ UNCHANGED <<free, queue>>
  BY <1>1 DEF Goes, Jobs
<1>3. JobOK(j)
  OBVIOUS
<1> HIDE DEF j
<1> QED BY <1>2, <1>3, GoesOn DEF Dropped

(* Waiting for a permit from before the first step of a job. *)
LEMMA Begins ==
  ASSUME JobsInv, NEW r \in Requests, job[r].pc \notin HoldingPcs \cup {"waiting", "done"},
         NEW op \in {"thumbnail", "duration", "transcode"}, NEW tries \in 0 .. 1,
         Acquire(r, NewJob(op, tries))
  PROVE  JobsInv'
<1> DEFINE j == NewJob(op, tries)
<1>1. j \in Jobs
  BY DEF NewJob, Jobs
<1>2. ASSUME NEW pc \in {"starting", "waiting"} PROVE JobOK([j EXCEPT !.pc = pc])
  <2> DEFINE k == [j EXCEPT !.pc = pc]
  <2>1. j.proc = "none" /\ ~j.cut
    BY DEF NewJob
  <2> HIDE DEF j
  <2>2. k \in Jobs /\ k.pc = pc /\ k.proc = "none" /\ ~k.cut
    BY <1>1, <2>1 DEF Jobs, HoldingPcs
  <2> HIDE DEF k
  <2>3. JobOK(k)
    BY <2>2 DEF JobOK
  <2> QED BY <2>3 DEF k
<1> HIDE DEF j
<1>3. JobOK([j EXCEPT !.pc = "starting"]) /\ JobOK([j EXCEPT !.pc = "waiting"])
  BY <1>2
<1> QED BY <1>1, <1>3, Acquires DEF j

LEMMA AskStep ==
  ASSUME JobsInv, NEW r \in Requests,
         AskThumbnail(r) \/ AskDuration(r) \/ AskTranscode(r)
  PROVE  JobsInv'
<1>1. job[r] = Idle /\ job[r].pc = "new"
  BY DEF AskThumbnail, AskDuration, AskTranscode, Idle, NewJob
<1>2. CASE /\ job' = [job EXCEPT ![r].op = "thumbnail", ![r].pc = "done"]
           /\ UNCHANGED <<free, queue>>
  <2> DEFINE j == [op |-> "thumbnail", pc |-> "done", direct |-> TRUE, tries |-> 0,
                   proc |-> "none", cut |-> FALSE, left |-> "no"]
  <2>1. job' = [job EXCEPT ![r] = j] /\ UNCHANGED <<free, queue>>
    BY <1>1, <1>2 DEF Idle, NewJob, JobsInv
  <2>2. j \in Jobs
    BY DEF Jobs
  <2>3. JobOK(j) /\ j.pc = "done" /\ j.op = "thumbnail"
    BY <2>2 DEF JobOK
  <2> HIDE DEF j
  <2> QED BY <1>1, <2>1, <2>3, GoesOn DEF Dropped, HoldingPcs
<1>3. CASE Acquire(r, NewJob("thumbnail", 1)) \/ Acquire(r, NewJob("duration", 0))
             \/ Acquire(r, NewJob("transcode", 0))
  BY <1>1, <1>3, Begins DEF HoldingPcs
<1> QED BY <1>2, <1>3 DEF AskThumbnail, AskDuration, AskTranscode

LEMMA StartStep ==
  ASSUME JobsInv, NEW r \in Requests, Resume(r) \/ Spawn(r) \/ Feed(r)
  PROVE  JobsInv'
<1>1. job[r] \in Jobs /\ JobOK(job[r])
  BY JobsTyped
<1>2. CASE Resume(r)
  <2>1. JobOK([job[r] EXCEPT !.pc = "starting"])
    BY <1>1, <1>2 DEF Resume, JobOK, Jobs, HoldingPcs
  <2> QED BY <1>2, <2>1, Moves DEF Resume, HoldingPcs
<1>3. CASE Feed(r)
  <2>1. JobOK([job[r] EXCEPT !.pc = "talking"])
    BY <1>1, <1>3 DEF Feed, JobOK, Jobs, HoldingPcs
  <2> QED BY <1>3, <2>1, Moves DEF Feed, HoldingPcs
<1>4. CASE Spawn(r)
  <2>1. PICK direct \in BOOLEAN :
          job' = [job EXCEPT ![r].direct = direct, ![r].proc = "running",
                   ![r].pc = IF job[r].op = "transcode" THEN "reading"
                             ELSE IF direct THEN "talking" ELSE "feeding"]
    BY <1>4 DEF Spawn
  <2> DEFINE pc == IF job[r].op = "transcode" THEN "reading"
                   ELSE IF direct THEN "talking" ELSE "feeding"
             j == [job[r] EXCEPT !.direct = direct, !.proc = "running", !.pc = pc]
  <2>2. job[r].pc = "starting" /\ UNCHANGED <<free, queue>>
    BY <1>4 DEF Spawn
  <2>3. pc \in {"reading", "talking", "feeding"} /\ (pc = "reading" => job[r].op = "transcode")
    OBVIOUS
  <2>4. job' = [job EXCEPT ![r] = j]
    BY <2>1, <1>1 DEF JobsInv, Jobs
  <2> HIDE DEF pc
  <2>5. /\ j \in Jobs /\ j.pc = pc /\ j.op = job[r].op /\ j.proc = "running"
        /\ j.cut = job[r].cut /\ j.left = job[r].left
    BY <1>1, <2>3 DEF Jobs, HoldingPcs
  <2> HIDE DEF j
  <2>6. JobOK(j)
    BY <1>1, <2>2, <2>3, <2>5 DEF JobOK, HoldingPcs
  <2> QED BY <2>2, <2>3, <2>4, <2>5, <2>6, GoesOn DEF Dropped, HoldingPcs
<1> QED BY <1>2, <1>3, <1>4

LEMMA FailsStep ==
  ASSUME JobsInv, NEW r \in Requests, NEW direct, NEW j, Fails(r, direct, j),
         JobOK(j), j.op = job[r].op, j.tries = job[r].tries, j.proc = "none",
         job[r].pc \in HoldingPcs
  PROVE  JobsInv'
<1>1. j \in Jobs
  BY DEF JobOK
<1>2. CASE Retries(r, direct)
  <2> DEFINE k == [j EXCEPT !.pc = "starting", !.tries = 2]
  <2>1. job' = [job EXCEPT ![r] = k] /\ UNCHANGED <<free, queue>>
    BY <1>2 DEF Fails
  <2>2. k \in Jobs /\ k.pc = "starting" /\ k.proc = "none" /\ k.cut = j.cut /\ k.left = j.left
    <3> DEFINE i == [j EXCEPT !.pc = "starting"]
    <3>1. /\ i \in Jobs /\ i.pc = "starting" /\ i.proc = "none"
          /\ i.cut = j.cut /\ i.left = j.left
      BY <1>1 DEF Jobs, HoldingPcs
    <3> HIDE DEF i
    <3>2. /\ [i EXCEPT !.tries = 2] \in Jobs
          /\ [i EXCEPT !.tries = 2].pc = "starting" /\ [i EXCEPT !.tries = 2].proc = "none"
          /\ [i EXCEPT !.tries = 2].cut = j.cut /\ [i EXCEPT !.tries = 2].left = j.left
      BY <3>1 DEF Jobs
    <3> QED BY <3>2 DEF i
  <2> HIDE DEF k
  <2>3. JobOK(k)
    BY <2>2 DEF JobOK
  <2> QED BY <2>1, <2>2, <2>3, GoesOn DEF Dropped, HoldingPcs
<1>3. CASE ~Retries(r, direct)
  <2> DEFINE k == [j EXCEPT !.pc = AfterPc(j)]
  <2>1. Release(r, k)
    BY <1>3 DEF Fails
  <2>2. AfterPc(j) \in {"saving", "done"}
    BY DEF AfterPc
  <2>3. /\ k \in Jobs /\ k.pc \in {"saving", "done"} /\ k.proc = "none"
        /\ k.cut = j.cut /\ k.left = j.left
    BY <1>1, <2>2 DEF Jobs
  <2> HIDE DEF k
  <2>4. JobOK(k)
    BY <2>3 DEF JobOK
  <2> QED BY <2>1, <2>3, <2>4, Releases DEF HoldingPcs
<1> QED BY <1>2, <1>3

LEMMA FailStep ==
  ASSUME JobsInv, NEW r \in Requests, SpawnFails(r) \/ Fail(r)
  PROVE  JobsInv'
<1>1. job[r] \in Jobs /\ JobOK(job[r])
  BY JobsTyped
<1>2. CASE SpawnFails(r)
  <2>1. PICK direct \in BOOLEAN : Fails(r, direct, job[r])
    BY <1>2 DEF SpawnFails
  <2>2. job[r].pc = "starting" /\ job[r].proc = "none"
    BY <1>1, <1>2 DEF SpawnFails, JobOK
  <2> QED BY <1>1, <2>1, <2>2, FailsStep DEF HoldingPcs
<1>3. CASE Fail(r)
  <2> DEFINE j == [job[r] EXCEPT !.proc = "none"]
  <2>1. job[r].pc = "talking" /\ Fails(r, job[r].direct, j)
    BY <1>3 DEF Fail
  <2>2. JobOK(j) /\ j.op = job[r].op /\ j.tries = job[r].tries /\ j.proc = "none"
    BY <1>1, <2>1 DEF JobOK, Jobs, HoldingPcs
  <2> HIDE DEF j
  <2> QED BY <2>1, <2>2, FailsStep DEF HoldingPcs
<1> QED BY <1>2, <1>3

(* A job that comes to its end. *)
LEMMA DoneIs ==
  ASSUME JobsInv, NEW r \in Requests
  PROVE  /\ Done(r) \in Jobs /\ Done(r).pc \in {"saving", "done"}
         /\ Done(r).op = job[r].op /\ Done(r).proc = job[r].proc
         /\ Done(r).cut = job[r].cut /\ Done(r).left = job[r].left
         /\ job[r].tries = 0 => Done(r).pc = "done"
<1> DEFINE pc == AfterPc(job[r])
<1>1. pc \in {"saving", "done"} /\ (job[r].tries = 0 => pc = "done")
  BY DEF AfterPc
<1> HIDE DEF pc
<1>2. job[r] \in Jobs /\ Done(r) = [job[r] EXCEPT !.pc = pc]
  BY JobsTyped DEF Done, pc
<1> QED BY <1>1, <1>2 DEF Jobs

LEMMA ReleaseDone ==
  ASSUME JobsInv, NEW r \in Requests, Release(r, Done(r)),
         job[r].pc \in HoldingPcs, job[r].proc = "exited"
  PROVE  JobsInv'
<1>1. JobOK(Done(r))
  BY JobsTyped, DoneIs DEF JobOK
<1> QED BY <1>1, DoneIs, Releases DEF HoldingPcs

LEMMA SucceedStep ==
  ASSUME JobsInv, NEW r \in Requests, Succeed(r)
  PROVE  JobsInv'
<1>1. job[r] \in Jobs /\ JobOK(job[r]) /\ job[r].pc = "talking" /\ job[r].proc = "exited"
  BY JobsTyped DEF Succeed
<1>2. CASE Release(r, Done(r))
  BY <1>1, <1>2, ReleaseDone DEF HoldingPcs
<1>3. CASE Release(r, [job[r] EXCEPT !.pc = "storing", !.proc = "none"])
  <2> DEFINE j == [job[r] EXCEPT !.pc = "storing", !.proc = "none"]
  <2>1. /\ j \in Jobs /\ j.pc = "storing" /\ j.proc = "none"
        /\ j.cut = job[r].cut /\ j.left = job[r].left
    BY <1>1 DEF Jobs
  <2> HIDE DEF j
  <2>2. JobOK(j)
    BY <1>1, <2>1 DEF JobOK
  <2> QED BY <1>1, <1>3, <2>1, <2>2, Releases DEF HoldingPcs, j
<1> QED BY <1>2, <1>3 DEF Succeed

LEMMA ThumbnailStep ==
  ASSUME JobsInv, NEW r \in Requests, StoreThumbnail(r) \/ SaveThumbnail(r)
  PROVE  JobsInv'
<1>1. job[r] \in Jobs /\ JobOK(job[r]) /\ job[r].pc \in {"storing", "saving"}
  BY JobsTyped DEF StoreThumbnail, SaveThumbnail
<1>2. CASE Goes(r, "saving") \/ Goes(r, "done")
  <2>1. PICK pc \in {"saving", "done"} : Goes(r, pc)
    BY <1>2
  <2>2. JobOK([job[r] EXCEPT !.pc = pc])
    BY <1>1 DEF JobOK, Jobs, HoldingPcs
  <2> QED BY <1>1, <2>1, <2>2, Moves DEF HoldingPcs
<1>3. CASE Acquire(r, NewJob("duration", 1))
  BY <1>1, <1>3, Begins DEF HoldingPcs
<1> QED BY <1>2, <1>3 DEF StoreThumbnail, SaveThumbnail

LEMMA StreamStep ==
  ASSUME JobsInv, NEW r \in Requests,
         ReadOutput(r) \/ TakeChunk(r) \/ EndStream(r) \/ Closed(r)
  PROVE  JobsInv'
<1>1. job[r] \in Jobs /\ JobOK(job[r])
  BY JobsTyped
<1>2. CASE ReadOutput(r) \/ TakeChunk(r)
  <2>1. PICK pc \in {"reading", "yielded"} : Goes(r, pc)
    BY <1>2 DEF ReadOutput, TakeChunk
  <2>2. job[r].pc \in {"reading", "yielded"}
    BY <1>2 DEF ReadOutput, TakeChunk
  <2>3. JobOK([job[r] EXCEPT !.pc = pc])
    BY <1>1, <2>2 DEF JobOK, Jobs, HoldingPcs
  <2> QED BY <2>1, <2>2, <2>3, Moves DEF HoldingPcs
<1>3. CASE EndStream(r) \/ Closed(r)
  BY <1>3, ReleaseDone DEF EndStream, Closed, HoldingPcs
<1> QED BY <1>2, <1>3

(* The finally clause of a stream that is read. *)
LEMMA FinallyStep ==
  ASSUME JobsInv, NEW r \in Requests, NEW cut \in BOOLEAN, Finally(r, cut),
         job[r].pc = "reading"
  PROVE  JobsInv'
<1> DEFINE left == IF cut THEN job[r].pc ELSE job[r].left
<1>1. job[r] \in Jobs /\ JobOK(job[r])
  BY JobsTyped
<1>2. left \in HoldingPcs \cup {"no", "waiting"} /\ (cut => left = "reading") /\ (~cut => left = job[r].left)
  BY <1>1 DEF Jobs, HoldingPcs
<1>3. CASE job[r].proc = "exited"
  <2> DEFINE j == [Done(r) EXCEPT !.left = left]
  <2>1. Release(r, j)
    <3>1. Done(r).left = job[r].left
      BY DoneIs
    <3>2. [Done(r) EXCEPT !.left = IF cut THEN job[r].pc ELSE @] = j
      BY <3>1
    <3> QED BY <1>3, <3>2 DEF Finally
  <2> HIDE DEF left
  <2>2. /\ j \in Jobs /\ j.pc \in {"saving", "done"} /\ j.proc = "exited"
        /\ j.cut = job[r].cut /\ j.left = left
    BY <1>2, <1>3, DoneIs DEF Jobs
  <2> HIDE DEF j
  <2>3. JobOK(j)
    BY <1>1, <1>2, <2>2 DEF JobOK
  <2> QED BY <2>1, <2>2, <2>3, Releases DEF HoldingPcs
<1>4. CASE job[r].proc # "exited"
  <2> DEFINE j == [job[r] EXCEPT !.pc = "closing", !.cut = cut, !.left = left]
  <2>1. job' = [job EXCEPT ![r] = j] /\ UNCHANGED <<free, queue>>
    BY <1>1, <1>4 DEF Finally, Jobs, JobsInv
  <2> HIDE DEF left
  <2>2. /\ j \in Jobs /\ j.pc = "closing" /\ j.op = job[r].op /\ j.proc = job[r].proc
        /\ j.cut = cut /\ j.left = left
    BY <1>1, <1>2 DEF Jobs, HoldingPcs
  <2> HIDE DEF j
  <2>3. JobOK(j)
    BY <1>1, <1>2, <2>2 DEF JobOK, HoldingPcs
  <2> QED BY <2>1, <2>2, <2>3, GoesOn DEF Dropped, HoldingPcs
<1> QED BY <1>3, <1>4

LEMMA CutStep ==
  ASSUME JobsInv, NEW r \in Requests, ReadRaises(r) \/ ClosingCut(r)
  PROVE  JobsInv'
<1>1. job[r] \in Jobs /\ JobOK(job[r])
  BY JobsTyped
<1>2. CASE ReadRaises(r)
  BY <1>2, FinallyStep DEF ReadRaises
<1>3. CASE ClosingCut(r)
  <2> DEFINE j == [job[r] EXCEPT !.pc = "done"]
  <2>1. job' = [job EXCEPT ![r] = j] /\ UNCHANGED <<free, queue>>
    BY <1>3 DEF ClosingCut, Goes, JobsInv
  <2>2. /\ j \in Jobs /\ j.pc = "done" /\ j.op = job[r].op /\ j.proc = job[r].proc
        /\ j.cut = job[r].cut /\ j.left = job[r].left
    BY <1>1 DEF Jobs
  <2> HIDE DEF j
  <2>3. job[r].pc = "closing" /\ job[r].cut
    BY <1>3 DEF ClosingCut
  <2>4. JobOK(j) /\ Dropped(j)
    BY <1>1, <2>2, <2>3 DEF JobOK, Dropped
  <2> QED BY <2>1, <2>3, <2>4, Loses DEF HoldingPcs
<1> QED BY <1>2, <1>3

LEMMA ProcessStep ==
  ASSUME JobsInv, NEW r \in Requests, Exit(r) \/ FillErrors(r)
  PROVE  JobsInv'
<1>1. job[r] \in Jobs /\ JobOK(job[r])
  BY JobsTyped
<1>2. PICK proc \in {"exited", "stuck"} :
        /\ job' = [job EXCEPT ![r].proc = proc]
        /\ proc = "stuck" => job[r].pc \in {"feeding", "reading", "yielded"}
  BY DEF Exit, FillErrors
<1> DEFINE j == [job[r] EXCEPT !.proc = proc]
<1>3. job[r].proc \in {"running", "stuck"} /\ UNCHANGED <<free, queue>>
  BY DEF Exit, FillErrors, Stuck
<1>4. job' = [job EXCEPT ![r] = j]
  BY <1>2 DEF JobsInv
<1>5. /\ j \in Jobs /\ j.pc = job[r].pc /\ j.op = job[r].op /\ j.proc = proc
      /\ j.cut = job[r].cut /\ j.left = job[r].left
  BY <1>1 DEF Jobs
<1> HIDE DEF j
<1>6. JobOK(j)
  BY <1>1, <1>2, <1>3, <1>5 DEF JobOK, HoldingPcs
<1> QED BY <1>3, <1>4, <1>5, <1>6, GoesOn DEF Dropped

LEMMA LeaveStep ==
  ASSUME JobsInv, NEW r \in Requests, Leave(r)
  PROVE  JobsInv'
<1> DEFINE gone == [Done(r) EXCEPT !.left = job[r].pc]
<1>1. job[r] \in Jobs /\ JobOK(job[r])
  BY JobsTyped
<1>2. /\ job[r].op \in {"duration", "transcode"} /\ job[r].tries = 0 /\ job[r].left = "no"
      /\ ~job[r].cut
  BY <1>1 DEF Leave, JobOK
<1>3. ASSUME job[r].pc \in HoldingPcs \cup {"waiting"}
      PROVE  /\ gone \in Jobs /\ gone.pc = "done" /\ gone.op = job[r].op
             /\ gone.proc = job[r].proc /\ ~gone.cut /\ gone.left = job[r].pc
  BY <1>2, <1>3, DoneIs DEF Jobs
<1>4. ASSUME \/ job[r].pc \in {"waiting", "granted", "starting", "feeding", "talking"}
             \/ job[r].pc \in HoldingPcs /\ job[r].proc = "exited"
      PROVE  JobOK(gone)
  <2>1. job[r].pc \in HoldingPcs \cup {"waiting"}
    BY <1>4 DEF HoldingPcs
  <2> HIDE DEF gone
  <2> QED BY <1>1, <1>3, <1>4, <2>1 DEF JobOK
<1>5. CASE /\ job[r].pc = "waiting"
           /\ \E i \in 1 .. Len(queue) : queue[i] = r /\ queue' = RemoveAt(queue, i)
           /\ free' = free
           /\ job' = [job EXCEPT ![r] = gone]
  <2>1. PICK n \in 1 .. Len(queue) : queue[n] = r /\ queue' = RemoveAt(queue, n)
    BY <1>5
  <2>2. JobOK(gone) /\ gone.pc = "done"
    BY <1>3, <1>4, <1>5
  <2> HIDE DEF gone
  <2> QED BY <1>5, <2>1, <2>2, Quits DEF HoldingPcs
<1>6. CASE /\ \/ job[r].pc = "granted"
              \/ job[r].op = "duration" /\ job[r].pc \in HoldingPcs
           /\ Release(r, gone)
  <2>1. job[r].pc \in {"granted", "starting", "feeding", "talking"}
    BY <1>1, <1>6 DEF JobOK, HoldingPcs
  <2>2. JobOK(gone) /\ gone.pc = "done"
    BY <1>3, <1>4, <2>1 DEF HoldingPcs
  <2> HIDE DEF gone
  <2> QED BY <1>6, <2>1, <2>2, Releases DEF HoldingPcs
<1>7. CASE /\ job[r].op = "transcode" /\ job[r].pc = "starting"
           /\ job' = [job EXCEPT ![r] = gone] /\ UNCHANGED <<free, queue>>
  <2>1. JobOK(gone) /\ Dropped(gone)
    BY <1>3, <1>4, <1>7 DEF HoldingPcs, Dropped
  <2> HIDE DEF gone
  <2> QED BY <1>7, <2>1, Loses DEF HoldingPcs
<1>8. CASE job[r].op = "transcode" /\ job[r].pc = "reading" /\ Finally(r, TRUE)
  BY <1>8, FinallyStep
<1>9. CASE job[r].pc = "yielded" /\ job[r].proc = "exited" /\ Release(r, gone)
  <2>1. JobOK(gone) /\ gone.pc = "done"
    BY <1>3, <1>4, <1>9 DEF HoldingPcs
  <2> HIDE DEF gone
  <2> QED BY <1>9, <2>1, Releases DEF HoldingPcs
<1>10. CASE /\ job[r].pc = "yielded"
            /\ job' = [job EXCEPT ![r].pc = "closing", ![r].left = "yielded"]
            /\ UNCHANGED <<free, queue>>
  <2> DEFINE j == [job[r] EXCEPT !.pc = "closing", !.left = "yielded"]
  <2>1. job' = [job EXCEPT ![r] = j]
    BY <1>10 DEF JobsInv
  <2>2. /\ j \in Jobs /\ j.pc = "closing" /\ j.op = job[r].op /\ ~j.cut
        /\ j.left = "yielded" /\ j.proc = job[r].proc
    BY <1>1, <1>2 DEF Jobs, HoldingPcs
  <2> HIDE DEF j
  <2>3. JobOK(j)
    BY <1>1, <1>10, <2>2 DEF JobOK, HoldingPcs
  <2> QED BY <1>10, <2>1, <2>2, <2>3, GoesOn DEF Dropped, HoldingPcs
<1>11. CASE /\ job[r].pc = "closing"
            /\ job' = [job EXCEPT ![r].cut = TRUE, ![r].left = "closing"]
            /\ UNCHANGED <<free, queue>>
  <2> DEFINE j == [job[r] EXCEPT !.cut = TRUE, !.left = "closing"]
  <2>1. job' = [job EXCEPT ![r] = j]
    BY <1>11 DEF JobsInv
  <2>2. /\ j \in Jobs /\ j.pc = "closing" /\ j.op = job[r].op
        /\ j.left = "closing" /\ j.proc = job[r].proc
    BY <1>1, <1>11 DEF Jobs, HoldingPcs
  <2> HIDE DEF j
  <2>3. JobOK(j)
    BY <1>1, <1>11, <2>2 DEF JobOK, HoldingPcs
  <2> QED BY <1>11, <2>1, <2>2, <2>3, GoesOn DEF Dropped, HoldingPcs
<1> HIDE DEF gone
<1> QED BY <1>5, <1>6, <1>7, <1>8, <1>9, <1>10, <1>11 DEF Leave, gone

-----------------------------------------------------------------------------
(* The inductive invariant. *)

Thumbs == [key : BOOLEAN, stored : BOOLEAN]

FileOK == size \in Sizes \cup {None} /\ changes \in 0 .. MaxChanges

IInv == FileOK /\ thumb \in Thumbs /\ JobsInv

LEMMA InvInit == Init => IInv
<1> SUFFICES ASSUME Init PROVE IInv
  OBVIOUS
<1>1. FileOK
  BY TransferAssumption DEF Init, TransferInit, FileOK
<1>2. thumb \in Thumbs
  BY DEF Init, MediaInit, Thumbs
<1>3. \A r \in Requests : job[r] = Idle
  BY DEF Init, MediaInit
<1>4. Idle \in Jobs /\ Idle.pc = "new" /\ Idle.proc = "none" /\ ~Idle.cut
  BY DEF Idle, NewJob, Jobs
<1>5. job \in [Requests -> Jobs] /\ \A r \in Requests : JobOK(job[r])
  BY <1>3, <1>4 DEF Init, MediaInit, JobOK
<1>6. Holders = {} /\ Waiters = {} /\ Gone = {}
  BY <1>3, <1>4 DEF Holders, Waiters, Gone, Dropped, HoldingPcs
<1>7. Books(Limit, <<>>, {}, {}, {})
  BY FS_EmptySet, MediaAssumption DEF Books
<1> QED BY <1>1, <1>2, <1>5, <1>6, <1>7 DEF IInv, JobsInv, Init, MediaInit

(* A step of the transfers, which have no part in the semaphore. *)
LEMMA Elsewhere ==
  ASSUME JobsInv, UNCHANGED mediaVars
  PROVE  JobsInv'
<1>1. Holders' = Holders /\ Waiters' = Waiters /\ Gone' = Gone
  BY DEF mediaVars, Holders, Waiters, Gone
<1> QED BY <1>1 DEF JobsInv, mediaVars

LEMMA JobStep ==
  ASSUME JobsInv, NEW r \in Requests, MediaStep(r)
  PROVE  JobsInv'
<1>1. CASE AskThumbnail(r) \/ AskDuration(r) \/ AskTranscode(r)
  BY <1>1, AskStep
<1>2. CASE Resume(r) \/ Spawn(r) \/ Feed(r)
  BY <1>2, StartStep
<1>3. CASE SpawnFails(r) \/ Fail(r)
  BY <1>3, FailStep
<1>4. CASE Succeed(r)
  BY <1>4, SucceedStep
<1>5. CASE StoreThumbnail(r) \/ SaveThumbnail(r)
  BY <1>5, ThumbnailStep
<1>6. CASE ReadOutput(r) \/ TakeChunk(r) \/ EndStream(r) \/ Closed(r)
  BY <1>6, StreamStep, Zenon
<1>7. CASE ReadRaises(r) \/ ClosingCut(r)
  BY <1>7, CutStep
<1>8. CASE Leave(r)
  BY <1>8, LeaveStep
<1>9. CASE Exit(r) \/ FillErrors(r)
  BY <1>9, ProcessStep
<1> QED BY <1>1, <1>2, <1>3, <1>4, <1>5, <1>6, <1>7, <1>8, <1>9 DEF MediaStep

LEMMA ThumbStep ==
  ASSUME thumb \in Thumbs, NEW r \in Requests, MediaStep(r)
  PROVE  thumb' \in Thumbs
<1>1. CASE StoreThumbnail(r)
  BY <1>1 DEF StoreThumbnail, Thumbs
<1>2. CASE SaveThumbnail(r)
  BY <1>2 DEF SaveThumbnail, Thumbs
<1>3. CASE UNCHANGED thumb
  BY <1>3
<1> QED BY <1>1, <1>2, <1>3
        DEF MediaStep, AskThumbnail, AskDuration, AskTranscode, Resume, Spawn, SpawnFails, Feed, Succeed, Fail,
            ReadOutput, TakeChunk, EndStream, ReadRaises, Closed, ClosingCut, Leave, Exit, FillErrors

LEMMA FileStep ==
  ASSUME FileOK, MediaNext
  PROVE  FileOK'
<1>1. CASE ChangeFile
  BY <1>1, TransferAssumption DEF ChangeFile, FileOK
<1>2. CASE UNCHANGED transferVars
  BY <1>2 DEF FileOK, transferVars
<1>3. CASE \E r \in Requests : TransferStep(r)
  BY <1>3 DEF FileOK, TransferStep, AskRange, SendChunk, EndRange, BreakRange, OpenUpload,
              CopyStep, StartReading, ReadChunk, UploadPart, UploadLast, CompleteUpload, FailUpload
<1> QED BY <1>1, <1>2, <1>3 DEF MediaNext

LEMMA InvStep == IInv /\ [MediaNext]_mvars => IInv'
<1> SUFFICES ASSUME IInv, [MediaNext]_mvars PROVE IInv'
  OBVIOUS
<1>1. CASE UNCHANGED mvars
  <2>1. UNCHANGED mediaVars /\ UNCHANGED transferVars
    BY <1>1 DEF mvars
  <2> QED BY <2>1, Elsewhere DEF IInv, FileOK, mediaVars, transferVars
<1>2. CASE MediaNext
  <2>1. FileOK'
    BY <1>2, FileStep DEF IInv
  <2>2. CASE UNCHANGED mediaVars
    BY <2>1, <2>2, Elsewhere DEF IInv, mediaVars
  <2>3. CASE \E r \in Requests : MediaStep(r)
    BY <2>1, <2>3, JobStep, ThumbStep DEF IInv
  <2> QED BY <1>2, <2>2, <2>3 DEF MediaNext
<1> QED BY <1>1, <1>2

LEMMA InvAlways == MediaSpec => []IInv
BY InvInit, InvStep, PTL DEF MediaSpec

LEMMA InvBooks ==
  ASSUME IInv
  PROVE  /\ free \in 0 .. Limit
         /\ Cardinality(Holders) \in Nat /\ Cardinality(Gone) \in Nat
         /\ free + Cardinality(Holders) <= Limit
         /\ Limit <= free + Cardinality(Holders) + Cardinality(Gone)
         /\ queue # <<>> => free = 0
<1>1. Cardinality(Holders) \in Nat /\ Cardinality(Gone) \in Nat
  BY Finite DEF Holders, Gone
<1> QED BY <1>1, MediaAssumption DEF IInv, JobsInv, Books

(* Type correctness: in particular the count of free permits stays within  *)
(* 0 and the limit, and the queue holds requests.                          *)
THEOREM MediaTypes == MediaSpec => []MediaTypeOK
<1>1. IInv => MediaTypeOK
  BY InvBooks DEF IInv, FileOK, JobsInv, Books, Thumbs, MediaTypeOK
<1> QED BY <1>1, InvAlways, PTL

(* For any number of requests and permits: every permit is free, held, or  *)
(* lost by a stream whose client left while ffmpeg was started, read or    *)
(* waited for, one permit a stream; and nobody waits beside a free permit  *)
(* (ffmpeg_service.py 34, 114, 195-255).                                   *)
THEOREM PermitsAreKept == MediaSpec => []PermitsKept
<1>1. IInv => PermitsKept
  <2> SUFFICES ASSUME IInv PROVE PermitsKept
    OBVIOUS
  <2>1. {r \in Requests : Dropped(job[r])} = Gone
    BY DEF Gone
  <2> DEFINE h == Cardinality(Holders)  g == Cardinality(Gone)
  <2>2. /\ Limit \in Nat /\ free \in Nat /\ h \in Nat /\ g \in Nat
        /\ free + h <= Limit /\ Limit <= free + h + g /\ (queue # <<>> => free = 0)
    BY InvBooks, MediaAssumption
  <2>3. Lost = Limit - free - h
    BY DEF Lost
  <2> HIDE DEF h, g
  <2>4. Lost >= 0 /\ Lost <= g
    BY <2>2, <2>3
  <2> QED BY <2>1, <2>2, <2>4 DEF PermitsKept, g
<1> QED BY <1>1, InvAlways, PTL

(* A process runs under the permit of its request, unless that request was *)
(* cancelled while it waited for the process (ffmpeg_service.py 70, 145,   *)
(* 251-255).                                                               *)
THEOREM ProcessesAreBounded == MediaSpec => []ProcessesBounded
<1>1. IInv => ProcessesBounded
  BY DEF IInv, JobsInv, JobOK, ProcessesBounded, Holders
<1> QED BY <1>1, InvAlways, PTL

-----------------------------------------------------------------------------
(* Range responses. *)
Body == {"sending", "ended", "broken"}

States == Body \cup {"none", "refused", "opening", "copying", "completing", "completed",
                    "aborted", "lingering"}

Xfers == [state : States, at : Int, until : Int, buffer : Int, bytes : Seq(Int),
          asked : SUBSET Int, stale : BOOLEAN]

(* A body that is or was sent: what came out starts where the range does   *)
(* and has no gap, and the reader never passes the end of the range.       *)
BodyOK(x, s) ==
  /\ \A i \in 1 .. Len(x.bytes) : x.bytes[i] = x.at - Len(x.bytes) + i - 1
  /\ x.asked = x.at - Len(x.bytes) .. x.until - 1
  /\ x.at <= x.until \/ x.bytes = <<>>
  /\ x.state = "sending" /\ ~x.stale => s # None /\ x.until <= s
  /\ x.state = "ended" /\ ~x.stale => x.at >= x.until

XferInv ==
  /\ size \in Nat \cup {None}
  /\ xfer \in [Requests -> Xfers]
  /\ \A r \in Requests : xfer[r].state \in Body => BodyOK(xfer[r], size)

-----------------------------------------------------------------------------
(* A step of one request that leaves the file alone. *)
LEMMA OneMoves ==
  ASSUME XferInv, NEW r \in Requests, NEW y, y \in Xfers,
         xfer' = [xfer EXCEPT ![r] = y], UNCHANGED size,
         y.state \in Body => BodyOK(y, size)
  PROVE  XferInv'
<1>1. xfer' \in [Requests -> Xfers] /\ xfer'[r] = y
      /\ \A u \in Requests \ {r} : xfer'[u] = xfer[u]
  BY DEF XferInv
<1> QED BY <1>1 DEF XferInv

LEMMA AskRangeStep ==
  ASSUME XferInv, NEW r \in Requests, AskRange(r)
  PROVE  XferInv'
<1>1. PICK range \in Ranges :
        \/ xfer' = [xfer EXCEPT ![r] = NewTransfer("refused", {}, 0, 0)]
        \/ /\ size # None /\ (range = Whole \/ ~OutOfScope(range))
           /\ xfer' = [xfer EXCEPT ![r] =
                NewTransfer("sending", Named(range), FirstByte(range),
                            FirstByte(range) + Length(range))]
  BY DEF AskRange
<1>2. UNCHANGED size
  BY DEF AskRange
<1>3. CASE xfer' = [xfer EXCEPT ![r] = NewTransfer("refused", {}, 0, 0)]
  <2> DEFINE y == NewTransfer("refused", {}, 0, 0)
  <2>1. y \in Xfers /\ y.state = "refused"
    BY DEF Xfers, States, NewTransfer
  <2>2. xfer' = [xfer EXCEPT ![r] = y]
    BY <1>3
  <2> HIDE DEF y
  <2> QED BY <1>2, <2>1, <2>2, OneMoves DEF Body
<1>4. CASE /\ size # None /\ (range = Whole \/ ~OutOfScope(range))
           /\ xfer' = [xfer EXCEPT ![r] =
                NewTransfer("sending", Named(range), FirstByte(range),
                            FirstByte(range) + Length(range))]
  <2> DEFINE first == FirstByte(range)  last == LastByte(range)
             y == NewTransfer("sending", Named(range), first, first + Length(range))
  <2>1. xfer' = [xfer EXCEPT ![r] = y]
    BY <1>4
  <2>2. size \in Nat /\ size # None
    BY <1>4 DEF XferInv
  <2>3. first \in Nat
    BY TransferAssumption DEF FirstByte, Ranges
  <2>4. last \in Int
    <3>1. range.last = None \/ range.last \in Nat
      BY TransferAssumption DEF Ranges
    <3>2. CASE range.last = None
      BY <2>2, <3>2 DEF LastByte
    <3>3. CASE range.last # None
      BY <3>1, <3>3 DEF LastByte
    <3> QED BY <3>2, <3>3
  <2>5. last < size
    <3>1. CASE range = Whole
      BY <2>2, <3>1 DEF LastByte, Whole
    <3>2. CASE range # Whole
      BY <1>4, <2>2, <2>4, <3>2 DEF OutOfScope
    <3> QED BY <3>1, <3>2
  <2>6. Named(range) = first .. last
    BY <2>2, <2>3, <2>4, <2>5, TransferAssumption DEF Named, FirstByte, LastByte, Ranges
  <2>7. first + Length(range) = last + 1
    BY <2>3, <2>4 DEF Length
  <2> HIDE DEF first, last
  <2>8. y = NewTransfer("sending", first .. last, first, last + 1)
    BY <2>6, <2>7
  <2> HIDE DEF y
  <2>9. /\ y.state = "sending" /\ y.at = first /\ y.until = last + 1 /\ y.bytes = <<>>
        /\ y.asked = first .. last
    BY <2>8 DEF NewTransfer
  <2>10. y \in Xfers
    <3>1. <<>> \in Seq(Int) /\ first .. last \in SUBSET Int /\ first \in Int /\ last + 1 \in Int
      BY <2>3, <2>4
    <3> QED BY <2>8, <3>1 DEF Xfers, States, Body, NewTransfer
  <2>11. BodyOK(y, size)
    BY <2>2, <2>3, <2>4, <2>5, <2>9 DEF BodyOK
  <2> QED BY <1>2, <2>1, <2>10, <2>11, OneMoves
<1> QED BY <1>1, <1>3, <1>4

LEMMA EndStep ==
  ASSUME XferInv, NEW r \in Requests, EndRange(r) \/ BreakRange(r)
  PROVE  XferInv'
<1> DEFINE x == xfer[r]
<1>1. /\ x \in Xfers /\ x.state = "sending" /\ BodyOK(x, size) /\ UNCHANGED size
      /\ size \in Nat \cup {None}
  BY DEF EndRange, BreakRange, XferInv, Body
<1>2. PICK state \in {"ended", "broken"} :
        /\ xfer' = [xfer EXCEPT ![r] = [x EXCEPT !.state = state]]
        /\ state = "ended" => x.at >= x.until \/ (size # None /\ x.at >= size)
  BY DEF EndRange, BreakRange, XferInv
<1> HIDE DEF x
<1> DEFINE y == [x EXCEPT !.state = state]
<1>3. /\ y \in Xfers /\ y.state = state /\ y.at = x.at /\ y.until = x.until
      /\ y.bytes = x.bytes /\ y.asked = x.asked /\ y.stale = x.stale
  BY <1>1 DEF Xfers, States, Body
<1>4. x.at \in Int /\ x.until \in Int
  BY <1>1 DEF Xfers
<1>5. xfer' = [xfer EXCEPT ![r] = y]
  BY <1>2
<1> HIDE DEF y
<1>6. BodyOK(y, size)
  BY <1>1, <1>2, <1>3, <1>4 DEF BodyOK
<1> QED BY <1>1, <1>3, <1>5, <1>6, OneMoves

(* One read more, which is sent. *)
LEMMA SendStep ==
  ASSUME XferInv, NEW r \in Requests, SendChunk(r)
  PROVE  XferInv'
<1> DEFINE x == xfer[r]
           got == Got(x.at, Lesser(Chunk, x.until - x.at))
           more == [i \in 1 .. got |-> x.at + i - 1]
           y == [x EXCEPT !.at = x.at + got, !.bytes = x.bytes \o more]
<1>1. x \in Xfers /\ x.state = "sending" /\ BodyOK(x, size)
  BY DEF SendChunk, XferInv, Body
<1>2. size \in Nat /\ x.at < x.until /\ x.at < size /\ UNCHANGED size
  BY DEF SendChunk, XferInv
<1>3. xfer' = [xfer EXCEPT ![r] = y]
  BY DEF SendChunk, XferInv
<1>4. x.at \in Int /\ x.until \in Int /\ x.bytes \in Seq(Int) /\ Len(x.bytes) \in Nat
  BY <1>1 DEF Xfers
<1> HIDE DEF x
<1>5. got \in Nat /\ x.at + got <= x.until /\ x.at + got \in Int
  BY <1>2, <1>4, TransferAssumption DEF Got, Lesser
<1> HIDE DEF got
<1>6. more \in Seq(Int) /\ Len(more) = got /\ \A i \in 1 .. got : more[i] = x.at + i - 1
  BY <1>4, <1>5
<1> HIDE DEF more
<1>7. /\ x.bytes \o more \in Seq(Int) /\ Len(x.bytes \o more) = Len(x.bytes) + got
      /\ \A i \in 1 .. Len(x.bytes) + got :
           (x.bytes \o more)[i] = IF i <= Len(x.bytes) THEN x.bytes[i] ELSE more[i - Len(x.bytes)]
  BY <1>4, <1>6, ConcatProperties
<1>8. /\ y \in Xfers /\ y.state = "sending" /\ y.at = x.at + got /\ y.until = x.until
      /\ y.bytes = x.bytes \o more /\ y.asked = x.asked /\ y.stale = x.stale
  BY <1>1, <1>5, <1>7 DEF Xfers
<1> HIDE DEF y
<1>9. BodyOK(y, size)
  <2> DEFINE n == Len(x.bytes)  c == x.bytes \o more
  <2>1. \A i \in 1 .. Len(y.bytes) : y.bytes[i] = y.at - Len(y.bytes) + i - 1
    <3>1. \A i \in 1 .. n : x.bytes[i] = x.at - n + i - 1
      BY <1>1 DEF BodyOK
    <3>2. /\ n \in Nat /\ Len(c) = n + got
          /\ \A i \in 1 .. n + got : c[i] = IF i <= n THEN x.bytes[i] ELSE more[i - n]
      BY <1>4, <1>7
    <3>3. y.bytes = c /\ y.at = x.at + got
      BY <1>8
    <3> HIDE DEF n, c
    <3>4. ASSUME NEW i \in 1 .. n + got PROVE c[i] = x.at - n + i - 1
      <4>1. CASE i <= n
        BY <3>1, <3>2, <4>1
      <4>2. CASE i > n
        <5>1. i - n \in 1 .. got /\ c[i] = more[i - n]
          BY <1>5, <3>2, <4>2
        <5> QED BY <1>4, <1>6, <3>2, <4>2, <5>1
      <4> QED BY <3>2, <4>1, <4>2
    <3>5. \A i \in 1 .. n + got : y.bytes[i] = y.at - (n + got) + i - 1
      BY <1>4, <1>5, <3>2, <3>3, <3>4
    <3> QED BY <3>2, <3>3, <3>5
  <2>2. y.asked = y.at - Len(y.bytes) .. y.until - 1
    BY <1>1, <1>4, <1>5, <1>7, <1>8 DEF BodyOK
  <2> QED BY <1>1, <1>5, <1>8, <2>1, <2>2 DEF BodyOK
<1> QED BY <1>2, <1>3, <1>8, <1>9, OneMoves

(* What is not a body: a copy into a bucket. *)
LEMMA CopyMoves ==
  ASSUME XferInv, NEW r \in Requests, OpenUpload(r) \/ CopyStep(r) \/ FailUpload(r)
  PROVE  XferInv'
<1> DEFINE x == xfer[r]
<1>1. x \in Xfers /\ UNCHANGED size
  BY DEF XferInv, OpenUpload, CopyStep, FailUpload,
         StartReading, ReadChunk, UploadPart, UploadLast, CompleteUpload
<1>2. /\ x.at \in Int /\ x.until \in Int /\ x.buffer \in Int /\ x.bytes \in Seq(Int)
  BY <1>1 DEF Xfers
<1>3. CASE OpenUpload(r)
  <2> DEFINE y == NewTransfer("opening", {}, 0, 0)
  <2>1. xfer' = [xfer EXCEPT ![r] = y]
    BY <1>3 DEF OpenUpload
  <2>2. y \in Xfers /\ y.state = "opening"
    BY DEF NewTransfer, Xfers, States
  <2> HIDE DEF y
  <2> QED BY <1>1, <2>1, <2>2, OneMoves DEF Body
<1>4. CASE StartReading(r)
  <2> DEFINE y == [x EXCEPT !.state = "copying", !.until = size, !.stale = FALSE]
  <2>1. size \in Int
    BY <1>4 DEF StartReading, XferInv
  <2>2. xfer' = [xfer EXCEPT ![r] = y]
    BY <1>4 DEF StartReading, XferInv
  <2> HIDE DEF x
  <2>3. y \in Xfers /\ y.state = "copying"
    BY <1>1, <2>1 DEF Xfers, States
  <2> HIDE DEF y
  <2> QED BY <1>1, <2>2, <2>3, OneMoves DEF Body, x
<1>5. CASE ReadChunk(r)
  <2> DEFINE got == Got(x.at, Lesser(Chunk, x.until - x.at))
             y == [x EXCEPT !.at = x.at + got, !.buffer = x.buffer + got]
  <2>0. xfer' = [xfer EXCEPT ![r] = y]
    BY <1>5 DEF ReadChunk, XferInv
  <2>1. x.state = "copying" /\ size \in Int
    BY <1>5 DEF ReadChunk, XferInv
  <2>2. got \in Int
    BY <1>2, <2>1, TransferAssumption DEF Got, Lesser
  <2> HIDE DEF x, got
  <2>3. x.at + got \in Int /\ x.buffer + got \in Int
    BY <1>2, <2>2
  <2>4. y \in Xfers /\ y.state = "copying"
    BY <1>1, <2>1, <2>3 DEF Xfers, States
  <2> HIDE DEF y
  <2> QED BY <1>1, <2>0, <2>4, OneMoves DEF Body, x
<1>6. CASE UploadPart(r)
  <2> DEFINE y == [x EXCEPT !.buffer = x.buffer - MinPart, !.bytes = Append(x.bytes, MinPart)]
  <2>1. xfer' = [xfer EXCEPT ![r] = y] /\ x.state = "copying"
    BY <1>6 DEF UploadPart, XferInv
  <2> HIDE DEF x
  <2>2. x.buffer - MinPart \in Int /\ Append(x.bytes, MinPart) \in Seq(Int)
    BY <1>2, TransferAssumption
  <2>3. y \in Xfers /\ y.state = "copying"
    BY <1>1, <2>1, <2>2 DEF Xfers, States
  <2> HIDE DEF y
  <2> QED BY <1>1, <2>1, <2>3, OneMoves DEF Body, x
<1>7. CASE UploadLast(r)
  <2> DEFINE parts == IF NeedsLastPart(x) THEN Append(x.bytes, x.buffer) ELSE x.bytes
             y == [x EXCEPT !.state = "completing", !.buffer = 0, !.bytes = parts]
  <2>1. xfer' = [xfer EXCEPT ![r] = y]
    BY <1>7 DEF UploadLast, XferInv
  <2>2. parts \in Seq(Int)
    BY <1>2
  <2> HIDE DEF x, parts
  <2>3. y \in Xfers /\ y.state = "completing"
    <3> DEFINE z == [x EXCEPT !.state = "completing"]
    <3>1. z \in Xfers /\ z.state = "completing"
      BY <1>1 DEF Xfers, States
    <3> HIDE DEF z
    <3>2. [z EXCEPT !.buffer = 0] \in Xfers /\ [z EXCEPT !.buffer = 0].state = "completing"
      BY <3>1 DEF Xfers
    <3> DEFINE v == [z EXCEPT !.buffer = 0]
    <3> HIDE DEF v
    <3>3. v \in Xfers /\ v.state = "completing"
      BY <3>2 DEF v
    <3>4. [v EXCEPT !.bytes = parts] \in Xfers /\ [v EXCEPT !.bytes = parts].state = "completing"
      BY <2>2, <3>3 DEF Xfers
    <3> QED BY <3>4 DEF v, z
  <2> HIDE DEF y
  <2> QED BY <1>1, <2>1, <2>3, OneMoves DEF Body, x
<1>8. CASE CompleteUpload(r) \/ FailUpload(r)
  <2>1. PICK state \in {"completed", "aborted", "lingering"} :
          xfer' = [xfer EXCEPT ![r].state = state]
    BY <1>8 DEF CompleteUpload, FailUpload
  <2> DEFINE y == [x EXCEPT !.state = state]
  <2>2. xfer' = [xfer EXCEPT ![r] = y]
    BY <2>1 DEF XferInv
  <2> HIDE DEF x
  <2>3. y \in Xfers /\ y.state = state
    BY <1>1 DEF Xfers, States
  <2> HIDE DEF y
  <2> QED BY <1>1, <2>2, <2>3, OneMoves DEF Body, x
<1> QED BY <1>3, <1>4, <1>5, <1>6, <1>7, <1>8 DEF CopyStep

(* Another file under the same path: no body that is being sent can still  *)
(* be held to the file it was promised from.                               *)
LEMMA ChangeStep ==
  ASSUME XferInv, ChangeFile
  PROVE  XferInv'
<1>1. size' \in Nat \cup {None}
  BY TransferAssumption DEF ChangeFile
<1>2. ASSUME NEW r \in Requests
      PROVE  xfer'[r] \in Xfers /\ (xfer'[r].state \in Body => BodyOK(xfer'[r], size'))
  <2> DEFINE x == xfer[r]  seen == x.stale \/ r \in Sending \cup Copying
             y == [x EXCEPT !.stale = seen]
  <2>1. xfer'[r] = y
    BY DEF ChangeFile
  <2>2. x \in Xfers /\ (x.state \in Body => BodyOK(x, size)) /\ (x.state = "sending" => seen)
    BY DEF XferInv, Sending
  <2>3. seen \in BOOLEAN /\ (~seen => ~x.stale)
    BY <2>2 DEF Xfers
  <2> HIDE DEF x, seen
  <2>4. /\ y \in Xfers /\ y.state = x.state /\ y.at = x.at /\ y.until = x.until
        /\ y.bytes = x.bytes /\ y.asked = x.asked /\ y.stale = seen
    BY <2>2, <2>3 DEF Xfers
  <2>5. x.state \in Body => BodyOK(y, size')
    <3> HIDE DEF y
    <3> QED BY <2>2, <2>3, <2>4 DEF BodyOK
  <2> HIDE DEF y
  <2> QED BY <2>1, <2>4, <2>5
<1>3. xfer' = [r \in Requests |-> xfer'[r]]
  BY DEF ChangeFile
<1>4. xfer' \in [Requests -> Xfers]
  BY <1>2, <1>3
<1> QED BY <1>1, <1>2, <1>4 DEF XferInv

LEMMA XferInit == Init => XferInv
<1>1. NoTransfer \in Xfers /\ NoTransfer.state = "none"
  BY DEF NoTransfer, NewTransfer, Xfers, States
<1> QED BY <1>1, TransferAssumption DEF Init, TransferInit, XferInv, Body

LEMMA XferStep == XferInv /\ [MediaNext]_mvars => XferInv'
<1> SUFFICES ASSUME XferInv, [MediaNext]_mvars PROVE XferInv'
  OBVIOUS
<1>1. CASE UNCHANGED transferVars
  BY <1>1 DEF XferInv, BodyOK, transferVars
<1>2. CASE ChangeFile
  BY <1>2, ChangeStep
<1>3. CASE \E r \in Requests : TransferStep(r)
  BY <1>3, AskRangeStep, SendStep, EndStep, CopyMoves DEF TransferStep
<1> QED BY <1>1, <1>2, <1>3 DEF MediaNext, mvars

(* What the invariant says of one body. *)
LEMMA BodyDelivered ==
  ASSUME XferInv, NEW r \in Requests, xfer[r].state \in Body
  PROVE  LET x == xfer[r] IN
         /\ ToSet(x.bytes) \subseteq x.asked
         /\ \A i \in 1 .. Len(x.bytes) - 1 : x.bytes[i + 1] = x.bytes[i] + 1
         /\ x.bytes # <<>> => \A b \in x.asked : b >= x.bytes[1]
         /\ x.state = "ended" /\ ~x.stale => ToSet(x.bytes) = x.asked
<1> DEFINE x == xfer[r]  n == Len(x.bytes)
<1>1. /\ x.at \in Int /\ x.until \in Int /\ x.bytes \in Seq(Int) /\ BodyOK(x, size)
  BY DEF XferInv, Xfers
<1> HIDE DEF x
<1>2. n \in Nat /\ (x.bytes = <<>> <=> n = 0) /\ DOMAIN x.bytes = 1 .. n
  BY <1>1
<1>3. /\ \A i \in 1 .. n : x.bytes[i] = x.at - n + i - 1
      /\ x.asked = x.at - n .. x.until - 1
      /\ x.at <= x.until \/ n = 0
  BY <1>1, <1>2 DEF BodyOK
<1> HIDE DEF n
<1>4. ToSet(x.bytes) = x.at - n .. x.at - 1
  <2>1. ASSUME NEW b \in x.at - n .. x.at - 1 PROVE b \in ToSet(x.bytes)
    <3> DEFINE i == b - (x.at - n) + 1
    <3>1. i \in 1 .. n /\ b = x.at - n + i - 1
      BY <1>1, <1>2
    <3> HIDE DEF i
    <3>2. x.bytes[i] = b
      BY <1>3, <3>1
    <3> QED BY <1>2, <3>1, <3>2 DEF ToSet
  <2>2. ASSUME NEW b \in ToSet(x.bytes) PROVE b \in x.at - n .. x.at - 1
    <3>1. PICK i \in 1 .. n : b = x.bytes[i]
      BY <1>2 DEF ToSet
    <3> QED BY <1>1, <1>2, <1>3, <3>1
  <2> QED BY <2>1, <2>2
<1>5. ToSet(x.bytes) \subseteq x.asked
  BY <1>1, <1>2, <1>3, <1>4
<1>6. \A i \in 1 .. n - 1 : x.bytes[i + 1] = x.bytes[i] + 1
  <2> SUFFICES ASSUME NEW i \in 1 .. n - 1 PROVE x.bytes[i + 1] = x.bytes[i] + 1
    OBVIOUS
  <2>1. i \in 1 .. n /\ i + 1 \in 1 .. n
    BY <1>2
  <2>2. x.bytes[i] = x.at - n + i - 1 /\ x.bytes[i + 1] = x.at - n + (i + 1) - 1
    BY <1>3, <2>1
  <2> QED BY <1>1, <1>2, <2>2
<1>7. x.bytes # <<>> => \A b \in x.asked : b >= x.bytes[1]
  BY <1>1, <1>2, <1>3
<1>8. x.state = "ended" /\ ~x.stale => ToSet(x.bytes) = x.asked
  <2> SUFFICES ASSUME x.state = "ended", ~x.stale PROVE ToSet(x.bytes) = x.asked
    OBVIOUS
  <2>1. x.at >= x.until
    BY <1>1 DEF BodyOK
  <2> QED BY <1>1, <1>2, <1>3, <1>4, <2>1
<1> QED BY <1>5, <1>6, <1>7, <1>8 DEF x, n

(* For any sizes, ranges, chunk size and changes of the file: the bytes a  *)
(* response has sent are, in order and without a gap, the first ones of    *)
(* the range its header names, and all of them once it ended over a file   *)
(* that nobody changed (video_stream_service.py 62-91, 147-156).           *)
THEOREM RangesAreDelivered == MediaSpec => []RangeDelivered
<1>1. XferInv => RangeDelivered
  BY BodyDelivered DEF RangeDelivered, Body
<1>2. MediaSpec => []XferInv
  BY XferInit, XferStep, PTL DEF MediaSpec
<1> QED BY <1>1, <1>2, PTL

-----------------------------------------------------------------------------
(* Uploads: the parts sent are full, and with what is buffered they are    *)
(* all that was read.                                                      *)
Partway(x) ==
  /\ x.buffer \in Nat
  /\ x.at = Len(x.bytes) * MinPart + x.buffer
  /\ \A i \in 1 .. Len(x.bytes) : x.bytes[i] = MinPart

(* The parts of an upload that is about to be completed, or is. *)
AllSent(x) ==
  /\ x.bytes # <<>>
  /\ \A i \in 1 .. Len(x.bytes) - 1 : x.bytes[i] = MinPart
  /\ (Len(x.bytes) - 1) * MinPart + x.bytes[Len(x.bytes)] = x.at
  /\ x.at = x.until

CopyOK(x) ==
  /\ x.state \in {"opening", "copying"} => Partway(x)
  /\ x.state = "opening" => x.at = 0
  /\ x.state = "copying" => x.at <= x.until
  /\ x.state \in {"completing", "completed"} => AllSent(x)

UploadInv == \A r \in Requests : CopyOK(xfer[r])

LEMMA OneUploads ==
  ASSUME XferInv, UploadInv, NEW r \in Requests, NEW y,
         xfer' = [xfer EXCEPT ![r] = y], CopyOK(y)
  PROVE  UploadInv'
<1>1. xfer'[r] = y /\ \A u \in Requests \ {r} : xfer'[u] = xfer[u]
  BY DEF XferInv
<1> QED BY <1>1 DEF UploadInv

(* A body is no upload. *)
LEMMA BodyUploads ==
  ASSUME XferInv, UploadInv, NEW r \in Requests,
         AskRange(r) \/ SendChunk(r) \/ EndRange(r) \/ BreakRange(r)
  PROVE  UploadInv'
<1>1. PICK y : xfer' = [xfer EXCEPT ![r] = y] /\ y.state \in Body \cup {"refused"}
  <2>1. CASE AskRange(r)
    <3>1. ASSUME NEW range
          PROVE  NewTransfer("sending", Named(range), FirstByte(range),
                             FirstByte(range) + Length(range)).state = "sending"
      BY DEF NewTransfer
    <3>2. NewTransfer("refused", {}, 0, 0).state = "refused"
      BY DEF NewTransfer
    <3> QED BY <2>1, <3>1, <3>2 DEF AskRange, Body
  <2>2. CASE SendChunk(r)
    <3> DEFINE x == xfer[r]
               got == Got(x.at, Lesser(Chunk, x.until - x.at))
               more == x.bytes \o [i \in 1 .. got |-> x.at + i - 1]
               y == [x EXCEPT !.at = x.at + got, !.bytes = more]
    <3>1. xfer' = [xfer EXCEPT ![r] = y]
      BY <2>2 DEF SendChunk, XferInv
    <3>2. x.state = "sending" /\ x \in Xfers
      BY <2>2 DEF SendChunk, XferInv
    <3> HIDE DEF x, got, more
    <3>3. y.state = "sending"
      BY <3>2 DEF Xfers
    <3> QED BY <3>1, <3>3 DEF Body
  <2>3. CASE EndRange(r) \/ BreakRange(r)
    <3>1. PICK state \in {"ended", "broken"} : xfer' = [xfer EXCEPT ![r].state = state]
      BY <2>3 DEF EndRange, BreakRange
    <3> DEFINE y == [xfer[r] EXCEPT !.state = state]
    <3>2. xfer' = [xfer EXCEPT ![r] = y]
      BY <3>1 DEF XferInv
    <3>3. y.state = state
      BY DEF XferInv, Xfers
    <3> QED BY <3>1, <3>2, <3>3 DEF Body
  <2> QED BY <2>1, <2>2, <2>3
<1>2. CopyOK(y)
  BY <1>1 DEF CopyOK, Body
<1> QED BY <1>1, <1>2, OneUploads

LEMMA StartUploads ==
  ASSUME XferInv, UploadInv, NEW r \in Requests, OpenUpload(r) \/ StartReading(r)
  PROVE  UploadInv'
<1>1. CASE OpenUpload(r)
  <2> DEFINE y == NewTransfer("opening", {}, 0, 0)
  <2>1. xfer' = [xfer EXCEPT ![r] = y]
    BY <1>1 DEF OpenUpload
  <2>2. y.state = "opening" /\ y.at = 0 /\ y.buffer = 0 /\ y.bytes = <<>>
    BY DEF NewTransfer
  <2> HIDE DEF y
  <2>3. CopyOK(y)
    BY <2>2, TransferAssumption DEF CopyOK, Partway
  <2> QED BY <2>1, <2>3, OneUploads
<1>2. CASE StartReading(r)
  <2> DEFINE x == xfer[r]
             y == [x EXCEPT !.state = "copying", !.until = size, !.stale = FALSE]
  <2>1. xfer' = [xfer EXCEPT ![r] = y] /\ x.state = "opening" /\ x \in Xfers /\ size \in Nat
    BY <1>2 DEF StartReading, XferInv
  <2>2. CopyOK(x)
    BY DEF UploadInv
  <2> HIDE DEF x
  <2>3. /\ y.state = "copying" /\ y.until = size /\ y.at = x.at /\ y.buffer = x.buffer
        /\ y.bytes = x.bytes
    BY <2>1 DEF Xfers
  <2> HIDE DEF y
  <2>4. CopyOK(y)
    BY <2>1, <2>2, <2>3 DEF CopyOK, Partway
  <2> QED BY <2>1, <2>4, OneUploads
<1> QED BY <1>1, <1>2

(* What was read is kept until there is a part's worth. *)
LEMMA ReadUploads ==
  ASSUME XferInv, UploadInv, NEW r \in Requests, ReadChunk(r)
  PROVE  UploadInv'
<1> DEFINE x == xfer[r]
           got == Got(x.at, Lesser(Chunk, x.until - x.at))
           y == [x EXCEPT !.at = x.at + got, !.buffer = x.buffer + got]
<1>1. /\ x \in Xfers /\ x.state = "copying" /\ x.at < x.until
      /\ size \in Nat /\ x.at < size /\ xfer' = [xfer EXCEPT ![r] = y]
  BY DEF ReadChunk, XferInv
<1>2. CopyOK(x)
  BY DEF UploadInv
<1> HIDE DEF x
<1>3. x.at \in Int /\ x.until \in Int /\ x.bytes \in Seq(Int) /\ Len(x.bytes) \in Nat
  BY <1>1 DEF Xfers
<1>4. got \in Nat /\ x.at + got <= x.until
  BY <1>1, <1>3, TransferAssumption DEF Got, Lesser
<1> HIDE DEF got
<1>5. /\ y.state = "copying" /\ y.until = x.until /\ y.at = x.at + got
      /\ y.buffer = x.buffer + got /\ y.bytes = x.bytes
  BY <1>1 DEF Xfers
<1> HIDE DEF y
<1> DEFINE full == Len(x.bytes) * MinPart
<1>6. full \in Int
  BY <1>3, TransferAssumption
<1>7. x.buffer \in Nat /\ x.at = full + x.buffer
  BY <1>1, <1>2 DEF CopyOK, Partway
<1> HIDE DEF full
<1>8. y.buffer \in Nat /\ y.at = full + y.buffer
  BY <1>4, <1>5, <1>6, <1>7
<1>9. CopyOK(y)
  BY <1>1, <1>2, <1>4, <1>5, <1>8 DEF CopyOK, Partway, full
<1> QED BY <1>1, <1>9, OneUploads

(* A full part goes out, or what is left. *)
LEMMA PartUploads ==
  ASSUME XferInv, UploadInv, NEW r \in Requests, UploadPart(r) \/ UploadLast(r)
  PROVE  UploadInv'
<1> DEFINE x == xfer[r]  n == Len(x.bytes)
<1>1. x \in Xfers /\ x.state = "copying" /\ CopyOK(x)
  BY DEF UploadPart, UploadLast, XferInv, UploadInv
<1>2. /\ x.at \in Int /\ x.until \in Int /\ x.bytes \in Seq(Int) /\ n \in Nat
      /\ x.buffer \in Nat /\ x.at <= x.until
      /\ x.at = n * MinPart + x.buffer /\ \A i \in 1 .. n : x.bytes[i] = MinPart
  BY <1>1 DEF Xfers, CopyOK, Partway
<1>3. /\ MinPart \in Nat /\ n * MinPart \in Nat
      /\ (n + 1) * MinPart = n * MinPart + MinPart
      /\ (n - 1) * MinPart + MinPart = n * MinPart
  <2> HIDE DEF n
  <2> QED BY <1>2, TransferAssumption
<1>4. ASSUME NEW v \in Int
      PROVE  /\ Len(Append(x.bytes, v)) = n + 1 /\ Append(x.bytes, v)[n + 1] = v
             /\ \A i \in 1 .. n : Append(x.bytes, v)[i] = x.bytes[i]
             /\ Append(x.bytes, v) # <<>>
  <2> HIDE DEF x
  <2>1. x.bytes \in Seq(Int)
    BY <1>2
  <2> QED BY <2>1, AppendProperties
<1>5. CASE UploadPart(r)
  <2> DEFINE y == [x EXCEPT !.buffer = x.buffer - MinPart, !.bytes = Append(x.bytes, MinPart)]
  <2>1. xfer' = [xfer EXCEPT ![r] = y] /\ x.buffer >= MinPart
    BY <1>5 DEF UploadPart, XferInv
  <2> HIDE DEF x
  <2>2. /\ y.state = "copying" /\ y.until = x.until /\ y.at = x.at
        /\ y.buffer = x.buffer - MinPart /\ y.bytes = Append(x.bytes, MinPart)
    BY <1>1 DEF Xfers
  <2> HIDE DEF y
  <2>3. y.buffer \in Nat /\ y.at = (n + 1) * MinPart + y.buffer
    <3> HIDE DEF n
    <3> QED BY <1>2, <1>3, <2>1, <2>2
  <2>4. Len(y.bytes) = n + 1 /\ \A i \in 1 .. n + 1 : y.bytes[i] = MinPart
    <3>1. ASSUME NEW i \in 1 .. n + 1 PROVE i \in 1 .. n \/ i = n + 1
      BY <1>2
    <3> QED BY <1>2, <1>3, <1>4, <2>2, <3>1
  <2>5. Partway(y)
    BY <2>3, <2>4 DEF Partway
  <2>6. CopyOK(y)
    BY <1>2, <2>2, <2>5 DEF CopyOK
  <2> QED BY <2>1, <2>6, OneUploads
<1>6. CASE UploadLast(r)
  <2> DEFINE parts == IF NeedsLastPart(x) THEN Append(x.bytes, x.buffer) ELSE x.bytes
             y == [x EXCEPT !.state = "completing", !.buffer = 0, !.bytes = parts]
  <2>1. xfer' = [xfer EXCEPT ![r] = y] /\ x.at >= x.until
    BY <1>6 DEF UploadLast, XferInv
  <2>2. /\ parts # <<>> /\ \A i \in 1 .. Len(parts) - 1 : parts[i] = MinPart
        /\ (Len(parts) - 1) * MinPart + parts[Len(parts)] = x.at
    <3>1. CASE NeedsLastPart(x)
      <4>1. parts = Append(x.bytes, x.buffer)
        BY <3>1
      <4>2. Len(parts) = n + 1 /\ Len(parts) - 1 = n
        BY <1>2, <1>4, <4>1
      <4> QED BY <1>2, <1>4, <4>1, <4>2
    <3>2. CASE ~NeedsLastPart(x)
      <4>1. parts = x.bytes /\ x.bytes # <<>> /\ x.buffer = 0
        BY <1>2, <3>2 DEF NeedsLastPart
      <4>2. n \in 1 .. n
        BY <1>2, <4>1
      <4>3. x.bytes[n] = MinPart /\ (n - 1) * MinPart + x.bytes[n] = n * MinPart
        BY <1>2, <1>3, <4>2
      <4>4. x.at = n * MinPart
        <5> HIDE DEF n
        <5> QED BY <1>2, <1>3, <4>1
      <4>5. \A i \in 1 .. n - 1 : i \in 1 .. n
        BY <1>2
      <4> QED BY <1>2, <4>1, <4>3, <4>4, <4>5
    <3> QED BY <3>1, <3>2
  <2> HIDE DEF x, parts
  <2>3. y.state = "completing" /\ y.until = x.until /\ y.at = x.at /\ y.bytes = parts
    BY <1>1 DEF Xfers
  <2> HIDE DEF y
  <2>4. AllSent(y)
    BY <1>2, <2>1, <2>2, <2>3 DEF AllSent
  <2>5. CopyOK(y)
    BY <2>3, <2>4 DEF CopyOK
  <2> QED BY <2>1, <2>5, OneUploads
<1> QED BY <1>5, <1>6

LEMMA EndUploads ==
  ASSUME XferInv, UploadInv, NEW r \in Requests, CompleteUpload(r) \/ FailUpload(r)
  PROVE  UploadInv'
<1> DEFINE x == xfer[r]
<1>1. PICK state \in {"completed", "aborted", "lingering"} :
        /\ xfer' = [xfer EXCEPT ![r].state = state]
        /\ state = "completed" => x.state = "completing"
  BY DEF CompleteUpload, FailUpload
<1> DEFINE y == [x EXCEPT !.state = state]
<1>2. xfer' = [xfer EXCEPT ![r] = y] /\ x \in Xfers /\ CopyOK(x)
  BY <1>1 DEF XferInv, UploadInv
<1> HIDE DEF x
<1>3. y.state = state /\ y.at = x.at /\ y.until = x.until /\ y.bytes = x.bytes
  BY <1>2 DEF Xfers
<1> HIDE DEF y
<1>4. CopyOK(y)
  BY <1>1, <1>2, <1>3 DEF CopyOK, AllSent
<1> QED BY <1>2, <1>4, OneUploads

(* The file under an upload changes: what was read stays. *)
LEMMA ChangeUploads ==
  ASSUME XferInv, UploadInv, ChangeFile
  PROVE  UploadInv'
<1> SUFFICES ASSUME NEW r \in Requests PROVE CopyOK(xfer'[r])
  BY DEF UploadInv
<1> DEFINE x == xfer[r]  seen == x.stale \/ r \in Sending \cup Copying
           y == [x EXCEPT !.stale = seen]
<1>1. xfer'[r] = y /\ x \in Xfers /\ CopyOK(x)
  BY DEF ChangeFile, XferInv, UploadInv
<1> HIDE DEF x, seen
<1>2. /\ y.state = x.state /\ y.at = x.at /\ y.until = x.until /\ y.bytes = x.bytes
      /\ y.buffer = x.buffer
  BY <1>1 DEF Xfers
<1> HIDE DEF y
<1> QED BY <1>1, <1>2 DEF CopyOK, Partway, AllSent

LEMMA UploadInit == Init => UploadInv
<1>1. NoTransfer.state = "none"
  BY DEF NoTransfer, NewTransfer
<1> QED BY <1>1 DEF Init, TransferInit, UploadInv, CopyOK

LEMMA UploadStep == XferInv /\ UploadInv /\ [MediaNext]_mvars => UploadInv'
<1> SUFFICES ASSUME XferInv, UploadInv, [MediaNext]_mvars PROVE UploadInv'
  OBVIOUS
<1>1. CASE UNCHANGED transferVars
  BY <1>1 DEF UploadInv, CopyOK, Partway, AllSent, transferVars
<1>2. CASE ChangeFile
  BY <1>2, ChangeUploads
<1>3. CASE \E r \in Requests : TransferStep(r)
  BY <1>3, BodyUploads, StartUploads, ReadUploads, PartUploads, EndUploads
     DEF TransferStep, CopyStep
<1> QED BY <1>1, <1>2, <1>3 DEF MediaNext, mvars

(* For any sizes, chunk size, part size and changes of the file: a         *)
(* completed upload has a part, all its parts but the last are as large as *)
(* S3 asks for, and together they are what was read, up to the size the    *)
(* reader asked for first (s3_handler.py 286-328).                         *)
THEOREM PartsAreTheFile == MediaSpec => []PartsMakeFile
<1>1. UploadInv => PartsMakeFile
  BY DEF UploadInv, CopyOK, AllSent, PartsMakeFile
<1>2. MediaSpec => [](XferInv /\ UploadInv)
  BY XferInit, XferStep, UploadInit, UploadStep, PTL DEF MediaSpec
<1> QED BY <1>1, <1>2, PTL
=============================================================================
