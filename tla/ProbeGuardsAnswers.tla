--------------------------- MODULE ProbeGuardsAnswers ---------------------------
(***************************************************************************)
(* What the answers of the probing guards mean, and that none is missing:  *)
(* what the proofs about all eighteen share, and the guards that ask the   *)
(* catalog about grants, indexes, policies, triggers and functions.        *)
(***************************************************************************)
EXTENDS ProbeGuardsSteady, FiniteSetTheorems

Count == Len(world.targets)

\* The targets still on a list, a list of targets each of which occurs once, and
\* the list of them all.
Elems(s) == {s[i] : i \in 1..Len(s)}
Queue(s) == s \in Seq(1..Count) /\ \A i, j \in 1..Len(s) : s[i] = s[j] => i = j
Whole(s) == s = [k \in 1..Count |-> k]
Todo     == Elems(me.todo)

-----------------------------------------------------------------------------
(* Lists.                                                                  *)

\* A set of numbers has a least one.
LEMMA Least ==
  ASSUME NEW T, T \subseteq Nat, T # {}
  PROVE  \E n \in T : \A m \in T : n <= m
<1>1. PICK n \in T : \A m \in T : ~ (<<m, n>> \in OpToRel(<, Nat))
  BY WFMin, NatLessThanWellFounded
<1>2. ASSUME NEW m \in T PROVE n <= m
  <2>1. ~(m < n)
    <3>1. ASSUME m < n PROVE <<m, n>> \in OpToRel(<, Nat) BY <3>1 DEF OpToRel
    <3> QED BY <1>1, <3>1
  <2> QED BY <2>1
<1> QED BY <1>2

\* A set of numbers can be listed in order.
Lists(s, n, X) == /\ s \in [1..n -> X] /\ X = {s[i] : i \in 1..n}
                  /\ \A i, j \in 1..n : i < j => s[i] < s[j]

\* Any set of the first N numbers can.
LEMMA Listable ==
  ASSUME NEW N \in Nat, NEW X, X \subseteq 1..N
  PROVE  \E n \in 0..N : \E s \in [1..n -> X] : Lists(s, n, X)
<1> DEFINE Good(k) == \A Y : Y \subseteq 1..k => \E n \in 0..k : \E s \in [1..n -> Y] : Lists(s, n, Y)
           Bad == {k \in Nat : ~Good(k)}
<1>1. SUFFICES Bad = {}
  <2>1. Good(N) BY <1>1
  <2> HIDE DEF Bad
  <2> QED BY <2>1
<1>2. SUFFICES ASSUME Bad # {} PROVE FALSE
  OBVIOUS
<1>3. PICK k \in Bad : \A m \in Bad : k <= m
  <2>1. Bad \subseteq Nat OBVIOUS
  <2> HIDE DEF Bad
  <2> QED BY <1>2, <2>1, Least
<1>4. PICK Y : Y \subseteq 1..k /\ ~(\E n \in 0..k : \E s \in [1..n -> Y] : Lists(s, n, Y))
  BY <1>3
<1>5. k \in Nat BY <1>3
<1> HIDE DEF Good
<1>6. CASE k = 0
  <2>1. Y = {} BY <1>4, <1>6
  <2> DEFINE none == [i \in {} |-> 0]
  <2>2. Lists(none, 0, Y) /\ none \in [1..0 -> Y] BY <2>1 DEF Lists
  <2> HIDE DEF none
  <2>3. 0 \in 0..k BY <1>6
  <2> QED BY <1>4, <2>2, <2>3
<1>7. CASE k # 0
  <2>1. k - 1 \in Nat /\ k - 1 \notin Bad BY <1>3, <1>5, <1>7
  <2>2. Good(k - 1) BY <2>1
  <2>3. PICK n, s : n \in 0..(k - 1) /\ s \in [1..n -> Y \ {k}] /\ Lists(s, n, Y \ {k})
    <3>1. Y \ {k} \subseteq 1..(k - 1) BY <1>4, <1>5, <1>7
    <3> QED BY <2>2, <3>1 DEF Good
  <2>4. CASE k \notin Y
    <3>1. Y \ {k} = Y BY <2>4
    <3>2. n \in 0..k BY <1>5, <2>3
    <3> QED BY <1>4, <2>3, <3>1, <3>2
  <2>5. CASE k \in Y
    <3> DEFINE t == [i \in 1..(n + 1) |-> IF i = n + 1 THEN k ELSE s[i]]
    <3>0. n \in Nat /\ n + 1 \in 0..k /\ n + 1 \in Nat BY <1>5, <1>7, <2>3
    <3>1. t \in [1..(n + 1) -> Y]
      <4>1. ASSUME NEW i \in 1..(n + 1), i # n + 1 PROVE s[i] \in Y
        BY <2>3, <3>0, <4>1
      <4> QED BY <2>5, <4>1
    <3>2. Y = {t[i] : i \in 1..(n + 1)}
      <4>1. ASSUME NEW y \in Y PROVE \E i \in 1..(n + 1) : t[i] = y
        <5>1. CASE y = k BY <3>0, <5>1
        <5>2. CASE y # k
          <6>1. PICK i \in 1..n : y = s[i] BY <2>3, <5>2 DEF Lists
          <6> QED BY <3>0, <6>1
        <5> QED BY <5>1, <5>2
      <4>2. ASSUME NEW i \in 1..(n + 1) PROVE t[i] \in Y BY <3>1
      <4> HIDE DEF t
      <4> QED BY <4>1, <4>2
    <3>3. ASSUME NEW i \in 1..(n + 1), NEW j \in 1..(n + 1), i < j PROVE t[i] < t[j]
      <4>1. i \in 1..n /\ t[i] = s[i] BY <3>0, <3>3
      <4>2. CASE j = n + 1
        <5>1. s[i] \in Y \ {k} BY <2>3, <4>1
        <5>2. s[i] \in 1..k BY <1>4, <5>1
        <5>3. s[i] < k BY <1>5, <5>1, <5>2
        <5> QED BY <4>1, <4>2, <5>3
      <4>3. CASE j # n + 1
        <5>1. j \in 1..n /\ t[j] = s[j] BY <3>0, <4>3
        <5> QED BY <2>3, <3>3, <4>1, <5>1 DEF Lists
      <4> QED BY <4>2, <4>3
    <3> HIDE DEF t
    <3>4. Lists(t, n + 1, Y) BY <3>1, <3>2, <3>3 DEF Lists
    <3> QED BY <1>4, <3>0, <3>1, <3>4
  <2> QED BY <2>4, <2>5
<1> QED BY <1>6, <1>7

\* What is kept of the list of all targets, and that it is such a list.
LEMMA Keeping ==
  ASSUME Count \in Nat, Whole(me.todo), NEW S
  PROVE  Queue(Kept(S)) /\ Elems(Kept(S)) = (1..Count) \cap S
<1> DEFINE some == {me.todo[i] : i \in 1..Len(me.todo)} \cap S
           D == UNION {[1..n -> some] : n \in 0..Len(me.todo)}
           P(s) == /\ some = {s[i] : i \in DOMAIN s}
                   /\ \A i, j \in DOMAIN s : i < j => s[i] < s[j]
<1>1. Len(me.todo) = Count BY DEF Whole
<1>2. some = (1..Count) \cap S BY <1>1 DEF Whole
<1>3. \E s \in D : P(s)
  <2>1. PICK n, s : n \in 0..Count /\ s \in [1..n -> some] /\ Lists(s, n, some)
    <3>1. some \subseteq 1..Count BY <1>2
    <3> HIDE DEF some
    <3> QED BY <3>1, Listable
  <2>2. s \in D BY <1>1, <2>1
  <2>3. DOMAIN s = 1..n BY <2>1
  <2>4. P(s) BY <2>1, <2>3 DEF Lists
  <2> HIDE DEF D, P
  <2> QED BY <2>2, <2>4
<1>4. Kept(S) = CHOOSE s \in D : P(s) BY Zenon DEF Kept
<1>5. Kept(S) \in D /\ P(Kept(S))
  <2> HIDE DEF D, P
  <2> QED BY <1>3, <1>4, Zenon
<1>6. PICK n \in 0..Count : Kept(S) \in [1..n -> some] BY <1>1, <1>5
<1>7. Kept(S) \in Seq(1..Count) /\ Len(Kept(S)) = n /\ DOMAIN Kept(S) = 1..n BY <1>2, <1>6
<1>8. ASSUME NEW i \in 1..n, NEW j \in 1..n, Kept(S)[i] = Kept(S)[j] PROVE i = j
  <2>1. Kept(S)[i] \in 1..Count /\ Kept(S)[j] \in 1..Count BY <1>2, <1>6
  <2>2. ASSUME NEW x \in 1..n, NEW y \in 1..n, x < y PROVE Kept(S)[x] < Kept(S)[y]
    <3>1. \A a, b \in DOMAIN Kept(S) : a < b => Kept(S)[a] < Kept(S)[b] BY <1>5, Zenon
    <3>2. x \in DOMAIN Kept(S) /\ y \in DOMAIN Kept(S) BY <1>7
    <3> QED BY <2>2, <3>1, <3>2, Zenon
  <2>3. ~(i < j) /\ ~(j < i) BY <1>8, <2>1, <2>2
  <2> QED BY <2>3
<1>9. Elems(Kept(S)) = (1..Count) \cap S BY <1>2, <1>5, <1>7 DEF Elems
<1> QED BY <1>7, <1>8, <1>9 DEF Queue

\* The head leaves a list for good.
LEMMA Popping ==
  ASSUME Count \in Nat, NEW s, Queue(s), s # <<>>
  PROVE  /\ Head(s) \in Elems(s) /\ Head(s) \in 1..Count
         /\ Queue(Tail(s)) /\ Elems(Tail(s)) = Elems(s) \ {Head(s)}
<1>1. s \in Seq(1..Count) /\ Len(s) \in Nat /\ Len(s) > 0 BY DEF Queue
<1>2. Tail(s) \in Seq(1..Count) /\ Len(Tail(s)) = Len(s) - 1 /\ \A i \in 1..(Len(s) - 1) : Tail(s)[i] = s[i + 1]
  BY <1>1
<1>3. Head(s) = s[1] /\ 1 \in 1..Len(s) BY <1>1
<1>4. ASSUME NEW i \in 1..Len(s), s[i] = Head(s) PROVE i = 1 BY <1>3, <1>4 DEF Queue
<1>5. ASSUME NEW x \in Elems(s), x # Head(s) PROVE x \in Elems(Tail(s))
  <2>1. PICK i \in 1..Len(s) : s[i] = x BY DEF Elems
  <2>2. i - 1 \in 1..(Len(s) - 1) /\ Tail(s)[i - 1] = x BY <1>1, <1>2, <1>3, <1>5, <2>1
  <2> QED BY <1>2, <2>2 DEF Elems
<1>6. ASSUME NEW x \in Elems(Tail(s)) PROVE x \in Elems(s) /\ x # Head(s)
  <2>1. PICK i \in 1..(Len(s) - 1) : Tail(s)[i] = x BY <1>2 DEF Elems
  <2>2. i + 1 \in 1..Len(s) /\ s[i + 1] = x /\ i + 1 # 1 BY <1>1, <1>2, <2>1
  <2> QED BY <1>4, <2>2 DEF Elems
<1>7. Queue(Tail(s))
  <2>1. ASSUME NEW i \in 1..Len(Tail(s)), NEW j \in 1..Len(Tail(s)), Tail(s)[i] = Tail(s)[j] PROVE i = j
    <3>1. i + 1 \in 1..Len(s) /\ j + 1 \in 1..Len(s) /\ s[i + 1] = s[j + 1] BY <1>1, <1>2, <2>1
    <3>2. i + 1 = j + 1 BY <3>1 DEF Queue
    <3> QED BY <1>1, <1>2, <3>2
  <2> QED BY <1>2, <2>1 DEF Queue
<1>8. Head(s) \in Elems(s) /\ Head(s) \in 1..Count BY <1>1, <1>3 DEF Elems
<1> QED BY <1>5, <1>6, <1>7, <1>8

\* The list of all targets is a list of them.
LEMMA Listing == ASSUME Count \in Nat, NEW s, Whole(s) PROVE Queue(s) /\ Elems(s) = 1..Count /\ Len(s) = Count
<1>1. Len(s) = Count /\ s \in Seq(1..Count) BY DEF Whole
<1>2. \A i \in 1..Count : s[i] = i BY DEF Whole
<1> QED BY <1>1, <1>2 DEF Queue, Elems

\* One list after another that has none of its targets.
LEMMA Joining ==
  ASSUME Count \in Nat, NEW s, NEW t, Queue(s), Queue(t), Elems(s) \cap Elems(t) = {}
  PROVE  Queue(s \o t) /\ Elems(s \o t) = Elems(s) \cup Elems(t)
<1>1. s \in Seq(1..Count) /\ t \in Seq(1..Count) /\ Len(s) \in Nat /\ Len(t) \in Nat BY DEF Queue
<1>2. /\ s \o t \in Seq(1..Count) /\ Len(s \o t) = Len(s) + Len(t)
      /\ \A i \in 1..(Len(s) + Len(t)) : (s \o t)[i] = IF i <= Len(s) THEN s[i] ELSE t[i - Len(s)]
  BY <1>1
<1> DEFINE u == s \o t
<1> HIDE DEF u
<1>3. /\ u \in Seq(1..Count) /\ Len(u) = Len(s) + Len(t)
      /\ \A i \in 1..(Len(s) + Len(t)) : u[i] = IF i <= Len(s) THEN s[i] ELSE t[i - Len(s)]
  BY <1>2 DEF u
<1>4. ASSUME NEW i \in 1..Len(u)
      PROVE  \/ i \in 1..Len(s) /\ u[i] = s[i] /\ u[i] \in Elems(s)
             \/ i - Len(s) \in 1..Len(t) /\ u[i] = t[i - Len(s)] /\ u[i] \in Elems(t)
  <2>1. CASE i <= Len(s)
    <3>1. i \in 1..Len(s) /\ u[i] = s[i] BY <1>1, <1>3, <1>4, <2>1
    <3> QED BY <3>1 DEF Elems
  <2>2. CASE ~(i <= Len(s))
    <3>1. i - Len(s) \in 1..Len(t) /\ u[i] = t[i - Len(s)] BY <1>1, <1>3, <1>4, <2>2
    <3> QED BY <3>1 DEF Elems
  <2> QED BY <2>1, <2>2
<1>5. ASSUME NEW i \in 1..Len(u), NEW j \in 1..Len(u), u[i] = u[j] PROVE i = j
  <2>1. CASE i \in 1..Len(s) /\ u[i] = s[i] /\ u[i] \in Elems(s)
    <3>1. u[j] \notin Elems(t) BY <1>5, <2>1
    <3>2. j \in 1..Len(s) /\ u[j] = s[j] BY <1>4, <3>1
    <3> QED BY <1>5, <2>1, <3>2 DEF Queue
  <2>2. CASE i - Len(s) \in 1..Len(t) /\ u[i] = t[i - Len(s)] /\ u[i] \in Elems(t)
    <3>1. u[j] \notin Elems(s) BY <1>5, <2>2
    <3>2. j - Len(s) \in 1..Len(t) /\ u[j] = t[j - Len(s)] BY <1>4, <3>1
    <3>3. i - Len(s) = j - Len(s) BY <1>5, <2>2, <3>2 DEF Queue
    <3> QED BY <1>1, <1>3, <3>3
  <2> QED BY <1>4, <2>1, <2>2
<1>6. ASSUME NEW x \in Elems(s) PROVE x \in Elems(u)
  <2>1. PICK i \in 1..Len(s) : x = s[i] BY DEF Elems
  <2>2. i \in 1..Len(u) /\ u[i] = x BY <1>1, <1>3, <2>1
  <2> QED BY <2>2 DEF Elems
<1>7. ASSUME NEW x \in Elems(t) PROVE x \in Elems(u)
  <2>1. PICK j \in 1..Len(t) : x = t[j] BY DEF Elems
  <2>2. j + Len(s) \in 1..Len(u) /\ ~(j + Len(s) <= Len(s)) /\ (j + Len(s)) - Len(s) = j BY <1>1, <1>3, <2>1
  <2>3. u[j + Len(s)] = x BY <1>3, <2>1, <2>2
  <2> QED BY <2>2, <2>3 DEF Elems
<1>8. Elems(u) = Elems(s) \cup Elems(t)
  <2>1. \A x \in Elems(u) : x \in Elems(s) \cup Elems(t) BY <1>4 DEF Elems
  <2> QED BY <1>6, <1>7, <2>1
<1>9. Queue(u) BY <1>3, <1>5 DEF Queue
<1> QED BY <1>8, <1>9 DEF u

-----------------------------------------------------------------------------
(* The session, the procedure, and what an answer means.                   *)

Roles == {"conn", "app", "other"}

\* A session of which every field and every savepoint is what it should be.
Proper(s) ==
  /\ Sound(s)
  /\ s.st \in {"closed", "idle", "open", "aborted", "lost"}
  /\ s.role \in Roles
  /\ \A i \in 1..Len(s.saves) : DOMAIN s.saves[i] = {"role", "who", "made"} /\ s.saves[i].role \in Roles

\* The session of a guard that runs is there, unless a fault took it.
Session ==
  /\ Proper(pg)
  /\ fault \in {"none", "lost", "cancelled"}
  /\ me.at = "start" => pg.st = "closed" /\ fault = "none"
  /\ me.at = "done" => pg.st = "closed"
  /\ me.at \notin {"start", "done"} => pg.st # "closed" /\ (pg.st = "lost" <=> fault = "lost")

Shape ==
  /\ world.guard \in Names /\ world \in Worlds[world.guard]
  /\ Count \in Nat
  /\ DOMAIN me = {"at", "todo", "loc", "said", "thrown", "result"}
  /\ Queue(me.todo)
  /\ me.thrown \in BOOLEAN
  /\ me.result \in IF me.at = "done" THEN Results \ {"none"} ELSE {"none", "skip", "refused"}
  /\ me.at = "done" => (me.thrown <=> me.result = "thrown")
  /\ me.at \in {"start", "plan"} => me.said = {} /\ Whole(me.todo) /\ ~me.thrown /\ me.result = "none"

Key(a) == [on |-> a.on, arm |-> a.arm]

\* A finding is about what is exposed or listed as misjudged, and nothing that
\* is exposed and not a listed blind spot is called isolated.
Meaning(a) ==
  /\ a = [on |-> a.on, arm |-> a.arm, says |-> a.says]
  /\ a.says \in {"leak", "note", "clear"}
  /\ a.says = "leak" => Key(a) \in Truth.exposed \cup Truth.spurious
  /\ a.says = "clear" => Key(a) \notin Truth.exposed \ Truth.blind

\* No question has been answered both ways.
Agreed == \A a, b \in me.said : a.on = b.on /\ a.arm = b.arm /\ a.says = "leak" => b.says # "clear"

Meant == (\A a \in me.said : Meaning(a)) /\ Agreed

\* What is exposed has had its finding or note; what can be proven, its finding.
Heard(e) == \E a \in me.said : a.on = e.on /\ a.says # "clear"
Found(e) == \E a \in me.said : a.on = e.on /\ a.arm = e.arm /\ a.says = "leak"
Done(e)  == (e \notin Truth.blind => Heard(e)) /\ (fault = "none" /\ e \in Truth.provable => Found(e))

\* The answers will count: the guard has neither thrown nor stood aside.
Counts == ~me.thrown /\ me.result \notin {"skip", "refused", "thrown"}

Common == Session /\ Shape /\ Meant

\* What the step is to the runner: answers are added, or there is a verdict.
Plays ==
  /\ me.at # "done"
  /\ \/ me'.at # "done" /\ me.said \subseteq me'.said
     \/ /\ me'.at = "done" /\ me'.said = me.said
        /\ \/ me'.result \in {"skip", "refused", "thrown"}
           \/ me'.result = "fail" /\ LeaksIn(me.said) # {}
           \/ me'.result = "ok" /\ LeaksIn(me.said) = {}

\* Nobody has judged k yet, on the question arm.
Untold(k, arm) == \A a \in me.said : a.on = k /\ a.arm = arm => a.says = "note"
Unclear == \A a \in me.said : a.says # "clear"

\* What a statement may do to the session.
Moved ==
  \/ pg' \in {pg, Failed, Saved(pg), Released(pg), Undone(pg), Undone(Failed), RolledBack(pg)}
  \/ Live /\ pg' = Began(pg)
  \/ pg.st = "aborted" /\ pg' = [pg EXCEPT !.st = "open"]
  \/ \E r \in Roles : pg' = AsRole(pg, r)
  \/ \E x : pg' = Acting(pg, x) \/ pg' = Made(pg, x) \/ pg' = Released(Acting(pg, x))

\* The guard goes on to a place, with this list and these answers.
Walks(at, todo, said) ==
  /\ DOMAIN me' = DOMAIN me
  /\ me'.at = at /\ me'.todo = todo /\ me'.said = said
  /\ me'.thrown = me.thrown /\ me'.result = me.result

\* The guard leaves: it throws, or it stands aside.
Leaves ==
  /\ DOMAIN me' = DOMAIN me
  /\ me'.todo = me.todo /\ me'.said = me.said /\ me'.loc = me.loc
  /\ \/ me'.at = "finally" /\ me'.thrown = TRUE /\ me'.result = me.result
     \/ me'.at \in {"finally", "close"} /\ me'.thrown = me.thrown /\ me'.result \in {"skip", "refused"}

\* A savepoint is released: those below it are what they were.
LEMMA Trimming ==
  ASSUME NEW s, Sound(s)
  PROVE  /\ \A i \in 1..Len(Released(s).saves) : i \in 1..Len(s.saves) /\ Released(s).saves[i] = s.saves[i]
         /\ Released(s).role = s.role /\ Released(s).who = s.who /\ Released(s).st = s.st
         /\ s.saves # <<>> => Len(s.saves) \in 1..Len(s.saves)
<1>1. /\ Released(s).saves = SubSeq(s.saves, 1, Len(s.saves) - 1)
      /\ Released(s).role = s.role /\ Released(s).who = s.who /\ Released(s).st = s.st
  BY DEF Released, Sound
<1>2. s.saves \in Seq({s.saves[k] : k \in 1..Len(s.saves)}) BY Ranged DEF Sound
<1>3. CASE s.saves = <<>>
  <2>1. Released(s).saves = <<>> BY <1>1, <1>3, SubSeqEmpty
  <2> QED BY <1>1, <1>3, <2>1
<1>4. CASE s.saves # <<>>
  <2> DEFINE S == {s.saves[k] : k \in 1..Len(s.saves)}
  <2>1. s.saves \in Seq(S) BY <1>2
  <2> HIDE DEF S
  <2>2. /\ Len(Released(s).saves) = Len(s.saves) - 1 /\ \A i \in 1..(Len(s.saves) - 1) : Released(s).saves[i] = s.saves[i]
        /\ Len(s.saves) \in 1..Len(s.saves)
    BY <1>1, <1>4, <2>1
  <2> QED BY <1>1, <2>2
<1> QED BY <1>3, <1>4

\* The session is what it should be after any statement.
LEMMA Moving ==
  ASSUME Session, fault' = fault, Moved, me.at \notin {"start", "done"}, me'.at \notin {"start", "done"}
  PROVE  Session'
<1>1. \A i \in 1..Len(pg.saves) : DOMAIN pg.saves[i] = {"role", "who", "made"} /\ pg.saves[i].role \in Roles
  BY DEF Session, Proper
<1>2. Ground BY Grounds DEF Session, Proper
<1>3. Sound(pg) /\ pg.st \in {"idle", "open", "aborted", "lost"} /\ pg.role \in Roles BY DEF Session, Proper
<1>4. SUFFICES Proper(pg') /\ pg'.st # "closed" /\ (pg'.st = "lost" <=> pg.st = "lost")
  BY DEF Session
<1>5. CASE pg' \in {pg, Failed}
  <2>1. pg'.role = pg.role /\ pg'.saves = pg.saves BY <1>3, <1>5 DEF Failed, Sound
  <2>2. pg'.st \in {pg.st, IF pg.st = "open" THEN "aborted" ELSE pg.st} /\ Sound(pg') BY <1>2, <1>5 DEF Ground
  <2> QED BY <1>1, <1>3, <2>1, <2>2 DEF Proper
<1>6. CASE pg' = Saved(pg)
  <2> DEFINE sp == [role |-> pg.role, who |-> pg.who, made |-> pg.made]
  <2>1. pg'.saves = Append(pg.saves, sp) /\ pg'.role = pg.role BY <1>3, <1>6 DEF Saved, Sound
  <2>2. DOMAIN sp = {"role", "who", "made"} /\ sp.role \in Roles BY <1>3
  <2> HIDE DEF sp
  <2>3. ASSUME NEW i \in 1..Len(pg'.saves)
        PROVE  DOMAIN pg'.saves[i] = {"role", "who", "made"} /\ pg'.saves[i].role \in Roles
    <3>1. pg.saves \in Seq({pg.saves[k] : k \in 1..Len(pg.saves)} \cup {sp})
      <4>1. pg.saves \in Seq({pg.saves[k] : k \in 1..Len(pg.saves)}) BY <1>3, Ranged DEF Sound
      <4> QED BY <4>1
    <3>2. pg'.saves[i] = IF i = Len(pg.saves) + 1 THEN sp ELSE pg.saves[i] BY <2>1, <2>3, <3>1
    <3>3. i = Len(pg.saves) + 1 \/ i \in 1..Len(pg.saves) BY <2>1, <2>3, <3>1
    <3> QED BY <1>1, <2>2, <3>2, <3>3
  <2> QED BY <1>2, <1>3, <1>6, <2>1, <2>3 DEF Proper, Ground
<1>7. /\ \A i \in 1..Len(Released(pg).saves) : i \in 1..Len(pg.saves) /\ Released(pg).saves[i] = pg.saves[i]
      /\ Released(pg).role = pg.role
  BY <1>3, Trimming
<1>8. CASE pg' = Released(pg)
  BY <1>1, <1>2, <1>3, <1>7, <1>8 DEF Proper, Ground
<1>9. ASSUME NEW s, s \in {pg, Failed}, pg' = Undone(s) PROVE Proper(pg') /\ pg'.st # "closed" /\ (pg'.st = "lost" <=> pg.st = "lost")
  <2>1. Sound(s) /\ s.saves = pg.saves /\ s.role = pg.role /\ s.st \in {pg.st, IF pg.st = "open" THEN "aborted" ELSE pg.st}
    BY <1>2, <1>3, <1>9 DEF Ground, Failed, Sound
  <2>2. CASE s.st \in {"open", "aborted"} /\ s.saves # <<>>
    <3> DEFINE sp == s.saves[Len(s.saves)]
    <3>1. pg' = [Released(s) EXCEPT !.st = "open", !.role = sp.role, !.who = sp.who, !.made = sp.made]
      BY <1>9, <2>2 DEF Undone
    <3>2. Len(pg.saves) \in 1..Len(pg.saves)
      <4>1. pg.saves \in Seq({pg.saves[k] : k \in 1..Len(pg.saves)}) BY <1>3, Ranged DEF Sound
      <4> QED BY <2>1, <2>2, <4>1
    <3>3. sp.role \in Roles BY <1>1, <2>1, <3>2
    <3> HIDE DEF sp
    <3>4. Released(s).saves = Released(pg).saves /\ DOMAIN Released(s) = DOMAIN s BY <1>3, <2>1 DEF Released, Sound
    <3>5. pg'.st = "open" /\ pg'.role = sp.role /\ pg'.saves = Released(pg).saves BY <2>1, <3>1, <3>4 DEF Sound
    <3>6. Sound(pg') BY <1>2, <1>9 DEF Ground
    <3>7. pg.st \in {"open", "aborted"} BY <1>3, <2>1, <2>2
    <3> QED BY <1>1, <1>7, <3>3, <3>5, <3>6, <3>7 DEF Proper
  <2>3. CASE ~(s.st \in {"open", "aborted"} /\ s.saves # <<>>)
    <3>1. pg' = s BY <1>9, <2>3 DEF Undone
    <3> QED BY <1>1, <1>3, <2>1, <3>1 DEF Proper
  <2> QED BY <2>2, <2>3
<1>10. CASE pg' = RolledBack(pg)
  <2>1. CASE pg.st \in {"open", "aborted"}
    <3>1. pg'.saves = <<>> /\ pg'.role = "conn" /\ pg'.st = "idle" BY <1>10, <2>1 DEF RolledBack, Closed
    <3> QED BY <1>2, <1>10, <2>1, <3>1 DEF Proper, Ground, Roles
  <2>2. CASE pg.st \notin {"open", "aborted"}
    <3>1. pg' = pg BY <1>10, <2>2 DEF RolledBack
    <3> QED BY <1>1, <1>3, <3>1 DEF Proper
  <2> QED BY <2>1, <2>2
<1>11. CASE Live /\ pg' = Began(pg)
  <2>1. pg'.saves = pg.saves /\ pg'.role = pg.role /\ pg'.st = "open" BY <1>3, <1>11 DEF Began, Sound
  <2> QED BY <1>1, <1>2, <1>3, <1>11, <2>1 DEF Proper, Ground, Live
<1>12. ASSUME NEW r \in Roles, NEW x, pg' = AsRole(pg, r) \/ pg' = Acting(pg, x) \/ pg' = Made(pg, x)
       PROVE  Proper(pg') /\ pg'.st # "closed" /\ (pg'.st = "lost" <=> pg.st = "lost")
  <2>1. Sound(pg') /\ pg'.st = pg.st /\ pg'.saves = pg.saves BY <1>3, <1>12, Plainly
  <2>2. pg'.role \in {pg.role, r} BY <1>3, <1>12 DEF AsRole, Acting, Made, Sound
  <2> QED BY <1>1, <1>3, <2>1, <2>2 DEF Proper
<1>13. "conn" \in Roles BY DEF Roles
<1>14. ASSUME NEW x, pg' = Released(Acting(pg, x))
       PROVE  Proper(pg') /\ pg'.st # "closed" /\ (pg'.st = "lost" <=> pg.st = "lost")
  <2> DEFINE s == Acting(pg, x)
  <2>1. Sound(s) /\ s.st = pg.st /\ s.saves = pg.saves BY <1>3, Plainly
  <2>2. s.role = pg.role BY <1>3 DEF Acting, Sound
  <2> HIDE DEF s
  <2>3. pg' = Released(s) BY <1>14 DEF s
  <2>4. Sound(pg') /\ pg'.st = s.st BY <2>1, <2>3, Releasing
  <2>5. /\ \A i \in 1..Len(pg'.saves) : i \in 1..Len(s.saves) /\ pg'.saves[i] = s.saves[i]
        /\ pg'.role = s.role
    BY <2>1, <2>3, Trimming
  <2> QED BY <1>1, <1>3, <2>1, <2>2, <2>4, <2>5 DEF Proper
<1>15. CASE pg.st = "aborted" /\ pg' = [pg EXCEPT !.st = "open"]
  <2>1. Sound(pg') /\ pg'.st = "open" BY <1>3, <1>15, Connecting
  <2>2. pg'.saves = pg.saves /\ pg'.role = pg.role BY <1>3, <1>15 DEF Sound
  <2> QED BY <1>1, <1>3, <1>15, <2>1, <2>2 DEF Proper
<1> QED BY <1>5, <1>6, <1>8, <1>9, <1>10, <1>11, <1>12, <1>13, <1>14, <1>15 DEF Moved

\* Nobody has been impersonated, and no savepoint brings anybody back.
Nobody(s) == s.who = "nobody" /\ \A i \in 1..Len(s.saves) : s.saves[i].who = "nobody"

\* Where nobody is impersonated, nobody is after a statement that names none.
LEMMA Unnamed ==
  ASSUME Sound(pg), Nobody(pg),
         \/ pg' \in {pg, Failed, Saved(pg), Released(pg), Undone(pg), Undone(Failed), RolledBack(pg), Began(pg)}
         \/ pg' \in {[pg EXCEPT !.st = "idle"], [pg EXCEPT !.st = "open"], Acting(pg, "nobody"), Released(Acting(pg, "nobody"))}
         \/ \E r : pg' = AsRole(pg, r)
         \/ \E x : pg' = Made(pg, x)
  PROVE  Nobody(pg')
<1>1. CASE \/ pg' \in {pg, Failed, Began(pg), [pg EXCEPT !.st = "idle"], [pg EXCEPT !.st = "open"], Acting(pg, "nobody")}
           \/ \E r : pg' = AsRole(pg, r)
           \/ \E x : pg' = Made(pg, x)
  <2>1. pg'.saves = pg.saves /\ pg'.who = "nobody"
    BY <1>1 DEF Sound, Nobody, Failed, Began, AsRole, Acting, Made
  <2> QED BY <2>1 DEF Nobody
<1>2. CASE pg' = Saved(pg)
  <2> DEFINE sp == [role |-> pg.role, who |-> pg.who, made |-> pg.made]
             S == {pg.saves[k] : k \in 1..Len(pg.saves)} \cup {sp}
  <2>1. pg'.saves = Append(pg.saves, sp) /\ pg'.who = "nobody" BY <1>2 DEF Saved, Sound, Nobody
  <2>2. sp.who = "nobody" BY DEF Nobody
  <2>3. pg.saves \in Seq(S)
    <3>1. pg.saves \in Seq({pg.saves[k] : k \in 1..Len(pg.saves)}) BY Ranged DEF Sound
    <3> QED BY <3>1
  <2>4. \A y \in S : y.who = "nobody" BY <2>2 DEF Nobody
  <2>5. sp \in S OBVIOUS
  <2> HIDE DEF sp, S
  <2>6. Append(pg.saves, sp) \in Seq(S) BY <2>3, <2>5
  <2>7. \A i \in 1..Len(pg'.saves) : pg'.saves[i] \in S BY <2>1, <2>6
  <2> QED BY <2>1, <2>4, <2>7 DEF Nobody
<1>3. ASSUME NEW s, s \in {pg, Acting(pg, "nobody"), Failed}
      PROVE  Sound(s) /\ Nobody(s) /\ Nobody(Released(s))
  <2>1. Sound(s) /\ s.saves = pg.saves /\ s.who = "nobody" BY <1>3 DEF Sound, Nobody, Acting, Failed
  <2> QED BY <2>1, Trimming DEF Nobody
<1>4. ASSUME NEW s, s \in {pg, Failed}, pg' = Undone(s) PROVE Nobody(pg')
  <2>1. Sound(s) /\ Nobody(s) /\ Nobody(Released(s)) BY <1>3, <1>4
  <2>2. CASE s.st \in {"open", "aborted"} /\ s.saves # <<>>
    <3> DEFINE sp == s.saves[Len(s.saves)]
    <3>1. pg' = [Released(s) EXCEPT !.st = "open", !.role = sp.role, !.who = sp.who, !.made = sp.made]
      BY <1>4, <2>2 DEF Undone
    <3>2. sp.who = "nobody" BY <2>1, <2>2, Trimming DEF Nobody
    <3> HIDE DEF sp
    <3>3. DOMAIN Released(s) = DOMAIN s BY DEF Released
    <3>4. pg'.who = sp.who /\ pg'.saves = Released(s).saves BY <2>1, <3>1, <3>3 DEF Sound
    <3> QED BY <2>1, <3>2, <3>4 DEF Nobody
  <2>3. CASE ~(s.st \in {"open", "aborted"} /\ s.saves # <<>>) BY <1>4, <2>1, <2>3 DEF Undone
  <2> QED BY <2>2, <2>3
<1>5. CASE pg' = RolledBack(pg)
  <2>1. pg' = pg \/ (pg'.who = "nobody" /\ pg'.saves = <<>>) BY <1>5 DEF RolledBack, Closed
  <2> QED BY <2>1 DEF Nobody
<1> QED BY <1>1, <1>2, <1>3, <1>4, <1>5

\* The shape is kept when a guard goes on,
LEMMA Going ==
  ASSUME Shape, world' = world, NEW at, NEW todo, NEW said, Walks(at, todo, said), Queue(todo),
         at \notin {"start", "plan", "done"}, me.at # "done"
  PROVE  Shape'
BY DEF Shape, Walks, Queue, Count

\* Nothing new is said.
LEMMA Quiet ==
  ASSUME Meant, Truth' = Truth, fault' = fault, me'.said = me.said
  PROVE  /\ Meant' /\ (Unclear' <=> Unclear)
         /\ \A e : Done(e)' <=> Done(e)
         /\ \A k, arm : Untold(k, arm)' <=> Untold(k, arm)
<1>1. \A a : Meaning(a) => Meaning(a)' BY DEF Meaning, Key
<1> QED BY <1>1 DEF Meant, Agreed, Done, Heard, Found, Untold, Unclear

\* a guard that leaves keeps both, and its answers will not count.
LEMMA Leaving ==
  ASSUME Common, world' = world, fault' = fault, Truth' = Truth, Leaves, me.at # "done"
  PROVE  Shape' /\ Meant' /\ ~Counts' /\ Plays
<1>1. Meant' BY Quiet DEF Common, Leaves
<1>2. Shape' BY DEF Common, Leaves, Shape, Queue, Count
<1> QED BY <1>1, <1>2 DEF Leaves, Counts, Plays

\* One more answer: what it may say, and what it settles.
LEMMA Telling ==
  ASSUME Meant, Truth' = Truth, fault' = fault, NEW on, NEW arm, NEW says,
         me'.said = me.said \cup {[on |-> on, arm |-> arm, says |-> says]},
         says \in {"leak", "note", "clear"},
         says = "leak" => [on |-> on, arm |-> arm] \in Truth.exposed \cup Truth.spurious,
         says = "clear" => [on |-> on, arm |-> arm] \notin Truth.exposed \ Truth.blind,
         says = "note" \/ Untold(on, arm) \/ (says # "clear" /\ Unclear)
  PROVE  /\ Meant'
         /\ \A e : Done(e) => Done(e)'
         /\ \A e : e.on = on /\ says # "clear" => Heard(e)'
         /\ \A e : e.on = on /\ e.arm = arm /\ says = "leak" => Done(e)'
         /\ \A e : e.on = on /\ says # "clear" /\ (fault # "none" \/ e \notin Truth.provable) => Done(e)'
         /\ \A k, x : (k # on \/ x # arm \/ says = "note") /\ Untold(k, x) => Untold(k, x)'
         /\ says # "clear" /\ Unclear => Unclear'
<1> DEFINE a == [on |-> on, arm |-> arm, says |-> says]
<1>1. a.on = on /\ a.arm = arm /\ a.says = says /\ a = [on |-> a.on, arm |-> a.arm, says |-> a.says] OBVIOUS
<1> HIDE DEF a
<1>2. me'.said = me.said \cup {a} BY DEF a
<1>3. Meaning(a)' BY <1>1 DEF Meaning, Key
<1>4. \A b : Meaning(b) => Meaning(b)' BY DEF Meaning, Key
<1>13. Agreed' BY <1>1, <1>2 DEF Meant, Agreed, Untold, Unclear
<1>5. Meant' BY <1>2, <1>3, <1>4, <1>13 DEF Meant
<1>6. \A e : (Heard(e) => Heard(e)') /\ (Found(e) => Found(e)') BY <1>2 DEF Heard, Found
<1>7. \A e : Done(e) => Done(e)' BY <1>6 DEF Done
<1>8. \A e : e.on = on /\ says # "clear" => Heard(e)' BY <1>1, <1>2 DEF Heard
<1>9. \A e : e.on = on /\ e.arm = arm /\ says = "leak" => Found(e)' BY <1>1, <1>2 DEF Found
<1>10. \A k, x : (k # on \/ x # arm \/ says = "note") /\ Untold(k, x) => Untold(k, x)' BY <1>1, <1>2 DEF Untold
<1>11. says # "clear" /\ Unclear => Unclear' BY <1>1, <1>2 DEF Unclear
<1>12. \A e : e.on = on /\ e.arm = arm /\ says = "leak" => Done(e)' BY <1>8, <1>9 DEF Done
<1>14. \A e : e.on = on /\ says # "clear" /\ (fault # "none" \/ e \notin Truth.provable) => Done(e)' BY <1>8 DEF Done
<1> QED BY <1>5, <1>7, <1>8, <1>10, <1>11, <1>12, <1>14

\* Several answers at once, none of which clears anything.
LEMMA TellingAll ==
  ASSUME Meant, Truth' = Truth, fault' = fault, NEW S, me'.said = me.said \cup S,
         \A a \in S : Meaning(a) /\ a.says # "clear",
         \A a \in S, b \in me.said : a.says = "leak" /\ b.on = a.on /\ b.arm = a.arm => b.says # "clear"
  PROVE  /\ Meant'
         /\ \A e : Done(e) => Done(e)'
         /\ \A e : (\E a \in S : a.on = e.on) => Heard(e)'
         /\ \A e : (\E a \in S : a.on = e.on /\ a.arm = e.arm /\ a.says = "leak") => Done(e)'
         /\ Unclear => Unclear'
<1>1. \A a : Meaning(a) => Meaning(a)' BY DEF Meaning, Key
<1>2. Agreed' BY DEF Meant, Agreed
<1>3. Meant' BY <1>1, <1>2 DEF Meant
<1>4. \A e : (Heard(e) => Heard(e)') /\ (Found(e) => Found(e)') BY DEF Heard, Found
<1>5. \A e : Done(e) => Done(e)' BY <1>4 DEF Done
<1>6. \A e : (\E a \in S : a.on = e.on) => Heard(e)' BY DEF Heard
<1>7. \A e : (\E a \in S : a.on = e.on /\ a.arm = e.arm /\ a.says = "leak") => Found(e)' BY DEF Found
<1>8. \A e : (\E a \in S : a.on = e.on /\ a.arm = e.arm /\ a.says = "leak") => Done(e)' BY <1>6, <1>7 DEF Done
<1>9. Unclear => Unclear' BY DEF Unclear
<1> QED BY <1>3, <1>5, <1>6, <1>8, <1>9

\* What was settled is settled, who was not judged is not.
Keeps ==
  /\ \A e : Done(e) => Done(e)'
  /\ \A k, x : Untold(k, x) => Untold(k, x)'
  /\ Unclear => Unclear'

\* A note judges nobody; it is enough about what cannot be proven.
LEMMA Noting ==
  ASSUME Meant, Truth' = Truth, fault' = fault, NEW on, NEW arm,
         me'.said = me.said \cup {[on |-> on, arm |-> arm, says |-> "note"]}
  PROVE  /\ Meant' /\ Keeps
         /\ \A e : e.on = on /\ (fault # "none" \/ e \notin Truth.provable) => Done(e)'
<1> DEFINE says == "note"
<1>1. says = "note" OBVIOUS
<1>2. me'.said = me.said \cup {[on |-> on, arm |-> arm, says |-> says]} OBVIOUS
<1> HIDE DEF says
<1>3. /\ Meant'
      /\ \A e : Done(e) => Done(e)'
      /\ \A e : e.on = on /\ says # "clear" /\ (fault # "none" \/ e \notin Truth.provable) => Done(e)'
      /\ \A k, x : (k # on \/ x # arm \/ says = "note") /\ Untold(k, x) => Untold(k, x)'
      /\ says # "clear" /\ Unclear => Unclear'
  BY <1>1, <1>2, Telling
<1> QED BY <1>1, <1>3 DEF Keeps

-----------------------------------------------------------------------------
(* The steps that all guards have.                                         *)

\* The steps the guards share: the connection,
LEMMA Connects ==
  ASSUME Common, Connect, Truth' = Truth
  PROVE  /\ me.at = "start" /\ Common' /\ me'.loc = me.loc /\ me'.said = {} /\ me'.todo = me.todo
         /\ \/ me'.at = "plan" /\ Whole(me'.todo) /\ pg'.st = "idle" /\ pg' = [pg EXCEPT !.st = "idle"]
            \/ me'.at = "done" /\ ~Counts' /\ pg' = pg
         /\ me'.at = "plan" => Counts'
         /\ Plays
<1>1. world' = world /\ fault' = fault /\ me.at = "start" BY DEF Connect, Do
<1>2. Shape /\ Session /\ Meant BY DEF Common
<1>3. me.said = {} /\ Whole(me.todo) /\ pg.st = "closed" /\ fault = "none" BY <1>1, <1>2 DEF Shape, Session
<1>4. \/ pg' = pg /\ me' = [me EXCEPT !.at = "done", !.result = "skip"]
      \/ pg' = pg /\ me' = [me EXCEPT !.at = "done", !.result = "thrown", !.thrown = TRUE]
      \/ pg' = [pg EXCEPT !.st = "idle"] /\ me' = [me EXCEPT !.at = "plan"]
  BY Zenon DEF Connect, Do, To
<1>5. CASE pg' = pg /\ me' = [me EXCEPT !.at = "done", !.result = "skip"]
  <2>1. /\ DOMAIN me' = DOMAIN me /\ me'.at = "done" /\ me'.loc = me.loc /\ me'.said = me.said /\ me'.todo = me.todo
        /\ me'.thrown = me.thrown /\ me'.result = "skip"
    BY <1>2, <1>5 DEF Shape
  <2>2. Shape' BY <1>1, <1>2, <2>1 DEF Shape, Queue, Count, Results
  <2>3. Meant' BY <1>1, <1>2, <2>1, Quiet
  <2>4. Session' BY <1>1, <1>2, <1>3, <1>5, <2>1 DEF Session
  <2> QED BY <1>1, <1>3, <1>5, <2>1, <2>2, <2>3, <2>4 DEF Common, Counts, Plays
<1>6. CASE pg' = pg /\ me' = [me EXCEPT !.at = "done", !.result = "thrown", !.thrown = TRUE]
  <2>1. /\ DOMAIN me' = DOMAIN me /\ me'.at = "done" /\ me'.loc = me.loc /\ me'.said = me.said /\ me'.todo = me.todo
        /\ me'.thrown = TRUE /\ me'.result = "thrown"
    BY <1>2, <1>6 DEF Shape
  <2>2. Shape' BY <1>1, <1>2, <2>1 DEF Shape, Queue, Count, Results
  <2>3. Meant' BY <1>1, <1>2, <2>1, Quiet
  <2>4. Session' BY <1>1, <1>2, <1>3, <1>6, <2>1 DEF Session
  <2> QED BY <1>1, <1>3, <1>6, <2>1, <2>2, <2>3, <2>4 DEF Common, Counts, Plays
<1>7. CASE pg' = [pg EXCEPT !.st = "idle"] /\ me' = [me EXCEPT !.at = "plan"]
  <2>1. /\ DOMAIN me' = DOMAIN me /\ me'.at = "plan" /\ me'.loc = me.loc /\ me'.said = me.said /\ me'.todo = me.todo
        /\ me'.thrown = me.thrown /\ me'.result = me.result
    BY <1>2, <1>7 DEF Shape
  <2>2. Shape' BY <1>1, <1>2, <2>1 DEF Shape, Queue, Count, Whole
  <2>3. Meant' BY <1>1, <1>2, <2>1, Quiet
  <2>4. pg'.st = "idle" /\ pg'.saves = pg.saves /\ pg'.role = pg.role /\ Sound(pg')
    BY <1>2, <1>7, Connecting DEF Session, Proper, Sound
  <2>5. Session' BY <1>1, <1>2, <1>3, <2>1, <2>4 DEF Session, Proper
  <2>6. Whole(me'.todo) /\ Counts' BY <1>1, <1>2, <1>3, <2>1 DEF Whole, Shape, Counts
  <2> QED BY <1>1, <1>3, <1>7, <2>1, <2>2, <2>3, <2>4, <2>5, <2>6 DEF Common, Plays
<1> QED BY <1>4, <1>5, <1>6, <1>7

\* its end with the verdict,
LEMMA Disconnects ==
  ASSUME Common, Disconnect, Truth' = Truth
  PROVE  /\ me.at = "close" /\ Common' /\ me'.at = "done"
         /\ me'.loc = me.loc /\ me'.said = me.said /\ me'.todo = me.todo
         /\ Counts' => Counts
         /\ Plays
<1>1. world' = world /\ fault' = fault /\ me.at = "close" BY DEF Disconnect, Do
<1>2. Shape /\ Session /\ Meant BY DEF Common
<1>3. pg' = [Closed EXCEPT !.kept = pg.kept] /\ me' = [me EXCEPT !.at = "done", !.result = Verdict]
  BY DEF Disconnect, Do
<1>4. /\ DOMAIN me' = DOMAIN me /\ me'.at = "done" /\ me'.loc = me.loc /\ me'.said = me.said /\ me'.todo = me.todo
      /\ me'.thrown = me.thrown /\ me'.result = Verdict
  BY <1>2, <1>3 DEF Shape
<1>5. Verdict \in Results \ {"none"} /\ (me.thrown <=> Verdict = "thrown")
  BY <1>1, <1>2 DEF Shape, Verdict, Results
<1>6. Verdict \notin {"skip", "refused", "thrown"} => Counts BY <1>1, <1>2 DEF Shape, Verdict, Counts
<1>7. Shape' BY <1>1, <1>2, <1>4, <1>5 DEF Shape, Queue, Count
<1>8. Meant' BY <1>1, <1>2, <1>4, Quiet
<1>9. Session'
  <2>1. Sound(pg') BY <1>3, Closing
  <2>2. pg'.st = "closed" /\ pg'.role = "conn" /\ pg'.saves = <<>> BY <1>3 DEF Closed
  <2> QED BY <1>1, <1>2, <1>4, <2>1, <2>2 DEF Session, Proper, Roles
<1>10. \/ Verdict \in {"skip", "refused", "thrown"}
       \/ Verdict = "fail" /\ LeaksIn(me.said) # {}
       \/ Verdict = "ok" /\ LeaksIn(me.said) = {}
  BY <1>1, <1>2 DEF Shape, Verdict
<1> QED BY <1>1, <1>4, <1>6, <1>7, <1>8, <1>9, <1>10 DEF Common, Counts, Plays

\* the rollback in between,
LEMMA RollsBack ==
  ASSUME Common, NEW next, RollBack(next) \/ (Leave /\ next = "close"), Truth' = Truth,
         next \notin {"start", "plan", "done"}
  PROVE  /\ me.at = "finally" /\ Common'
         /\ me'.at = (IF me.thrown THEN "close" ELSE next) /\ me'.thrown = me.thrown /\ me'.result = me.result
         /\ me'.loc = me.loc /\ me'.said = me.said /\ me'.todo = me.todo
         /\ Counts' <=> Counts
         /\ Plays
         /\ pg' \in {pg, RolledBack(pg)} /\ (pg.st \notin {"open", "aborted"} => pg' = pg)
<1>1. world' = world /\ fault' = fault /\ me.at = "finally" BY DEF RollBack, Leave, Do
<1>2. Shape /\ Session /\ Meant BY DEF Common
<1>3. pg' \in {pg, RolledBack(pg)} /\ me' = [me EXCEPT !.at = IF me.thrown THEN "close" ELSE next]
  BY DEF RollBack, Leave, Do, To
<1>4. Walks(IF me.thrown THEN "close" ELSE next, me.todo, me.said) /\ me'.loc = me.loc
  BY <1>2, <1>3 DEF Shape, Walks
<1>5. Shape'
  <2>1. (IF me.thrown THEN "close" ELSE next) \notin {"start", "plan", "done"} OBVIOUS
  <2> QED BY <1>1, <1>2, <1>4, <2>1, Going DEF Shape
<1>6. Meant' BY <1>1, <1>2, <1>4, Quiet DEF Walks
<1>7. Session'
  <2>1. me'.at \notin {"start", "done"} BY <1>4 DEF Walks
  <2>2. Moved BY <1>3 DEF Moved
  <2> QED BY <1>1, <1>2, <2>1, <2>2, Moving
<1>8. pg.st \notin {"open", "aborted"} => pg' = pg BY <1>3 DEF RolledBack
<1> QED BY <1>1, <1>3, <1>4, <1>5, <1>6, <1>7, <1>8 DEF Common, Walks, Counts, Plays

\* the canary,
LEMMA CreatesCanary ==
  ASSUME Common, NEW next, CreateCanary(next), Truth' = Truth, next \notin {"start", "plan", "done"}
  PROVE  /\ me.at = "canary" /\ Common' /\ Plays /\ Keeps /\ Walks(next, me.todo, me'.said)
         /\ me'.loc = me.loc \/ me'.loc = [me.loc EXCEPT !.canary = TRUE]
         /\ pg' = Failed \/ (Live /\ pg' = Made(pg, "canary"))
<1>1. world' = world /\ fault' = fault /\ me.at = "canary" BY DEF CreateCanary, Attempt, Do
<1>2. Shape /\ Session /\ Meant BY DEF Common
<1>3. \/ Live /\ pg' = Made(pg, "canary") /\ me' = [me EXCEPT !.at = next, !.loc.canary = TRUE]
      \/ pg' = Failed /\ me' = [[me EXCEPT !.at = next] EXCEPT !.said = @ \cup {[on |-> 0, arm |-> "canary", says |-> "note"]}]
  BY Zenon DEF CreateCanary, Attempt, Do, Said, To
<1>4. Session'
  <2>1. me'.at = next BY <1>2, <1>3 DEF Shape
  <2>2. Moved BY <1>3, Zenon DEF Moved
  <2> QED BY <1>1, <1>2, <2>1, <2>2, Moving
<1>5. CASE Live /\ pg' = Made(pg, "canary") /\ me' = [me EXCEPT !.at = next, !.loc.canary = TRUE]
  <2>1. Walks(next, me.todo, me.said) /\ me'.loc = [me.loc EXCEPT !.canary = TRUE] BY <1>2, <1>5 DEF Shape, Walks
  <2>2. Shape' BY <1>1, <1>2, <2>1, Going DEF Shape
  <2>3. Meant' /\ Keeps BY <1>1, <1>2, <2>1, Quiet DEF Walks, Keeps
  <2>4. Walks(next, me.todo, me'.said) BY <2>1 DEF Walks
  <2> QED BY <1>1, <1>4, <1>5, <2>1, <2>2, <2>3, <2>4 DEF Common, Plays, Walks
<1>6. CASE /\ pg' = Failed
           /\ me' = [[me EXCEPT !.at = next] EXCEPT !.said = @ \cup {[on |-> 0, arm |-> "canary", says |-> "note"]}]
  <2>1. /\ Walks(next, me.todo, me.said \cup {[on |-> 0, arm |-> "canary", says |-> "note"]})
        /\ me'.loc = me.loc
    BY <1>2, <1>6 DEF Shape, Walks
  <2>2. Shape' BY <1>1, <1>2, <2>1, Going DEF Shape
  <2>3. Meant' /\ Keeps BY <1>1, <1>2, <2>1, Noting DEF Walks
  <2>4. Walks(next, me.todo, me'.said) BY <2>1 DEF Walks
  <2> QED BY <1>1, <1>4, <1>6, <2>1, <2>2, <2>3, <2>4 DEF Common, Plays, Walks
<1> QED BY <1>3, <1>5, <1>6

\* the role,
LEMMA SwitchesRole ==
  ASSUME Common, NEW next, SwitchRole(next), Truth' = Truth, next \notin {"start", "plan", "done"}
  PROVE  /\ me.at = "role" /\ Common' /\ Plays /\ me'.loc = me.loc /\ me'.said = me.said
         /\ \/ Leaves /\ ~Counts' /\ pg' = Failed
            \/ Walks(next, me.todo, me.said) /\ Live /\ world.member /\ pg' = AsRole(pg, "app")
<1>1. world' = world /\ fault' = fault /\ me.at = "role" BY DEF SwitchRole, Await, Do
<1>2. Shape /\ Session /\ Meant BY DEF Common
<1>3. \/ Live /\ world.member /\ pg' = AsRole(pg, "app") /\ me' = [me EXCEPT !.at = next]
      \/ pg' = Failed /\ me' = [me EXCEPT !.at = "finally", !.thrown = TRUE]
  BY Zenon DEF SwitchRole, Await, Do, To, Thrown
<1>4. Session'
  <2>1. me'.at \in {next, "finally"} BY <1>2, <1>3 DEF Shape
  <2>2. Moved BY <1>3 DEF Moved, Roles
  <2> QED BY <1>1, <1>2, <2>1, <2>2, Moving
<1>5. CASE Live /\ world.member /\ pg' = AsRole(pg, "app") /\ me' = [me EXCEPT !.at = next]
  <2>1. Walks(next, me.todo, me.said) /\ me'.loc = me.loc BY <1>2, <1>5 DEF Shape, Walks
  <2>2. Shape' BY <1>1, <1>2, <2>1, Going DEF Shape
  <2>3. Meant' BY <1>1, <1>2, <2>1, Quiet DEF Walks
  <2> QED BY <1>1, <1>4, <1>5, <2>1, <2>2, <2>3 DEF Common, Walks, Plays
<1>6. CASE pg' = Failed /\ me' = [me EXCEPT !.at = "finally", !.thrown = TRUE]
  <2>1. Leaves BY <1>2, <1>6 DEF Shape, Leaves
  <2>2. Shape' /\ Meant' /\ ~Counts' /\ Plays BY <1>1, <2>1, Leaving
  <2> QED BY <1>1, <1>4, <1>6, <2>1, <2>2 DEF Common, Leaves
<1> QED BY <1>3, <1>5, <1>6

\* and the check of both.
LEMMA ChecksCanary ==
  ASSUME Common, NEW next, CheckCanary(next), Truth' = Truth, next \notin {"start", "plan", "done"}
  PROVE  /\ me.at = "check" /\ Common' /\ Plays /\ me'.loc = me.loc /\ me'.said = me.said
         /\ \/ Leaves /\ ~Counts' /\ pg' = RolledBack(pg)
            \/ Walks(next, me.todo, me.said) /\ (pg' = pg \/ (~Live /\ pg' = Failed))
<1>1. world' = world /\ fault' = fault /\ me.at = "check" BY DEF CheckCanary, Do
<1>2. Shape /\ Session /\ Meant BY DEF Common
<1>3. \/ (pg' = pg \/ (~Live /\ pg' = Failed)) /\ me' = [me EXCEPT !.at = next]
      \/ pg' = RolledBack(pg) /\ me' = [me EXCEPT !.at = "close", !.result = "refused"]
  BY Zenon DEF CheckCanary, Do, To, Ending
<1>4. Session'
  <2>1. me'.at \in {next, "close"} BY <1>2, <1>3 DEF Shape
  <2>2. Moved BY <1>3 DEF Moved
  <2> QED BY <1>1, <1>2, <2>1, <2>2, Moving
<1>5. CASE (pg' = pg \/ (~Live /\ pg' = Failed)) /\ me' = [me EXCEPT !.at = next]
  <2>1. Walks(next, me.todo, me.said) /\ me'.loc = me.loc BY <1>2, <1>5 DEF Shape, Walks
  <2>2. Shape' BY <1>1, <1>2, <2>1, Going DEF Shape
  <2>3. Meant' BY <1>1, <1>2, <2>1, Quiet DEF Walks
  <2> QED BY <1>1, <1>4, <1>5, <2>1, <2>2, <2>3 DEF Common, Walks, Plays
<1>6. CASE pg' = RolledBack(pg) /\ me' = [me EXCEPT !.at = "close", !.result = "refused"]
  <2>1. Leaves BY <1>2, <1>6 DEF Shape, Leaves
  <2>2. Shape' /\ Meant' /\ ~Counts' /\ Plays BY <1>1, <2>1, Leaving
  <2> QED BY <1>1, <1>4, <1>6, <2>1, <2>2 DEF Common, Leaves
<1> QED BY <1>3, <1>5, <1>6

\* A fault changes the session alone. It makes the exposed no fewer, and what
\* may be missed or misjudged no less.
LEMMA Striking ==
  ASSUME Common, Drop \/ Cancel,
         Truth'.exposed = Truth.exposed, Truth.blind \subseteq Truth'.blind, Truth.spurious \subseteq Truth'.spurious
  PROVE  /\ world' = world /\ me' = me /\ fault = "none" /\ fault' # "none" /\ Common'
         /\ \/ fault' = "lost" /\ pg'.st = "lost" /\ pg'.who = "nobody" /\ pg'.saves = <<>>
            \/ fault' = "cancelled" /\ pg.st = "open" /\ pg'.st = "aborted" /\ pg' = Failed
         /\ ~Live'
         /\ \A e : Done(e) => Done(e)'
         /\ \A k, x : Untold(k, x)' <=> Untold(k, x)
         /\ Unclear' <=> Unclear
<1>1. Session /\ Shape /\ Meant BY DEF Common
<1>2. world' = world /\ me' = me /\ fault = "none" /\ fault' \in {"lost", "cancelled"} BY DEF Drop, Cancel
<1>3. \/ fault' = "lost" /\ pg' = [[Closed EXCEPT !.kept = pg.kept] EXCEPT !.st = "lost"] /\ pg.st \in {"idle", "open", "aborted"}
      \/ fault' = "cancelled" /\ pg.st = "open" /\ pg' = Failed
  BY DEF Drop, Cancel, Closed
<1>4. Shape' BY <1>1, <1>2 DEF Shape, Queue, Count, Whole
<1>5. Meant' BY <1>1, <1>2 DEF Meant, Agreed, Meaning, Key
<1>6. ASSUME fault' = "lost", pg' = [[Closed EXCEPT !.kept = pg.kept] EXCEPT !.st = "lost"], pg.st \in {"idle", "open", "aborted"}
      PROVE  Session'
  <2>1. Sound([Closed EXCEPT !.kept = pg.kept]) BY Closing
  <2>2. Sound(pg') BY <1>6, <2>1, Connecting
  <2>3. pg'.st = "lost" /\ pg'.who = "nobody" /\ pg'.saves = <<>> /\ pg'.role = "conn" BY <1>6 DEF Closed
  <2>4. Proper(pg') BY <2>2, <2>3 DEF Proper, Roles
  <2> QED BY <1>1, <1>2, <1>6, <2>3, <2>4 DEF Session
<1>7. ASSUME fault' = "cancelled", pg.st = "open", pg' = Failed
      PROVE  Session'
  <2>1. Sound(pg') /\ pg'.saves = pg.saves /\ pg'.st = "aborted" BY <1>1, <1>7, Failing DEF Session, Proper
  <2>2. pg'.role = pg.role BY <1>1, <1>7 DEF Failed, Session, Proper, Sound
  <2>3. Proper(pg') BY <1>1, <2>1, <2>2 DEF Session, Proper
  <2> QED BY <1>1, <1>2, <1>7, <2>1, <2>3 DEF Session
<1>8. /\ Session'
      /\ \/ fault' = "lost" /\ pg'.st = "lost" /\ pg'.who = "nobody" /\ pg'.saves = <<>>
         \/ fault' = "cancelled" /\ pg.st = "open" /\ pg'.st = "aborted" /\ pg' = Failed
  <2>1. CASE fault' = "lost" /\ pg' = [[Closed EXCEPT !.kept = pg.kept] EXCEPT !.st = "lost"] /\ pg.st \in {"idle", "open", "aborted"}
    <3>1. pg'.st = "lost" /\ pg'.who = "nobody" /\ pg'.saves = <<>> BY <2>1 DEF Closed
    <3> QED BY <1>6, <2>1, <3>1
  <2>2. CASE fault' = "cancelled" /\ pg.st = "open" /\ pg' = Failed
    <3>1. pg'.st = "aborted" BY <1>1, <2>2, Failing DEF Session, Proper
    <3> QED BY <1>7, <2>2, <3>1
  <2> QED BY <1>3, <2>1, <2>2
<1>9. ~Live' BY <1>8 DEF Live
<1>10. /\ \A e : Done(e) => Done(e)'
       /\ \A k, x : Untold(k, x)' <=> Untold(k, x)
       /\ Unclear' <=> Unclear
  BY <1>2 DEF Done, Heard, Found, Untold, Unclear
<1> QED BY <1>2, <1>4, <1>5, <1>8, <1>9, <1>10 DEF Common

\* A guard begins with a closed session, all its targets and nothing said.
Begins(g) ==
  /\ world.guard = g /\ world \in Worlds[g] /\ fault = "none" /\ pg = Closed
  /\ DOMAIN me = {"at", "todo", "loc", "said", "thrown", "result"}
  /\ me.at = "start" /\ Whole(me.todo) /\ me.said = {} /\ me.thrown = FALSE /\ me.result = "none"

\* The shape and the session are right then.
LEMMA Beginning ==
  ASSUME NEW g \in Names, Begins(g)
  PROVE  Common
<1>1. Count \in Nat BY WorldAssumption DEF Begins, Count
<1>2. Queue(me.todo) BY <1>1, Listing DEF Begins
<1>3. Shape BY <1>1, <1>2 DEF Begins, Shape
<1>4. Session
  <2>1. Sound(Closed) BY Closing
  <2>2. Closed.st = "closed" /\ Closed.role = "conn" /\ Closed.saves = <<>> BY DEF Closed
  <2> QED BY <2>1, <2>2 DEF Begins, Session, Proper, Roles
<1> QED BY <1>3, <1>4 DEF Begins, Common, Meant, Agreed

\* Standing aside with some answers given: they mean what they say and are dropped.
LEMMA Dropping ==
  ASSUME Common, world' = world, fault' = fault, Truth' = Truth, Moved, me.at \notin {"start", "done"}, NEW S,
         DOMAIN me' = DOMAIN me, me'.at = "close", me'.todo = me.todo, me'.said = me.said \cup S,
         me'.thrown = me.thrown, me'.result = "skip",
         \A a \in S : Meaning(a) /\ a.says # "clear",
         \A a \in S, b \in me.said : a.says = "leak" /\ b.on = a.on /\ b.arm = a.arm => b.says # "clear"
  PROVE  Common' /\ ~Counts' /\ Plays /\ (Unclear => Unclear')
<1>1. Session /\ Shape /\ Meant BY DEF Common
<1>2. Meant' /\ (Unclear => Unclear') BY <1>1, TellingAll
<1>3. Session' BY <1>1, Moving
<1>4. Shape' BY <1>1 DEF Shape, Queue, Count
<1> QED BY <1>2, <1>3, <1>4 DEF Common, Counts, Plays

\* A step of nobody changes nothing of this.
LEMMA Resting ==
  ASSUME Common, Truth' = Truth, world' = world, fault' = fault, pg' = pg, me' = me
  PROVE  Common' /\ (\A e : Done(e)' <=> Done(e)) /\ (Counts' <=> Counts)
<1>1. Session' BY DEF Common, Session, Proper, Sound
<1>2. Shape' BY DEF Common, Shape, Count, Queue, Whole
<1>3. Meant' BY DEF Common, Meant, Meaning, Agreed, Key
<1> QED BY <1>1, <1>2, <1>3 DEF Common, Done, Heard, Found, Counts

-----------------------------------------------------------------------------
(* role-capabilities.                                                      *)

\* Nothing is called clear, and there is never a transaction.
RoleCapabilitiesKnow ==
  /\ Unclear
  /\ me.at \notin {"start", "done"} => pg.st \in {"idle", "lost"}

\* The two lists of grants are still to be read.
RoleCapabilitiesPending(e) == me.at \in {"start", "plan"} \/ (me.at = "auth" /\ e.arm = "read")

\* Everything exposed is pending or done.
RoleCapabilitiesInv == RoleCapabilitiesKnow /\ (Counts => \A e \in Truth.exposed : RoleCapabilitiesPending(e) \/ Done(e))

\* What is exposed to role-capabilities, and what of it is missed, misjudged or provable.
LEMMA RoleCapabilitiesPoints ==
  ASSUME world.guard = "role-capabilities"
  PROVE  /\ \A e : e \in Truth.exposed <=>
              /\ e = [on |-> e.on, arm |-> e.arm] /\ e.on \in 1..Count /\ e.arm = RC!Arm(world.targets[e.on])
              /\ world.targets[e.on].kind # "egress" /\ world.targets[e.on].genuine
              /\ e.on \in RC!Held({world.targets[e.on].kind}) /\ world.targets[e.on].usage
         /\ \A e : e \in Truth.blind <=> e \in Truth.exposed /\ e.arm = "read" /\ (world.auth = "error" \/ fault = "lost")
         /\ Truth.provable = Truth.exposed \ Truth.blind
         /\ \A k \in 1..Count : ~world.targets[k].genuine => [on |-> k, arm |-> "call"] \in Truth.spurious
<1>1. /\ Truth.exposed = RC!Exposed /\ Truth.blind = RC!Blind /\ Truth.provable = RC!Provable
      /\ Truth.spurious = RC!Spurious
  BY DEF Truth, RC!Truth
<1>2. \A e : e \in Truth.exposed <=>
              /\ e = [on |-> e.on, arm |-> e.arm] /\ e.on \in 1..Count /\ e.arm = RC!Arm(world.targets[e.on])
              /\ world.targets[e.on].kind # "egress" /\ world.targets[e.on].genuine
              /\ e.on \in RC!Held({world.targets[e.on].kind}) /\ world.targets[e.on].usage
  BY <1>1 DEF RC!Exposed, RC!Held, Count
<1> QED BY <1>1, <1>2 DEF RC!Blind, RC!Provable, RC!Spurious, Count

\* What is exposed to role-capabilities depends on the database and the fault alone.
LEMMA RoleCapabilitiesSame ==
  ASSUME world.guard = "role-capabilities", world' = world, fault' = fault
  PROVE  Truth' = Truth
<1>1. Truth = RC!Truth BY DEF Truth
<1>2. Truth' = RC!Truth' BY DEF Truth
<1>3. RC!Exposed' = RC!Exposed BY DEF RC!Arm, RC!Exposed
<1>4. RC!Blind' = RC!Blind BY <1>3 DEF RC!Blind
<1>5. RC!Provable' = RC!Provable BY <1>3, <1>4 DEF RC!Provable
<1>6. RC!Spurious' = RC!Spurious BY DEF RC!Spurious
<1>7. RC!Fragile' = RC!Fragile BY DEF RC!Fragile
<1> QED BY <1>1, <1>2, <1>3, <1>4, <1>5, <1>6, <1>7 DEF RC!Truth

\* A step of role-capabilities changes neither the database nor the fault.
LEMMA RoleCapabilitiesRest == ASSUME RC!Next PROVE world' = world /\ fault' = fault
BY DEF RC!Attempt, RC!AuthGrants, RC!Await, RC!Check, RC!Connect, RC!Disconnect, RC!Do, RC!FunctionGrants, RC!Leave,
     RC!Next, RC!Run

\* A step of role-capabilities keeps what it knows, and is one its runner expects.
LEMMA RoleCapabilitiesAnswers ==
  ASSUME Common, RoleCapabilitiesInv, world.guard = "role-capabilities", RC!Next
  PROVE  Common' /\ RoleCapabilitiesInv' /\ Plays
<1>u. world' = world /\ fault' = fault BY RoleCapabilitiesRest
<1>t. Truth' = Truth BY <1>u, RoleCapabilitiesSame
<1>b. /\ RC!Connect <=> Connect
      /\ RC!Disconnect <=> Disconnect
      /\ RC!Leave <=> Leave
  BY DEF RC!Closed, Closed, RC!Connect, Connect, RC!Disconnect, Disconnect, RC!Do, Do, RC!LeaksIn, LeaksIn, RC!Leave,
         Leave, RC!To, To, RC!Verdict, Verdict
<1>o. /\ RC!Live <=> Live
      /\ RC!Failed = Failed
  BY DEF RC!Live, Live, RC!Failed, Failed, RC!Closed, Closed
<1>c. Session /\ Shape /\ Meant /\ RoleCapabilitiesKnow BY DEF Common, RoleCapabilitiesInv
\* Leaving.
<1>l. ASSUME Leaves, me.at \notin {"start", "done"}, pg' \in {pg, Failed} PROVE Common' /\ RoleCapabilitiesInv' /\ Plays
  <2>1. Shape' /\ Meant' /\ ~Counts' /\ Plays BY <1>u, <1>t, <1>l, Leaving
  <2>2. Session' BY <1>u, <1>c, <1>l, Moving DEF Moved, Leaves
  <2>4. (Unclear' <=> Unclear) /\ (\A k, x : Untold(k, x)' <=> Untold(k, x)) BY <1>u, <1>t, <1>c, <1>l, Quiet
      DEF Leaves
  <2>5. pg'.st \in {pg.st, IF pg.st = "open" THEN "aborted" ELSE pg.st} BY <1>c, <1>l DEF Failed, Session, Proper,
      Sound
  <2>3. RoleCapabilitiesKnow'
    <3>1. me'.at \in {"finally", "close"} /\ me'.todo = me.todo /\ me'.said = me.said /\ me'.loc = me.loc /\ DOMAIN me' = DOMAIN me
      BY <1>l DEF Leaves
    <3> QED BY <1>u, <1>c, <1>l, <2>1, <2>4, <2>5, <3>1 DEF RoleCapabilitiesKnow
  <2> QED BY <2>1, <2>2, <2>3 DEF Common, RoleCapabilitiesInv
<1>e. /\ me' = RC!Thrown => Leaves
      /\ \A l : me' = RC!To(l) => Walks(l, me.todo, me.said) /\ me'.loc = me.loc
  BY <1>c DEF Shape, RC!Thrown, RC!To, Leaves, Walks
\* Going on with several answers.
<1>m. ASSUME NEW at, NEW todo, NEW S, Walks(at, todo, me.said \cup S), Queue(todo), Moved, me.at \notin {"start", "done"},
             at \notin {"start", "plan", "done"}, RoleCapabilitiesKnow',
             \A a \in S : Meaning(a) /\ a.says # "clear",
             \A a \in S, b \in me.said : a.says = "leak" /\ b.on = a.on /\ b.arm = a.arm => b.says # "clear",
             \A e \in Truth.exposed : Counts /\ RoleCapabilitiesPending(e) =>
                \/ RoleCapabilitiesPending(e)' \/ Done(e)
                \/ e \in Truth.blind
                \/ \E a \in S : a.on = e.on /\ (fault = "none" /\ e \in Truth.provable => a.arm = e.arm /\ a.says = "leak")
      PROVE  Common' /\ RoleCapabilitiesInv' /\ Plays
  <2>1. Shape' BY <1>u, <1>c, <1>m, Going
  <2>2. /\ Meant'
        /\ \A e : Done(e) => Done(e)'
        /\ \A e : (\E a \in S : a.on = e.on) => Heard(e)'
        /\ \A e : (\E a \in S : a.on = e.on /\ a.arm = e.arm /\ a.says = "leak") => Done(e)'
    BY <1>u, <1>t, <1>c, <1>m, TellingAll DEF Walks
  <2>3. Session' BY <1>u, <1>c, <1>m, Moving DEF Walks
  <2>4. (Counts' => Counts) /\ Plays BY <1>m DEF Walks, Counts, Plays
  <2>5. \A e \in Truth.exposed : e \in Truth.blind => Done(e)' BY <1>u, <1>t, RoleCapabilitiesPoints DEF Done
  <2>6. ASSUME NEW e \in Truth.exposed, Counts, RoleCapabilitiesPending(e) PROVE RoleCapabilitiesPending(e)' \/ Done(e)'
    <3>1. CASE \E a \in S : a.on = e.on /\ (fault = "none" /\ e \in Truth.provable => a.arm = e.arm /\ a.says = "leak")
      <4>1. Heard(e)' BY <2>2, <3>1
      <4>2. fault = "none" /\ e \in Truth.provable => Done(e)' BY <2>2, <3>1
      <4>3. ~(fault = "none" /\ e \in Truth.provable) => Done(e)' BY <1>u, <1>t, <4>1 DEF Done
      <4> QED BY <4>2, <4>3
    <3> QED BY <1>m, <2>2, <2>5, <2>6, <3>1
  <2> QED BY <1>t, <1>m, <2>1, <2>2, <2>3, <2>4, <2>6 DEF Common, RoleCapabilitiesInv
<1>w. \A k \in 1..Count : /\ world.targets[k].kind \in {"bypass", "egress", "auth"}
                          /\ world.targets[k].kind = "auth" => world.targets[k].genuine
  BY <1>c, CapabilityAssumption DEF Shape, Count
\* What is classified means what it says, and none of it is forgotten.
<1>h. ASSUME NEW kinds
      PROVE  /\ \A a \in RC!Classified(kinds) : Meaning(a) /\ a.says # "clear"
             /\ \A e \in Truth.exposed : world.targets[e.on].kind \in kinds =>
                  \E a \in RC!Classified(kinds) : a.on = e.on /\ a.arm = e.arm /\ a.says = "leak"
  <2>1. ASSUME NEW a \in RC!Classified(kinds) PROVE Meaning(a) /\ a.says # "clear"
    <3>1. PICK k \in RC!Held(kinds) :
             a = [on |-> k, arm |-> RC!Arm(world.targets[k]), says |-> RC!ClassifyCapability(world.targets[k])]
      BY DEF RC!Classified
    <3>2. /\ k \in 1..Count /\ k \in RC!Held({world.targets[k].kind})
          /\ a.on = k /\ a.arm = RC!Arm(world.targets[k]) /\ a.says \in {"leak", "note"}
          /\ a.says = "leak" => world.targets[k].usage /\ world.targets[k].kind # "egress"
          /\ a = [on |-> a.on, arm |-> a.arm, says |-> a.says]
      BY <3>1 DEF RC!Held, RC!ClassifyCapability, Count
    <3>3. CASE a.says = "leak" /\ world.targets[k].genuine
      <4>1. Key(a) \in Truth.exposed BY <3>2, <3>3, RoleCapabilitiesPoints DEF Key
      <4> QED BY <3>2, <4>1 DEF Meaning
    <3>4. CASE a.says = "leak" /\ ~world.targets[k].genuine
      <4>1. a.arm = "call" BY <1>w, <3>2, <3>4 DEF RC!Arm
      <4> QED BY <3>2, <3>4, <4>1, RoleCapabilitiesPoints DEF Key, Meaning
    <3> QED BY <3>2, <3>3, <3>4 DEF Meaning
  <2>2. ASSUME NEW e \in Truth.exposed, world.targets[e.on].kind \in kinds
        PROVE  \E a \in RC!Classified(kinds) : a.on = e.on /\ a.arm = e.arm /\ a.says = "leak"
    <3> DEFINE a == [on |-> e.on, arm |-> RC!Arm(world.targets[e.on]), says |-> RC!ClassifyCapability(world.targets[e.on])]
    <3>1. e.on \in RC!Held(kinds) BY <2>2, RoleCapabilitiesPoints DEF RC!Held
    <3>2. a \in RC!Classified(kinds) BY <3>1 DEF RC!Classified
    <3>3. a.says = "leak" BY RoleCapabilitiesPoints DEF RC!ClassifyCapability
    <3>4. a.on = e.on /\ a.arm = e.arm BY RoleCapabilitiesPoints
    <3> HIDE DEF a
    <3> QED BY <3>2, <3>3, <3>4
  <2> QED BY <2>1, <2>2
<1>1. CASE RC!FunctionGrants
  <2> DEFINE S == RC!Classified({"bypass", "egress"})
  <2>1. /\ me.at = "plan"
        /\ \/ pg' = pg /\ me' = [RC!To("auth") EXCEPT !.said = @ \cup S]
           \/ pg' = Failed /\ me' = RC!Thrown
    BY <1>1, <1>o, Zenon DEF RC!FunctionGrants, RC!Await, RC!Do
  <2>2. CASE pg' = pg /\ me' = [RC!To("auth") EXCEPT !.said = @ \cup S]
    <3>1. \A a \in S : Meaning(a) /\ a.says # "clear" BY <1>h
    <3>2. ASSUME NEW e \in Truth.exposed
          PROVE  e.arm = "read" \/ \E a \in S : a.on = e.on /\ a.arm = e.arm /\ a.says = "leak"
      <4>1. e.arm = "read" \/ world.targets[e.on].kind \in {"bypass", "egress"}
        <5>1. e.on \in 1..Count /\ e.arm = RC!Arm(world.targets[e.on]) BY RoleCapabilitiesPoints
        <5> QED BY <1>w, <5>1 DEF RC!Arm
      <4> QED BY <1>h, <4>1
    <3> HIDE DEF S
    <3>3. Walks("auth", me.todo, me.said \cup S) /\ me'.loc = me.loc BY <1>c, <2>2 DEF Shape, RC!To, Walks
    <3>4. RoleCapabilitiesKnow'
      <4>1. Unclear' BY <1>c, <3>1, <3>3 DEF Unclear, Walks, RoleCapabilitiesKnow
      <4> QED BY <1>c, <2>1, <2>2, <4>1 DEF RoleCapabilitiesKnow
    <3>5. \A a \in S, b \in me.said : a.says = "leak" /\ b.on = a.on /\ b.arm = a.arm => b.says # "clear"
      BY <1>c DEF RoleCapabilitiesKnow, Unclear
    <3>6. \A e : e.arm = "read" => RoleCapabilitiesPending(e)' BY <3>3 DEF Walks, RoleCapabilitiesPending
    <3> QED BY <1>c, <1>m, <2>1, <2>2, <3>1, <3>2, <3>3, <3>4, <3>5, <3>6 DEF Moved, Shape
  <2> QED BY <1>e, <1>l, <2>1, <2>2
<1>2. CASE RC!AuthGrants
  <2> DEFINE S == RC!Classified({"auth"})
             N == {[on |-> 0, arm |-> "read", says |-> "note"]}
  <2>1. /\ me.at = "auth"
        /\ \/ pg' = pg /\ me' = [RC!To("close") EXCEPT !.said = @ \cup S]
           \/ pg' = Failed /\ me' = [RC!To("close") EXCEPT !.said = @ \cup N] /\ (~Live \/ world.auth = "error")
    BY <1>2, <1>o, Zenon DEF RC!AuthGrants, RC!Attempt, RC!Do, RC!Said
  <2>2. \A a \in S : Meaning(a) /\ a.says # "clear" BY <1>h
  <2>3. \A a \in N : Meaning(a) /\ a.says # "clear" BY DEF Meaning
  <2>4. ASSUME NEW e \in Truth.exposed, e.arm = "read"
        PROVE  \E a \in S : a.on = e.on /\ a.arm = e.arm /\ a.says = "leak"
    <3>1. world.targets[e.on].kind = "auth" BY <2>4, RoleCapabilitiesPoints DEF RC!Arm
    <3> QED BY <1>h, <3>1
  <2> HIDE DEF S, N
  <2>5. PICK T \in {S, N} :
             /\ me' = [RC!To("close") EXCEPT !.said = @ \cup T]
             /\ (T = S /\ pg' = pg) \/ (pg' = Failed /\ (~Live \/ world.auth = "error"))
    BY <2>1
  <2>6. Walks("close", me.todo, me.said \cup T) BY <1>c, <2>5 DEF Shape, RC!To, Walks
  <2>7. \A a \in T : Meaning(a) /\ a.says # "clear" BY <2>2, <2>3
  <2>8. RoleCapabilitiesKnow'
    <3>1. Unclear' BY <1>c, <2>6, <2>7 DEF Unclear, Walks, RoleCapabilitiesKnow
    <3>2. pg'.st \in {"idle", "lost"} BY <1>c, <2>1, <2>5 DEF RoleCapabilitiesKnow, Failed, Session, Proper, Sound
    <3> QED BY <2>6, <3>1, <3>2 DEF RoleCapabilitiesKnow
  <2>9. \A a \in T, b \in me.said : a.says = "leak" /\ b.on = a.on /\ b.arm = a.arm => b.says # "clear"
    BY <1>c DEF RoleCapabilitiesKnow, Unclear
  <2>10. ASSUME NEW e \in Truth.exposed, RoleCapabilitiesPending(e)
         PROVE  e \in Truth.blind \/ \E a \in T : a.on = e.on /\ a.arm = e.arm /\ a.says = "leak"
    <3>1. e.arm = "read" BY <2>1, <2>10 DEF RoleCapabilitiesPending
    <3>2. CASE T = S BY <2>4, <3>1, <3>2
    <3>3. CASE ~Live \/ world.auth = "error"
      <4>1. ~Live => fault = "lost" BY <1>c, <2>1 DEF Live, Session, RoleCapabilitiesKnow
      <4> QED BY <3>1, <3>3, <4>1, RoleCapabilitiesPoints
    <3> QED BY <2>5, <3>2, <3>3
  <2>11. Moved BY <2>5 DEF Moved
  <2> QED BY <1>c, <1>m, <2>1, <2>6, <2>7, <2>8, <2>9, <2>10, <2>11 DEF Shape
<1>3. CASE RC!Leave
  <2>1. /\ me.at = "finally" /\ Common' /\ Plays /\ me'.at = (IF me.thrown THEN "close" ELSE "close")
        /\ me'.thrown = me.thrown /\ me'.result = me.result
        /\ me'.loc = me.loc /\ me'.said = me.said /\ me'.todo = me.todo /\ (Counts' <=> Counts)
        /\ pg' \in {pg, RolledBack(pg)} /\ (pg.st \notin {"open", "aborted"} => pg' = pg)
    BY <1>b, <1>t, <1>3, RollsBack
  <2>2. (\A e : Done(e)' <=> Done(e)) /\ (Unclear' <=> Unclear) BY <1>u, <1>t, <1>c, <2>1, Quiet
  <2>3. RoleCapabilitiesKnow' BY <1>u, <1>c, <2>1, <2>2 DEF RoleCapabilitiesKnow
  <2>4. \A e \in Truth.exposed : RoleCapabilitiesPending(e) /\ Counts => RoleCapabilitiesPending(e)'
    BY <1>u, <2>1 DEF RoleCapabilitiesPending
  <2> QED BY <1>t, <2>1, <2>2, <2>3, <2>4 DEF RoleCapabilitiesInv
<1>4. CASE RC!Connect
  <2>1. /\ me.at = "start" /\ Common' /\ Plays /\ me'.loc = me.loc /\ me'.said = {} /\ me'.todo = me.todo
        /\ \/ me'.at = "plan" /\ pg' = [pg EXCEPT !.st = "idle"] /\ pg'.st = "idle" /\ Whole(me'.todo)
           \/ me'.at = "done" /\ ~Counts' /\ pg' = pg
    BY <1>b, <1>t, <1>4, Connects
  <2>2. RoleCapabilitiesKnow' BY <1>u, <1>c, <2>1 DEF RoleCapabilitiesKnow, Unclear
  <2>3. Counts' => \A e : RoleCapabilitiesPending(e)' BY <2>1 DEF RoleCapabilitiesPending
  <2> QED BY <2>1, <2>2, <2>3 DEF RoleCapabilitiesInv
<1>5. CASE RC!Disconnect
  <2>1. /\ me.at = "close" /\ Common' /\ Plays /\ me'.at = "done"
        /\ me'.loc = me.loc /\ me'.said = me.said /\ me'.todo = me.todo /\ (Counts' => Counts)
    BY <1>b, <1>t, <1>5, Disconnects
  <2>2. (\A e : Done(e)' <=> Done(e)) /\ (Unclear' <=> Unclear) BY <1>u, <1>t, <1>c, <2>1, Quiet
  <2>3. RoleCapabilitiesKnow' BY <1>u, <1>c, <2>1, <2>2 DEF RoleCapabilitiesKnow
  <2>4. \A e : ~RoleCapabilitiesPending(e) BY <2>1 DEF RoleCapabilitiesPending
  <2> QED BY <1>t, <2>1, <2>2, <2>3, <2>4 DEF RoleCapabilitiesInv
<1> QED BY <1>1, <1>2, <1>3, <1>4, <1>5 DEF RC!Next, RC!Check, RC!Run

\* So does a fault, whenever it strikes.
LEMMA RoleCapabilitiesStruck ==
  ASSUME Common, RoleCapabilitiesInv, world.guard = "role-capabilities", Drop \/ Cancel
  PROVE  Common' /\ RoleCapabilitiesInv'
<1>1. world' = world /\ fault = "none" BY DEF Drop, Cancel
<1>2. Truth'.exposed = Truth.exposed /\ Truth.blind \subseteq Truth'.blind /\ Truth.spurious \subseteq Truth'.spurious
  <2>1. Truth = RC!Truth /\ Truth' = RC!Truth' BY <1>1 DEF Truth
  <2>2. RC!Exposed' = RC!Exposed BY <1>1 DEF RC!Arm, RC!Exposed
  <2>3. RC!Blind \subseteq RC!Blind' BY <1>1, <2>2 DEF RC!Blind
  <2>4. RC!Spurious \subseteq RC!Spurious' BY <1>1 DEF RC!Spurious
  <2> QED BY <2>1, <2>2, <2>3, <2>4 DEF RC!Truth
<1>3. /\ me' = me /\ fault' # "none" /\ Common'
      /\ \/ fault' = "lost" /\ pg'.st = "lost" /\ pg'.who = "nobody" /\ pg'.saves = <<>>
         \/ fault' = "cancelled" /\ pg.st = "open" /\ pg'.st = "aborted" /\ pg' = Failed
      /\ \A e : Done(e) => Done(e)'
      /\ \A k, x : Untold(k, x)' <=> Untold(k, x)
      /\ Unclear' <=> Unclear
  BY <1>2, Striking
<1>4. RoleCapabilitiesKnow' BY <1>1, <1>3 DEF RoleCapabilitiesInv, RoleCapabilitiesKnow
<1>5. \A e : RoleCapabilitiesPending(e) => RoleCapabilitiesPending(e)' BY <1>1, <1>3 DEF RoleCapabilitiesPending
<1> QED BY <1>2, <1>3, <1>4, <1>5 DEF RoleCapabilitiesInv, Counts

\* Role-capabilities begins so.
LEMMA RoleCapabilitiesBegins == ASSUME RC!Init PROVE Common /\ RoleCapabilitiesInv /\ world.guard = "role-capabilities"
<1>1. Begins("role-capabilities") /\ me.loc = [none |-> 0]
  BY WorldAssumption DEF Names, Begins, Whole, Count, Closed, RC!Init, RC!Enter, RC!Entered, RC!Closed
<1>2. Common BY <1>1, Beginning DEF Names
<1>3. RoleCapabilitiesKnow BY <1>1 DEF RoleCapabilitiesKnow, Begins, Unclear
<1> QED BY <1>1, <1>2, <1>3 DEF RoleCapabilitiesInv, RoleCapabilitiesPending, Begins

\* A step of nobody keeps it.
LEMMA RoleCapabilitiesStays ==
  ASSUME Common, RoleCapabilitiesInv, world.guard = "role-capabilities", UNCHANGED vars
  PROVE  Common' /\ RoleCapabilitiesInv'
<1>1. world' = world /\ fault' = fault /\ pg' = pg /\ me' = me BY DEF vars
<1>2. Truth' = Truth BY <1>1, RoleCapabilitiesSame
<1>3. Common' /\ (\A e : Done(e)' <=> Done(e)) /\ (Counts' <=> Counts) BY <1>1, <1>2, Resting
<1>4. RoleCapabilitiesKnow' /\ (\A e : RoleCapabilitiesPending(e)' <=> RoleCapabilitiesPending(e))
  BY <1>1, <1>2 DEF RoleCapabilitiesInv, RoleCapabilitiesKnow, RoleCapabilitiesPending, Unclear
<1> QED BY <1>2, <1>3, <1>4 DEF RoleCapabilitiesInv

\* At the end nothing is pending, and a question is a target and an arm.
LEMMA RoleCapabilitiesEnds ==
  ASSUME Common, world.guard = "role-capabilities", RoleCapabilitiesInv, me.at = "done", Counts
  PROVE  /\ \A e \in Truth.exposed : e = Key(e) /\ Done(e)
         /\ Truth.provable \subseteq Truth.exposed
<1>1. \A e : ~RoleCapabilitiesPending(e) BY DEF RoleCapabilitiesPending
<1> QED BY <1>1, RoleCapabilitiesPoints DEF RoleCapabilitiesInv, Key

-----------------------------------------------------------------------------
(* constraint-oracles.                                                     *)

\* Nothing is called clear: no answer of this guard denies an oracle.
ConstraintOraclesKnow == Unclear

\* The question is still to come: unique indexes first, foreign keys after them.
ConstraintOraclesPending(e) == me.at \in {"start", "plan", "facts", "unique"} \/ (me.at = "fk" /\ e.arm = "fk")

\* Everything exposed is pending or done.
ConstraintOraclesInv == ConstraintOraclesKnow /\ (Counts => \A e \in Truth.exposed : ConstraintOraclesPending(e) \/ Done(e))

\* What is exposed to constraint-oracles, and what of it is missed, misjudged or provable.
LEMMA ConstraintOraclesPoints ==
  ASSUME world.guard = "constraint-oracles"
  PROVE  /\ \A e : e \in Truth.exposed <=>
              /\ e = [on |-> e.on, arm |-> e.arm] /\ e.arm \in {"unique", "fk"} /\ e.on \in CO!Kind(e.arm)
              /\ world.targets[e.on].tenant
              /\ e.arm = "unique" => ~CO!Scoped(world.targets[e.on]) /\ CO!Guessable(world.targets[e.on])
              /\ e.arm = "fk" => world.targets[e.on].parent /\ "tenant" \notin world.targets[e.on].key
         /\ \A e : e \in Truth.blind <=>
              /\ e \in Truth.exposed /\ e.arm = "unique"
              /\ \/ world.targets[e.on].primary \/ "tenant" \in world.targets[e.on].includes
                 \/ /\ world.targets[e.on].expression
                    /\ "tenant" \in world.targets[e.on].names \/ world.targets[e.on].names \subseteq CO!Unguessable
         /\ \A e : e \in Truth.provable => e \in Truth.exposed /\ e \notin Truth.blind /\ e.arm = "unique"
         /\ \A k \in CO!Kind("unique") :
              /\ ~CO!Guessable(world.targets[k])
              /\ \/ "secret" \in CO!Columns(world.targets[k]) \cup world.targets[k].names
                 \/ "guess" \in world.targets[k].includes
              => [on |-> k, arm |-> "unique"] \in Truth.spurious
<1>1. /\ Truth.exposed = CO!Exposed /\ Truth.blind = CO!Blind /\ Truth.provable = CO!Provable
      /\ Truth.spurious = CO!Spurious
  BY DEF Truth, CO!Truth
<1>2. \A e : e \in Truth.exposed <=>
              /\ e = [on |-> e.on, arm |-> e.arm] /\ e.arm \in {"unique", "fk"} /\ e.on \in CO!Kind(e.arm)
              /\ world.targets[e.on].tenant
              /\ e.arm = "unique" => ~CO!Scoped(world.targets[e.on]) /\ CO!Guessable(world.targets[e.on])
              /\ e.arm = "fk" => world.targets[e.on].parent /\ "tenant" \notin world.targets[e.on].key
  BY <1>1 DEF CO!Exposed
<1>3. \A e : e \in Truth.blind <=>
              /\ e \in Truth.exposed /\ e.arm = "unique"
              /\ \/ world.targets[e.on].primary \/ "tenant" \in world.targets[e.on].includes
                 \/ /\ world.targets[e.on].expression
                    /\ "tenant" \in world.targets[e.on].names \/ world.targets[e.on].names \subseteq CO!Unguessable
  BY <1>1 DEF CO!Blind
<1>4. \A e : e \in Truth.provable => e \in Truth.exposed /\ e \notin Truth.blind /\ e.arm = "unique"
  BY <1>1 DEF CO!Provable
<1>5. \A k \in CO!Kind("unique") :
              /\ ~CO!Guessable(world.targets[k])
              /\ \/ "secret" \in CO!Columns(world.targets[k]) \cup world.targets[k].names
                 \/ "guess" \in world.targets[k].includes
              => [on |-> k, arm |-> "unique"] \in Truth.spurious
  BY <1>1 DEF CO!Spurious
<1> QED BY <1>2, <1>3, <1>4, <1>5

\* An index is reported when it is an oracle, or one of those listed.
LEMMA OraclesReported ==
  ASSUME Common, world.guard = "constraint-oracles", NEW arm \in {"unique", "fk"}
  PROVE  /\ \A a \in CO!Reported(arm) : Meaning(a) /\ a.says # "clear"
         /\ \A e \in Truth.exposed : e.arm = arm /\ e \notin Truth.blind =>
              \E a \in CO!Reported(arm) : a.on = e.on /\ a.arm = e.arm /\ (e \in Truth.provable => a.says = "leak")
<1>w. \A k \in 1..Count :
        world.targets[k].key \cup world.targets[k].includes \cup world.targets[k].names \subseteq {"tenant", "guess", "uuid", "secret"}
  BY OracleAssumption DEF Common, Shape, Count
<1> DEFINE says(k) == IF arm = "fk" THEN CO!ClassifyForeignKey(world.targets[k]) ELSE CO!ClassifyUniqueIndex(world.targets[k])
           a(k) == [on |-> k, arm |-> arm, says |-> says(k)]
<1>1. CO!Found(arm) = {a(k) : k \in CO!Kind(arm)} BY Zenon DEF CO!Found
<1>2. \A k \in CO!Kind(arm) : k \in 1..Count BY DEF CO!Kind, Count
<1>3. ASSUME NEW k \in CO!Kind(arm), says(k) = "leak"
      PROVE  [on |-> k, arm |-> arm] \in Truth.exposed \cup Truth.spurious
  <2>1. arm = "unique" BY <1>3 DEF CO!ClassifyForeignKey
  <2> DEFINE t == world.targets[k]
  <2>2. CO!ClassifyUniqueIndex(t) = "leak" BY <1>3, <2>1
  <2> HIDE DEF t, says
  <2>3. /\ t.tenant /\ "tenant" \notin CO!Columns(t)
        /\ t.expression => "tenant" \notin t.names /\ ~(t.names \subseteq {"uuid"})
        /\ ~t.expression => ~(CO!Columns(t) \subseteq {"uuid"})
    BY <2>2 DEF CO!ClassifyUniqueIndex, CO!Unguessable
  <2>4. ~CO!Scoped(t) BY <2>3 DEF CO!Scoped, CO!Columns
  <2>5. CASE CO!Guessable(t) BY <1>3, <2>1, <2>3, <2>4, <2>5, ConstraintOraclesPoints DEF t
  <2>6. CASE ~CO!Guessable(t)
    <3>1. "guess" \notin t.key /\ (t.expression => "guess" \notin t.names) BY <2>6 DEF CO!Guessable
    <3>2. t.key \cup t.includes \cup t.names \subseteq {"tenant", "guess", "uuid", "secret"} BY <1>w, <1>2 DEF t
    <3>3. "secret" \in CO!Columns(t) \cup t.names \/ "guess" \in t.includes
      BY <2>3, <3>1, <3>2 DEF CO!Columns
    <3> QED BY <2>1, <2>6, <3>3, ConstraintOraclesPoints DEF t
  <2> QED BY <2>5, <2>6
<1>4. ASSUME NEW e \in Truth.exposed, e.arm = arm, e \notin Truth.blind
      PROVE  /\ e.on \in CO!Kind(arm) /\ says(e.on) \in {"leak", "note"}
             /\ e \in Truth.provable => says(e.on) = "leak"
  <2> DEFINE t == world.targets[e.on]
  <2>0. e.on \in CO!Kind(arm) /\ t.tenant BY <1>4, ConstraintOraclesPoints
  <2>1. CASE arm = "fk"
    <3>1. t.parent /\ "tenant" \notin t.key /\ e \notin Truth.provable BY <1>4, <2>1, ConstraintOraclesPoints
    <3> QED BY <2>0, <2>1, <3>1 DEF CO!ClassifyForeignKey
  <2>2. CASE arm = "unique"
    <3>1. /\ ~CO!Scoped(t) /\ CO!Guessable(t) /\ ~t.primary /\ "tenant" \notin t.includes
          /\ t.expression => "tenant" \notin t.names /\ ~(t.names \subseteq CO!Unguessable)
      BY <1>4, <2>2, ConstraintOraclesPoints
    <3>2. says(e.on) = CO!ClassifyUniqueIndex(t) BY <2>2
    <3> HIDE DEF t, says
    <3>3. "tenant" \notin CO!Columns(t) BY <3>1 DEF CO!Scoped, CO!Columns
    <3>4. CASE t.expression
      <4>1. t.names # {} BY <3>1, <3>4
      <4>2. CO!ClassifyUniqueIndex(t) = "leak" BY <2>0, <3>1, <3>3, <3>4, <4>1 DEF CO!ClassifyUniqueIndex, t
      <4> QED BY <2>0, <3>2, <4>2
    <3>5. CASE ~t.expression
      <4>1. "guess" \in CO!Columns(t) BY <3>1, <3>5 DEF CO!Guessable, CO!Columns
      <4>2. CO!ClassifyUniqueIndex(t) = "leak"
        BY <2>0, <3>1, <3>3, <3>5, <4>1 DEF CO!ClassifyUniqueIndex, CO!Unguessable, t
      <4> QED BY <2>0, <3>2, <4>2
    <3> QED BY <3>4, <3>5
  <2> QED BY <2>1, <2>2
<1>5. ASSUME NEW b \in CO!Reported(arm) PROVE Meaning(b) /\ b.says # "clear"
  <2>1. PICK k \in CO!Kind(arm) : b = a(k) BY <1>1, <1>5 DEF CO!Reported
  <2>2. b.on = k /\ b.arm = arm /\ b.says = says(k) /\ b = [on |-> b.on, arm |-> b.arm, says |-> b.says] BY <2>1
  <2>3. b.says \in {"leak", "note"} BY DEF CO!Reported
  <2> HIDE DEF says, a
  <2> QED BY <1>3, <2>2, <2>3 DEF Meaning, Key
<1>6. ASSUME NEW e \in Truth.exposed, e.arm = arm, e \notin Truth.blind
      PROVE  \E b \in CO!Reported(arm) : b.on = e.on /\ b.arm = e.arm /\ (e \in Truth.provable => b.says = "leak")
  <2>1. a(e.on).on = e.on /\ a(e.on).arm = arm /\ a(e.on).says = says(e.on) OBVIOUS
  <2>2. a(e.on) \in CO!Found(arm) BY <1>1, <1>4, <1>6
  <2> HIDE DEF says, a
  <2>3. a(e.on) \in CO!Reported(arm) BY <1>4, <1>6, <2>1, <2>2 DEF CO!Reported
  <2> QED BY <1>4, <1>6, <2>1, <2>3
<1> QED BY <1>5, <1>6

\* What is exposed to constraint-oracles depends on the database and the fault alone.
LEMMA ConstraintOraclesSame ==
  ASSUME world.guard = "constraint-oracles", world' = world, fault' = fault
  PROVE  Truth' = Truth
<1>1. Truth = CO!Truth BY DEF Truth
<1>2. Truth' = CO!Truth' BY DEF Truth
<1>3. CO!Exposed' = CO!Exposed BY DEF CO!Exposed, CO!Guessable, CO!Kind, CO!Scoped
<1>4. CO!Blind' = CO!Blind BY <1>3 DEF CO!Blind, CO!Unguessable
<1>5. CO!Provable' = CO!Provable BY <1>3, <1>4 DEF CO!Provable
<1>6. CO!Spurious' = CO!Spurious BY DEF CO!Columns, CO!Guessable, CO!Kind, CO!Spurious
<1>7. CO!Fragile' = CO!Fragile BY DEF CO!Fragile
<1> QED BY <1>1, <1>2, <1>3, <1>4, <1>5, <1>6, <1>7 DEF CO!Truth

\* A step of constraint-oracles changes neither the database nor the fault.
LEMMA ConstraintOraclesRest == ASSUME CO!Next PROVE world' = world /\ fault' = fault
BY DEF CO!Await, CO!Check, CO!ColumnFacts, CO!Connect, CO!Disconnect, CO!Do, CO!ForeignKeys, CO!Leave, CO!Next,
    CO!Run,
     CO!TenantColumns, CO!UniqueIndexes

\* A step of constraint-oracles keeps what it knows, and is one its runner expects.
LEMMA ConstraintOraclesAnswers ==
  ASSUME Common, ConstraintOraclesInv, world.guard = "constraint-oracles", CO!Next
  PROVE  Common' /\ ConstraintOraclesInv' /\ Plays
<1>u. world' = world /\ fault' = fault BY ConstraintOraclesRest
<1>t. Truth' = Truth BY <1>u, ConstraintOraclesSame
<1>b. /\ CO!Connect <=> Connect
      /\ CO!Disconnect <=> Disconnect
      /\ CO!Leave <=> Leave
  BY DEF CO!Closed, Closed, CO!Connect, Connect, CO!Disconnect, Disconnect, CO!Do, Do, CO!LeaksIn, LeaksIn, CO!Leave,
         Leave, CO!To, To, CO!Verdict, Verdict
<1>o. /\ CO!Live <=> Live
      /\ CO!Failed = Failed
  BY DEF CO!Live, Live, CO!Failed, Failed, CO!Closed, Closed
<1>c. Session /\ Shape /\ Meant /\ ConstraintOraclesKnow BY DEF Common, ConstraintOraclesInv
\* Leaving.
<1>l. ASSUME Leaves, me.at \notin {"start", "done"}, pg' \in {pg, Failed} PROVE Common' /\ ConstraintOraclesInv' /\ Plays
  <2>1. Shape' /\ Meant' /\ ~Counts' /\ Plays BY <1>u, <1>t, <1>l, Leaving
  <2>2. Session' BY <1>u, <1>c, <1>l, Moving DEF Moved, Leaves
  <2>4. (Unclear' <=> Unclear) /\ (\A k, x : Untold(k, x)' <=> Untold(k, x)) BY <1>u, <1>t, <1>c, <1>l, Quiet
      DEF Leaves
  <2>5. pg'.st \in {pg.st, IF pg.st = "open" THEN "aborted" ELSE pg.st} BY <1>c, <1>l DEF Failed, Session, Proper,
      Sound
  <2>3. ConstraintOraclesKnow'
    <3>1. me'.at \in {"finally", "close"} /\ me'.todo = me.todo /\ me'.said = me.said /\ me'.loc = me.loc /\ DOMAIN me' = DOMAIN me
      BY <1>l DEF Leaves
    <3> QED BY <1>u, <1>c, <1>l, <2>1, <2>4, <2>5, <3>1 DEF ConstraintOraclesKnow
  <2> QED BY <2>1, <2>2, <2>3 DEF Common, ConstraintOraclesInv
\* Going on without an answer.
<1>s. ASSUME NEW at, NEW todo, Walks(at, todo, me.said), Queue(todo), Moved, me.at \notin {"start", "done"},
             at \notin {"start", "plan", "done"}, ConstraintOraclesKnow',
             \A e \in Truth.exposed : Counts /\ ConstraintOraclesPending(e) => ConstraintOraclesPending(e)' \/ Done(e)
      PROVE  Common' /\ ConstraintOraclesInv' /\ Plays
  <2>1. Shape' BY <1>u, <1>c, <1>s, Going
  <2>2. Meant' /\ \A e : Done(e)' <=> Done(e) BY <1>u, <1>t, <1>c, <1>s, Quiet DEF Walks
  <2>3. Session' BY <1>u, <1>c, <1>s, Moving DEF Walks
  <2>4. (Counts' => Counts) /\ Plays BY <1>s DEF Walks, Counts, Plays
  <2> QED BY <1>t, <1>s, <2>1, <2>2, <2>3, <2>4 DEF Common, ConstraintOraclesInv
<1>e. /\ me' = CO!Thrown => Leaves
      /\ \A l : me' = CO!To(l) => Walks(l, me.todo, me.said) /\ me'.loc = me.loc
  BY <1>c DEF Shape, CO!Thrown, CO!To, Leaves, Walks
\* Going on with several answers.
<1>m. ASSUME NEW at, NEW todo, NEW S, Walks(at, todo, me.said \cup S), Queue(todo), Moved, me.at \notin {"start", "done"},
             at \notin {"start", "plan", "done"}, ConstraintOraclesKnow',
             \A a \in S : Meaning(a) /\ a.says # "clear",
             \A a \in S, b \in me.said : a.says = "leak" /\ b.on = a.on /\ b.arm = a.arm => b.says # "clear",
             \A e \in Truth.exposed : Counts /\ ConstraintOraclesPending(e) =>
                \/ ConstraintOraclesPending(e)' \/ Done(e)
                \/ e \in Truth.blind
                \/ \E a \in S : a.on = e.on /\ (fault = "none" /\ e \in Truth.provable => a.arm = e.arm /\ a.says = "leak")
      PROVE  Common' /\ ConstraintOraclesInv' /\ Plays
  <2>1. Shape' BY <1>u, <1>c, <1>m, Going
  <2>2. /\ Meant'
        /\ \A e : Done(e) => Done(e)'
        /\ \A e : (\E a \in S : a.on = e.on) => Heard(e)'
        /\ \A e : (\E a \in S : a.on = e.on /\ a.arm = e.arm /\ a.says = "leak") => Done(e)'
    BY <1>u, <1>t, <1>c, <1>m, TellingAll DEF Walks
  <2>3. Session' BY <1>u, <1>c, <1>m, Moving DEF Walks
  <2>4. (Counts' => Counts) /\ Plays BY <1>m DEF Walks, Counts, Plays
  <2>5. \A e \in Truth.exposed : e \in Truth.blind => Done(e)' BY <1>u, <1>t, ConstraintOraclesPoints DEF Done
  <2>6. ASSUME NEW e \in Truth.exposed, Counts, ConstraintOraclesPending(e) PROVE ConstraintOraclesPending(e)' \/ Done(e)'
    <3>1. CASE \E a \in S : a.on = e.on /\ (fault = "none" /\ e \in Truth.provable => a.arm = e.arm /\ a.says = "leak")
      <4>1. Heard(e)' BY <2>2, <3>1
      <4>2. fault = "none" /\ e \in Truth.provable => Done(e)' BY <2>2, <3>1
      <4>3. ~(fault = "none" /\ e \in Truth.provable) => Done(e)' BY <1>u, <1>t, <4>1 DEF Done
      <4> QED BY <4>2, <4>3
    <3> QED BY <1>m, <2>2, <2>5, <2>6, <3>1
  <2> QED BY <1>t, <1>m, <2>1, <2>2, <2>3, <2>4, <2>6 DEF Common, ConstraintOraclesInv
\* An awaited statement that goes on.
<1>f. ASSUME NEW at, at \in {"facts", "unique"}, me.at \in {"plan", "facts"}, pg' = pg, me' = CO!To(at)
      PROVE  Common' /\ ConstraintOraclesInv' /\ Plays
  <2>1. Walks(at, me.todo, me.said) BY <1>e, <1>f
  <2>2. Unclear' <=> Unclear BY <2>1 DEF Unclear, Walks
  <2>3. \A e : ConstraintOraclesPending(e)' BY <1>f, <2>1 DEF ConstraintOraclesPending, Walks
  <2> QED BY <1>s, <1>c, <1>f, <2>1, <2>2, <2>3 DEF ConstraintOraclesKnow, Moved, Shape
<1>1. CASE CO!TenantColumns
  <2>1. /\ me.at = "plan"
        /\ (pg' = pg /\ me' = CO!To("facts")) \/ (pg' = Failed /\ me' = CO!Thrown)
    BY <1>1, <1>o, Zenon DEF CO!TenantColumns, CO!Await, CO!Do
  <2> QED BY <1>e, <1>f, <1>l, <2>1
<1>2. CASE CO!ColumnFacts
  <2>1. /\ me.at = "facts"
        /\ (pg' = pg /\ me' = CO!To("unique")) \/ (pg' = Failed /\ me' = CO!Thrown)
    BY <1>2, <1>o, Zenon DEF CO!ColumnFacts, CO!Await, CO!Do
  <2> QED BY <1>e, <1>f, <1>l, <2>1
<1>3. CASE CO!UniqueIndexes
  <2> DEFINE S == CO!Reported("unique")
  <2>1. /\ me.at = "unique"
        /\ \/ pg' = pg /\ me' = [CO!To("fk") EXCEPT !.said = @ \cup S]
           \/ pg' = Failed /\ me' = CO!Thrown
    BY <1>3, <1>o, Zenon DEF CO!UniqueIndexes, CO!Await, CO!Do
  <2>2. CASE pg' = pg /\ me' = [CO!To("fk") EXCEPT !.said = @ \cup S]
    <3>1. /\ \A a \in S : Meaning(a) /\ a.says # "clear"
          /\ \A e \in Truth.exposed : e.arm = "unique" /\ e \notin Truth.blind =>
               \E a \in S : a.on = e.on /\ a.arm = e.arm /\ (e \in Truth.provable => a.says = "leak")
      BY OraclesReported
    <3> HIDE DEF S
    <3>2. Walks("fk", me.todo, me.said \cup S) BY <1>c, <2>2 DEF Shape, CO!To, Walks
    <3>3. ConstraintOraclesKnow' BY <1>c, <3>1, <3>2 DEF Unclear, Walks, ConstraintOraclesKnow
    <3>4. \A a \in S, b \in me.said : a.says = "leak" /\ b.on = a.on /\ b.arm = a.arm => b.says # "clear"
      BY <1>c DEF ConstraintOraclesKnow, Unclear
    <3>5. ASSUME NEW e \in Truth.exposed, ConstraintOraclesPending(e)
          PROVE  e.arm = "unique" \/ ConstraintOraclesPending(e)'
      <4>1. e.arm \in {"unique", "fk"} BY ConstraintOraclesPoints
      <4> QED BY <2>1, <3>2, <3>5, <4>1 DEF ConstraintOraclesPending, Walks
    <3> QED BY <1>c, <1>m, <2>1, <2>2, <3>1, <3>2, <3>3, <3>4, <3>5 DEF Moved, Shape
  <2> QED BY <1>e, <1>l, <2>1, <2>2
<1>4. CASE CO!ForeignKeys
  <2> DEFINE S == CO!Reported("fk")
  <2>1. /\ me.at = "fk"
        /\ \/ pg' = pg /\ me' = [CO!To("close") EXCEPT !.said = @ \cup S]
           \/ pg' = Failed /\ me' = CO!Thrown
    BY <1>4, <1>o, Zenon DEF CO!ForeignKeys, CO!Await, CO!Do
  <2>2. CASE pg' = pg /\ me' = [CO!To("close") EXCEPT !.said = @ \cup S]
    <3>1. /\ \A a \in S : Meaning(a) /\ a.says # "clear"
          /\ \A e \in Truth.exposed : e.arm = "fk" /\ e \notin Truth.blind =>
               \E a \in S : a.on = e.on /\ a.arm = e.arm /\ (e \in Truth.provable => a.says = "leak")
      BY OraclesReported
    <3> HIDE DEF S
    <3>2. Walks("close", me.todo, me.said \cup S) BY <1>c, <2>2 DEF Shape, CO!To, Walks
    <3>3. ConstraintOraclesKnow' BY <1>c, <3>1, <3>2 DEF Unclear, Walks, ConstraintOraclesKnow
    <3>4. \A a \in S, b \in me.said : a.says = "leak" /\ b.on = a.on /\ b.arm = a.arm => b.says # "clear"
      BY <1>c DEF ConstraintOraclesKnow, Unclear
    <3>5. ASSUME NEW e \in Truth.exposed, ConstraintOraclesPending(e)
          PROVE  e.arm = "fk" \/ ConstraintOraclesPending(e)'
      <4>1. e.arm \in {"unique", "fk"} BY ConstraintOraclesPoints
      <4> QED BY <2>1, <3>2, <3>5, <4>1 DEF ConstraintOraclesPending, Walks
    <3> QED BY <1>c, <1>m, <2>1, <2>2, <3>1, <3>2, <3>3, <3>4, <3>5 DEF Moved, Shape
  <2> QED BY <1>e, <1>l, <2>1, <2>2
<1>5. CASE CO!Leave
  <2>1. /\ me.at = "finally" /\ Common' /\ Plays /\ me'.at = (IF me.thrown THEN "close" ELSE "close")
        /\ me'.thrown = me.thrown /\ me'.result = me.result
        /\ me'.loc = me.loc /\ me'.said = me.said /\ me'.todo = me.todo /\ (Counts' <=> Counts)
        /\ pg' \in {pg, RolledBack(pg)} /\ (pg.st \notin {"open", "aborted"} => pg' = pg)
    BY <1>b, <1>t, <1>5, RollsBack
  <2>2. (\A e : Done(e)' <=> Done(e)) /\ (Unclear' <=> Unclear) BY <1>u, <1>t, <1>c, <2>1, Quiet
  <2>3. ConstraintOraclesKnow' BY <1>u, <1>c, <2>1, <2>2 DEF ConstraintOraclesKnow
  <2>4. \A e \in Truth.exposed : ConstraintOraclesPending(e) /\ Counts => ConstraintOraclesPending(e)'
    BY <1>u, <2>1 DEF ConstraintOraclesPending
  <2> QED BY <1>t, <2>1, <2>2, <2>3, <2>4 DEF ConstraintOraclesInv
<1>6. CASE CO!Connect
  <2>1. /\ me.at = "start" /\ Common' /\ Plays /\ me'.loc = me.loc /\ me'.said = {} /\ me'.todo = me.todo
        /\ \/ me'.at = "plan" /\ pg' = [pg EXCEPT !.st = "idle"] /\ pg'.st = "idle" /\ Whole(me'.todo)
           \/ me'.at = "done" /\ ~Counts' /\ pg' = pg
    BY <1>b, <1>t, <1>6, Connects
  <2>2. ConstraintOraclesKnow' BY <1>u, <1>c, <2>1 DEF ConstraintOraclesKnow, Unclear
  <2>3. Counts' => \A e : ConstraintOraclesPending(e)' BY <2>1 DEF ConstraintOraclesPending
  <2> QED BY <2>1, <2>2, <2>3 DEF ConstraintOraclesInv
<1>7. CASE CO!Disconnect
  <2>1. /\ me.at = "close" /\ Common' /\ Plays /\ me'.at = "done"
        /\ me'.loc = me.loc /\ me'.said = me.said /\ me'.todo = me.todo /\ (Counts' => Counts)
    BY <1>b, <1>t, <1>7, Disconnects
  <2>2. (\A e : Done(e)' <=> Done(e)) /\ (Unclear' <=> Unclear) BY <1>u, <1>t, <1>c, <2>1, Quiet
  <2>3. ConstraintOraclesKnow' BY <1>u, <1>c, <2>1, <2>2 DEF ConstraintOraclesKnow
  <2>4. \A e : ~ConstraintOraclesPending(e) BY <2>1 DEF ConstraintOraclesPending
  <2> QED BY <1>t, <2>1, <2>2, <2>3, <2>4 DEF ConstraintOraclesInv
<1> QED BY <1>1, <1>2, <1>3, <1>4, <1>5, <1>6, <1>7 DEF CO!Next, CO!Check, CO!Run

\* So does a fault, whenever it strikes.
LEMMA ConstraintOraclesStruck ==
  ASSUME Common, ConstraintOraclesInv, world.guard = "constraint-oracles", Drop \/ Cancel
  PROVE  Common' /\ ConstraintOraclesInv'
<1>1. world' = world /\ fault = "none" BY DEF Drop, Cancel
<1>2. Truth'.exposed = Truth.exposed /\ Truth.blind \subseteq Truth'.blind /\ Truth.spurious \subseteq Truth'.spurious
  <2>1. Truth = CO!Truth /\ Truth' = CO!Truth' BY <1>1 DEF Truth
  <2>2. CO!Exposed' = CO!Exposed BY <1>1 DEF CO!Exposed, CO!Guessable, CO!Kind, CO!Scoped
  <2>3. CO!Blind \subseteq CO!Blind' BY <1>1, <2>2 DEF CO!Blind, CO!Unguessable
  <2>4. CO!Spurious \subseteq CO!Spurious' BY <1>1 DEF CO!Columns, CO!Guessable, CO!Kind, CO!Spurious
  <2> QED BY <2>1, <2>2, <2>3, <2>4 DEF CO!Truth
<1>3. /\ me' = me /\ fault' # "none" /\ Common'
      /\ \/ fault' = "lost" /\ pg'.st = "lost" /\ pg'.who = "nobody" /\ pg'.saves = <<>>
         \/ fault' = "cancelled" /\ pg.st = "open" /\ pg'.st = "aborted" /\ pg' = Failed
      /\ \A e : Done(e) => Done(e)'
      /\ \A k, x : Untold(k, x)' <=> Untold(k, x)
      /\ Unclear' <=> Unclear
  BY <1>2, Striking
<1>4. ConstraintOraclesKnow' BY <1>1, <1>3 DEF ConstraintOraclesInv, ConstraintOraclesKnow
<1>5. \A e : ConstraintOraclesPending(e) => ConstraintOraclesPending(e)' BY <1>1, <1>3 DEF ConstraintOraclesPending
<1> QED BY <1>2, <1>3, <1>4, <1>5 DEF ConstraintOraclesInv, Counts

\* Constraint-oracles begins so.
LEMMA ConstraintOraclesBegins == ASSUME CO!Init PROVE Common /\ ConstraintOraclesInv /\ world.guard = "constraint-oracles"
<1>1. Begins("constraint-oracles") /\ me.loc = [none |-> 0]
  BY WorldAssumption DEF Names, Begins, Whole, Count, Closed, CO!Init, CO!Enter, CO!Entered, CO!Closed
<1>2. Common BY <1>1, Beginning DEF Names
<1>3. ConstraintOraclesKnow BY <1>1 DEF ConstraintOraclesKnow, Begins, Unclear
<1> QED BY <1>1, <1>2, <1>3 DEF ConstraintOraclesInv, ConstraintOraclesPending, Begins

\* A step of nobody keeps it.
LEMMA ConstraintOraclesStays ==
  ASSUME Common, ConstraintOraclesInv, world.guard = "constraint-oracles", UNCHANGED vars
  PROVE  Common' /\ ConstraintOraclesInv'
<1>1. world' = world /\ fault' = fault /\ pg' = pg /\ me' = me BY DEF vars
<1>2. Truth' = Truth BY <1>1, ConstraintOraclesSame
<1>3. Common' /\ (\A e : Done(e)' <=> Done(e)) /\ (Counts' <=> Counts) BY <1>1, <1>2, Resting
<1>4. ConstraintOraclesKnow' /\ (\A e : ConstraintOraclesPending(e)' <=> ConstraintOraclesPending(e))
  BY <1>1, <1>2 DEF ConstraintOraclesInv, ConstraintOraclesKnow, ConstraintOraclesPending, Unclear
<1> QED BY <1>2, <1>3, <1>4 DEF ConstraintOraclesInv

\* At the end nothing is pending, and a question is a target and an arm.
LEMMA ConstraintOraclesEnds ==
  ASSUME Common, world.guard = "constraint-oracles", ConstraintOraclesInv, me.at = "done", Counts
  PROVE  /\ \A e \in Truth.exposed : e = Key(e) /\ Done(e)
         /\ Truth.provable \subseteq Truth.exposed
<1>1. \A e : ~ConstraintOraclesPending(e) BY DEF ConstraintOraclesPending
<1> QED BY <1>1, ConstraintOraclesPoints DEF ConstraintOraclesInv, Key

-----------------------------------------------------------------------------
(* create-grants.                                                          *)

\* Nothing is called clear, and there is never a transaction.
CreateGrantsKnow ==
  /\ Unclear
  /\ me.at \notin {"start", "done"} => pg.st \in {"idle", "lost"}

\* The question is still to come: the schemas first, the database after them.
CreateGrantsPending(e) ==
  me.at \in {"start", "plan", "writable", "version", "schemas"} \/ (me.at = "database" /\ (e.on = 0 \/ CG!Schemas = {}))

\* Everything exposed is pending or done.
CreateGrantsInv == CreateGrantsKnow /\ (Counts => \A e \in Truth.exposed : CreateGrantsPending(e) \/ Done(e))

\* What is exposed to create-grants, and what of it is missed, misjudged or provable.
LEMMA CreateGrantsPoints ==
  ASSUME world.guard = "create-grants"
  PROVE  /\ \A e : e \in Truth.exposed <=>
              /\ e = [on |-> e.on, arm |-> e.arm] /\ e.on \in CG!Places /\ e.arm \in {"PUBLIC", "app", "anon"} \ world.allow
              /\ e.arm = "PUBLIC" => CG!Place(e.on).public
              /\ e.arm # "PUBLIC" => e.arm \in world.roles /\ e.arm \in CG!Place(e.on).direct \cup CG!Place(e.on).indirect
         /\ \A e : e \in Truth.blind <=>
              /\ e \in Truth.exposed
              /\ \/ e.arm # "PUBLIC" /\ CG!Place(e.on).public /\ (e.on = 0 \/ e.arm \notin CG!Place(e.on).direct)
                 \/ e.on = 0 /\ (~CG!Place(e.on).exists \/ fault = "lost")
         /\ \A e : e \in Truth.provable <=> e \in Truth.exposed /\ e \notin Truth.blind /\ e.arm # "app"
<1>1. Truth.exposed = CG!Exposed /\ Truth.blind = CG!Blind /\ Truth.provable = CG!Provable
  BY DEF Truth, CG!Truth
<1>2. \A e : e \in Truth.exposed <=>
              /\ e = [on |-> e.on, arm |-> e.arm] /\ e.on \in CG!Places /\ e.arm \in {"PUBLIC", "app", "anon"} \ world.allow
              /\ e.arm = "PUBLIC" => CG!Place(e.on).public
              /\ e.arm # "PUBLIC" => e.arm \in world.roles /\ e.arm \in CG!Place(e.on).direct \cup CG!Place(e.on).indirect
  BY <1>1 DEF CG!Exposed
<1>3. \A e : e \in Truth.blind <=>
              /\ e \in Truth.exposed
              /\ \/ e.arm # "PUBLIC" /\ CG!Place(e.on).public /\ (e.on = 0 \/ e.arm \notin CG!Place(e.on).direct)
                 \/ e.on = 0 /\ (~CG!Place(e.on).exists \/ fault = "lost")
  BY <1>1 DEF CG!Blind
<1> QED BY <1>1, <1>2, <1>3 DEF CG!Provable

\* Who is named for a place may create there.
LEMMA GrantsSaid ==
  ASSUME Common, world.guard = "create-grants", NEW k, k \in CG!Places,
         NEW holders, holders \cap world.allow = {},
         \A h \in holders : /\ h \in {"PUBLIC", "app", "anon"}
                            /\ h = "PUBLIC" => CG!Place(k).public
                            /\ h # "PUBLIC" => h \in world.roles /\ h \in CG!Place(k).direct \cup CG!Place(k).indirect
  PROVE  /\ \A a \in CG!Says(k, holders) : Meaning(a) /\ a.says # "clear"
         /\ \A h \in holders : \E a \in CG!Says(k, holders) : a.on = k /\ a.arm = h /\ (h # "app" => a.says = "leak")
<1>1. ASSUME NEW h \in holders
      PROVE  /\ Meaning([on |-> k, arm |-> h, says |-> CG!ClassifyCreateGrant(h)])
             /\ CG!ClassifyCreateGrant(h) \in {"leak", "note"} /\ (h # "app" => CG!ClassifyCreateGrant(h) = "leak")
  <2>1. CG!ClassifyCreateGrant(h) \in {"leak", "note"} /\ (h # "app" => CG!ClassifyCreateGrant(h) = "leak")
    BY DEF CG!ClassifyCreateGrant
  <2>2. [on |-> k, arm |-> h] \in Truth.exposed BY CreateGrantsPoints
  <2> QED BY <2>1, <2>2 DEF Meaning, Key
<1>2. CG!Says(k, holders) = {[on |-> k, arm |-> h, says |-> CG!ClassifyCreateGrant(h)] : h \in holders} BY DEF CG!Says
<1>3. ASSUME NEW a \in CG!Says(k, holders) PROVE Meaning(a) /\ a.says # "clear"
  <2>1. PICK h \in holders : a = [on |-> k, arm |-> h, says |-> CG!ClassifyCreateGrant(h)] BY <1>2
  <2>2. a.says = CG!ClassifyCreateGrant(h) BY <2>1
  <2> QED BY <1>1, <2>1, <2>2
<1>4. ASSUME NEW h \in holders
      PROVE  \E a \in CG!Says(k, holders) : a.on = k /\ a.arm = h /\ (h # "app" => a.says = "leak")
  <2> DEFINE a == [on |-> k, arm |-> h, says |-> CG!ClassifyCreateGrant(h)]
  <2>1. a \in CG!Says(k, holders) BY <1>2
  <2>2. a.on = k /\ a.arm = h /\ (h # "app" => a.says = "leak") BY <1>1
  <2> HIDE DEF a
  <2> QED BY <2>1, <2>2
<1> QED BY <1>3, <1>4

\* What is exposed to create-grants depends on the database and the fault alone.
LEMMA CreateGrantsSame ==
  ASSUME world.guard = "create-grants", world' = world, fault' = fault
  PROVE  Truth' = Truth
<1>1. Truth = CG!Truth BY DEF Truth
<1>2. Truth' = CG!Truth' BY DEF Truth
<1>3. CG!Exposed' = CG!Exposed BY DEF CG!Exposed, CG!Place, CG!Places
<1>4. CG!Blind' = CG!Blind BY <1>3 DEF CG!Blind, CG!Place
<1>5. CG!Provable' = CG!Provable BY <1>3, <1>4 DEF CG!Provable
<1>6. CG!Spurious' = CG!Spurious BY DEF CG!Spurious
<1>7. CG!Fragile' = CG!Fragile BY DEF CG!Fragile
<1> QED BY <1>1, <1>2, <1>3, <1>4, <1>5, <1>6, <1>7 DEF CG!Truth

\* A step of create-grants changes neither the database nor the fault.
LEMMA CreateGrantsRest == ASSUME CG!Next PROVE world' = world /\ fault' = fault
BY DEF CG!Attempt, CG!Await, CG!Check, CG!Connect, CG!Context, CG!DatabaseGrants, CG!Disconnect, CG!Do, CG!Leave,
     CG!Next, CG!Run, CG!SchemaGrants

\* A step of create-grants keeps what it knows, and is one its runner expects.
LEMMA CreateGrantsAnswers ==
  ASSUME Common, CreateGrantsInv, world.guard = "create-grants", CG!Next
  PROVE  Common' /\ CreateGrantsInv' /\ Plays
<1>u. world' = world /\ fault' = fault BY CreateGrantsRest
<1>t. Truth' = Truth BY <1>u, CreateGrantsSame
<1>b. /\ CG!Connect <=> Connect
      /\ CG!Disconnect <=> Disconnect
      /\ CG!Leave <=> Leave
  BY DEF CG!Closed, Closed, CG!Connect, Connect, CG!Disconnect, Disconnect, CG!Do, Do, CG!LeaksIn, LeaksIn, CG!Leave,
         Leave, CG!To, To, CG!Verdict, Verdict
<1>o. /\ CG!Live <=> Live
      /\ CG!Failed = Failed
  BY DEF CG!Live, Live, CG!Failed, Failed, CG!Closed, Closed
<1>c. Session /\ Shape /\ Meant /\ CreateGrantsKnow BY DEF Common, CreateGrantsInv
\* Leaving.
<1>l. ASSUME Leaves, me.at \notin {"start", "done"}, pg' \in {pg, Failed} PROVE Common' /\ CreateGrantsInv' /\ Plays
  <2>1. Shape' /\ Meant' /\ ~Counts' /\ Plays BY <1>u, <1>t, <1>l, Leaving
  <2>2. Session' BY <1>u, <1>c, <1>l, Moving DEF Moved, Leaves
  <2>4. (Unclear' <=> Unclear) /\ (\A k, x : Untold(k, x)' <=> Untold(k, x)) BY <1>u, <1>t, <1>c, <1>l, Quiet
      DEF Leaves
  <2>5. pg'.st \in {pg.st, IF pg.st = "open" THEN "aborted" ELSE pg.st} BY <1>c, <1>l DEF Failed, Session, Proper,
      Sound
  <2>3. CreateGrantsKnow'
    <3>1. me'.at \in {"finally", "close"} /\ me'.todo = me.todo /\ me'.said = me.said /\ me'.loc = me.loc /\ DOMAIN me' = DOMAIN me
      BY <1>l DEF Leaves
    <3> QED BY <1>u, <1>c, <1>l, <2>1, <2>4, <2>5, <3>1 DEF CreateGrantsKnow
  <2> QED BY <2>1, <2>2, <2>3 DEF Common, CreateGrantsInv
\* Going on without an answer.
<1>s. ASSUME NEW at, NEW todo, Walks(at, todo, me.said), Queue(todo), Moved, me.at \notin {"start", "done"},
             at \notin {"start", "plan", "done"}, CreateGrantsKnow',
             \A e \in Truth.exposed : Counts /\ CreateGrantsPending(e) => CreateGrantsPending(e)' \/ Done(e)
      PROVE  Common' /\ CreateGrantsInv' /\ Plays
  <2>1. Shape' BY <1>u, <1>c, <1>s, Going
  <2>2. Meant' /\ \A e : Done(e)' <=> Done(e) BY <1>u, <1>t, <1>c, <1>s, Quiet DEF Walks
  <2>3. Session' BY <1>u, <1>c, <1>s, Moving DEF Walks
  <2>4. (Counts' => Counts) /\ Plays BY <1>s DEF Walks, Counts, Plays
  <2> QED BY <1>t, <1>s, <2>1, <2>2, <2>3, <2>4 DEF Common, CreateGrantsInv
<1>e. /\ me' = CG!Thrown => Leaves
      /\ \A l : me' = CG!To(l) => Walks(l, me.todo, me.said) /\ me'.loc = me.loc
  BY <1>c DEF Shape, CG!Thrown, CG!To, Leaves, Walks
\* Going on with several answers.
<1>m. ASSUME NEW at, NEW todo, NEW S, Walks(at, todo, me.said \cup S), Queue(todo), Moved, me.at \notin {"start", "done"},
             at \notin {"start", "plan", "done"}, CreateGrantsKnow',
             \A a \in S : Meaning(a) /\ a.says # "clear",
             \A a \in S, b \in me.said : a.says = "leak" /\ b.on = a.on /\ b.arm = a.arm => b.says # "clear",
             \A e \in Truth.exposed : Counts /\ CreateGrantsPending(e) =>
                \/ CreateGrantsPending(e)' \/ Done(e)
                \/ e \in Truth.blind
                \/ \E a \in S : a.on = e.on /\ (fault = "none" /\ e \in Truth.provable => a.arm = e.arm /\ a.says = "leak")
      PROVE  Common' /\ CreateGrantsInv' /\ Plays
  <2>1. Shape' BY <1>u, <1>c, <1>m, Going
  <2>2. /\ Meant'
        /\ \A e : Done(e) => Done(e)'
        /\ \A e : (\E a \in S : a.on = e.on) => Heard(e)'
        /\ \A e : (\E a \in S : a.on = e.on /\ a.arm = e.arm /\ a.says = "leak") => Done(e)'
    BY <1>u, <1>t, <1>c, <1>m, TellingAll DEF Walks
  <2>3. Session' BY <1>u, <1>c, <1>m, Moving DEF Walks
  <2>4. (Counts' => Counts) /\ Plays BY <1>m DEF Walks, Counts, Plays
  <2>5. \A e \in Truth.exposed : e \in Truth.blind => Done(e)' BY <1>u, <1>t, CreateGrantsPoints DEF Done
  <2>6. ASSUME NEW e \in Truth.exposed, Counts, CreateGrantsPending(e) PROVE CreateGrantsPending(e)' \/ Done(e)'
    <3>1. CASE \E a \in S : a.on = e.on /\ (fault = "none" /\ e \in Truth.provable => a.arm = e.arm /\ a.says = "leak")
      <4>1. Heard(e)' BY <2>2, <3>1
      <4>2. fault = "none" /\ e \in Truth.provable => Done(e)' BY <2>2, <3>1
      <4>3. ~(fault = "none" /\ e \in Truth.provable) => Done(e)' BY <1>u, <1>t, <4>1 DEF Done
      <4> QED BY <4>2, <4>3
    <3> QED BY <1>m, <2>2, <2>5, <2>6, <3>1
  <2> QED BY <1>t, <1>m, <2>1, <2>2, <2>3, <2>4, <2>6 DEF Common, CreateGrantsInv
\* What only words the findings.
<1>f. ASSUME NEW l \in {"plan", "writable", "version"}, NEW at \in {"writable", "version", "schemas"},
             CG!Attempt(l, FALSE, pg, CG!To(at), CG!To(at))
      PROVE  Common' /\ CreateGrantsInv' /\ Plays
  <2>1. me.at = l /\ pg' \in {pg, Failed} /\ me' = CG!To(at) BY <1>f, <1>o, Zenon DEF CG!Attempt, CG!Do
  <2>2. Walks(at, me.todo, me.said) BY <1>e, <2>1
  <2>3. pg'.st \in {"idle", "lost"} BY <1>c, <2>1 DEF CreateGrantsKnow, Failed, Session, Proper, Sound
  <2>4. CreateGrantsKnow' BY <1>c, <2>2, <2>3 DEF Unclear, Walks, CreateGrantsKnow
  <2>5. \A e : CreateGrantsPending(e)' BY <2>2 DEF CreateGrantsPending, Walks
  <2> QED BY <1>s, <1>c, <2>1, <2>2, <2>4, <2>5 DEF Moved, Shape
<1>1. CASE CG!Context
  <2> QED BY <1>f, <1>1 DEF CG!Context
<1>2. CASE CG!SchemaGrants
  <2> DEFINE Holders(k) == CG!SchemaHolders(world.targets[k]) \ world.allow
             S == UNION {CG!Says(k, Holders(k)) : k \in CG!Schemas}
  <2>1. /\ me.at = "schemas"
        /\ \/ pg' = pg /\ me' = [CG!To("database") EXCEPT !.said = @ \cup S]
           \/ pg' = Failed /\ me' = CG!Thrown
    BY <1>2, <1>o, Zenon DEF CG!SchemaGrants, CG!Await, CG!Do
  <2>2. CASE pg' = pg /\ me' = [CG!To("database") EXCEPT !.said = @ \cup S]
    <3>1. ASSUME NEW k \in CG!Schemas
          PROVE  /\ \A a \in CG!Says(k, Holders(k)) : Meaning(a) /\ a.says # "clear"
                 /\ \A h \in Holders(k) : \E a \in CG!Says(k, Holders(k)) : a.on = k /\ a.arm = h /\ (h # "app" => a.says = "leak")
      <4>1. k \in CG!Places /\ k \in 1..Count /\ CG!Place(k) = world.targets[k]
        BY <1>c DEF CG!Schemas, CG!Places, CG!Place, Count, Shape
      <4>2. PICK H : H = Holders(k) OBVIOUS
      <4>3. H \cap world.allow = {} BY <4>2
      <4>4. \A h \in H : /\ h \in {"PUBLIC", "app", "anon"}
                         /\ h = "PUBLIC" => CG!Place(k).public
                         /\ h # "PUBLIC" => h \in world.roles /\ h \in CG!Place(k).direct \cup CG!Place(k).indirect
        BY <1>c, <4>1, <4>2, GrantAssumption DEF CG!SchemaHolders, Shape
      <4> HIDE DEF Holders, S
      <4>5. /\ \A a \in CG!Says(k, H) : Meaning(a) /\ a.says # "clear"
            /\ \A h \in H : \E a \in CG!Says(k, H) : a.on = k /\ a.arm = h /\ (h # "app" => a.says = "leak")
        BY <4>1, <4>3, <4>4, GrantsSaid
      <4> QED BY <4>2, <4>5, Zenon
    <3> HIDE DEF Holders
    <3>2. \A a \in S : Meaning(a) /\ a.says # "clear" BY <3>1
    <3>3. ASSUME NEW e \in Truth.exposed, e.on # 0, e \notin Truth.blind, CG!Schemas # {}
          PROVE  \E a \in S : a.on = e.on /\ a.arm = e.arm /\ (e \in Truth.provable => a.says = "leak")
      <4>0. e.on \in 1..Count /\ CG!Place(e.on) = world.targets[e.on] /\ world.targets[e.on].exists
        BY <3>3, CreateGrantsPoints DEF CG!Places, CG!Place, Count
      <4>1. e.arm \in CG!SchemaHolders(world.targets[e.on]) /\ e.arm \notin world.allow
        BY <3>3, <4>0, CreateGrantsPoints DEF CG!SchemaHolders
      <4>2. e.on \in CG!Schemas \/ CG!Schemas = {} BY <4>0 DEF CG!Schemas, Count
      <4>3. CASE e.on \in CG!Schemas
        <5>1. e.arm \in Holders(e.on) BY <4>1 DEF Holders
        <5>2. PICK a \in CG!Says(e.on, Holders(e.on)) : a.on = e.on /\ a.arm = e.arm /\ (e.arm # "app" => a.says = "leak")
          BY <3>1, <4>3, <5>1
        <5>3. a \in S BY <4>3, <5>2
        <5> HIDE DEF S
        <5> QED BY <5>2, <5>3, CreateGrantsPoints
      <4> QED BY <3>3, <4>2, <4>3
    <3> HIDE DEF S
    <3>4. Walks("database", me.todo, me.said \cup S) BY <1>c, <2>2 DEF Shape, CG!To, Walks
    <3>5. CreateGrantsKnow' BY <1>c, <2>1, <2>2, <3>2, <3>4 DEF Unclear, Walks, CreateGrantsKnow
    <3>6. \A a \in S, b \in me.said : a.says = "leak" /\ b.on = a.on /\ b.arm = a.arm => b.says # "clear"
      BY <1>c DEF CreateGrantsKnow, Unclear
    <3>7. ASSUME NEW e \in Truth.exposed
          PROVE  \/ CreateGrantsPending(e)' \/ e \in Truth.blind
                 \/ \E a \in S : a.on = e.on /\ (fault = "none" /\ e \in Truth.provable => a.arm = e.arm /\ a.says = "leak")
      <4>1. CG!Schemas' = CG!Schemas BY <1>u DEF CG!Schemas
      <4> QED BY <3>3, <3>4, <4>1 DEF CreateGrantsPending, Walks
    <3> QED BY <1>c, <1>m, <2>1, <2>2, <3>2, <3>4, <3>5, <3>6, <3>7 DEF Moved, Shape
  <2> QED BY <1>e, <1>l, <2>1, <2>2
<1>3. CASE CG!DatabaseGrants
  <2> DEFINE H == CG!DatabaseHolders \ world.allow
             S == CG!Says(0, H)
             Last(T) == [CG!To("close") EXCEPT !.said = me.said \cup T, !.result = IF CG!Schemas = {} THEN "skip" ELSE @]
  <2>1. /\ me.at = "database"
        /\ \/ pg' = pg /\ Live /\ world.database.exists /\ me' = CG!Concluded(me.said \cup S)
           \/ pg' = Failed /\ (~Live \/ ~world.database.exists) /\ me' = CG!Concluded(me.said)
    BY <1>3, <1>b, <1>o, Zenon DEF CG!DatabaseGrants, CG!Attempt, CG!Do
  <2>2. /\ \A a \in S : Meaning(a) /\ a.says # "clear"
        /\ \A h \in H : \E a \in S : a.on = 0 /\ a.arm = h /\ (h # "app" => a.says = "leak")
    <3>1. 0 \in CG!Places /\ CG!Place(0) = world.database BY DEF CG!Places, CG!Place
    <3>2. H \cap world.allow = {} OBVIOUS
    <3>3. \A h \in H : /\ h \in {"PUBLIC", "app", "anon"}
                       /\ h = "PUBLIC" => CG!Place(0).public
                       /\ h # "PUBLIC" => h \in world.roles /\ h \in CG!Place(0).direct \cup CG!Place(0).indirect
      BY <1>c, <3>1, GrantAssumption DEF CG!DatabaseHolders, Shape
    <3> HIDE DEF H
    <3> QED BY <3>1, <3>2, <3>3, GrantsSaid DEF Common
  <2>3. ASSUME NEW e \in Truth.exposed, e.on = 0, e \notin Truth.blind, CG!Schemas # {}
        PROVE  Live /\ world.database.exists /\ \E a \in S : a.on = 0 /\ a.arm = e.arm /\ (e \in Truth.provable => a.says = "leak")
    <3>1. /\ world.roles # {} /\ CG!Place(0) = world.database BY <2>3 DEF CG!Schemas, CG!Place
    <3>2. /\ world.database.exists /\ fault # "lost" /\ e.arm \notin world.allow
          /\ e.arm = "PUBLIC" => world.database.public
          /\ e.arm # "PUBLIC" => ~world.database.public /\ e.arm \in world.roles
                                /\ e.arm \in world.database.direct \cup world.database.indirect
      BY <2>3, <3>1, CreateGrantsPoints
    <3>3. Live BY <1>c, <2>1, <3>2 DEF Live, Session, CreateGrantsKnow
    <3>4. e.arm \in H BY <3>1, <3>2 DEF CG!DatabaseHolders
    <3> HIDE DEF S, H
    <3> QED BY <2>2, <3>2, <3>3, <3>4, CreateGrantsPoints
  <2>4. PICK T \in {S, {}} :
          /\ me' = CG!Concluded(me.said \cup T)
          /\ (T = S /\ pg' = pg /\ Live /\ world.database.exists) \/ (pg' = Failed /\ (~Live \/ ~world.database.exists))
    <3>1. CASE pg' = pg /\ Live /\ world.database.exists /\ me' = CG!Concluded(me.said \cup S)
      <4> HIDE DEF S
      <4> QED BY <3>1
    <3>2. CASE pg' = Failed /\ (~Live \/ ~world.database.exists) /\ me' = CG!Concluded(me.said)
      <4>1. me.said \cup {} = me.said OBVIOUS
      <4> HIDE DEF S
      <4> QED BY <3>2, <4>1
    <3> QED BY <2>1, <3>1, <3>2
  <2> HIDE DEF S, H
  <2>5. \A a \in T : Meaning(a) /\ a.says # "clear" BY <2>2
  <2>6. \A a \in T, b \in me.said : a.says = "leak" /\ b.on = a.on /\ b.arm = a.arm => b.says # "clear"
    BY <1>c DEF CreateGrantsKnow, Unclear
  <2>7. pg'.st \in {"idle", "lost"} BY <1>c, <2>1, <2>4 DEF CreateGrantsKnow, Failed, Session, Proper, Sound
  <2>8. Moved BY <2>4 DEF Moved
  <2>9. /\ DOMAIN me' = DOMAIN me /\ me'.at = "close" /\ me'.todo = me.todo /\ me'.said = me.said \cup T
        /\ me'.thrown = me.thrown /\ me'.result = IF CG!Schemas = {} THEN "skip" ELSE me.result
    <3>1. me' = [CG!To("close") EXCEPT !.said = me.said \cup T, !.result = IF CG!Schemas = {} THEN "skip" ELSE me.result]
      BY <1>c, <2>4 DEF CG!Concluded, CG!To, Shape
    <3> QED BY <1>c, <3>1 DEF CG!To, Shape
  <2>10. CreateGrantsKnow' BY <1>c, <2>5, <2>7, <2>9 DEF Unclear, CreateGrantsKnow
  <2>11. CASE CG!Schemas = {}
    <3>1. Common' /\ ~Counts' /\ Plays BY <1>u, <1>t, <1>c, <2>1, <2>5, <2>6, <2>8, <2>9, <2>11, Dropping
    <3> QED BY <2>10, <3>1 DEF CreateGrantsInv
  <2>12. CASE CG!Schemas # {}
    <3>1. Walks("close", me.todo, me.said \cup T) BY <2>9, <2>12 DEF Walks
    <3>2. ASSUME NEW e \in Truth.exposed, CreateGrantsPending(e)
          PROVE  \/ e \in Truth.blind
                 \/ \E a \in T : a.on = e.on /\ (fault = "none" /\ e \in Truth.provable => a.arm = e.arm /\ a.says = "leak")
      <4>1. e.on = 0 BY <2>1, <2>12, <3>2 DEF CreateGrantsPending
      <4> QED BY <2>3, <2>4, <2>12, <4>1
    <3> QED BY <1>c, <1>m, <2>1, <2>5, <2>6, <2>8, <2>10, <3>1, <3>2 DEF Shape
  <2> QED BY <2>11, <2>12
<1>4. CASE CG!Leave
  <2>1. /\ me.at = "finally" /\ Common' /\ Plays /\ me'.at = (IF me.thrown THEN "close" ELSE "close")
        /\ me'.thrown = me.thrown /\ me'.result = me.result
        /\ me'.loc = me.loc /\ me'.said = me.said /\ me'.todo = me.todo /\ (Counts' <=> Counts)
        /\ pg' \in {pg, RolledBack(pg)} /\ (pg.st \notin {"open", "aborted"} => pg' = pg)
    BY <1>b, <1>t, <1>4, RollsBack
  <2>2. (\A e : Done(e)' <=> Done(e)) /\ (Unclear' <=> Unclear) BY <1>u, <1>t, <1>c, <2>1, Quiet
  <2>3. CreateGrantsKnow' BY <1>u, <1>c, <2>1, <2>2 DEF CreateGrantsKnow
  <2>4. \A e \in Truth.exposed : CreateGrantsPending(e) /\ Counts => CreateGrantsPending(e)' BY <1>u, <2>1
      DEF CreateGrantsPending
  <2> QED BY <1>t, <2>1, <2>2, <2>3, <2>4 DEF CreateGrantsInv
<1>5. CASE CG!Connect
  <2>1. /\ me.at = "start" /\ Common' /\ Plays /\ me'.loc = me.loc /\ me'.said = {} /\ me'.todo = me.todo
        /\ \/ me'.at = "plan" /\ pg' = [pg EXCEPT !.st = "idle"] /\ pg'.st = "idle" /\ Whole(me'.todo)
           \/ me'.at = "done" /\ ~Counts' /\ pg' = pg
    BY <1>b, <1>t, <1>5, Connects
  <2>2. CreateGrantsKnow' BY <1>u, <1>c, <2>1 DEF CreateGrantsKnow, Unclear
  <2>3. Counts' => \A e : CreateGrantsPending(e)' BY <2>1 DEF CreateGrantsPending
  <2> QED BY <2>1, <2>2, <2>3 DEF CreateGrantsInv
<1>6. CASE CG!Disconnect
  <2>1. /\ me.at = "close" /\ Common' /\ Plays /\ me'.at = "done"
        /\ me'.loc = me.loc /\ me'.said = me.said /\ me'.todo = me.todo /\ (Counts' => Counts)
    BY <1>b, <1>t, <1>6, Disconnects
  <2>2. (\A e : Done(e)' <=> Done(e)) /\ (Unclear' <=> Unclear) BY <1>u, <1>t, <1>c, <2>1, Quiet
  <2>3. CreateGrantsKnow' BY <1>u, <1>c, <2>1, <2>2 DEF CreateGrantsKnow
  <2>4. \A e : ~CreateGrantsPending(e) BY <2>1 DEF CreateGrantsPending
  <2> QED BY <1>t, <2>1, <2>2, <2>3, <2>4 DEF CreateGrantsInv
<1> QED BY <1>1, <1>2, <1>3, <1>4, <1>5, <1>6 DEF CG!Next, CG!Check, CG!Run

\* So does a fault, whenever it strikes.
LEMMA CreateGrantsStruck ==
  ASSUME Common, CreateGrantsInv, world.guard = "create-grants", Drop \/ Cancel
  PROVE  Common' /\ CreateGrantsInv'
<1>1. world' = world /\ fault = "none" BY DEF Drop, Cancel
<1>2. Truth'.exposed = Truth.exposed /\ Truth.blind \subseteq Truth'.blind /\ Truth.spurious \subseteq Truth'.spurious
  <2>1. Truth = CG!Truth /\ Truth' = CG!Truth' BY <1>1 DEF Truth
  <2>2. CG!Exposed' = CG!Exposed BY <1>1 DEF CG!Exposed, CG!Place, CG!Places
  <2>3. CG!Blind \subseteq CG!Blind' BY <1>1, <2>2 DEF CG!Blind, CG!Place
  <2>4. CG!Spurious \subseteq CG!Spurious' BY <1>1 DEF CG!Spurious
  <2> QED BY <2>1, <2>2, <2>3, <2>4 DEF CG!Truth
<1>3. /\ me' = me /\ fault' # "none" /\ Common'
      /\ \/ fault' = "lost" /\ pg'.st = "lost" /\ pg'.who = "nobody" /\ pg'.saves = <<>>
         \/ fault' = "cancelled" /\ pg.st = "open" /\ pg'.st = "aborted" /\ pg' = Failed
      /\ \A e : Done(e) => Done(e)'
      /\ \A k, x : Untold(k, x)' <=> Untold(k, x)
      /\ Unclear' <=> Unclear
  BY <1>2, Striking
<1>4. CreateGrantsKnow' BY <1>1, <1>3 DEF CreateGrantsInv, CreateGrantsKnow
<1>5. \A e : CreateGrantsPending(e) => CreateGrantsPending(e)' BY <1>1, <1>3 DEF CreateGrantsPending, CG!Schemas
<1> QED BY <1>2, <1>3, <1>4, <1>5 DEF CreateGrantsInv, Counts

\* Create-grants begins so.
LEMMA CreateGrantsBegins == ASSUME CG!Init PROVE Common /\ CreateGrantsInv /\ world.guard = "create-grants"
<1>1. Begins("create-grants") /\ me.loc = [none |-> 0]
  BY WorldAssumption DEF Names, Begins, Whole, Count, Closed, CG!Init, CG!Enter, CG!Entered, CG!Closed
<1>2. Common BY <1>1, Beginning DEF Names
<1>3. CreateGrantsKnow BY <1>1 DEF CreateGrantsKnow, Begins, Unclear
<1> QED BY <1>1, <1>2, <1>3 DEF CreateGrantsInv, CreateGrantsPending, Begins

\* A step of nobody keeps it.
LEMMA CreateGrantsStays ==
  ASSUME Common, CreateGrantsInv, world.guard = "create-grants", UNCHANGED vars
  PROVE  Common' /\ CreateGrantsInv'
<1>1. world' = world /\ fault' = fault /\ pg' = pg /\ me' = me BY DEF vars
<1>2. Truth' = Truth BY <1>1, CreateGrantsSame
<1>3. Common' /\ (\A e : Done(e)' <=> Done(e)) /\ (Counts' <=> Counts) BY <1>1, <1>2, Resting
<1>4. CreateGrantsKnow' /\ (\A e : CreateGrantsPending(e)' <=> CreateGrantsPending(e))
  BY <1>1, <1>2 DEF CreateGrantsInv, CreateGrantsKnow, CreateGrantsPending, Unclear, CG!Schemas
<1> QED BY <1>2, <1>3, <1>4 DEF CreateGrantsInv

\* At the end nothing is pending, and a question is a target and an arm.
LEMMA CreateGrantsEnds ==
  ASSUME Common, world.guard = "create-grants", CreateGrantsInv, me.at = "done", Counts
  PROVE  /\ \A e \in Truth.exposed : e = Key(e) /\ Done(e)
         /\ Truth.provable \subseteq Truth.exposed
<1>1. \A e : ~CreateGrantsPending(e) BY DEF CreateGrantsPending
<1> QED BY <1>1, CreateGrantsPoints DEF CreateGrantsInv, Key

-----------------------------------------------------------------------------
(* mfa-enforcement.                                                        *)

\* Nothing is called clear, there is never a transaction, and the members are known
\* where a policy names a role and they could be read.
MfaEnforcementKnow ==
  /\ DOMAIN me.loc = {"members", "factors"}
  /\ Unclear
  /\ me.at \notin {"start", "done"} => pg.st \in {"idle", "lost"}
  /\ me.at \in {"factors", "tables"} /\ fault = "none" /\ world.roles = "ok" =>
       me.loc.members \/ \A k \in ME!Policies : ME!P(k).role = "public"

\* The policies are judged at the end.
MfaEnforcementPending(e) == me.at \in {"start", "plan", "members", "factors", "tables"}

\* Everything exposed is pending or done.
MfaEnforcementInv == MfaEnforcementKnow /\ (Counts => \A e \in Truth.exposed : MfaEnforcementPending(e) \/ Done(e))

\* What is exposed to mfa-enforcement, and what of it is missed, misjudged or provable.
LEMMA MfaEnforcementPoints ==
  ASSUME world.guard = "mfa-enforcement"
  PROVE  /\ \A e : e \in Truth.exposed <=>
              /\ e = [on |-> e.on, arm |-> "gate"] /\ e.on \in ME!Policies
              /\ ME!Refuses(ME!P(e.on)) /\ ME!P(e.on).permissive /\ ~ME!P(e.on).allow
              /\ \E roles \in ME!Sessions, cmd \in {"SELECT", "UPDATE"} :
                   ME!P(e.on).role \in roles /\ ME!P(e.on).cmd \in {cmd, "ALL"} /\ ME!Granted(ME!P(e.on).table, roles, cmd)
         /\ \A e : e \in Truth.blind <=>
              /\ e \in Truth.exposed
              /\ \/ ~ME!ReferencesAal(ME!P(e.on))
                 \/ ~ME!HasOtherPermissiveGrant(e.on, world.roles = "ok" /\ fault = "none")
         /\ \A e \in Truth.provable : e \in Truth.exposed /\ e \notin Truth.blind
         /\ \A k \in ME!Policies :
              \/ ~ME!Refuses(ME!P(k))
              \/ \E j \in ME!Policies \ {k} : /\ ME!P(j).table = ME!P(k).table /\ ME!Refuses(ME!P(j))
                                              /\ ME!P(j).aal = "hidden" \/ ~ME!P(j).permissive
              => [on |-> k, arm |-> "gate"] \in Truth.spurious
<1>1. /\ Truth.exposed = ME!Exposed /\ Truth.blind = ME!Blind /\ Truth.provable = ME!Provable
      /\ Truth.spurious = ME!Spurious
  BY DEF Truth, ME!Truth
<1>2. \A e : e \in Truth.exposed <=>
              /\ e = [on |-> e.on, arm |-> "gate"] /\ e.on \in ME!Policies
              /\ ME!Refuses(ME!P(e.on)) /\ ME!P(e.on).permissive /\ ~ME!P(e.on).allow
              /\ \E roles \in ME!Sessions, cmd \in {"SELECT", "UPDATE"} :
                   ME!P(e.on).role \in roles /\ ME!P(e.on).cmd \in {cmd, "ALL"} /\ ME!Granted(ME!P(e.on).table, roles, cmd)
  BY <1>1 DEF ME!Exposed
<1>3. \A e : e \in Truth.blind <=>
              /\ e \in Truth.exposed
              /\ \/ ~ME!ReferencesAal(ME!P(e.on))
                 \/ ~ME!HasOtherPermissiveGrant(e.on, world.roles = "ok" /\ fault = "none")
  BY <1>1 DEF ME!Blind
<1>4. \A e \in Truth.provable : e \in Truth.exposed /\ e \notin Truth.blind BY <1>1 DEF ME!Provable
<1>5. ASSUME NEW k \in ME!Policies,
              \/ ~ME!Refuses(ME!P(k))
              \/ \E j \in ME!Policies \ {k} : /\ ME!P(j).table = ME!P(k).table /\ ME!Refuses(ME!P(j))
                                              /\ ME!P(j).aal = "hidden" \/ ~ME!P(j).permissive
      PROVE [on |-> k, arm |-> "gate"] \in Truth.spurious
  <2> DEFINE W == {i \in ME!Policies :
                     \/ ~ME!Refuses(ME!P(i))
                     \/ \E j \in ME!Policies \ {i} : /\ ME!P(j).table = ME!P(i).table /\ ME!Refuses(ME!P(j))
                                                     /\ ME!P(j).aal = "hidden" \/ ~ME!P(j).permissive}
  <2>1. k \in W BY <1>5
  <2>2. ME!Spurious = {[on |-> i, arm |-> "gate"] : i \in W} BY DEF ME!Spurious
  <2> HIDE DEF W
  <2> QED BY <1>1, <2>1, <2>2
<1> QED BY <1>2, <1>3, <1>4, <1>5

\* Two policies that meet and overlap apply to some session together.
LEMMA GatesMet ==
  ASSUME Common, world.guard = "mfa-enforcement", NEW known, NEW j \in ME!Policies, NEW k \in ME!Policies,
         ME!Meets(ME!P(j).cmd, ME!P(k).cmd), ME!RolesOverlap(ME!P(j), ME!P(k), known)
  PROVE  \E roles \in ME!Sessions, cmd \in {"SELECT", "UPDATE"} :
           /\ ME!P(k).role \in roles /\ ME!P(k).cmd \in {cmd, "ALL"}
           /\ ME!P(j).role \in roles /\ ME!P(j).cmd \in {cmd, "ALL"}
<1>1. \A i \in ME!Policies : ME!P(i).cmd \in {"SELECT", "UPDATE", "ALL"} /\ ME!P(i).role \in {"public", "a", "b"}
  BY MfaAssumption DEF Common, Shape, ME!Policies, ME!P
<1>2. PICK cmd \in {"SELECT", "UPDATE"} : ME!P(k).cmd \in {cmd, "ALL"} /\ ME!P(j).cmd \in {cmd, "ALL"}
  BY <1>1 DEF ME!Meets
<1>3. PICK roles \in ME!Sessions : ME!P(k).role \in roles /\ ME!P(j).role \in roles
  <2> DEFINE a == {"public", "a"}
             b == IF world.member THEN {"public", "b", "a"} ELSE {"public", "b"}
  <2>1. a \in ME!Sessions /\ b \in ME!Sessions BY DEF ME!Sessions
  <2>2. \/ ME!P(k).role = "public" \/ ME!P(j).role = "public" \/ ME!P(k).role = ME!P(j).role
        \/ world.member
    BY <1>1 DEF ME!RolesOverlap, ME!Expanded
  <2>3. (ME!P(k).role \in a /\ ME!P(j).role \in a) \/ (ME!P(k).role \in b /\ ME!P(j).role \in b) BY <1>1, <2>2
  <2> HIDE DEF a, b
  <2> QED BY <2>1, <2>3
<1> QED BY <1>2, <1>3

\* A gate without teeth stands open, or it is one of those listed.
LEMMA ToothlessIsOpen ==
  ASSUME Common, world.guard = "mfa-enforcement", NEW known, NEW k \in ME!Toothless(known), ~ME!P(k).allow
  PROVE  [on |-> k, arm |-> "gate"] \in Truth.exposed \cup Truth.spurious
<1>1. k \in ME!Policies /\ ME!ReferencesAal(ME!P(k)) /\ ME!P(k).permissive /\ ME!HasOtherPermissiveGrant(k, known)
  BY DEF ME!Toothless, ME!Gates
<1>2. PICK j \in ME!Policies \ {k} :
         /\ ME!P(j).table = ME!P(k).table /\ ME!P(j).permissive /\ ~ME!ReferencesAal(ME!P(j))
         /\ ME!Meets(ME!P(j).cmd, ME!P(k).cmd) /\ ME!RolesOverlap(ME!P(j), ME!P(k), known)
  BY <1>1 DEF ME!HasOtherPermissiveGrant
<1>3. SUFFICES ASSUME [on |-> k, arm |-> "gate"] \notin Truth.spurious
               PROVE  [on |-> k, arm |-> "gate"] \in Truth.exposed
  OBVIOUS
<1>4. /\ ME!Refuses(ME!P(k))
      /\ \A i \in ME!Policies \ {k} : ME!P(i).table = ME!P(k).table /\ ME!Refuses(ME!P(i)) =>
           ME!P(i).aal # "hidden" /\ ME!P(i).permissive
  BY <1>1, <1>3, MfaEnforcementPoints
<1>5. ~ME!Refuses(ME!P(j)) BY <1>2, <1>4 DEF ME!Refuses, ME!ReferencesAal
<1>6. PICK roles \in ME!Sessions, cmd \in {"SELECT", "UPDATE"} :
         /\ ME!P(k).role \in roles /\ ME!P(k).cmd \in {cmd, "ALL"}
         /\ ME!P(j).role \in roles /\ ME!P(j).cmd \in {cmd, "ALL"}
  BY <1>1, <1>2, GatesMet
<1>7. ME!Granted(ME!P(k).table, roles, cmd)
  BY <1>1, <1>2, <1>4, <1>5, <1>6 DEF ME!Granted
<1>8. [on |-> k, arm |-> "gate"].on = k OBVIOUS
<1> QED BY <1>1, <1>4, <1>6, <1>7, <1>8, MfaEnforcementPoints

\* An open gate that is no blind spot is found without teeth, whoever's
\* memberships are known by then.
LEMMA OpenIsToothless ==
  ASSUME world.guard = "mfa-enforcement", NEW known, NEW e \in Truth.exposed, e \notin Truth.blind,
         fault = "none" /\ world.roles = "ok" => known \/ \A k \in ME!Policies : ME!P(k).role = "public"
  PROVE  e.on \in ME!Toothless(known) /\ ~ME!P(e.on).allow
<1>1. /\ e.on \in ME!Policies /\ ME!P(e.on).permissive /\ ~ME!P(e.on).allow /\ ME!ReferencesAal(ME!P(e.on))
      /\ ME!HasOtherPermissiveGrant(e.on, world.roles = "ok" /\ fault = "none")
  BY MfaEnforcementPoints
<1>2. PICK j \in ME!Policies \ {e.on} :
         /\ ME!P(j).table = ME!P(e.on).table /\ ME!P(j).permissive /\ ~ME!ReferencesAal(ME!P(j))
         /\ ME!Meets(ME!P(j).cmd, ME!P(e.on).cmd)
         /\ ME!RolesOverlap(ME!P(j), ME!P(e.on), world.roles = "ok" /\ fault = "none")
  BY <1>1 DEF ME!HasOtherPermissiveGrant
<1>3. ME!RolesOverlap(ME!P(j), ME!P(e.on), known)
  <2>1. CASE world.roles = "ok" /\ fault = "none" /\ known
    BY <1>2, <2>1 DEF ME!RolesOverlap, ME!Expanded
  <2>2. CASE \A k \in ME!Policies : ME!P(k).role = "public"
    BY <1>1, <1>2, <2>2 DEF ME!RolesOverlap
  <2>3. CASE ~(world.roles = "ok" /\ fault = "none")
    BY <1>2, <2>3 DEF ME!RolesOverlap, ME!Expanded
  <2> QED BY <2>1, <2>2, <2>3
<1> QED BY <1>1, <1>2, <1>3 DEF ME!Toothless, ME!Gates, ME!HasOtherPermissiveGrant

\* The less is known of the members, the fewer grants are seen to undo a gate.
LEMMA OverlapGrows ==
  ASSUME NEW k, NEW known, ME!HasOtherPermissiveGrant(k, FALSE)
  PROVE  ME!HasOtherPermissiveGrant(k, known)
<1>1. \A p, q : ME!RolesOverlap(p, q, FALSE) => ME!RolesOverlap(p, q, known) BY DEF ME!RolesOverlap, ME!Expanded
<1> QED BY <1>1 DEF ME!HasOtherPermissiveGrant

\* What is exposed to mfa-enforcement depends on the database and the fault alone.
LEMMA MfaEnforcementSame ==
  ASSUME world.guard = "mfa-enforcement", world' = world, fault' = fault
  PROVE  Truth' = Truth
<1>1. Truth = ME!Truth BY DEF Truth
<1>2. Truth' = ME!Truth' BY DEF Truth
<1>3. ME!Exposed' = ME!Exposed BY DEF ME!Exposed, ME!Granted, ME!P, ME!Policies, ME!Refuses, ME!Sessions
<1>4. ME!Blind' = ME!Blind BY <1>3 DEF ME!Blind, ME!Expanded, ME!HasOtherPermissiveGrant, ME!Meets, ME!P, ME!Policies,
    ME!ReferencesAal,
       ME!RolesOverlap
<1>5. ME!Provable' = ME!Provable BY <1>3, <1>4 DEF ME!Provable
<1>6. ME!Spurious' = ME!Spurious BY DEF ME!P, ME!Policies, ME!Refuses, ME!Spurious
<1>7. ME!Fragile' = ME!Fragile BY DEF ME!Fragile
<1> QED BY <1>1, <1>2, <1>3, <1>4, <1>5, <1>6, <1>7 DEF ME!Truth

\* A step of mfa-enforcement changes neither the database nor the fault.
LEMMA MfaEnforcementRest == ASSUME ME!Next PROVE world' = world /\ fault' = fault
BY DEF ME!Attempt, ME!Await, ME!Check, ME!Connect, ME!Disconnect, ME!Do, ME!Leave, ME!Next, ME!ReadPolicies,
     ME!RoleMembers, ME!Run, ME!TenantTables, ME!VerifiedFactors

\* A step of mfa-enforcement keeps what it knows, and is one its runner expects.
LEMMA MfaEnforcementAnswers ==
  ASSUME Common, MfaEnforcementInv, world.guard = "mfa-enforcement", ME!Next
  PROVE  Common' /\ MfaEnforcementInv' /\ Plays
<1>u. world' = world /\ fault' = fault BY MfaEnforcementRest
<1>t. Truth' = Truth BY <1>u, MfaEnforcementSame
<1>b. /\ ME!Connect <=> Connect
      /\ ME!Disconnect <=> Disconnect
      /\ ME!Leave <=> Leave
  BY DEF ME!Closed, Closed, ME!Connect, Connect, ME!Disconnect, Disconnect, ME!Do, Do, ME!LeaksIn, LeaksIn, ME!Leave,
         Leave, ME!To, To, ME!Verdict, Verdict
<1>o. /\ ME!Live <=> Live
      /\ ME!Failed = Failed
  BY DEF ME!Live, Live, ME!Failed, Failed, ME!Closed, Closed
<1>c. Session /\ Shape /\ Meant /\ MfaEnforcementKnow BY DEF Common, MfaEnforcementInv
<1>k. DOMAIN me.loc = {"members", "factors"} BY <1>c DEF MfaEnforcementKnow
\* Leaving.
<1>l. ASSUME Leaves, me.at \notin {"start", "done"}, pg' \in {pg, Failed} PROVE Common' /\ MfaEnforcementInv' /\ Plays
  <2>1. Shape' /\ Meant' /\ ~Counts' /\ Plays BY <1>u, <1>t, <1>l, Leaving
  <2>2. Session' BY <1>u, <1>c, <1>l, Moving DEF Moved, Leaves
  <2>4. (Unclear' <=> Unclear) /\ (\A k, x : Untold(k, x)' <=> Untold(k, x)) BY <1>u, <1>t, <1>c, <1>l, Quiet
      DEF Leaves
  <2>5. pg'.st \in {pg.st, IF pg.st = "open" THEN "aborted" ELSE pg.st} BY <1>c, <1>l DEF Failed, Session, Proper,
      Sound
  <2>3. MfaEnforcementKnow'
    <3>1. me'.at \in {"finally", "close"} /\ me'.todo = me.todo /\ me'.said = me.said /\ me'.loc = me.loc /\ DOMAIN me' = DOMAIN me
      BY <1>l DEF Leaves
    <3> QED BY <1>u, <1>c, <1>l, <2>1, <2>4, <2>5, <3>1 DEF MfaEnforcementKnow
  <2> QED BY <2>1, <2>2, <2>3 DEF Common, MfaEnforcementInv
\* Going on without an answer.
<1>s. ASSUME NEW at, NEW todo, Walks(at, todo, me.said), Queue(todo), Moved, me.at \notin {"start", "done"},
             at \notin {"start", "plan", "done"}, MfaEnforcementKnow',
             \A e \in Truth.exposed : Counts /\ MfaEnforcementPending(e) => MfaEnforcementPending(e)' \/ Done(e)
      PROVE  Common' /\ MfaEnforcementInv' /\ Plays
  <2>1. Shape' BY <1>u, <1>c, <1>s, Going
  <2>2. Meant' /\ \A e : Done(e)' <=> Done(e) BY <1>u, <1>t, <1>c, <1>s, Quiet DEF Walks
  <2>3. Session' BY <1>u, <1>c, <1>s, Moving DEF Walks
  <2>4. (Counts' => Counts) /\ Plays BY <1>s DEF Walks, Counts, Plays
  <2> QED BY <1>t, <1>s, <2>1, <2>2, <2>3, <2>4 DEF Common, MfaEnforcementInv
<1>e. /\ me' = ME!Thrown => Leaves
      /\ me' = ME!Ending(me, "skip") => Leaves
      /\ \A l : me' = ME!To(l) => Walks(l, me.todo, me.said) /\ me'.loc = me.loc
  BY <1>c DEF Shape, ME!Thrown, ME!Ending, ME!To, Leaves, Walks
\* Going on with several answers.
<1>m. ASSUME NEW at, NEW todo, NEW S, Walks(at, todo, me.said \cup S), Queue(todo), Moved, me.at \notin {"start", "done"},
             at \notin {"start", "plan", "done"}, MfaEnforcementKnow',
             \A a \in S : Meaning(a) /\ a.says # "clear",
             \A a \in S, b \in me.said : a.says = "leak" /\ b.on = a.on /\ b.arm = a.arm => b.says # "clear",
             \A e \in Truth.exposed : Counts /\ MfaEnforcementPending(e) =>
                \/ MfaEnforcementPending(e)' \/ Done(e)
                \/ e \in Truth.blind
                \/ \E a \in S : a.on = e.on /\ (fault = "none" /\ e \in Truth.provable => a.arm = e.arm /\ a.says = "leak")
      PROVE  Common' /\ MfaEnforcementInv' /\ Plays
  <2>1. Shape' BY <1>u, <1>c, <1>m, Going
  <2>2. /\ Meant'
        /\ \A e : Done(e) => Done(e)'
        /\ \A e : (\E a \in S : a.on = e.on) => Heard(e)'
        /\ \A e : (\E a \in S : a.on = e.on /\ a.arm = e.arm /\ a.says = "leak") => Done(e)'
    BY <1>u, <1>t, <1>c, <1>m, TellingAll DEF Walks
  <2>3. Session' BY <1>u, <1>c, <1>m, Moving DEF Walks
  <2>4. (Counts' => Counts) /\ Plays BY <1>m DEF Walks, Counts, Plays
  <2>5. \A e \in Truth.exposed : e \in Truth.blind => Done(e)' BY <1>u, <1>t, MfaEnforcementPoints DEF Done
  <2>6. ASSUME NEW e \in Truth.exposed, Counts, MfaEnforcementPending(e) PROVE MfaEnforcementPending(e)' \/ Done(e)'
    <3>1. CASE \E a \in S : a.on = e.on /\ (fault = "none" /\ e \in Truth.provable => a.arm = e.arm /\ a.says = "leak")
      <4>1. Heard(e)' BY <2>2, <3>1
      <4>2. fault = "none" /\ e \in Truth.provable => Done(e)' BY <2>2, <3>1
      <4>3. ~(fault = "none" /\ e \in Truth.provable) => Done(e)' BY <1>u, <1>t, <4>1 DEF Done
      <4> QED BY <4>2, <4>3
    <3> QED BY <1>m, <2>2, <2>5, <2>6, <3>1
  <2> QED BY <1>t, <1>m, <2>1, <2>2, <2>3, <2>4, <2>6 DEF Common, MfaEnforcementInv
\* Going on without an answer.
<1>f. ASSUME NEW at \in {"members", "factors", "tables"}, Walks(at, me.todo, me.said), me.at \in {"plan", "members", "factors"},
             DOMAIN me'.loc = DOMAIN me.loc, pg' \in {pg, Failed},
             at # "members" /\ fault = "none" /\ world.roles = "ok" =>
               me'.loc.members \/ \A k \in ME!Policies : ME!P(k).role = "public"
      PROVE  Common' /\ MfaEnforcementInv' /\ Plays
  <2>1. pg'.st \in {"idle", "lost"} BY <1>c, <1>f DEF MfaEnforcementKnow, Failed, Session, Proper, Sound
  <2>2. ME!Policies' = ME!Policies /\ \A k : ME!P(k)' = ME!P(k) BY <1>u DEF ME!Policies, ME!P
  <2>3. MfaEnforcementKnow' BY <1>u, <1>c, <1>f, <2>1, <2>2 DEF Unclear, Walks, MfaEnforcementKnow
  <2>4. \A e : MfaEnforcementPending(e)' BY <1>f DEF MfaEnforcementPending, Walks
  <2> QED BY <1>s, <1>c, <1>f, <2>3, <2>4 DEF Moved, Shape
\* The judgement.
<1>j. ASSUME NEW tables, me.at = "tables", pg' \in {pg, Failed}, me' = ME!Judged(tables)
      PROVE  Common' /\ MfaEnforcementInv' /\ Plays
  <2> DEFINE L == {[on |-> k, arm |-> "gate", says |-> "leak"] : k \in {i \in ME!Toothless(me.loc.members) : ~ME!P(i).allow}}
             N == {[on |-> 0, arm |-> a, says |-> "note"] : a \in ME!ClassifyCoverage(tables)}
             S == L \cup N
  <2>1. Walks("close", me.todo, me.said \cup S) /\ me'.loc = me.loc
    <3>1. me' = [ME!To("close") EXCEPT !.said = @ \cup L \cup N] BY <1>j, Zenon DEF ME!Judged
    <3> HIDE DEF L, N
    <3> QED BY <1>c, <3>1 DEF Shape, ME!To, Walks
  <2>2. ASSUME NEW a \in S PROVE Meaning(a) /\ a.says # "clear"
    <3>1. CASE a \in L
      <4>1. PICK k \in ME!Toothless(me.loc.members) : ~ME!P(k).allow /\ a = [on |-> k, arm |-> "gate", says |-> "leak"]
        BY <3>1
      <4>2. PICK known : known = me.loc.members OBVIOUS
      <4>3. [on |-> k, arm |-> "gate"] \in Truth.exposed \cup Truth.spurious BY <4>1, <4>2, ToothlessIsOpen
      <4>4. a.on = k /\ a.arm = "gate" /\ a.says = "leak" BY <4>1
      <4> HIDE DEF L, N
      <4> QED BY <4>1, <4>3, <4>4 DEF Meaning, Key
    <3>2. CASE a \in N BY <3>2 DEF Meaning
    <3> QED BY <3>1, <3>2
  <2>3. ASSUME NEW e \in Truth.exposed, e \notin Truth.blind
        PROVE  \E a \in S : a.on = e.on /\ a.arm = e.arm /\ a.says = "leak"
    <3>1. PICK known : known = me.loc.members OBVIOUS
    <3>2. fault = "none" /\ world.roles = "ok" => known \/ \A k \in ME!Policies : ME!P(k).role = "public"
      BY <1>c, <1>j, <3>1 DEF MfaEnforcementKnow
    <3>3. e.on \in ME!Toothless(known) /\ ~ME!P(e.on).allow BY <2>3, <3>2, OpenIsToothless
    <3> DEFINE a == [on |-> e.on, arm |-> "gate", says |-> "leak"]
    <3>4. a \in S BY <3>1, <3>3
    <3>5. a.on = e.on /\ a.arm = e.arm /\ a.says = "leak" BY MfaEnforcementPoints
    <3> HIDE DEF a, S
    <3> QED BY <3>4, <3>5
  <2> HIDE DEF S
  <2>4. pg'.st \in {"idle", "lost"} BY <1>c, <1>j DEF MfaEnforcementKnow, Failed, Session, Proper, Sound
  <2>5. MfaEnforcementKnow' BY <1>u, <1>c, <2>1, <2>2, <2>4 DEF Unclear, Walks, MfaEnforcementKnow
  <2>6. \A a \in S, b \in me.said : a.says = "leak" /\ b.on = a.on /\ b.arm = a.arm => b.says # "clear"
    BY <1>c DEF MfaEnforcementKnow, Unclear
  <2>7. Moved BY <1>j DEF Moved
  <2> QED BY <1>c, <1>m, <1>j, <2>1, <2>2, <2>3, <2>5, <2>6, <2>7 DEF Shape
<1>1. CASE ME!ReadPolicies
  <2>1. /\ me.at = "plan"
        /\ \/ pg' = pg /\ me' = ME!To(IF \A k \in ME!Policies : ME!P(k).role = "public" THEN "factors" ELSE "members")
           \/ pg' = Failed /\ me' = ME!Thrown
    BY <1>1, <1>o, Zenon DEF ME!ReadPolicies, ME!Await, ME!Do
  <2>2. CASE pg' = pg /\ me' = ME!To(IF \A k \in ME!Policies : ME!P(k).role = "public" THEN "factors" ELSE "members")
    <3>1. CASE \A k \in ME!Policies : ME!P(k).role = "public"
      <4>1. me' = ME!To("factors") BY <2>2, <3>1, Zenon
      <4>2. Walks("factors", me.todo, me.said) /\ me'.loc = me.loc BY <1>e, <4>1
      <4> QED BY <1>f, <2>1, <2>2, <3>1, <4>2
    <3>2. CASE ~\A k \in ME!Policies : ME!P(k).role = "public"
      <4>1. me' = ME!To("members") BY <2>2, <3>2, Zenon
      <4>2. Walks("members", me.todo, me.said) /\ me'.loc = me.loc BY <1>e, <4>1
      <4> QED BY <1>f, <2>1, <2>2, <4>2
    <3> QED BY <3>1, <3>2
  <2> QED BY <1>e, <1>l, <2>1, <2>2
<1>2. CASE ME!RoleMembers
  <2>1. /\ me.at = "members"
        /\ \/ pg' = pg /\ me' = [ME!To("factors") EXCEPT !.loc.members = TRUE]
           \/ pg' = Failed /\ me' = ME!To("factors") /\ (~Live \/ world.roles = "error")
    BY <1>2, <1>b, <1>o, Zenon DEF ME!RoleMembers, ME!Attempt, ME!Do
  <2>2. CASE pg' = pg /\ me' = [ME!To("factors") EXCEPT !.loc.members = TRUE]
    <3>1. Walks("factors", me.todo, me.said) /\ me'.loc = [me.loc EXCEPT !.members = TRUE]
      BY <1>c, <2>2 DEF ME!To, Walks, Shape
    <3>2. DOMAIN me'.loc = DOMAIN me.loc /\ me'.loc.members = TRUE BY <1>k, <3>1
    <3> QED BY <1>f, <2>1, <2>2, <3>1, <3>2
  <2>3. CASE pg' = Failed /\ me' = ME!To("factors") /\ (~Live \/ world.roles = "error")
    <3>1. Walks("factors", me.todo, me.said) /\ me'.loc = me.loc BY <1>e, <2>3
    <3>2. ~Live => fault # "none" BY <1>c, <2>1 DEF Live, Session, MfaEnforcementKnow
    <3> QED BY <1>f, <2>1, <2>3, <3>1, <3>2
  <2> QED BY <2>1, <2>2, <2>3
<1>3. CASE ME!VerifiedFactors
  <2> DEFINE some == world.factors = "some"
  <2>1. /\ me.at = "factors"
        /\ \/ pg' = pg /\ me' = [ME!To("tables") EXCEPT !.loc.factors = some]
           \/ pg' = Failed /\ me' = ME!To("tables")
           \/ pg' = Failed /\ me' = ME!Ending(me, "skip")
    BY <1>3, <1>o, Zenon DEF ME!VerifiedFactors, ME!Attempt, ME!Do
  <2> HIDE DEF some
  <2>2. CASE pg' = pg /\ me' = [ME!To("tables") EXCEPT !.loc.factors = some]
    <3>1. Walks("tables", me.todo, me.said) /\ me'.loc = [me.loc EXCEPT !.factors = some]
      BY <1>c, <2>2 DEF ME!To, Walks, Shape
    <3>2. DOMAIN me'.loc = DOMAIN me.loc /\ me'.loc.members = me.loc.members BY <1>k, <3>1
    <3> QED BY <1>c, <1>f, <2>1, <2>2, <3>1, <3>2 DEF MfaEnforcementKnow
  <2>3. CASE pg' = Failed /\ me' = ME!To("tables")
    <3>1. Walks("tables", me.todo, me.said) /\ me'.loc = me.loc BY <1>e, <2>3
    <3> QED BY <1>c, <1>f, <2>1, <2>3, <3>1 DEF MfaEnforcementKnow
  <2> QED BY <1>e, <1>l, <2>1, <2>2, <2>3
<1>4. CASE ME!TenantTables
  <2>1. me.at = "tables" /\ pg' \in {pg, Failed} /\ (me' = ME!Judged(world.tables) \/ me' = ME!Judged({}))
    BY <1>4, <1>o, Zenon DEF ME!TenantTables, ME!Attempt, ME!Do
  <2>2. PICK tables : me' = ME!Judged(tables) BY <2>1
  <2> QED BY <1>j, <2>1, <2>2
<1>5. CASE ME!Leave
  <2>1. /\ me.at = "finally" /\ Common' /\ Plays /\ me'.at = (IF me.thrown THEN "close" ELSE "close")
        /\ me'.thrown = me.thrown /\ me'.result = me.result
        /\ me'.loc = me.loc /\ me'.said = me.said /\ me'.todo = me.todo /\ (Counts' <=> Counts)
        /\ pg' \in {pg, RolledBack(pg)} /\ (pg.st \notin {"open", "aborted"} => pg' = pg)
    BY <1>b, <1>t, <1>5, RollsBack
  <2>2. (\A e : Done(e)' <=> Done(e)) /\ (Unclear' <=> Unclear) BY <1>u, <1>t, <1>c, <2>1, Quiet
  <2>3. MfaEnforcementKnow' BY <1>u, <1>c, <2>1, <2>2 DEF MfaEnforcementKnow
  <2>4. \A e \in Truth.exposed : MfaEnforcementPending(e) /\ Counts => MfaEnforcementPending(e)'
    BY <1>u, <2>1 DEF MfaEnforcementPending
  <2> QED BY <1>t, <2>1, <2>2, <2>3, <2>4 DEF MfaEnforcementInv
<1>6. CASE ME!Connect
  <2>1. /\ me.at = "start" /\ Common' /\ Plays /\ me'.loc = me.loc /\ me'.said = {} /\ me'.todo = me.todo
        /\ \/ me'.at = "plan" /\ pg' = [pg EXCEPT !.st = "idle"] /\ pg'.st = "idle" /\ Whole(me'.todo)
           \/ me'.at = "done" /\ ~Counts' /\ pg' = pg
    BY <1>b, <1>t, <1>6, Connects
  <2>2. MfaEnforcementKnow' BY <1>u, <1>c, <2>1 DEF MfaEnforcementKnow, Unclear
  <2>3. Counts' => \A e : MfaEnforcementPending(e)' BY <2>1 DEF MfaEnforcementPending
  <2> QED BY <2>1, <2>2, <2>3 DEF MfaEnforcementInv
<1>7. CASE ME!Disconnect
  <2>1. /\ me.at = "close" /\ Common' /\ Plays /\ me'.at = "done"
        /\ me'.loc = me.loc /\ me'.said = me.said /\ me'.todo = me.todo /\ (Counts' => Counts)
    BY <1>b, <1>t, <1>7, Disconnects
  <2>2. (\A e : Done(e)' <=> Done(e)) /\ (Unclear' <=> Unclear) BY <1>u, <1>t, <1>c, <2>1, Quiet
  <2>3. MfaEnforcementKnow' BY <1>u, <1>c, <2>1, <2>2 DEF MfaEnforcementKnow
  <2>4. \A e : ~MfaEnforcementPending(e) BY <2>1 DEF MfaEnforcementPending
  <2> QED BY <1>t, <2>1, <2>2, <2>3, <2>4 DEF MfaEnforcementInv
<1> QED BY <1>1, <1>2, <1>3, <1>4, <1>5, <1>6, <1>7 DEF ME!Next, ME!Check, ME!Run

\* So does a fault, whenever it strikes.
LEMMA MfaEnforcementStruck ==
  ASSUME Common, MfaEnforcementInv, world.guard = "mfa-enforcement", Drop \/ Cancel
  PROVE  Common' /\ MfaEnforcementInv'
<1>1. world' = world /\ fault = "none" BY DEF Drop, Cancel
<1>2. Truth'.exposed = Truth.exposed /\ Truth.blind \subseteq Truth'.blind /\ Truth.spurious \subseteq Truth'.spurious
  <2>1. Truth = ME!Truth /\ Truth' = ME!Truth' BY <1>1 DEF Truth
  <2>2. ME!Exposed' = ME!Exposed BY <1>1 DEF ME!Exposed, ME!Granted, ME!P, ME!Policies, ME!Refuses, ME!Sessions
  <2>3. ME!Blind \subseteq ME!Blind' 
    <3>1. ME!Policies' = ME!Policies /\ (\A k : ME!P(k)' = ME!P(k)) /\ \A p : ME!ReferencesAal(p)' = ME!ReferencesAal(p)
      BY <1>1 DEF ME!Policies, ME!P, ME!ReferencesAal
    <3>2. (world.roles = "ok" /\ fault = "none")' = FALSE BY <1>1 DEF Drop, Cancel
    <3>3. ASSUME NEW e \in ME!Exposed, ~ME!HasOtherPermissiveGrant(e.on, world.roles = "ok" /\ fault = "none")
          PROVE  ~ME!HasOtherPermissiveGrant(e.on, world.roles = "ok" /\ fault = "none")'
      <4>1. ~ME!HasOtherPermissiveGrant(e.on, FALSE) BY <3>3, OverlapGrows
      <4>2. (\A k : ME!HasOtherPermissiveGrant(e.on, k)' <=> ME!HasOtherPermissiveGrant(e.on, k))
        BY <1>1 DEF ME!HasOtherPermissiveGrant, ME!Policies, ME!P, ME!ReferencesAal, ME!RolesOverlap, ME!Expanded,
            ME!Meets
      <4> QED BY <3>2, <4>1, <4>2
    <3> QED BY <2>2, <3>1, <3>3 DEF ME!Blind
  <2>4. ME!Spurious \subseteq ME!Spurious' BY <1>1 DEF ME!P, ME!Policies, ME!Refuses, ME!Spurious
  <2> QED BY <2>1, <2>2, <2>3, <2>4 DEF ME!Truth
<1>3. /\ me' = me /\ fault' # "none" /\ Common'
      /\ \/ fault' = "lost" /\ pg'.st = "lost" /\ pg'.who = "nobody" /\ pg'.saves = <<>>
         \/ fault' = "cancelled" /\ pg.st = "open" /\ pg'.st = "aborted" /\ pg' = Failed
      /\ \A e : Done(e) => Done(e)'
      /\ \A k, x : Untold(k, x)' <=> Untold(k, x)
      /\ Unclear' <=> Unclear
  BY <1>2, Striking
<1>4. MfaEnforcementKnow' BY <1>1, <1>3 DEF MfaEnforcementInv, MfaEnforcementKnow
<1>5. \A e : MfaEnforcementPending(e) => MfaEnforcementPending(e)' BY <1>1, <1>3 DEF MfaEnforcementPending
<1> QED BY <1>2, <1>3, <1>4, <1>5 DEF MfaEnforcementInv, Counts

\* Mfa-enforcement begins so.
LEMMA MfaEnforcementBegins == ASSUME ME!Init PROVE Common /\ MfaEnforcementInv /\ world.guard = "mfa-enforcement"
<1>1. Begins("mfa-enforcement") /\ me.loc = [members |-> FALSE, factors |-> FALSE]
  BY WorldAssumption DEF Names, Begins, Whole, Count, Closed, ME!Init, ME!Enter, ME!Entered, ME!Closed
<1>2. Common BY <1>1, Beginning DEF Names
<1>3. MfaEnforcementKnow BY <1>1 DEF MfaEnforcementKnow, Begins, Unclear
<1> QED BY <1>1, <1>2, <1>3 DEF MfaEnforcementInv, MfaEnforcementPending, Begins

\* A step of nobody keeps it.
LEMMA MfaEnforcementStays ==
  ASSUME Common, MfaEnforcementInv, world.guard = "mfa-enforcement", UNCHANGED vars
  PROVE  Common' /\ MfaEnforcementInv'
<1>1. world' = world /\ fault' = fault /\ pg' = pg /\ me' = me BY DEF vars
<1>2. Truth' = Truth BY <1>1, MfaEnforcementSame
<1>3. Common' /\ (\A e : Done(e)' <=> Done(e)) /\ (Counts' <=> Counts) BY <1>1, <1>2, Resting
<1>4. MfaEnforcementKnow' /\ (\A e : MfaEnforcementPending(e)' <=> MfaEnforcementPending(e))
  BY <1>1, <1>2 DEF MfaEnforcementInv, MfaEnforcementKnow, MfaEnforcementPending, Unclear, ME!Policies, ME!P
<1> QED BY <1>2, <1>3, <1>4 DEF MfaEnforcementInv

\* At the end nothing is pending, and a question is a target and an arm.
LEMMA MfaEnforcementEnds ==
  ASSUME Common, world.guard = "mfa-enforcement", MfaEnforcementInv, me.at = "done", Counts
  PROVE  /\ \A e \in Truth.exposed : e = Key(e) /\ Done(e)
         /\ Truth.provable \subseteq Truth.exposed
<1>1. \A e : ~MfaEnforcementPending(e) BY DEF MfaEnforcementPending
<1> QED BY <1>1, MfaEnforcementPoints DEF MfaEnforcementInv, Key

-----------------------------------------------------------------------------
(* shadow-tables.                                                          *)

\* Nothing is said before the tables are judged, and there is an answer only where
\* there are tenants.
ShadowTablesKnow ==
  /\ me.at \in {"plan", "triggers", "tables"} => me.said = {}
  /\ me.at \in {"triggers", "tables"} => world.tenants

\* The tables are judged at the end.
ShadowTablesPending(e) == me.at \in {"start", "plan", "triggers", "tables"}

\* Everything exposed is pending or done.
ShadowTablesInv == ShadowTablesKnow /\ (Counts => \A e \in Truth.exposed : ShadowTablesPending(e) \/ Done(e))

\* What is exposed to shadow-tables, and what of it is missed, misjudged or provable.
LEMMA ShadowTablesPoints ==
  ASSUME world.guard = "shadow-tables"
  PROVE  /\ \A e : e \in Truth.exposed <=>
              /\ e = [on |-> e.on, arm |-> "rows"] /\ e.on \in 1..Count
              /\ world.tenants /\ world.targets[e.on].named \in {"plainly", "executed", "assembled", "unresolved"}
              /\ ~world.targets[e.on].own
              /\ ~world.targets[e.on].allow /\ world.targets[e.on].select /\ ~SH!Protected(world.targets[e.on])
         /\ \A e : e \in Truth.blind <=>
              /\ e \in Truth.exposed
              /\ world.targets[e.on].named \in {"assembled", "unresolved"} \/ (world.targets[e.on].rls /\ world.targets[e.on].tenant)
         /\ \A e \in Truth.provable :
              /\ e \in Truth.exposed /\ e \notin Truth.blind
              /\ world.targets[e.on].rls => world.targets[e.on].policies = "all"
         /\ \A k \in 1..Count :
              /\ world.tenants /\ world.targets[k].named = "mentioned" /\ ~world.targets[k].own
              /\ ~world.targets[k].allow /\ world.targets[k].select /\ ~SH!Protected(world.targets[k])
              => [on |-> k, arm |-> "rows"] \in Truth.spurious
<1>1. /\ Truth.exposed = SH!Exposed /\ Truth.blind = SH!Blind /\ Truth.provable = SH!Provable
      /\ Truth.spurious = SH!Spurious
  BY DEF Truth, SH!Truth
<1>2. \A e : e \in Truth.exposed <=>
              /\ e = [on |-> e.on, arm |-> "rows"] /\ e.on \in 1..Count
              /\ world.tenants /\ world.targets[e.on].named \in {"plainly", "executed", "assembled", "unresolved"}
              /\ ~world.targets[e.on].own
              /\ ~world.targets[e.on].allow /\ world.targets[e.on].select /\ ~SH!Protected(world.targets[e.on])
  BY <1>1 DEF SH!Exposed, SH!Readable, Count
<1>3. \A k \in 1..Count :
              /\ world.tenants /\ world.targets[k].named = "mentioned" /\ ~world.targets[k].own
              /\ ~world.targets[k].allow /\ world.targets[k].select /\ ~SH!Protected(world.targets[k])
              => [on |-> k, arm |-> "rows"] \in Truth.spurious
  BY <1>1 DEF SH!Spurious, SH!Readable, Count
<1> QED BY <1>1, <1>2, <1>3 DEF SH!Blind, SH!Provable

\* What is found open is open and written to, or only mentioned in a write, and
\* everything open that is written to by name is found or noted.
LEMMA DestinationsJudged ==
  ASSUME world.guard = "shadow-tables", world.tenants
  PROVE  /\ \A k \in SH!Resolved : SH!ClassifyDestination(world.targets[k]) = "leak" =>
              [on |-> k, arm |-> "rows"] \in Truth.exposed \cup Truth.spurious
         /\ \A e \in Truth.exposed : e \notin Truth.blind =>
              /\ e.on \in SH!Resolved /\ SH!ClassifyDestination(world.targets[e.on]) # "safe"
              /\ e \in Truth.provable => SH!ClassifyDestination(world.targets[e.on]) = "leak"
         /\ \A k : SH!ClassifyDestination(world.targets[k]) \in {"safe", "leak", "note"}
<1>1. ASSUME NEW k \in SH!Resolved, SH!ClassifyDestination(world.targets[k]) = "leak"
      PROVE  [on |-> k, arm |-> "rows"] \in Truth.exposed \cup Truth.spurious
  <2> DEFINE t == world.targets[k]
  <2>1. k \in 1..Count /\ t.named \in {"plainly", "executed", "mentioned"} /\ ~t.own /\ ~t.allow BY DEF SH!Resolved, SH!WriteTargets, Count
  <2> HIDE DEF t
  <2>2. t.select /\ (t.rls => t.policies = "all" /\ ~t.restrictive)
    BY <1>1 DEF SH!ClassifyDestination, t
  <2>3. ~SH!Protected(t) BY <2>2 DEF SH!Protected
  <2> QED BY <2>1, <2>2, <2>3, ShadowTablesPoints DEF t
<1>2. ASSUME NEW e \in Truth.exposed, e \notin Truth.blind
      PROVE  /\ e.on \in SH!Resolved /\ SH!ClassifyDestination(world.targets[e.on]) # "safe"
             /\ e \in Truth.provable => SH!ClassifyDestination(world.targets[e.on]) = "leak"
  <2> DEFINE t == world.targets[e.on]
  <2>1. e.on \in 1..Count /\ ~t.own /\ ~t.allow /\ t.select /\ ~SH!Protected(t)
    BY ShadowTablesPoints
  <2>2. t.named \in {"plainly", "executed"} /\ ~(t.rls /\ t.tenant) BY <1>2, ShadowTablesPoints
  <2>3. e \in Truth.provable => (t.rls => t.policies = "all") BY ShadowTablesPoints
  <2>4. e.on \in SH!Resolved BY <2>1, <2>2 DEF SH!Resolved, SH!WriteTargets, Count
  <2> HIDE DEF t
  <2>5. SH!ClassifyDestination(t) # "safe" /\ (e \in Truth.provable => SH!ClassifyDestination(t) = "leak")
    BY <2>1, <2>2, <2>3 DEF SH!ClassifyDestination, SH!Protected
  <2> QED BY <2>4, <2>5 DEF t
<1>3. \A k : SH!ClassifyDestination(world.targets[k]) \in {"safe", "leak", "note"} BY DEF SH!ClassifyDestination
<1> QED BY <1>1, <1>2, <1>3

\* What is exposed to shadow-tables depends on the database and the fault alone.
LEMMA ShadowTablesSame ==
  ASSUME world.guard = "shadow-tables", world' = world, fault' = fault
  PROVE  Truth' = Truth
<1>1. Truth = SH!Truth BY DEF Truth
<1>2. Truth' = SH!Truth' BY DEF Truth
<1>3. SH!Exposed' = SH!Exposed BY DEF SH!Exposed, SH!Readable, SH!Protected
<1>4. SH!Blind' = SH!Blind BY <1>3 DEF SH!Blind
<1>5. SH!Provable' = SH!Provable BY <1>3, <1>4 DEF SH!Provable
<1>6. SH!Spurious' = SH!Spurious BY DEF SH!Spurious, SH!Readable, SH!Protected
<1>7. SH!Fragile' = SH!Fragile BY DEF SH!Fragile
<1> QED BY <1>1, <1>2, <1>3, <1>4, <1>5, <1>6, <1>7 DEF SH!Truth

\* A step of shadow-tables changes neither the database nor the fault.
LEMMA ShadowTablesRest == ASSUME SH!Next PROVE world' = world /\ fault' = fault
BY DEF SH!Await, SH!Check, SH!Connect, SH!Destinations, SH!Disconnect, SH!Do, SH!Leave, SH!Next, SH!Run,
    SH!TenantTables,
     SH!Triggers

\* A step of shadow-tables keeps what it knows, and is one its runner expects.
LEMMA ShadowTablesAnswers ==
  ASSUME Common, ShadowTablesInv, world.guard = "shadow-tables", SH!Next
  PROVE  Common' /\ ShadowTablesInv' /\ Plays
<1>u. world' = world /\ fault' = fault BY ShadowTablesRest
<1>t. Truth' = Truth BY <1>u, ShadowTablesSame
<1>b. /\ SH!Connect <=> Connect
      /\ SH!Disconnect <=> Disconnect
      /\ SH!Leave <=> Leave
  BY DEF SH!Closed, Closed, SH!Connect, Connect, SH!Disconnect, Disconnect, SH!Do, Do, SH!LeaksIn, LeaksIn, SH!Leave,
         Leave, SH!To, To, SH!Verdict, Verdict
<1>o. /\ SH!Live <=> Live
      /\ SH!Failed = Failed
  BY DEF SH!Live, Live, SH!Failed, Failed, SH!Closed, Closed
<1>c. Session /\ Shape /\ Meant /\ ShadowTablesKnow BY DEF Common, ShadowTablesInv
\* Leaving.
<1>l. ASSUME Leaves, me.at \notin {"start", "done"}, pg' \in {pg, Failed} PROVE Common' /\ ShadowTablesInv' /\ Plays
  <2>1. Shape' /\ Meant' /\ ~Counts' /\ Plays BY <1>u, <1>t, <1>l, Leaving
  <2>2. Session' BY <1>u, <1>c, <1>l, Moving DEF Moved, Leaves
  <2>4. (Unclear' <=> Unclear) /\ (\A k, x : Untold(k, x)' <=> Untold(k, x)) BY <1>u, <1>t, <1>c, <1>l, Quiet
      DEF Leaves
  <2>5. pg'.st \in {pg.st, IF pg.st = "open" THEN "aborted" ELSE pg.st} BY <1>c, <1>l DEF Failed, Session, Proper,
      Sound
  <2>3. ShadowTablesKnow'
    <3>1. me'.at \in {"finally", "close"} /\ me'.todo = me.todo /\ me'.said = me.said /\ me'.loc = me.loc /\ DOMAIN me' = DOMAIN me
      BY <1>l DEF Leaves
    <3> QED BY <1>u, <1>c, <1>l, <2>1, <2>4, <2>5, <3>1 DEF ShadowTablesKnow
  <2> QED BY <2>1, <2>2, <2>3 DEF Common, ShadowTablesInv
\* Going on without an answer.
<1>s. ASSUME NEW at, NEW todo, Walks(at, todo, me.said), Queue(todo), Moved, me.at \notin {"start", "done"},
             at \notin {"start", "plan", "done"}, ShadowTablesKnow',
             \A e \in Truth.exposed : Counts /\ ShadowTablesPending(e) => ShadowTablesPending(e)' \/ Done(e)
      PROVE  Common' /\ ShadowTablesInv' /\ Plays
  <2>1. Shape' BY <1>u, <1>c, <1>s, Going
  <2>2. Meant' /\ \A e : Done(e)' <=> Done(e) BY <1>u, <1>t, <1>c, <1>s, Quiet DEF Walks
  <2>3. Session' BY <1>u, <1>c, <1>s, Moving DEF Walks
  <2>4. (Counts' => Counts) /\ Plays BY <1>s DEF Walks, Counts, Plays
  <2> QED BY <1>t, <1>s, <2>1, <2>2, <2>3, <2>4 DEF Common, ShadowTablesInv
<1>e. /\ me' = SH!Thrown => Leaves
      /\ me' = SH!Ending(me, "skip") => Leaves
      /\ \A l : me' = SH!To(l) => Walks(l, me.todo, me.said) /\ me'.loc = me.loc
  BY <1>c DEF Shape, SH!Thrown, SH!Ending, SH!To, Leaves, Walks
\* Going on with several answers.
<1>m. ASSUME NEW at, NEW todo, NEW S, Walks(at, todo, me.said \cup S), Queue(todo), Moved, me.at \notin {"start", "done"},
             at \notin {"start", "plan", "done"}, ShadowTablesKnow',
             \A a \in S : Meaning(a) /\ a.says # "clear",
             \A a \in S, b \in me.said : a.says = "leak" /\ b.on = a.on /\ b.arm = a.arm => b.says # "clear",
             \A e \in Truth.exposed : Counts /\ ShadowTablesPending(e) =>
                \/ ShadowTablesPending(e)' \/ Done(e)
                \/ e \in Truth.blind
                \/ \E a \in S : a.on = e.on /\ (fault = "none" /\ e \in Truth.provable => a.arm = e.arm /\ a.says = "leak")
      PROVE  Common' /\ ShadowTablesInv' /\ Plays
  <2>1. Shape' BY <1>u, <1>c, <1>m, Going
  <2>2. /\ Meant'
        /\ \A e : Done(e) => Done(e)'
        /\ \A e : (\E a \in S : a.on = e.on) => Heard(e)'
        /\ \A e : (\E a \in S : a.on = e.on /\ a.arm = e.arm /\ a.says = "leak") => Done(e)'
    BY <1>u, <1>t, <1>c, <1>m, TellingAll DEF Walks
  <2>3. Session' BY <1>u, <1>c, <1>m, Moving DEF Walks
  <2>4. (Counts' => Counts) /\ Plays BY <1>m DEF Walks, Counts, Plays
  <2>5. \A e \in Truth.exposed : e \in Truth.blind => Done(e)' BY <1>u, <1>t, ShadowTablesPoints DEF Done
  <2>6. ASSUME NEW e \in Truth.exposed, Counts, ShadowTablesPending(e) PROVE ShadowTablesPending(e)' \/ Done(e)'
    <3>1. CASE \E a \in S : a.on = e.on /\ (fault = "none" /\ e \in Truth.provable => a.arm = e.arm /\ a.says = "leak")
      <4>1. Heard(e)' BY <2>2, <3>1
      <4>2. fault = "none" /\ e \in Truth.provable => Done(e)' BY <2>2, <3>1
      <4>3. ~(fault = "none" /\ e \in Truth.provable) => Done(e)' BY <1>u, <1>t, <4>1 DEF Done
      <4> QED BY <4>2, <4>3
    <3> QED BY <1>m, <2>2, <2>5, <2>6, <3>1
  <2> QED BY <1>t, <1>m, <2>1, <2>2, <2>3, <2>4, <2>6 DEF Common, ShadowTablesInv
<1>1. CASE SH!TenantTables
  <2>1. /\ me.at = "plan"
        /\ \/ pg' = pg /\ world.tenants /\ me' = SH!To("triggers")
           \/ pg' = pg /\ me' = SH!Ending(me, "skip")
           \/ pg' = Failed /\ me' = SH!Thrown
    BY <1>1, <1>o, Zenon DEF SH!TenantTables, SH!Await, SH!Do
  <2>2. CASE pg' = pg /\ world.tenants /\ me' = SH!To("triggers")
    <3>1. Walks("triggers", me.todo, me.said) BY <1>e, <2>2
    <3>2. ShadowTablesKnow' BY <1>u, <1>c, <2>1, <2>2, <3>1 DEF Walks, ShadowTablesKnow
    <3>3. \A e : ShadowTablesPending(e)' BY <3>1 DEF ShadowTablesPending, Walks
    <3> QED BY <1>s, <1>c, <2>1, <2>2, <3>1, <3>2, <3>3 DEF Moved, Shape
  <2> QED BY <1>e, <1>l, <2>1, <2>2
<1>2. CASE SH!Triggers
  <2>1. /\ me.at = "triggers"
        /\ \/ pg' = pg /\ SH!WriteTargets = {} /\ me' = SH!To("close")
           \/ pg' = pg /\ me' = SH!To("tables")
           \/ pg' = pg /\ me' = SH!Ending(me, "skip")
           \/ pg' = Failed /\ me' = SH!Thrown
    BY <1>2, <1>o, Zenon DEF SH!Triggers, SH!Await, SH!Do
  <2>2. CASE pg' = pg /\ SH!WriteTargets = {} /\ me' = SH!To("close")
    <3>1. Walks("close", me.todo, me.said) BY <1>e, <2>2
    <3>2. ShadowTablesKnow' BY <3>1 DEF Walks, ShadowTablesKnow
    <3>3. ASSUME NEW e \in Truth.exposed PROVE Done(e)
      <4>1. e \in Truth.blind
        BY <1>c, <2>1, <2>2, DestinationsJudged DEF ShadowTablesKnow, SH!Resolved
      <4> QED BY <4>1, ShadowTablesPoints DEF Done
    <3> QED BY <1>s, <1>c, <2>1, <2>2, <3>1, <3>2, <3>3 DEF Moved, Shape
  <2>3. CASE pg' = pg /\ me' = SH!To("tables")
    <3>1. Walks("tables", me.todo, me.said) BY <1>e, <2>3
    <3>2. ShadowTablesKnow' BY <1>u, <1>c, <2>1, <3>1 DEF Walks, ShadowTablesKnow
    <3>3. \A e : ShadowTablesPending(e)' BY <3>1 DEF ShadowTablesPending, Walks
    <3> QED BY <1>s, <1>c, <2>1, <2>3, <3>1, <3>2, <3>3 DEF Moved, Shape
  <2> QED BY <1>e, <1>l, <2>1, <2>2, <2>3
<1>3. CASE SH!Destinations
  <2> DEFINE Says(k) == SH!ClassifyDestination(world.targets[k])
             L == {[on |-> k, arm |-> "rows", says |-> Says(k)] : k \in {j \in SH!Resolved : Says(j) # "safe"}}
             N == {[on |-> 0, arm |-> "names", says |-> "note"] : k \in SH!WriteTargets \ SH!Resolved}
             S == L \cup N
  <2>1. /\ me.at = "tables"
        /\ \/ pg' = pg /\ me' = [SH!To("close") EXCEPT !.said = S]
           \/ pg' = Failed /\ me' = SH!Thrown
    BY <1>3, <1>o, Zenon DEF SH!Destinations, SH!Await, SH!Do
  <2>2. CASE pg' = pg /\ me' = [SH!To("close") EXCEPT !.said = S]
    <3>1. /\ \A k \in SH!Resolved : Says(k) = "leak" => [on |-> k, arm |-> "rows"] \in Truth.exposed \cup Truth.spurious
          /\ \A e \in Truth.exposed : e \notin Truth.blind =>
               /\ e.on \in SH!Resolved /\ Says(e.on) # "safe"
               /\ e \in Truth.provable => Says(e.on) = "leak"
          /\ \A k : Says(k) \in {"safe", "leak", "note"}
      BY <1>c, <2>1, DestinationsJudged DEF ShadowTablesKnow
    <3> HIDE DEF Says
    <3>2. ASSUME NEW a \in S PROVE Meaning(a) /\ a.says # "clear"
      <4>1. CASE a \in L
        <5>1. PICK k \in SH!Resolved : Says(k) # "safe" /\ a = [on |-> k, arm |-> "rows", says |-> Says(k)] BY <4>1
        <5>2. a.on = k /\ a.arm = "rows" /\ a.says = Says(k) BY <5>1
        <5> HIDE DEF L, N
        <5> QED BY <3>1, <5>1, <5>2 DEF Meaning, Key
      <4>2. CASE a \in N BY <4>2 DEF Meaning
      <4> QED BY <4>1, <4>2
    <3>3. ASSUME NEW e \in Truth.exposed, e \notin Truth.blind
          PROVE  \E a \in S : a.on = e.on /\ a.arm = e.arm /\ (e \in Truth.provable => a.says = "leak")
      <4> DEFINE a == [on |-> e.on, arm |-> "rows", says |-> Says(e.on)]
      <4>1. a \in S BY <3>1, <3>3
      <4>2. a.on = e.on /\ a.arm = e.arm /\ (e \in Truth.provable => a.says = "leak")
        BY <3>1, <3>3, ShadowTablesPoints
      <4> HIDE DEF a, S
      <4> QED BY <4>1, <4>2
    <3> HIDE DEF S
    <3>4. me.said = {} BY <1>c, <2>1 DEF ShadowTablesKnow
    <3>5. Walks("close", me.todo, me.said \cup S) BY <1>c, <2>2, <3>4 DEF Shape, SH!To, Walks
    <3>6. ShadowTablesKnow' BY <3>5 DEF Walks, ShadowTablesKnow
    <3>7. \A a \in S, b \in me.said : a.says = "leak" /\ b.on = a.on /\ b.arm = a.arm => b.says # "clear" BY <3>4
    <3> QED BY <1>c, <1>m, <2>1, <2>2, <3>2, <3>3, <3>5, <3>6, <3>7 DEF Moved, Shape
  <2> QED BY <1>e, <1>l, <2>1, <2>2
<1>4. CASE SH!Leave
  <2>1. /\ me.at = "finally" /\ Common' /\ Plays /\ me'.at = (IF me.thrown THEN "close" ELSE "close")
        /\ me'.thrown = me.thrown /\ me'.result = me.result
        /\ me'.loc = me.loc /\ me'.said = me.said /\ me'.todo = me.todo /\ (Counts' <=> Counts)
        /\ pg' \in {pg, RolledBack(pg)} /\ (pg.st \notin {"open", "aborted"} => pg' = pg)
    BY <1>b, <1>t, <1>4, RollsBack
  <2>2. (\A e : Done(e)' <=> Done(e)) /\ (Unclear' <=> Unclear) BY <1>u, <1>t, <1>c, <2>1, Quiet
  <2>3. ShadowTablesKnow' BY <1>u, <1>c, <2>1, <2>2 DEF ShadowTablesKnow
  <2>4. \A e \in Truth.exposed : ShadowTablesPending(e) /\ Counts => ShadowTablesPending(e)' BY <1>u, <2>1
      DEF ShadowTablesPending
  <2> QED BY <1>t, <2>1, <2>2, <2>3, <2>4 DEF ShadowTablesInv
<1>5. CASE SH!Connect
  <2>1. /\ me.at = "start" /\ Common' /\ Plays /\ me'.loc = me.loc /\ me'.said = {} /\ me'.todo = me.todo
        /\ \/ me'.at = "plan" /\ pg' = [pg EXCEPT !.st = "idle"] /\ pg'.st = "idle" /\ Whole(me'.todo)
           \/ me'.at = "done" /\ ~Counts' /\ pg' = pg
    BY <1>b, <1>t, <1>5, Connects
  <2>2. ShadowTablesKnow' BY <1>u, <1>c, <2>1 DEF ShadowTablesKnow, Unclear
  <2>3. Counts' => \A e : ShadowTablesPending(e)' BY <2>1 DEF ShadowTablesPending
  <2> QED BY <2>1, <2>2, <2>3 DEF ShadowTablesInv
<1>6. CASE SH!Disconnect
  <2>1. /\ me.at = "close" /\ Common' /\ Plays /\ me'.at = "done"
        /\ me'.loc = me.loc /\ me'.said = me.said /\ me'.todo = me.todo /\ (Counts' => Counts)
    BY <1>b, <1>t, <1>6, Disconnects
  <2>2. (\A e : Done(e)' <=> Done(e)) /\ (Unclear' <=> Unclear) BY <1>u, <1>t, <1>c, <2>1, Quiet
  <2>3. ShadowTablesKnow' BY <1>u, <1>c, <2>1, <2>2 DEF ShadowTablesKnow
  <2>4. \A e : ~ShadowTablesPending(e) BY <2>1 DEF ShadowTablesPending
  <2> QED BY <1>t, <2>1, <2>2, <2>3, <2>4 DEF ShadowTablesInv
<1> QED BY <1>1, <1>2, <1>3, <1>4, <1>5, <1>6 DEF SH!Next, SH!Check, SH!Run

\* So does a fault, whenever it strikes.
LEMMA ShadowTablesStruck ==
  ASSUME Common, ShadowTablesInv, world.guard = "shadow-tables", Drop \/ Cancel
  PROVE  Common' /\ ShadowTablesInv'
<1>1. world' = world /\ fault = "none" BY DEF Drop, Cancel
<1>2. Truth'.exposed = Truth.exposed /\ Truth.blind \subseteq Truth'.blind /\ Truth.spurious \subseteq Truth'.spurious
  <2>1. Truth = SH!Truth /\ Truth' = SH!Truth' BY <1>1 DEF Truth
  <2>2. SH!Exposed' = SH!Exposed BY <1>1 DEF SH!Exposed, SH!Readable, SH!Protected
  <2>3. SH!Blind \subseteq SH!Blind' BY <1>1, <2>2 DEF SH!Blind
  <2>4. SH!Spurious \subseteq SH!Spurious' BY <1>1 DEF SH!Spurious, SH!Readable, SH!Protected
  <2> QED BY <2>1, <2>2, <2>3, <2>4 DEF SH!Truth
<1>3. /\ me' = me /\ fault' # "none" /\ Common'
      /\ \/ fault' = "lost" /\ pg'.st = "lost" /\ pg'.who = "nobody" /\ pg'.saves = <<>>
         \/ fault' = "cancelled" /\ pg.st = "open" /\ pg'.st = "aborted" /\ pg' = Failed
      /\ \A e : Done(e) => Done(e)'
      /\ \A k, x : Untold(k, x)' <=> Untold(k, x)
      /\ Unclear' <=> Unclear
  BY <1>2, Striking
<1>4. ShadowTablesKnow' BY <1>1, <1>3 DEF ShadowTablesInv, ShadowTablesKnow
<1>5. \A e : ShadowTablesPending(e) => ShadowTablesPending(e)' BY <1>1, <1>3 DEF ShadowTablesPending
<1> QED BY <1>2, <1>3, <1>4, <1>5 DEF ShadowTablesInv, Counts

\* Shadow-tables begins so.
LEMMA ShadowTablesBegins == ASSUME SH!Init PROVE Common /\ ShadowTablesInv /\ world.guard = "shadow-tables"
<1>1. Begins("shadow-tables") /\ me.loc = [none |-> 0]
  BY WorldAssumption DEF Names, Begins, Whole, Count, Closed, SH!Init, SH!Enter, SH!Entered, SH!Closed
<1>2. Common BY <1>1, Beginning DEF Names
<1>3. ShadowTablesKnow BY <1>1 DEF ShadowTablesKnow, Begins, Unclear
<1> QED BY <1>1, <1>2, <1>3 DEF ShadowTablesInv, ShadowTablesPending, Begins

\* A step of nobody keeps it.
LEMMA ShadowTablesStays ==
  ASSUME Common, ShadowTablesInv, world.guard = "shadow-tables", UNCHANGED vars
  PROVE  Common' /\ ShadowTablesInv'
<1>1. world' = world /\ fault' = fault /\ pg' = pg /\ me' = me BY DEF vars
<1>2. Truth' = Truth BY <1>1, ShadowTablesSame
<1>3. Common' /\ (\A e : Done(e)' <=> Done(e)) /\ (Counts' <=> Counts) BY <1>1, <1>2, Resting
<1>4. ShadowTablesKnow' /\ (\A e : ShadowTablesPending(e)' <=> ShadowTablesPending(e))
  BY <1>1, <1>2 DEF ShadowTablesInv, ShadowTablesKnow, ShadowTablesPending
<1> QED BY <1>2, <1>3, <1>4 DEF ShadowTablesInv

\* At the end nothing is pending, and a question is a target and an arm.
LEMMA ShadowTablesEnds ==
  ASSUME Common, world.guard = "shadow-tables", ShadowTablesInv, me.at = "done", Counts
  PROVE  /\ \A e \in Truth.exposed : e = Key(e) /\ Done(e)
         /\ Truth.provable \subseteq Truth.exposed
<1>1. \A e : ~ShadowTablesPending(e) BY DEF ShadowTablesPending
<1> QED BY <1>1, ShadowTablesPoints DEF ShadowTablesInv, Key

-----------------------------------------------------------------------------
(* pooler-bleed.                                                           *)
\* What a walk has found after so many rounds, and what is left of it.
BleedFound ==
  /\ me.loc.found \subseteq PB!Gucs
  /\ \A k \in PB!Gucs : PB!T(k).depth = 0 => k \in me.loc.found

BleedLeft ==
  /\ me.loc.depth \in Nat /\ me.loc.depth >= 1 /\ world.functions # "error"
  /\ me.loc.frontier = {k \in PB!Gucs : ~PB!T(k).hole /\ PB!T(k).depth > me.loc.depth}
  /\ \A k \in PB!Gucs : PB!T(k).depth <= me.loc.depth /\ ~PB!T(k).hole => k \in me.loc.found

\* What a round makes of the guard: more notes, and a walk that is open or over.
BleedRecord(m, N) ==
  /\ DOMAIN m = DOMAIN me /\ DOMAIN m.loc = {"depth", "frontier", "found", "set", "survived"}
  /\ m.todo = me.todo /\ m.said = me.said \cup N /\ m.thrown = me.thrown /\ m.result = me.result
  /\ \A a \in N : a = [on |-> 0, arm |-> "functions", says |-> "note"]

BleedRound(m) ==
  /\ m.loc.found \subseteq PB!Gucs
  /\ \A k \in PB!Gucs : PB!T(k).depth = 0 => k \in m.loc.found
  /\ m.loc.frontier # {} =>
       /\ m.loc.depth \in Nat /\ m.loc.depth >= 1 /\ world.functions # "error"
       /\ m.loc.frontier = {k \in PB!Gucs : ~PB!T(k).hole /\ PB!T(k).depth > m.loc.depth}
       /\ \A k \in PB!Gucs : PB!T(k).depth <= m.loc.depth /\ ~PB!T(k).hole => k \in m.loc.found
  /\ m.loc.frontier = {} => \A k \in PB!Gucs : k \in m.loc.found \/ PB!Unresolved(k)

\* Nothing is called clear, there is never a transaction, and the walk over the
\* functions has found what lies so many calls away.
PoolerBleedKnow ==
  /\ Unclear
  /\ me.at \notin {"start", "done"} => pg.st \in {"idle", "lost"}
  /\ me.at \in {"start", "plan", "functions", "bodies", "scan"} =>
       DOMAIN me.loc = {"depth", "frontier", "found", "set", "survived"}
  /\ me.at \in {"start", "plan", "functions"} => me.loc.depth = 0
  /\ me.at \in {"functions", "bodies", "scan"} => BleedFound
  /\ me.at = "bodies" => BleedLeft
  /\ me.at = "scan" => \A k \in PB!Gucs : k \in me.loc.found \/ PB!Unresolved(k)

\* The settings are judged at the end.
PoolerBleedPending(e) == me.at \in {"start", "plan", "functions", "bodies", "scan"}

\* Everything exposed is pending or done.
PoolerBleedInv == PoolerBleedKnow /\ (Counts => \A e \in Truth.exposed : PoolerBleedPending(e) \/ Done(e))

\* What is exposed to pooler-bleed, and what of it is missed, misjudged or provable.
LEMMA PoolerBleedPoints ==
  ASSUME world.guard = "pooler-bleed"
  PROVE  /\ \A e : e \in Truth.exposed <=>
              /\ e = [on |-> e.on, arm |-> "scope"] /\ e.on \in PB!Gucs
              /\ ~PB!T(e.on).allow /\ ("session" \in PB!T(e.on).writes \/ PB!T(e.on).hidden)
              /\ ~(world.release /\ PB!Resets(e.on))
         /\ \A e : e \in Truth.blind <=>
              e \in Truth.exposed /\ (PB!Unresolved(e.on) \/ PB!T(e.on).writes = {"local"})
         /\ \A e \in Truth.provable :
              e \in Truth.exposed /\ e \notin Truth.blind /\ "session" \in PB!T(e.on).writes /\ ~PB!Resets(e.on)
<1>1. Truth.exposed = PB!Exposed /\ Truth.blind = PB!Blind /\ Truth.provable = PB!Provable
  BY DEF Truth, PB!Truth
<1>2. \A e : e \in Truth.exposed <=>
              /\ e = [on |-> e.on, arm |-> "scope"] /\ e.on \in PB!Gucs
              /\ ~PB!T(e.on).allow /\ ("session" \in PB!T(e.on).writes \/ PB!T(e.on).hidden)
              /\ ~(world.release /\ PB!Resets(e.on))
  BY <1>1 DEF PB!Exposed
<1>3. \A e \in Truth.provable :
              e \in Truth.exposed /\ e \notin Truth.blind /\ "session" \in PB!T(e.on).writes /\ ~PB!Resets(e.on)
  BY <1>1 DEF PB!Provable
<1> QED BY <1>1, <1>2, <1>3 DEF PB!Blind

\* What is exposed to pooler-bleed depends on the database and the fault alone.
LEMMA PoolerBleedSame ==
  ASSUME world.guard = "pooler-bleed", world' = world, fault' = fault
  PROVE  Truth' = Truth
<1>1. Truth = PB!Truth BY DEF Truth
<1>2. Truth' = PB!Truth' BY DEF Truth
<1>3. PB!Exposed' = PB!Exposed BY DEF PB!Exposed, PB!Gucs, PB!Resets, PB!T
<1>4. PB!Blind' = PB!Blind BY <1>3 DEF PB!Blind, PB!MaxDepth, PB!T, PB!Unresolved
<1>5. PB!Provable' = PB!Provable BY <1>3, <1>4 DEF PB!Gucs, PB!Provable, PB!Resets, PB!T
<1>6. PB!Spurious' = PB!Spurious BY DEF PB!Spurious
<1>7. PB!Fragile' = PB!Fragile BY DEF PB!Fragile
<1> QED BY <1>1, <1>2, <1>3, <1>4, <1>5, <1>6, <1>7 DEF PB!Truth

\* A step of pooler-bleed changes neither the database nor the fault.
LEMMA PoolerBleedRest == ASSUME PB!Next PROVE world' = world /\ fault' = fault
BY DEF PB!Attempt, PB!Await, PB!Check, PB!Connect, PB!Disconnect, PB!Do, PB!FunctionBodies, PB!Leave,
     PB!LookForPersistent, PB!LookTransient, PB!Next, PB!PolicyFunctions, PB!PolicyGucs, PB!Run, PB!ScanSources,
     PB!SetPersistent, PB!SetTransient, PB!Unset

\* A step of pooler-bleed keeps what it knows, and is one its runner expects.
LEMMA PoolerBleedAnswers ==
  ASSUME Common, PoolerBleedInv, world.guard = "pooler-bleed", PB!Next
  PROVE  Common' /\ PoolerBleedInv' /\ Plays
<1>u. world' = world /\ fault' = fault BY PoolerBleedRest
<1>t. Truth' = Truth BY <1>u, PoolerBleedSame
<1>b. /\ PB!Connect <=> Connect
      /\ PB!Disconnect <=> Disconnect
      /\ PB!Leave <=> Leave
  BY DEF PB!Closed, Closed, PB!Connect, Connect, PB!Disconnect, Disconnect, PB!Do, Do, PB!LeaksIn, LeaksIn, PB!Leave,
         Leave, PB!To, To, PB!Verdict, Verdict
<1>o. /\ PB!Live <=> Live
      /\ PB!Failed = Failed
  BY DEF PB!Live, Live, PB!Failed, Failed, PB!Closed, Closed
<1>c. Session /\ Shape /\ Meant /\ PoolerBleedKnow BY DEF Common, PoolerBleedInv
\* Leaving.
<1>l. ASSUME Leaves, me.at \notin {"start", "done"}, pg' \in {pg, Failed} PROVE Common' /\ PoolerBleedInv' /\ Plays
  <2>1. Shape' /\ Meant' /\ ~Counts' /\ Plays BY <1>u, <1>t, <1>l, Leaving
  <2>2. Session' BY <1>u, <1>c, <1>l, Moving DEF Moved, Leaves
  <2>4. (Unclear' <=> Unclear) /\ (\A k, x : Untold(k, x)' <=> Untold(k, x)) BY <1>u, <1>t, <1>c, <1>l, Quiet
      DEF Leaves
  <2>5. pg'.st \in {pg.st, IF pg.st = "open" THEN "aborted" ELSE pg.st} BY <1>c, <1>l DEF Failed, Session, Proper,
      Sound
  <2>3. PoolerBleedKnow'
    <3>1. me'.at \in {"finally", "close"} /\ me'.todo = me.todo /\ me'.said = me.said /\ me'.loc = me.loc /\ DOMAIN me' = DOMAIN me
      BY <1>l DEF Leaves
    <3> QED BY <1>u, <1>c, <1>l, <2>1, <2>4, <2>5, <3>1 DEF PoolerBleedKnow
  <2> QED BY <2>1, <2>2, <2>3 DEF Common, PoolerBleedInv
\* Going on without an answer.
<1>s. ASSUME NEW at, NEW todo, Walks(at, todo, me.said), Queue(todo), Moved, me.at \notin {"start", "done"},
             at \notin {"start", "plan", "done"}, PoolerBleedKnow',
             \A e \in Truth.exposed : Counts /\ PoolerBleedPending(e) => PoolerBleedPending(e)' \/ Done(e)
      PROVE  Common' /\ PoolerBleedInv' /\ Plays
  <2>1. Shape' BY <1>u, <1>c, <1>s, Going
  <2>2. Meant' /\ \A e : Done(e)' <=> Done(e) BY <1>u, <1>t, <1>c, <1>s, Quiet DEF Walks
  <2>3. Session' BY <1>u, <1>c, <1>s, Moving DEF Walks
  <2>4. (Counts' => Counts) /\ Plays BY <1>s DEF Walks, Counts, Plays
  <2> QED BY <1>t, <1>s, <2>1, <2>2, <2>3, <2>4 DEF Common, PoolerBleedInv
<1>e. /\ me' = PB!Thrown => Leaves
      /\ me' = PB!Ending(me, "skip") => Leaves
      /\ \A l : me' = PB!To(l) => Walks(l, me.todo, me.said) /\ me'.loc = me.loc
  BY <1>c DEF Shape, PB!Thrown, PB!Ending, PB!To, Leaves, Walks
\* Going on with several answers.
<1>m. ASSUME NEW at, NEW todo, NEW S, Walks(at, todo, me.said \cup S), Queue(todo), Moved, me.at \notin {"start", "done"},
             at \notin {"start", "plan", "done"}, PoolerBleedKnow',
             \A a \in S : Meaning(a) /\ a.says # "clear",
             \A a \in S, b \in me.said : a.says = "leak" /\ b.on = a.on /\ b.arm = a.arm => b.says # "clear",
             \A e \in Truth.exposed : Counts /\ PoolerBleedPending(e) =>
                \/ PoolerBleedPending(e)' \/ Done(e)
                \/ e \in Truth.blind
                \/ \E a \in S : a.on = e.on /\ (fault = "none" /\ e \in Truth.provable => a.arm = e.arm /\ a.says = "leak")
      PROVE  Common' /\ PoolerBleedInv' /\ Plays
  <2>1. Shape' BY <1>u, <1>c, <1>m, Going
  <2>2. /\ Meant'
        /\ \A e : Done(e) => Done(e)'
        /\ \A e : (\E a \in S : a.on = e.on) => Heard(e)'
        /\ \A e : (\E a \in S : a.on = e.on /\ a.arm = e.arm /\ a.says = "leak") => Done(e)'
    BY <1>u, <1>t, <1>c, <1>m, TellingAll DEF Walks
  <2>3. Session' BY <1>u, <1>c, <1>m, Moving DEF Walks
  <2>4. (Counts' => Counts) /\ Plays BY <1>m DEF Walks, Counts, Plays
  <2>5. \A e \in Truth.exposed : e \in Truth.blind => Done(e)' BY <1>u, <1>t, PoolerBleedPoints DEF Done
  <2>6. ASSUME NEW e \in Truth.exposed, Counts, PoolerBleedPending(e) PROVE PoolerBleedPending(e)' \/ Done(e)'
    <3>1. CASE \E a \in S : a.on = e.on /\ (fault = "none" /\ e \in Truth.provable => a.arm = e.arm /\ a.says = "leak")
      <4>1. Heard(e)' BY <2>2, <3>1
      <4>2. fault = "none" /\ e \in Truth.provable => Done(e)' BY <2>2, <3>1
      <4>3. ~(fault = "none" /\ e \in Truth.provable) => Done(e)' BY <1>u, <1>t, <4>1 DEF Done
      <4> QED BY <4>2, <4>3
    <3> QED BY <1>m, <2>2, <2>5, <2>6, <3>1
  <2> QED BY <1>t, <1>m, <2>1, <2>2, <2>3, <2>4, <2>6 DEF Common, PoolerBleedInv
<1>w. \A k \in PB!Gucs : PB!T(k).writes \subseteq {"session", "local", "unknown"} /\ PB!T(k).depth \in Nat
  BY <1>c, BleedAssumption DEF Shape, PB!Gucs, PB!T
<1>y. PB!Gucs' = PB!Gucs /\ (\A k : PB!T(k)' = PB!T(k)) /\ \A k : PB!Unresolved(k)' <=> PB!Unresolved(k)
  BY <1>u DEF PB!Gucs, PB!T, PB!Unresolved
<1>n. \A arm : Meaning([on |-> 0, arm |-> arm, says |-> "note"]) BY DEF Meaning
<1>i. ASSUME me.at \notin {"start", "done"}, pg' \in {pg, Failed} PROVE pg'.st \in {"idle", "lost"} /\ Moved
  BY <1>c, <1>i DEF PoolerBleedKnow, Failed, Session, Proper, Sound, Moved
\* A round of the walk.
<1>r. ASSUME NEW m, NEW N, me.at \in {"functions", "bodies"}, pg' \in {pg, Failed}, me' = PB!Walked(m),
             BleedRecord(m, N), BleedRound(m)
      PROVE  Common' /\ PoolerBleedInv' /\ Plays
  <2>1. \A a \in N : Meaning(a) /\ a.says # "clear" BY <1>n, <1>r DEF BleedRecord
  <2>2. \A a \in N, b \in me.said : a.says = "leak" /\ b.on = a.on /\ b.arm = a.arm => b.says # "clear"
    BY <1>c DEF PoolerBleedKnow, Unclear
  <2>3. \/ /\ me'.at = "close" /\ me'.result = "skip"
        \/ /\ m.loc.frontier # {} /\ me'.at = "bodies" /\ me'.result = me.result
        \/ /\ m.loc.frontier = {} /\ me'.at = "scan" /\ me'.result = me.result
    BY <1>c, <1>r DEF BleedRecord, PB!Walked, PB!Ending, Shape
  <2>4. /\ DOMAIN me' = DOMAIN me /\ me'.todo = me.todo /\ me'.said = me.said \cup N /\ me'.thrown = me.thrown
        /\ me'.loc = m.loc
    BY <1>c, <1>r DEF BleedRecord, PB!Walked, PB!Ending, Shape
  <2>5. Unclear' BY <1>c, <2>1, <2>4 DEF Unclear, PoolerBleedKnow
  <2>6. PoolerBleedKnow'
    BY <1>c, <1>i, <1>r, <1>u, <1>y, <2>3, <2>4, <2>5 DEF PoolerBleedKnow, BleedFound, BleedLeft, BleedRecord,
        BleedRound
  <2>7. CASE me'.at = "close" /\ me'.result = "skip"
    <3>1. Common' /\ ~Counts' /\ Plays BY <1>u, <1>t, <1>c, <1>i, <1>r, <2>1, <2>2, <2>4, <2>7, Dropping
    <3> QED BY <2>6, <3>1 DEF PoolerBleedInv
  <2>8. CASE me'.at \in {"bodies", "scan"} /\ me'.result = me.result
    <3>1. Walks(me'.at, me.todo, me.said \cup N) BY <2>4, <2>8 DEF Walks
    <3>2. \A e : PoolerBleedPending(e)' BY <2>8 DEF PoolerBleedPending
    <3>3. me'.at \notin {"start", "plan", "done"} BY <2>8
    <3> QED BY <1>c, <1>i, <1>m, <1>r, <2>1, <2>2, <2>6, <3>1, <3>2, <3>3 DEF Shape
  <2> QED BY <2>3, <2>7, <2>8
\* The demonstration.
<1>p. ASSUME NEW at \in {"look", "local", "vanished", "unset", "close"}, NEW N, Walks(at, me.todo, me.said \cup N),
             pg' \in {pg, Failed}, me.at \in {"set", "look", "local", "vanished", "unset"},
             \A a \in N : a = [on |-> 0, arm |-> "probe", says |-> "note"]
      PROVE  Common' /\ PoolerBleedInv' /\ Plays
  <2>1. \A a \in N : Meaning(a) /\ a.says # "clear" BY <1>n, <1>p
  <2>2. \A a \in N, b \in me.said : a.says = "leak" /\ b.on = a.on /\ b.arm = a.arm => b.says # "clear"
    BY <1>c DEF PoolerBleedKnow, Unclear
  <2>3. PoolerBleedKnow' BY <1>c, <1>i, <1>p, <2>1 DEF PoolerBleedKnow, Unclear, Walks
  <2>4. \A e : ~PoolerBleedPending(e) BY <1>p DEF PoolerBleedPending
  <2> QED BY <1>c, <1>i, <1>m, <1>p, <2>1, <2>2, <2>3, <2>4 DEF Shape
\* It ends with a note, or goes on with none.
<1>d. ASSUME me.at \in {"set", "look", "local", "vanished", "unset"}, pg' \in {pg, Failed}
      PROVE  /\ me' = PB!Demonstrated => Common' /\ PoolerBleedInv' /\ Plays
             /\ \A v : me' = [PB!Demonstrated EXCEPT !.loc.set = v] => Common' /\ PoolerBleedInv' /\ Plays
             /\ \A at \in {"look", "local", "vanished", "unset"} :
                  /\ me' = PB!To(at) => Common' /\ PoolerBleedInv' /\ Plays
                  /\ \A v : me' = [PB!To(at) EXCEPT !.loc.set = v] => Common' /\ PoolerBleedInv' /\ Plays
                  /\ \A v : me' = [PB!To(at) EXCEPT !.loc.survived = v] => Common' /\ PoolerBleedInv' /\ Plays
  <2> DEFINE N == {[on |-> 0, arm |-> "probe", says |-> "note"]}
  <2>1. \A a \in N : a = [on |-> 0, arm |-> "probe", says |-> "note"] OBVIOUS
  <2>2. PB!Demonstrated = [[me EXCEPT !.at = "close"] EXCEPT !.said = @ \cup N] BY DEF PB!Demonstrated, PB!Said, PB!To
  <2> HIDE DEF N
  <2>3. ASSUME me' = PB!Demonstrated \/ \E v : me' = [PB!Demonstrated EXCEPT !.loc.set = v]
        PROVE  Walks("close", me.todo, me.said \cup N)
    BY <1>c, <2>2, <2>3 DEF Shape, Walks
  <2>4. ASSUME NEW at, \/ me' = PB!To(at) \/ (\E v : me' = [PB!To(at) EXCEPT !.loc.set = v])
                       \/ (\E v : me' = [PB!To(at) EXCEPT !.loc.survived = v])
        PROVE  Walks(at, me.todo, me.said)
    BY <1>c, <2>4 DEF Shape, Walks, PB!To
  <2>5. PICK O : O = {} OBVIOUS
  <2>8. \A a \in O : a = [on |-> 0, arm |-> "probe", says |-> "note"] BY <2>5
  <2>6. ASSUME me' = PB!Demonstrated \/ \E v : me' = [PB!Demonstrated EXCEPT !.loc.set = v]
        PROVE  Common' /\ PoolerBleedInv' /\ Plays
    BY <1>d, <1>p, <2>1, <2>3, <2>6
  <2>7. ASSUME NEW at \in {"look", "local", "vanished", "unset"},
               \/ me' = PB!To(at) \/ (\E v : me' = [PB!To(at) EXCEPT !.loc.set = v])
               \/ (\E v : me' = [PB!To(at) EXCEPT !.loc.survived = v])
        PROVE  Common' /\ PoolerBleedInv' /\ Plays
    <3>1. me.said = me.said \cup O BY <2>5
    <3>2. Walks(at, me.todo, me.said \cup O) BY <2>4, <2>7, <3>1
    <3> QED BY <1>d, <1>p, <2>8, <3>2
  <2> QED BY <2>6, <2>7
<1>1. CASE PB!PolicyGucs
  <2> DEFINE F == {k \in PB!Gucs : PB!T(k).depth = 0}
  <2>1. /\ me.at = "plan"
        /\ \/ pg' = pg /\ me' = [PB!To("functions") EXCEPT !.loc.found = F]
           \/ pg' = Failed /\ me' = PB!Thrown
    BY <1>1, <1>o, Zenon DEF PB!PolicyGucs, PB!Await, PB!Do
  <2>2. CASE pg' = pg /\ me' = [PB!To("functions") EXCEPT !.loc.found = F]
    <3>1. F \subseteq PB!Gucs /\ \A k \in PB!Gucs : PB!T(k).depth = 0 => k \in F OBVIOUS
    <3> HIDE DEF F
    <3>2. Walks("functions", me.todo, me.said) /\ me'.loc = [me.loc EXCEPT !.found = F]
      BY <1>c, <2>2 DEF Shape, PB!To, Walks
    <3>3. DOMAIN me'.loc = DOMAIN me.loc /\ me'.loc.depth = me.loc.depth /\ me'.loc.found = F
      BY <1>c, <2>1, <3>2 DEF PoolerBleedKnow
    <3>4. PoolerBleedKnow' BY <1>c, <1>i, <1>y, <2>1, <2>2, <3>1, <3>2, <3>3 DEF PoolerBleedKnow, BleedFound, Unclear,
        Walks
    <3>5. \A e : PoolerBleedPending(e)' BY <3>2 DEF PoolerBleedPending, Walks
    <3> QED BY <1>s, <1>c, <1>i, <2>1, <2>2, <3>2, <3>4, <3>5 DEF Shape
  <2> QED BY <1>e, <1>l, <2>1, <2>2
\* A round adds to what is known, and giving up adds a note.
<1>g. ASSUME NEW m, m = [PB!Said(me, 0, "functions", "note") EXCEPT !.loc.frontier = {}], me.at \in {"functions", "bodies"}
      PROVE  /\ \E N : BleedRecord(m, N)
             /\ m.loc.found = me.loc.found /\ m.loc.frontier = {}
  <2> DEFINE N == {[on |-> 0, arm |-> "functions", says |-> "note"]}
  <2>1. m = [[me EXCEPT !.said = @ \cup N] EXCEPT !.loc.frontier = {}] BY <1>g DEF PB!Said
  <2> HIDE DEF N
  <2>2. /\ DOMAIN m = DOMAIN me /\ m.todo = me.todo /\ m.said = me.said \cup N
        /\ m.thrown = me.thrown /\ m.result = me.result /\ m.loc = [me.loc EXCEPT !.frontier = {}]
    BY <1>c, <2>1 DEF Shape
  <2>3. \A a \in N : a = [on |-> 0, arm |-> "functions", says |-> "note"] BY DEF N
  <2>4. DOMAIN me.loc = {"depth", "frontier", "found", "set", "survived"} BY <1>c, <1>g DEF PoolerBleedKnow
  <2>5. BleedRecord(m, N) /\ m.loc.found = me.loc.found /\ m.loc.frontier = {} BY <2>2, <2>3, <2>4 DEF BleedRecord
  <2> QED BY <2>5
<1>h. ASSUME NEW m, NEW bodies, m = PB!Explored(bodies), me.at \in {"functions", "bodies"}
      PROVE  \E N :
             /\ BleedRecord(m, N)
             /\ m.loc.depth = me.loc.depth + 1
             /\ m.loc.found = me.loc.found \cup {k \in bodies : ~PB!T(k).hole /\ PB!T(k).depth = me.loc.depth + 1}
             /\ m.loc.frontier = {k \in bodies : ~PB!T(k).hole /\ PB!T(k).depth > me.loc.depth + 1}
  <2> DEFINE readable == {k \in bodies : ~PB!T(k).hole}
             d == me.loc.depth + 1
             F == {k \in readable : PB!T(k).depth = d}
             R == {k \in readable : PB!T(k).depth > d}
             N == {[on |-> 0, arm |-> "functions", says |-> "note"] : k \in bodies \ readable}
  <2>1. m = [me EXCEPT !.loc.depth = d, !.loc.found = @ \cup F, !.loc.frontier = R, !.said = @ \cup N]
    BY <1>h, Zenon DEF PB!Explored
  <2>2. /\ F = {k \in bodies : ~PB!T(k).hole /\ PB!T(k).depth = me.loc.depth + 1}
        /\ R = {k \in bodies : ~PB!T(k).hole /\ PB!T(k).depth > me.loc.depth + 1}
        /\ d = me.loc.depth + 1
        /\ \A a \in N : a = [on |-> 0, arm |-> "functions", says |-> "note"]
    OBVIOUS
  <2> HIDE DEF readable, d, F, R, N
  <2>3. DOMAIN me.loc = {"depth", "frontier", "found", "set", "survived"} BY <1>c, <1>h DEF PoolerBleedKnow
  <2>4. /\ DOMAIN m = DOMAIN me /\ m.todo = me.todo /\ m.said = me.said \cup N
        /\ m.thrown = me.thrown /\ m.result = me.result
        /\ m.loc = [[[me.loc EXCEPT !.depth = d] EXCEPT !.found = @ \cup F] EXCEPT !.frontier = R]
    BY <1>c, <2>1, <2>3 DEF Shape
  <2>5. DOMAIN m.loc = DOMAIN me.loc /\ m.loc.depth = d /\ m.loc.found = me.loc.found \cup F /\ m.loc.frontier = R
    BY <2>3, <2>4
  <2>6. BleedRecord(m, N) BY <2>2, <2>3, <2>4, <2>5 DEF BleedRecord
  <2> QED BY <2>2, <2>5, <2>6
<1>2. CASE PB!PolicyFunctions
  <2> DEFINE all == {k \in PB!Gucs : PB!T(k).depth > 0}
             up == [PB!Said(me, 0, "functions", "note") EXCEPT !.loc.frontier = {}]
  <2>1. /\ me.at = "functions"
        /\ \/ pg' = pg /\ world.functions # "error" /\ me' = PB!Walked(PB!Explored(all))
           \/ pg' = Failed /\ (~Live \/ world.functions = "error") /\ me' = PB!Walked(up)
    BY <1>2, <1>b, <1>o, Zenon DEF PB!PolicyFunctions, PB!Attempt, PB!Do, PB!GaveUp
  <2>2. me.loc.depth = 0 /\ BleedFound BY <1>c, <2>1 DEF PoolerBleedKnow
  <2>3. CASE pg' = pg /\ world.functions # "error" /\ me' = PB!Walked(PB!Explored(all))
    <3>1. PICK m : m = PB!Explored(all) OBVIOUS
    <3>a. PICK bodies : bodies = all OBVIOUS
    <3>b. m = PB!Explored(bodies) BY <3>1, <3>a, Zenon
    <3>2. PICK N :
             /\ BleedRecord(m, N)
             /\ m.loc.depth = me.loc.depth + 1
             /\ m.loc.found = me.loc.found \cup {k \in bodies : ~PB!T(k).hole /\ PB!T(k).depth = me.loc.depth + 1}
             /\ m.loc.frontier = {k \in bodies : ~PB!T(k).hole /\ PB!T(k).depth > me.loc.depth + 1}
      <4> HIDE DEF all
      <4> QED BY <1>h, <2>1, <3>b
    <3>3. m.loc.depth = 1 /\ m.loc.depth \in Nat BY <2>2, <3>2
    <3>4. m.loc.frontier = {k \in PB!Gucs : ~PB!T(k).hole /\ PB!T(k).depth > m.loc.depth}
      BY <1>w, <2>2, <3>a, <3>2, <3>3
    <3>5. \A k \in PB!Gucs : PB!T(k).depth <= m.loc.depth /\ ~PB!T(k).hole => k \in m.loc.found
      <4>1. \A k \in PB!Gucs : PB!T(k).depth <= 1 => PB!T(k).depth = 0 \/ PB!T(k).depth = 1 BY <1>w
      <4> QED BY <2>2, <3>a, <3>2, <3>3, <4>1 DEF BleedFound
    <3>6. m.loc.found \subseteq PB!Gucs /\ \A k \in PB!Gucs : PB!T(k).depth = 0 => k \in m.loc.found
      BY <2>2, <3>a, <3>2 DEF BleedFound
    <3>7. m.loc.frontier = {} => \A k \in PB!Gucs : k \in m.loc.found \/ PB!Unresolved(k)
      <4>1. ASSUME m.loc.frontier = {}, NEW k \in PB!Gucs, k \notin m.loc.found PROVE PB!Unresolved(k)
        <5>1. PB!T(k).depth > 0 BY <1>w, <3>6, <4>1
        <5>2. PB!T(k).depth > m.loc.depth \/ PB!T(k).hole BY <1>w, <3>3, <3>5, <4>1
        <5>3. PB!T(k).hole BY <3>4, <4>1, <5>2
        <5> QED BY <5>1, <5>3 DEF PB!Unresolved
      <4> QED BY <4>1
    <3>8. me' = PB!Walked(m) BY <2>3, <3>1
    <3> HIDE DEF all
    <3>9. m.loc.depth >= 1 BY <3>3
    <3>10. BleedRound(m) BY <2>3, <3>3, <3>4, <3>5, <3>6, <3>7, <3>9 DEF BleedRound
    <3> QED BY <1>r, <2>1, <2>3, <3>2, <3>8, <3>10
  <2>4. CASE pg' = Failed /\ (~Live \/ world.functions = "error") /\ me' = PB!Walked(up)
    <3>1. PICK m : m = up OBVIOUS
    <3>2. \A k \in PB!Gucs : k \in me.loc.found \/ PB!Unresolved(k)
      <4>1. ~Live => fault = "lost" BY <1>c, <2>1 DEF Live, Session, PoolerBleedKnow
      <4> QED BY <1>w, <2>2, <2>4, <4>1 DEF BleedFound, PB!Unresolved
    <3>3. PICK N : BleedRecord(m, N) /\ m.loc.found = me.loc.found /\ m.loc.frontier = {}
      BY <1>g, <2>1, <3>1
    <3>4. me' = PB!Walked(m) BY <2>4, <3>1
    <3> HIDE DEF up
    <3>5. BleedRound(m) BY <2>2, <3>2, <3>3 DEF BleedFound, BleedRound
    <3> QED BY <1>r, <2>1, <2>4, <3>3, <3>4, <3>5
  <2> QED BY <2>1, <2>3, <2>4
<1>3. CASE PB!FunctionBodies
  <2> DEFINE up == [PB!Said(me, 0, "functions", "note") EXCEPT !.loc.frontier = {}]
             end == [me EXCEPT !.loc.frontier = {}]
  <2>1. /\ me.at = "bodies"
        /\ \/ pg' = pg /\ me.loc.depth < PB!MaxDepth /\ me' = PB!Walked(PB!Explored(me.loc.frontier))
           \/ pg' = pg /\ ~(me.loc.depth < PB!MaxDepth) /\ me' = PB!Walked(end)
           \/ pg' = Failed /\ (~Live \/ world.bodies = "error") /\ me' = PB!Walked(up)
    BY <1>3, <1>b, <1>o, Zenon DEF PB!FunctionBodies, PB!Attempt, PB!Do, PB!GaveUp
  <2>2. BleedFound /\ BleedLeft BY <1>c, <2>1 DEF PoolerBleedKnow
  <2>3. CASE pg' = pg /\ me' = PB!Walked(PB!Explored(me.loc.frontier))
    <3>1. PICK m : m = PB!Explored(me.loc.frontier) OBVIOUS
    <3>2. PICK N :
             /\ BleedRecord(m, N)
             /\ m.loc.depth = me.loc.depth + 1
             /\ m.loc.found = me.loc.found \cup {k \in me.loc.frontier : ~PB!T(k).hole /\ PB!T(k).depth = me.loc.depth + 1}
             /\ m.loc.frontier = {k \in me.loc.frontier : ~PB!T(k).hole /\ PB!T(k).depth > me.loc.depth + 1}
      BY <1>h, <2>1, <3>1
    <3>3. m.loc.depth \in Nat /\ m.loc.depth >= 1 /\ world.functions # "error" BY <2>2, <3>2 DEF BleedLeft
    <3>4. m.loc.frontier = {k \in PB!Gucs : ~PB!T(k).hole /\ PB!T(k).depth > m.loc.depth}
      BY <1>w, <2>2, <3>2 DEF BleedLeft
    <3>5. \A k \in PB!Gucs : PB!T(k).depth <= m.loc.depth /\ ~PB!T(k).hole => k \in m.loc.found
      <4>1. \A k \in PB!Gucs : PB!T(k).depth <= me.loc.depth + 1 => PB!T(k).depth <= me.loc.depth \/ PB!T(k).depth = me.loc.depth + 1
        BY <1>w, <2>2 DEF BleedLeft
      <4>2. \A k \in PB!Gucs : PB!T(k).depth = me.loc.depth + 1 => PB!T(k).depth > me.loc.depth
        BY <1>w, <2>2 DEF BleedLeft
      <4> QED BY <2>2, <3>2, <4>1, <4>2 DEF BleedLeft
    <3>6. m.loc.found \subseteq PB!Gucs /\ \A k \in PB!Gucs : PB!T(k).depth = 0 => k \in m.loc.found
      BY <2>2, <3>2 DEF BleedFound, BleedLeft
    <3>7. m.loc.frontier = {} => \A k \in PB!Gucs : k \in m.loc.found \/ PB!Unresolved(k)
      <4>1. ASSUME m.loc.frontier = {}, NEW k \in PB!Gucs, k \notin m.loc.found PROVE PB!Unresolved(k)
        <5>1. PB!T(k).depth > 0 BY <1>w, <3>6, <4>1
        <5>2. PB!T(k).depth > m.loc.depth \/ PB!T(k).hole BY <1>w, <3>3, <3>5, <4>1
        <5>3. PB!T(k).hole BY <3>4, <4>1, <5>2
        <5> QED BY <5>1, <5>3 DEF PB!Unresolved
      <4> QED BY <4>1
    <3>8. me' = PB!Walked(m) BY <2>3, <3>1
    <3>9. BleedRound(m) BY <3>3, <3>4, <3>5, <3>6, <3>7 DEF BleedRound
    <3> QED BY <1>r, <2>1, <2>3, <3>2, <3>8, <3>9
  <2>4. CASE pg' = pg /\ ~(me.loc.depth < PB!MaxDepth) /\ me' = PB!Walked(end)
    <3>1. PICK m : m = end OBVIOUS
    <3>2. \A k \in PB!Gucs : k \in me.loc.found \/ PB!Unresolved(k)
      <4>1. me.loc.depth >= 4 BY <2>2, <2>4 DEF BleedLeft, PB!MaxDepth
      <4>2. ASSUME NEW k \in PB!Gucs, k \notin me.loc.found PROVE PB!Unresolved(k)
        <5>1. PB!T(k).depth > 0 BY <1>w, <2>2, <4>2 DEF BleedFound
        <5>2. PB!T(k).depth > me.loc.depth \/ PB!T(k).hole BY <1>w, <2>2, <4>2 DEF BleedLeft
        <5>3. PB!T(k).depth > 4 \/ PB!T(k).hole BY <1>w, <2>2, <4>1, <5>2 DEF BleedLeft
        <5> QED BY <5>1, <5>3 DEF PB!Unresolved, PB!MaxDepth
      <4> QED BY <4>2
    <3>3. /\ DOMAIN m = DOMAIN me /\ m.todo = me.todo /\ m.said = me.said
          /\ m.thrown = me.thrown /\ m.result = me.result /\ m.loc = [me.loc EXCEPT !.frontier = {}]
      BY <1>c, <3>1 DEF Shape
    <3>4. DOMAIN m.loc = {"depth", "frontier", "found", "set", "survived"} /\ m.loc.found = me.loc.found /\ m.loc.frontier = {}
      BY <1>c, <2>1, <3>3 DEF PoolerBleedKnow
    <3>5. me' = PB!Walked(m) BY <2>4, <3>1
    <3>6. BleedRecord(m, {}) BY <3>3, <3>4 DEF BleedRecord
    <3>7. BleedRound(m) BY <2>2, <3>2, <3>4 DEF BleedFound, BleedRound
    <3> HIDE DEF end
    <3> QED BY <1>r, <2>1, <2>4, <3>5, <3>6, <3>7
  <2>5. CASE pg' = Failed /\ (~Live \/ world.bodies = "error") /\ me' = PB!Walked(up)
    <3>1. PICK m : m = up OBVIOUS
    <3>2. \A k \in PB!Gucs : k \in me.loc.found \/ PB!Unresolved(k)
      <4>1. ~Live => fault = "lost" BY <1>c, <2>1 DEF Live, Session, PoolerBleedKnow
      <4>2. ASSUME NEW k \in PB!Gucs, k \notin me.loc.found PROVE PB!Unresolved(k)
        <5>1. PB!T(k).depth > 0 BY <1>w, <2>2, <4>2 DEF BleedFound
        <5>2. PB!T(k).depth > me.loc.depth \/ PB!T(k).hole BY <1>w, <2>2, <4>2 DEF BleedLeft
        <5>3. PB!T(k).depth > 1 \/ PB!T(k).hole BY <1>w, <2>2, <5>2 DEF BleedLeft
        <5> QED BY <2>5, <4>1, <5>1, <5>3 DEF PB!Unresolved
      <4> QED BY <4>2
    <3>3. PICK N : BleedRecord(m, N) /\ m.loc.found = me.loc.found /\ m.loc.frontier = {}
      BY <1>g, <2>1, <3>1
    <3>4. me' = PB!Walked(m) BY <2>5, <3>1
    <3> HIDE DEF up
    <3>5. BleedRound(m) BY <2>2, <3>2, <3>3 DEF BleedFound, BleedRound
    <3> QED BY <1>r, <2>1, <2>5, <3>3, <3>4, <3>5
  <2> QED BY <2>1, <2>3, <2>4, <2>5
<1>4. CASE PB!ScanSources
  <2> DEFINE all == {[on |-> k, arm |-> "scope", says |-> PB!ClassifyGuc(k)] : k \in me.loc.found}
             S == {a \in all : a.says # "ok" /\ ~PB!T(a.on).allow}
  <2>1. me.at = "scan" /\ pg' = pg /\ me' = [PB!To("set") EXCEPT !.said = @ \cup S]
    BY <1>4, Zenon DEF PB!ScanSources, PB!Do
  <2>2. /\ me.loc.found \subseteq PB!Gucs /\ \A k \in PB!Gucs : k \in me.loc.found \/ PB!Unresolved(k)
    BY <1>c, <2>1 DEF PoolerBleedKnow, BleedFound
  <2>3. ASSUME NEW a \in S PROVE Meaning(a) /\ a.says # "clear"
    <3>1. PICK k \in me.loc.found : a = [on |-> k, arm |-> "scope", says |-> PB!ClassifyGuc(k)] OBVIOUS
    <3>2. a.on = k /\ a.arm = "scope" /\ a.says = PB!ClassifyGuc(k) /\ a.says # "ok" /\ ~PB!T(k).allow BY <3>1
    <3>3. k \in PB!Gucs BY <2>2
    <3> HIDE DEF S, all
    <3>4. a.says \in {"leak", "note"} BY <3>2 DEF PB!ClassifyGuc
    <3>5. a.says = "leak" => [on |-> k, arm |-> "scope"] \in Truth.exposed
      <4>1. a.says = "leak" => "session" \in PB!T(k).writes /\ ~PB!Resets(k) BY <3>2 DEF PB!ClassifyGuc
      <4> QED BY <3>2, <3>3, <4>1, PoolerBleedPoints
    <3> QED BY <3>1, <3>2, <3>4, <3>5 DEF Meaning, Key
  <2>4. ASSUME NEW e \in Truth.exposed, e \notin Truth.blind
        PROVE  \E a \in S : a.on = e.on /\ a.arm = e.arm /\ (e \in Truth.provable => a.says = "leak")
    <3>1. /\ e.on \in PB!Gucs /\ e.arm = "scope" /\ ~PB!T(e.on).allow /\ ~PB!Unresolved(e.on) /\ PB!T(e.on).writes # {"local"}
          /\ ("session" \in PB!T(e.on).writes \/ PB!T(e.on).hidden)
      BY <2>4, PoolerBleedPoints
    <3>2. e \in Truth.provable => "session" \in PB!T(e.on).writes /\ ~PB!Resets(e.on) BY PoolerBleedPoints
    <3>3. PB!ClassifyGuc(e.on) # "ok" /\ (e \in Truth.provable => PB!ClassifyGuc(e.on) = "leak")
      BY <1>w, <3>1, <3>2 DEF PB!ClassifyGuc
    <3> DEFINE a == [on |-> e.on, arm |-> "scope", says |-> PB!ClassifyGuc(e.on)]
    <3>4. a \in S BY <2>2, <3>1, <3>3
    <3>5. a.on = e.on /\ a.arm = e.arm /\ (e \in Truth.provable => a.says = "leak") BY <3>1, <3>3
    <3> HIDE DEF a, S
    <3> QED BY <3>4, <3>5
  <2> HIDE DEF S
  <2>5. Walks("set", me.todo, me.said \cup S) BY <1>c, <2>1 DEF Shape, PB!To, Walks
  <2>6. PoolerBleedKnow' BY <1>c, <1>i, <2>1, <2>3, <2>5 DEF PoolerBleedKnow, Unclear, Walks
  <2>7. \A a \in S, b \in me.said : a.says = "leak" /\ b.on = a.on /\ b.arm = a.arm => b.says # "clear"
    BY <1>c DEF PoolerBleedKnow, Unclear
  <2> QED BY <1>c, <1>i, <1>m, <2>1, <2>3, <2>4, <2>5, <2>6, <2>7 DEF Shape
<1>5. CASE PB!SetPersistent
  <2>1. /\ me.at = "set" /\ pg' \in {pg, Failed}
        /\ (\E b : me' = [PB!To("look") EXCEPT !.loc.set = {b}]) \/ me' = PB!Demonstrated
    BY <1>5, <1>o, Zenon DEF PB!SetPersistent, PB!Attempt, PB!Do
  <2> QED BY <1>d, <2>1
<1>6. CASE PB!LookForPersistent
  <2>1. /\ me.at = "look" /\ pg' \in {pg, Failed}
        /\ (\E b : me' = [PB!To("local") EXCEPT !.loc.survived = b \in me.loc.set]) \/ me' = PB!Demonstrated
    BY <1>6, <1>o, Zenon DEF PB!LookForPersistent, PB!Attempt, PB!Do
  <2> QED BY <1>d, <2>1
<1>7. CASE PB!SetTransient
  <2>1. /\ me.at = "local" /\ pg' \in {pg, Failed}
        /\ (me' = PB!To("vanished")) \/ me' = PB!Demonstrated
    BY <1>7, <1>o, Zenon DEF PB!SetTransient, PB!Attempt, PB!Do
  <2> QED BY <1>d, <2>1
<1>8. CASE PB!LookTransient
  <2>1. /\ me.at = "vanished" /\ pg' \in {pg, Failed}
        /\ (me' = PB!To("unset")) \/ me' = PB!Demonstrated
    BY <1>8, <1>o, Zenon DEF PB!LookTransient, PB!Attempt, PB!Do
  <2> QED BY <1>d, <2>1
<1>9. CASE PB!Unset
  <2>1. /\ me.at = "unset" /\ pg' \in {pg, Failed}
        /\ (\E b : me' = [PB!Demonstrated EXCEPT !.loc.set = @ \ {b}]) \/ me' = PB!Demonstrated
    BY <1>9, <1>o, Zenon DEF PB!Unset, PB!Attempt, PB!Do
  <2> QED BY <1>d, <2>1
<1>10. CASE PB!Leave
  <2>1. /\ me.at = "finally" /\ Common' /\ Plays /\ me'.at = (IF me.thrown THEN "close" ELSE "close")
        /\ me'.thrown = me.thrown /\ me'.result = me.result
        /\ me'.loc = me.loc /\ me'.said = me.said /\ me'.todo = me.todo /\ (Counts' <=> Counts)
        /\ pg' \in {pg, RolledBack(pg)} /\ (pg.st \notin {"open", "aborted"} => pg' = pg)
    BY <1>b, <1>t, <1>10, RollsBack
  <2>2. (\A e : Done(e)' <=> Done(e)) /\ (Unclear' <=> Unclear) BY <1>u, <1>t, <1>c, <2>1, Quiet
  <2>3. PoolerBleedKnow' BY <1>u, <1>c, <2>1, <2>2 DEF PoolerBleedKnow
  <2>4. \A e \in Truth.exposed : PoolerBleedPending(e) /\ Counts => PoolerBleedPending(e)' BY <1>u, <2>1
      DEF PoolerBleedPending
  <2> QED BY <1>t, <2>1, <2>2, <2>3, <2>4 DEF PoolerBleedInv
<1>11. CASE PB!Connect
  <2>1. /\ me.at = "start" /\ Common' /\ Plays /\ me'.loc = me.loc /\ me'.said = {} /\ me'.todo = me.todo
        /\ \/ me'.at = "plan" /\ pg' = [pg EXCEPT !.st = "idle"] /\ pg'.st = "idle" /\ Whole(me'.todo)
           \/ me'.at = "done" /\ ~Counts' /\ pg' = pg
    BY <1>b, <1>t, <1>11, Connects
  <2>2. PoolerBleedKnow' BY <1>u, <1>c, <2>1 DEF PoolerBleedKnow, Unclear
  <2>3. Counts' => \A e : PoolerBleedPending(e)' BY <2>1 DEF PoolerBleedPending
  <2> QED BY <2>1, <2>2, <2>3 DEF PoolerBleedInv
<1>12. CASE PB!Disconnect
  <2>1. /\ me.at = "close" /\ Common' /\ Plays /\ me'.at = "done"
        /\ me'.loc = me.loc /\ me'.said = me.said /\ me'.todo = me.todo /\ (Counts' => Counts)
    BY <1>b, <1>t, <1>12, Disconnects
  <2>2. (\A e : Done(e)' <=> Done(e)) /\ (Unclear' <=> Unclear) BY <1>u, <1>t, <1>c, <2>1, Quiet
  <2>3. PoolerBleedKnow' BY <1>u, <1>c, <2>1, <2>2 DEF PoolerBleedKnow
  <2>4. \A e : ~PoolerBleedPending(e) BY <2>1 DEF PoolerBleedPending
  <2> QED BY <1>t, <2>1, <2>2, <2>3, <2>4 DEF PoolerBleedInv
<1> QED BY <1>1, <1>2, <1>3, <1>4, <1>5, <1>6, <1>7, <1>8, <1>9, <1>10, <1>11, <1>12 DEF PB!Next, PB!Check, PB!Run

\* So does a fault, whenever it strikes.
LEMMA PoolerBleedStruck ==
  ASSUME Common, PoolerBleedInv, world.guard = "pooler-bleed", Drop \/ Cancel
  PROVE  Common' /\ PoolerBleedInv'
<1>1. world' = world /\ fault = "none" BY DEF Drop, Cancel
<1>2. Truth'.exposed = Truth.exposed /\ Truth.blind \subseteq Truth'.blind /\ Truth.spurious \subseteq Truth'.spurious
  <2>1. Truth = PB!Truth /\ Truth' = PB!Truth' BY <1>1 DEF Truth
  <2>2. PB!Exposed' = PB!Exposed BY <1>1 DEF PB!Exposed, PB!Gucs, PB!Resets, PB!T
  <2>3. PB!Blind \subseteq PB!Blind' BY <1>1, <2>2 DEF PB!Blind, PB!MaxDepth, PB!T, PB!Unresolved
  <2>4. PB!Spurious \subseteq PB!Spurious' BY <1>1 DEF PB!Spurious
  <2> QED BY <2>1, <2>2, <2>3, <2>4 DEF PB!Truth
<1>3. /\ me' = me /\ fault' # "none" /\ Common'
      /\ \/ fault' = "lost" /\ pg'.st = "lost" /\ pg'.who = "nobody" /\ pg'.saves = <<>>
         \/ fault' = "cancelled" /\ pg.st = "open" /\ pg'.st = "aborted" /\ pg' = Failed
      /\ \A e : Done(e) => Done(e)'
      /\ \A k, x : Untold(k, x)' <=> Untold(k, x)
      /\ Unclear' <=> Unclear
  BY <1>2, Striking
<1>4. PoolerBleedKnow' BY <1>1, <1>3 DEF PoolerBleedInv, PoolerBleedKnow, BleedFound, BleedLeft, PB!Gucs, PB!T,
    PB!Unresolved
<1>5. \A e : PoolerBleedPending(e) => PoolerBleedPending(e)' BY <1>1, <1>3 DEF PoolerBleedPending
<1> QED BY <1>2, <1>3, <1>4, <1>5 DEF PoolerBleedInv, Counts

\* Pooler-bleed begins so.
LEMMA PoolerBleedBegins == ASSUME PB!Init PROVE Common /\ PoolerBleedInv /\ world.guard = "pooler-bleed"
<1>1. Begins("pooler-bleed") /\ me.loc = [depth |-> 0, frontier |-> {}, found |-> {}, set |-> {}, survived |-> FALSE]
  BY WorldAssumption DEF Names, Begins, Whole, Count, Closed, PB!Init, PB!Enter, PB!Entered, PB!Closed
<1>2. Common BY <1>1, Beginning DEF Names
<1>3. PoolerBleedKnow BY <1>1 DEF PoolerBleedKnow, Begins, Unclear
<1> QED BY <1>1, <1>2, <1>3 DEF PoolerBleedInv, PoolerBleedPending, Begins

\* A step of nobody keeps it.
LEMMA PoolerBleedStays ==
  ASSUME Common, PoolerBleedInv, world.guard = "pooler-bleed", UNCHANGED vars
  PROVE  Common' /\ PoolerBleedInv'
<1>1. world' = world /\ fault' = fault /\ pg' = pg /\ me' = me BY DEF vars
<1>2. Truth' = Truth BY <1>1, PoolerBleedSame
<1>3. Common' /\ (\A e : Done(e)' <=> Done(e)) /\ (Counts' <=> Counts) BY <1>1, <1>2, Resting
<1>4. PoolerBleedKnow' /\ (\A e : PoolerBleedPending(e)' <=> PoolerBleedPending(e))
  BY <1>1, <1>2 DEF PoolerBleedInv, PoolerBleedKnow, PoolerBleedPending, Unclear, BleedFound, BleedLeft, PB!Gucs,
      PB!Unresolved, PB!T,
           PB!MaxDepth
<1> QED BY <1>2, <1>3, <1>4 DEF PoolerBleedInv

\* At the end nothing is pending, and a question is a target and an arm.
LEMMA PoolerBleedEnds ==
  ASSUME Common, world.guard = "pooler-bleed", PoolerBleedInv, me.at = "done", Counts
  PROVE  /\ \A e \in Truth.exposed : e = Key(e) /\ Done(e)
         /\ Truth.provable \subseteq Truth.exposed
<1>1. \A e : ~PoolerBleedPending(e) BY DEF PoolerBleedPending
<1> QED BY <1>1, PoolerBleedPoints DEF PoolerBleedInv, Key

-----------------------------------------------------------------------------
(* trigger-visibility.                                                     *)
\* The tables that some candidate reads; those that are still to be counted in the
\* first round, and what the second has found of those that it has done.
TablesRead == UNION {world.targets[k].reads : k \in TV!Triggers}

FirstRound(left, totals) == \A i \in TablesRead : i \in left \/ TV!Denied("conn", i) \/ i \in totals

SecondRound(left, hidden) ==
  \A i \in TablesRead : TV!Denied("conn", i) \/ i \in left \/ (TV!Rows("app", i) < TV!Rows("conn", i) => i \in hidden)

ReallyHidden(hidden) == \A i \in hidden : TV!HiddenIn(i)

\* The first round has counted every table that is not left, the second has compared
\* it, and what is called hidden is.
TriggerVisibilityKnow ==
  /\ DOMAIN me.loc = {"left", "totals", "hidden"}
  /\ Unclear
  /\ me.loc.left \subseteq TablesRead /\ me.loc.totals \subseteq TablesRead
  /\ me.at \in {"begin", "totals", "total", "role", "visible", "seen"} => world.rls
  /\ me.loc.hidden # {} => world.rls
  /\ fault = "none" => ReallyHidden(me.loc.hidden)
  /\ me.at \in {"total", "seen"} /\ fault = "none" => Live
  /\ me.at \in {"begin", "totals", "total", "role"} /\ fault = "none" => FirstRound(me.loc.left, me.loc.totals)
  /\ me.at = "role" => me.loc.left = {}
  /\ me.at \in {"visible", "seen"} /\ fault = "none" => SecondRound(me.loc.left, me.loc.hidden)
  /\ me.at \in {"finally", "judge"} /\ fault = "none" /\ Counts => SecondRound({}, me.loc.hidden)

\* The triggers are judged at the end.
TriggerVisibilityPending(e) == me.at \notin {"close", "done"}

\* Everything exposed is pending or done.
TriggerVisibilityInv == TriggerVisibilityKnow /\ (Counts => \A e \in Truth.exposed : TriggerVisibilityPending(e) \/ Done(e))

\* What is exposed to trigger-visibility, and what of it is missed, misjudged or provable.
LEMMA TriggerVisibilityPoints ==
  ASSUME world.guard = "trigger-visibility"
  PROVE  /\ \A e : e \in Truth.exposed <=>
              /\ e = [on |-> e.on, arm |-> "reads"] /\ e.on \in TV!Triggers
              /\ world.rls /\ \E i \in world.targets[e.on].reads : TV!HiddenIn(i)
         /\ Truth.blind = {}
         /\ \A e : e \in Truth.provable <=>
              e \in Truth.exposed /\ \E i \in world.targets[e.on].reads : TV!HiddenIn(i) /\ TV!Rows("conn", i) = TV!Counted("all", i)
         /\ fault # "none" => \A k \in TV!Triggers : [on |-> k, arm |-> "reads"] \in Truth.spurious
<1>1. Truth.exposed = TV!Exposed /\ Truth.blind = TV!Blind /\ Truth.provable = TV!Provable /\ Truth.spurious = TV!Spurious
  BY DEF Truth, TV!Truth
<1>2. \A e : e \in Truth.exposed <=>
              /\ e = [on |-> e.on, arm |-> "reads"] /\ e.on \in TV!Triggers
              /\ world.rls /\ \E i \in world.targets[e.on].reads : TV!HiddenIn(i)
  BY <1>1 DEF TV!Exposed
<1>3. fault # "none" => \A k \in TV!Triggers : [on |-> k, arm |-> "reads"] \in Truth.spurious
  BY <1>1 DEF TV!Spurious
<1> QED BY <1>1, <1>2, <1>3 DEF TV!Blind, TV!Provable

\* What the tables of a world are.
LEMMA TriggerTables ==
  ASSUME Shape, world.guard = "trigger-visibility"
  PROVE  /\ \A k \in TV!Triggers : k \in 1..Count /\ world.targets[k].reads \subseteq TablesRead
         /\ \A i \in TablesRead :
              /\ TV!Rows("app", i) \in Nat /\ TV!Rows("conn", i) \in Nat
              /\ TV!Rows("all", i) = TV!Counted("all", i)
              /\ TV!Rows("conn", i) <= TV!Counted("all", i) /\ TV!Counted("all", i) \in Nat
              /\ TV!Denied("conn", i) => TV!Rows("conn", i) = 0
<1>1. \A k \in TV!Triggers : k \in 1..Count BY DEF TV!Triggers, Count
<1>2. TablesRead \subseteq {1, 2} BY <1>1, TriggerAssumption DEF TablesRead, Shape, Count
<1>3. world \in Worlds["trigger-visibility"] BY DEF Shape
<1>4. ASSUME NEW i \in {1, 2}
      PROVE  /\ world.tables[i].all \in Nat /\ world.tables[i].conn \in Nat /\ world.tables[i].app \in Nat
             /\ world.tables[i].conn <= world.tables[i].all /\ "all" \notin world.tables[i].denies
  BY <1>3, <1>4, TriggerAssumption
<1>5. ASSUME NEW i \in TablesRead
      PROVE  /\ TV!Rows("app", i) \in Nat /\ TV!Rows("conn", i) \in Nat
             /\ TV!Rows("all", i) = TV!Counted("all", i)
             /\ TV!Rows("conn", i) <= TV!Counted("all", i) /\ TV!Counted("all", i) \in Nat
             /\ TV!Denied("conn", i) => TV!Rows("conn", i) = 0
  <2>1. i \in {1, 2} BY <1>2
  <2>2. /\ TV!Counted("all", i) = world.tables[i].all /\ TV!Counted("conn", i) = world.tables[i].conn
        /\ TV!Counted("app", i) = world.tables[i].app
    BY DEF TV!Counted
  <2>3. ~TV!Denied("all", i) BY <1>4, <2>1 DEF TV!Denied
  <2> QED BY <1>4, <2>1, <2>2, <2>3 DEF TV!Rows
<1> QED BY <1>1, <1>5 DEF TablesRead

\* What the rounds have to find depends on the database alone.
LEMMA TriggerSame ==
  ASSUME world' = world
  PROVE  /\ TablesRead' = TablesRead /\ TV!Triggers' = TV!Triggers
         /\ \A x, y : FirstRound(x, y)' <=> FirstRound(x, y)
         /\ \A x, y : SecondRound(x, y)' <=> SecondRound(x, y)
         /\ \A x : ReallyHidden(x)' <=> ReallyHidden(x)
  BY DEF TablesRead, TV!Triggers, TV!Candidate, FirstRound, SecondRound, ReallyHidden, TV!HiddenIn, TV!Rows,
      TV!Denied, TV!Counted

\* What is exposed to trigger-visibility depends on the database and the fault alone.
LEMMA TriggerVisibilitySame ==
  ASSUME world.guard = "trigger-visibility", world' = world, fault' = fault
  PROVE  Truth' = Truth
<1>1. Truth = TV!Truth BY DEF Truth
<1>2. Truth' = TV!Truth' BY DEF Truth
<1>3. TV!Exposed' = TV!Exposed BY DEF TV!Candidate, TV!Counted, TV!Denied, TV!Exposed, TV!HiddenIn, TV!Rows,
    TV!Triggers
<1>4. TV!Blind' = TV!Blind BY DEF TV!Blind
<1>5. TV!Provable' = TV!Provable BY <1>3 DEF TV!Counted, TV!Denied, TV!HiddenIn, TV!Provable, TV!Rows
<1>6. TV!Spurious' = TV!Spurious BY DEF TV!Candidate, TV!Spurious, TV!Triggers
<1>7. TV!Fragile' = TV!Fragile BY DEF TV!Fragile
<1> QED BY <1>1, <1>2, <1>3, <1>4, <1>5, <1>6, <1>7 DEF TV!Truth

\* A step of trigger-visibility changes neither the database nor the fault.
LEMMA TriggerVisibilityRest == ASSUME TV!Next PROVE world' = world /\ fault' = fault
BY DEF TV!Await, TV!Begin, TV!Check, TV!ClassifyTriggers, TV!Connect, TV!CountTotal, TV!CountVisible, TV!Disconnect,
     TV!Do, TV!Guarded, TV!Next, TV!NextTotal, TV!NextVisible, TV!PlanTriggers, TV!RollBack, TV!Run, TV!Switch

\* A step of trigger-visibility keeps what it knows, and is one its runner expects.
LEMMA TriggerVisibilityAnswers ==
  ASSUME Common, TriggerVisibilityInv, world.guard = "trigger-visibility", TV!Next
  PROVE  Common' /\ TriggerVisibilityInv' /\ Plays
<1>u. world' = world /\ fault' = fault BY TriggerVisibilityRest
<1>t. Truth' = Truth BY <1>u, TriggerVisibilitySame
<1>b. /\ TV!Connect <=> Connect
      /\ TV!Disconnect <=> Disconnect
      /\ TV!RollBack("judge") <=> RollBack("judge")
  BY DEF TV!Closed, Closed, TV!Connect, Connect, TV!Disconnect, Disconnect, TV!Do, Do, TV!LeaksIn, LeaksIn,
         TV!RollBack, RollBack, TV!RolledBack, RolledBack, TV!To, To, TV!Verdict, Verdict
<1>o. /\ TV!Live <=> Live
      /\ TV!Failed = Failed
      /\ TV!Began(pg) = Began(pg)
      /\ TV!Saved(pg) = Saved(pg)
      /\ TV!Released(pg) = Released(pg)
      /\ TV!Undone(pg) = Undone(pg)
      /\ TV!Undone(TV!Failed) = Undone(Failed)
      /\ TV!RolledBack(pg) = RolledBack(pg)
      /\ \A x : TV!AsRole(pg, x) = AsRole(pg, x)
      /\ \A S : TV!Kept(S) = Kept(S)
  BY DEF TV!Live, Live, TV!Failed, Failed, TV!Began, Began, TV!Saved, Saved, TV!Released, Released, TV!Undone,
         Undone, TV!RolledBack, RolledBack, TV!AsRole, AsRole, TV!Kept, Kept, TV!Closed, Closed
<1>c. Session /\ Shape /\ Meant /\ TriggerVisibilityKnow BY DEF Common, TriggerVisibilityInv
<1>k. DOMAIN me.loc = {"left", "totals", "hidden"} BY <1>c DEF TriggerVisibilityKnow
<1>q. me.todo # <<>> =>
        /\ Current \in Todo /\ Current \in 1..Count /\ Queue(Tail(me.todo))
        /\ Elems(Tail(me.todo)) = Todo \ {Current}
  BY <1>c, Popping DEF Shape, Todo, Current
<1>x. Todo \subseteq 1..Count BY <1>c DEF Shape, Queue, Todo, Elems
<1>w. /\ TablesRead' = TablesRead /\ TV!Triggers' = TV!Triggers
      /\ \A x, y : FirstRound(x, y)' <=> FirstRound(x, y)
      /\ \A x, y : SecondRound(x, y)' <=> SecondRound(x, y)
      /\ \A x : ReallyHidden(x)' <=> ReallyHidden(x)
  BY <1>u, TriggerSame
\* Leaving.
<1>l. ASSUME Leaves, me.at \notin {"start", "done"}, pg' \in {pg, Failed} PROVE Common' /\ TriggerVisibilityInv' /\ Plays
  <2>1. Shape' /\ Meant' /\ ~Counts' /\ Plays BY <1>u, <1>t, <1>l, Leaving
  <2>2. Session' BY <1>u, <1>c, <1>l, Moving DEF Moved, Leaves
  <2>4. (Unclear' <=> Unclear) /\ (\A k, x : Untold(k, x)' <=> Untold(k, x)) BY <1>u, <1>t, <1>c, <1>l, Quiet
      DEF Leaves
  <2>5. pg'.st \in {pg.st, IF pg.st = "open" THEN "aborted" ELSE pg.st} BY <1>c, <1>l DEF Failed, Session, Proper,
      Sound
  <2>3. TriggerVisibilityKnow'
    <3>1. me'.at \in {"finally", "close"} /\ me'.todo = me.todo /\ me'.said = me.said /\ me'.loc = me.loc /\ DOMAIN me' = DOMAIN me
      BY <1>l DEF Leaves
    <3> QED BY <1>u, <1>c, <1>l, <2>1, <2>4, <2>5, <3>1, <1>w DEF TriggerVisibilityKnow
  <2> QED BY <2>1, <2>2, <2>3 DEF Common, TriggerVisibilityInv
\* Going on without an answer.
<1>s. ASSUME NEW at, NEW todo, Walks(at, todo, me.said), Queue(todo), Moved, me.at \notin {"start", "done"},
             at \notin {"start", "plan", "done"}, TriggerVisibilityKnow',
             \A e \in Truth.exposed : Counts /\ TriggerVisibilityPending(e) => TriggerVisibilityPending(e)' \/ Done(e)
      PROVE  Common' /\ TriggerVisibilityInv' /\ Plays
  <2>1. Shape' BY <1>u, <1>c, <1>s, Going
  <2>2. Meant' /\ \A e : Done(e)' <=> Done(e) BY <1>u, <1>t, <1>c, <1>s, Quiet DEF Walks
  <2>3. Session' BY <1>u, <1>c, <1>s, Moving DEF Walks
  <2>4. (Counts' => Counts) /\ Plays BY <1>s DEF Walks, Counts, Plays
  <2> QED BY <1>t, <1>s, <2>1, <2>2, <2>3, <2>4 DEF Common, TriggerVisibilityInv
<1>e. /\ me' = TV!Thrown => Leaves
      /\ me' = TV!Ending(me, "skip") => Leaves
      /\ \A l : me' = TV!To(l) => Walks(l, me.todo, me.said) /\ me'.loc = me.loc
  BY <1>c DEF Shape, TV!Thrown, TV!Ending, TV!To, Leaves, Walks
\* A statement that goes on.
<1>f. ASSUME NEW at \in {"begin", "totals", "total", "role", "visible", "seen", "finally"}, NEW todo, Queue(todo),
             Walks(at, todo, me.said), DOMAIN me'.loc = DOMAIN me.loc, Moved, me.at \notin {"start", "done"},
             TriggerVisibilityKnow'
      PROVE  Common' /\ TriggerVisibilityInv' /\ Plays
  <2>1. \A e : TriggerVisibilityPending(e)' BY <1>f DEF TriggerVisibilityPending, Walks
  <2> QED BY <1>s, <1>f, <2>1
<1>1. CASE TV!PlanTriggers
  <2>1. TablesRead = UNION {world.targets[k].reads : k \in TV!Triggers} BY DEF TablesRead
  <2> DEFINE m == [TV!To("begin") EXCEPT !.todo = Kept(TV!Triggers), !.loc.left = TablesRead]
  <2>2. /\ me.at = "plan"
        /\ \/ pg' = pg /\ me' = TV!Ending(me, "skip")
           \/ pg' = pg /\ TV!Triggers = {} /\ me' = TV!To("close")
           \/ pg' = pg /\ world.rls /\ me' = m
           \/ pg' = Failed /\ me' = TV!Thrown
    BY <1>1, <1>o, <2>1, Zenon DEF TV!PlanTriggers, TV!Await, TV!Do
  <2>3. /\ DOMAIN m = DOMAIN me /\ m.at = "begin" /\ m.todo = Kept(TV!Triggers) /\ m.said = me.said
        /\ m.thrown = me.thrown /\ m.result = me.result
        /\ DOMAIN m.loc = DOMAIN me.loc /\ m.loc.left = TablesRead /\ m.loc.totals = me.loc.totals /\ m.loc.hidden = me.loc.hidden
    BY <1>c, <1>k DEF TV!To, Shape
  <2> HIDE DEF m
  <2>4. CASE pg' = pg /\ TV!Triggers = {} /\ me' = TV!To("close")
    <3>1. Walks("close", me.todo, me.said) /\ me'.loc = me.loc BY <1>e, <2>4
    <3>2. Truth.exposed = {} BY <2>4, TriggerVisibilityPoints
    <3>3. TriggerVisibilityKnow' BY <1>u, <1>w, <1>c, <3>1 DEF TriggerVisibilityKnow, Walks, Unclear
    <3> QED BY <1>s, <1>c, <2>2, <2>4, <3>1, <3>2, <3>3 DEF Moved, Shape
  <2>5. CASE pg' = pg /\ world.rls /\ me' = m
    <3>1. Whole(me.todo) BY <1>c, <2>2 DEF Shape
    <3>2. Queue(Kept(TV!Triggers)) BY <1>c, <3>1, Keeping DEF Shape
    <3>3. Walks("begin", Kept(TV!Triggers), me.said) BY <2>3, <2>5 DEF Walks
    <3>4. FirstRound(TablesRead, me.loc.totals) BY DEF FirstRound
    <3>5. TriggerVisibilityKnow' BY <1>u, <1>w, <1>c, <2>3, <2>5, <3>4 DEF TriggerVisibilityKnow, Unclear
    <3> QED BY <1>f, <2>2, <2>3, <2>5, <3>2, <3>3, <3>5 DEF Moved
  <2> QED BY <1>e, <1>l, <2>2, <2>4, <2>5
<1>2. CASE TV!Begin
  <2>1. /\ me.at = "begin"
        /\ \/ Live /\ pg' = Began(pg) /\ me' = TV!To("totals")
           \/ pg' = Failed /\ me' = TV!Thrown
    BY <1>2, <1>b, <1>o, Zenon DEF TV!Begin, TV!Await, TV!Do
  <2>2. CASE Live /\ pg' = Began(pg) /\ me' = TV!To("totals")
    <3>1. Walks("totals", me.todo, me.said) /\ me'.loc = me.loc BY <1>e, <2>2
    <3>2. TriggerVisibilityKnow' BY <1>u, <1>w, <1>c, <2>1, <3>1 DEF TriggerVisibilityKnow, Walks, Unclear
    <3> QED BY <1>f, <1>c, <2>1, <2>2, <3>1, <3>2 DEF Moved, Shape
  <2> QED BY <1>e, <1>l, <2>1, <2>2
<1>3. CASE TV!NextTotal
  <2>1. /\ me.at = "totals"
        /\ \/ pg' = pg /\ me.loc.left = {} /\ me' = TV!To("role")
           \/ Live /\ pg' = Saved(pg) /\ me' = TV!To("total")
           \/ pg' = Failed /\ me' = TV!Thrown
    BY <1>3, <1>b, <1>o, Zenon DEF TV!NextTotal, TV!Await, TV!Do
  <2>2. CASE pg' = pg /\ me.loc.left = {} /\ me' = TV!To("role")
    <3>1. Walks("role", me.todo, me.said) /\ me'.loc = me.loc BY <1>e, <2>2
    <3>2. TriggerVisibilityKnow' BY <1>u, <1>w, <1>c, <2>1, <2>2, <3>1 DEF TriggerVisibilityKnow, Walks, Unclear
    <3> QED BY <1>f, <1>c, <2>1, <2>2, <3>1, <3>2 DEF Moved, Shape
  <2>3. CASE Live /\ pg' = Saved(pg) /\ me' = TV!To("total")
    <3>1. Walks("total", me.todo, me.said) /\ me'.loc = me.loc BY <1>e, <2>3
    <3>2. Live' BY <1>c, <2>3 DEF Live, Saved, Session, Proper, Sound
    <3>3. TriggerVisibilityKnow' BY <1>u, <1>w, <1>c, <2>1, <3>1, <3>2 DEF TriggerVisibilityKnow, Walks, Unclear
    <3> QED BY <1>f, <1>c, <2>1, <2>3, <3>1, <3>3 DEF Moved, Shape
  <2> QED BY <1>e, <1>l, <2>1, <2>2, <2>3
<1>6. CASE TV!NextVisible
  <2>1. /\ me.at = "visible"
        /\ \/ pg' = pg /\ me.loc.left = {} /\ me' = TV!To("finally")
           \/ Live /\ pg' = Saved(pg) /\ me' = TV!To("seen")
           \/ pg' = Failed /\ me' = TV!Thrown
    BY <1>6, <1>b, <1>o, Zenon DEF TV!NextVisible, TV!Await, TV!Do
  <2>2. CASE pg' = pg /\ me.loc.left = {} /\ me' = TV!To("finally")
    <3>1. Walks("finally", me.todo, me.said) /\ me'.loc = me.loc BY <1>e, <2>2
    <3>2. TriggerVisibilityKnow' BY <1>u, <1>w, <1>c, <2>1, <2>2, <3>1 DEF TriggerVisibilityKnow, Walks, Unclear
    <3> QED BY <1>f, <1>c, <2>1, <2>2, <3>1, <3>2 DEF Moved, Shape
  <2>3. CASE Live /\ pg' = Saved(pg) /\ me' = TV!To("seen")
    <3>1. Walks("seen", me.todo, me.said) /\ me'.loc = me.loc BY <1>e, <2>3
    <3>2. Live' BY <1>c, <2>3 DEF Live, Saved, Session, Proper, Sound
    <3>3. TriggerVisibilityKnow' BY <1>u, <1>w, <1>c, <2>1, <3>1, <3>2 DEF TriggerVisibilityKnow, Walks, Unclear
    <3> QED BY <1>f, <1>c, <2>1, <2>3, <3>1, <3>3 DEF Moved, Shape
  <2> QED BY <1>e, <1>l, <2>1, <2>2, <2>3
<1>4. CASE TV!CountTotal
  <2>1. PICK i \in me.loc.left : TV!Guarded("total", TV!Denied("conn", i), TV!Released(pg),
           [[TV!To("totals") EXCEPT !.loc.left = @ \ {i}] EXCEPT !.loc.totals = @ \cup {i}],
           [TV!To("totals") EXCEPT !.loc.left = @ \ {i}])
    BY <1>4 DEF TV!CountTotal
  <2> DEFINE on == [TV!To("totals") EXCEPT !.loc.left = @ \ {i}]
             m == [on EXCEPT !.loc.totals = @ \cup {i}]
  <2>2. /\ me.at = "total"
        /\ \/ pg' = Released(pg) /\ me' = m
           \/ (~Live \/ TV!Denied("conn", i)) /\ pg' = Undone(Failed) /\ me' = on
    BY <2>1, <1>o, Zenon DEF TV!Guarded, TV!Do
  <2>3. /\ DOMAIN on = DOMAIN me /\ on.at = "totals" /\ on.todo = me.todo /\ on.said = me.said
        /\ on.thrown = me.thrown /\ on.result = me.result
        /\ DOMAIN on.loc = DOMAIN me.loc /\ on.loc.left = me.loc.left \ {i} /\ on.loc.totals = me.loc.totals
        /\ on.loc.hidden = me.loc.hidden
    BY <1>c, <1>k DEF TV!To, Shape
  <2> HIDE DEF on
  <2>4. /\ DOMAIN m = DOMAIN me /\ m.at = "totals" /\ m.todo = me.todo /\ m.said = me.said
        /\ m.thrown = me.thrown /\ m.result = me.result
        /\ DOMAIN m.loc = DOMAIN me.loc /\ m.loc.left = me.loc.left \ {i} /\ m.loc.totals = me.loc.totals \cup {i}
        /\ m.loc.hidden = me.loc.hidden
    BY <1>c, <1>k, <2>3 DEF Shape
  <2> HIDE DEF m
  <2>5. Walks("totals", me.todo, me.said) /\ DOMAIN me'.loc = DOMAIN me.loc BY <2>2, <2>3, <2>4 DEF Walks
  <2>6. fault = "none" => FirstRound(me'.loc.left, me'.loc.totals)
    <3>1. CASE me' = m BY <1>c, <2>2, <2>4, <3>1 DEF TriggerVisibilityKnow, FirstRound
    <3>2. CASE (~Live \/ TV!Denied("conn", i)) /\ me' = on
      BY <1>c, <2>2, <2>3, <3>2 DEF TriggerVisibilityKnow, FirstRound
    <3> QED BY <2>2, <3>1, <3>2
  <2>7. me'.loc.left \subseteq TablesRead /\ me'.loc.totals \subseteq TablesRead /\ me'.loc.hidden = me.loc.hidden
    BY <1>c, <2>2, <2>3, <2>4 DEF TriggerVisibilityKnow
  <2>8. TriggerVisibilityKnow' BY <1>u, <1>w, <1>c, <2>2, <2>5, <2>6, <2>7 DEF TriggerVisibilityKnow, Walks, Unclear
  <2> QED BY <1>f, <1>c, <2>2, <2>5, <2>8 DEF Moved, Shape
<1>5. CASE TV!Switch
  <2> DEFINE m == [TV!To("visible") EXCEPT !.loc.left = me.loc.totals]
  <2>1. /\ me.at = "role"
        /\ \/ pg' = AsRole(pg, "app") /\ me' = m
           \/ pg' = Failed /\ me' = TV!Thrown
    BY <1>5, <1>o, Zenon DEF TV!Switch, TV!Await, TV!Do
  <2>2. /\ DOMAIN m = DOMAIN me /\ m.at = "visible" /\ m.todo = me.todo /\ m.said = me.said
        /\ m.thrown = me.thrown /\ m.result = me.result
        /\ DOMAIN m.loc = DOMAIN me.loc /\ m.loc.left = me.loc.totals /\ m.loc.totals = me.loc.totals
        /\ m.loc.hidden = me.loc.hidden
    BY <1>c, <1>k DEF TV!To, Shape
  <2> HIDE DEF m
  <2>3. CASE pg' = AsRole(pg, "app") /\ me' = m
    <3>1. Walks("visible", me.todo, me.said) /\ DOMAIN me'.loc = DOMAIN me.loc BY <2>2, <2>3 DEF Walks
    <3>2. fault = "none" => SecondRound(me.loc.totals, me.loc.hidden)
      BY <1>c, <2>1 DEF TriggerVisibilityKnow, FirstRound, SecondRound
    <3>3. TriggerVisibilityKnow' BY <1>u, <1>w, <1>c, <2>1, <2>2, <2>3, <3>2 DEF TriggerVisibilityKnow, Unclear
    <3> QED BY <1>f, <1>c, <2>1, <2>3, <3>1, <3>3 DEF Moved, Shape, Roles
  <2> QED BY <1>e, <1>l, <2>1, <2>3
<1>7. CASE TV!CountVisible
  <2>1. PICK i \in me.loc.left : LET on      == [TV!To("visible") EXCEPT !.loc.left = @ \ {i}]
                                     less(n) == IF n < TV!Rows("conn", i) THEN [on EXCEPT !.loc.hidden = @ \cup {i}] ELSE on
                                 IN  TV!Guarded("seen", TV!Denied("app", i), TV!Released(pg), less(TV!Rows("app", i)), less(0))
    BY <1>7 DEF TV!CountVisible
  <2> DEFINE on == [TV!To("visible") EXCEPT !.loc.left = @ \ {i}]
             m == [on EXCEPT !.loc.hidden = @ \cup {i}]
             less(n) == IF n < TV!Rows("conn", i) THEN m ELSE on
  <2>2. /\ me.at = "seen"
        /\ \/ pg' = Released(pg) /\ me' = less(TV!Rows("app", i))
           \/ (~Live \/ TV!Denied("app", i)) /\ pg' = Undone(Failed) /\ me' = less(0)
    BY <2>1, <1>o, Zenon DEF TV!Guarded, TV!Do
  <2>3. /\ DOMAIN on = DOMAIN me /\ on.at = "visible" /\ on.todo = me.todo /\ on.said = me.said
        /\ on.thrown = me.thrown /\ on.result = me.result
        /\ DOMAIN on.loc = DOMAIN me.loc /\ on.loc.left = me.loc.left \ {i} /\ on.loc.totals = me.loc.totals
        /\ on.loc.hidden = me.loc.hidden
    BY <1>c, <1>k DEF TV!To, Shape
  <2> HIDE DEF on
  <2>4. /\ DOMAIN m = DOMAIN me /\ m.at = "visible" /\ m.todo = me.todo /\ m.said = me.said
        /\ m.thrown = me.thrown /\ m.result = me.result
        /\ DOMAIN m.loc = DOMAIN me.loc /\ m.loc.left = me.loc.left \ {i} /\ m.loc.totals = me.loc.totals
        /\ m.loc.hidden = me.loc.hidden \cup {i}
    BY <1>c, <1>k, <2>3 DEF Shape
  <2> HIDE DEF m
  <2>5. fault = "none" => TV!Rows("app", i) = 0 \/ me' = less(TV!Rows("app", i))
    BY <1>c, <2>2 DEF TriggerVisibilityKnow, TV!Rows
  <2>6. fault = "none" => me' = less(TV!Rows("app", i)) BY <1>c, <2>2 DEF TriggerVisibilityKnow, TV!Rows
  <2>7. me' \in {on, m} BY <2>2
  <2>8. fault = "none" => me' = IF TV!Rows("app", i) < TV!Rows("conn", i) THEN m ELSE on BY <2>6
  <2>9. Walks("visible", me.todo, me.said) /\ DOMAIN me'.loc = DOMAIN me.loc BY <2>3, <2>4, <2>7 DEF Walks
  <2>10. i \in TablesRead /\ world.rls BY <1>c, <2>2 DEF TriggerVisibilityKnow
  <2>11. me'.loc.left \subseteq TablesRead /\ me'.loc.totals \subseteq TablesRead BY <1>c, <2>3, <2>4, <2>7
      DEF TriggerVisibilityKnow
  <2>12. fault = "none" => ReallyHidden(me'.loc.hidden)
    <3>1. CASE me' = on BY <1>c, <2>3, <3>1 DEF TriggerVisibilityKnow
    <3>2. CASE me' = m /\ fault = "none"
      <4>1. CASE me' # on
        <5>1. TV!Rows("app", i) < TV!Rows("conn", i) BY <2>8, <3>2, <4>1
        <5>2. TV!HiddenIn(i) BY <1>c, <2>10, <5>1, TriggerTables DEF TV!HiddenIn
        <5> QED BY <1>c, <2>4, <3>2, <5>2 DEF TriggerVisibilityKnow, ReallyHidden
      <4> QED BY <3>1, <4>1
    <3> QED BY <2>7, <3>1, <3>2
  <2>13. fault = "none" => SecondRound(me'.loc.left, me'.loc.hidden)
    <3>1. SUFFICES ASSUME fault = "none", NEW j \in TablesRead
                   PROVE  TV!Denied("conn", j) \/ j \in me'.loc.left \/ (TV!Rows("app", j) < TV!Rows("conn", j) => j \in me'.loc.hidden)
      BY DEF SecondRound
    <3>2. TV!Denied("conn", j) \/ j \in me.loc.left \/ (TV!Rows("app", j) < TV!Rows("conn", j) => j \in me.loc.hidden)
      BY <1>c, <2>2, <3>1 DEF TriggerVisibilityKnow, SecondRound
    <3>3. CASE j = i BY <2>3, <2>4, <2>8, <3>1, <3>3
    <3>4. CASE j # i BY <2>3, <2>4, <2>7, <3>2, <3>4
    <3> QED BY <3>3, <3>4
  <2>14. TriggerVisibilityKnow'
    BY <1>u, <1>w, <1>c, <2>2, <2>9, <2>10, <2>11, <2>12, <2>13 DEF TriggerVisibilityKnow, Walks, Unclear
  <2> HIDE DEF less
  <2> QED BY <1>f, <1>c, <2>2, <2>9, <2>14 DEF Moved, Shape
<1>8. CASE TV!RollBack("judge")
  <2>1. /\ me.at = "finally" /\ Common' /\ Plays /\ me'.at = (IF me.thrown THEN "close" ELSE "judge")
        /\ me'.thrown = me.thrown /\ me'.result = me.result
        /\ me'.loc = me.loc /\ me'.said = me.said /\ me'.todo = me.todo /\ (Counts' <=> Counts)
        /\ pg' \in {pg, RolledBack(pg)} /\ (pg.st \notin {"open", "aborted"} => pg' = pg)
    BY <1>b, <1>t, <1>8, RollsBack
  <2>2. (\A e : Done(e)' <=> Done(e)) /\ (Unclear' <=> Unclear) BY <1>u, <1>t, <1>c, <2>1, Quiet
  <2>3. TriggerVisibilityKnow' BY <1>u, <1>c, <2>1, <2>2, <1>w DEF TriggerVisibilityKnow
  <2>4. \A e \in Truth.exposed : TriggerVisibilityPending(e) /\ Counts => TriggerVisibilityPending(e)'
    BY <1>u, <2>1 DEF TriggerVisibilityPending, Counts
  <2> QED BY <1>t, <2>1, <2>2, <2>3, <2>4 DEF TriggerVisibilityInv
\* Going on with several answers.
<1>m. ASSUME NEW at, NEW todo, NEW S, Walks(at, todo, me.said \cup S), Queue(todo), Moved, me.at \notin {"start", "done"},
             at \notin {"start", "plan", "done"}, TriggerVisibilityKnow',
             \A a \in S : Meaning(a) /\ a.says # "clear",
             \A a \in S, b \in me.said : a.says = "leak" /\ b.on = a.on /\ b.arm = a.arm => b.says # "clear",
             \A e \in Truth.exposed : Counts /\ TriggerVisibilityPending(e) =>
                \/ TriggerVisibilityPending(e)' \/ Done(e)
                \/ e \in Truth.blind
                \/ \E a \in S : a.on = e.on /\ (fault = "none" /\ e \in Truth.provable => a.arm = e.arm /\ a.says = "leak")
      PROVE  Common' /\ TriggerVisibilityInv' /\ Plays
  <2>1. Shape' BY <1>u, <1>c, <1>m, Going
  <2>2. /\ Meant'
        /\ \A e : Done(e) => Done(e)'
        /\ \A e : (\E a \in S : a.on = e.on) => Heard(e)'
        /\ \A e : (\E a \in S : a.on = e.on /\ a.arm = e.arm /\ a.says = "leak") => Done(e)'
    BY <1>u, <1>t, <1>c, <1>m, TellingAll DEF Walks
  <2>3. Session' BY <1>u, <1>c, <1>m, Moving DEF Walks
  <2>4. (Counts' => Counts) /\ Plays BY <1>m DEF Walks, Counts, Plays
  <2>5. \A e \in Truth.exposed : e \in Truth.blind => Done(e)' BY <1>u, <1>t, TriggerVisibilityPoints DEF Done
  <2>6. ASSUME NEW e \in Truth.exposed, Counts, TriggerVisibilityPending(e) PROVE TriggerVisibilityPending(e)' \/ Done(e)'
    <3>1. CASE \E a \in S : a.on = e.on /\ (fault = "none" /\ e \in Truth.provable => a.arm = e.arm /\ a.says = "leak")
      <4>1. Heard(e)' BY <2>2, <3>1
      <4>2. fault = "none" /\ e \in Truth.provable => Done(e)' BY <2>2, <3>1
      <4>3. ~(fault = "none" /\ e \in Truth.provable) => Done(e)' BY <1>u, <1>t, <4>1 DEF Done
      <4> QED BY <4>2, <4>3
    <3> QED BY <1>m, <2>2, <2>5, <2>6, <3>1
  <2> QED BY <1>t, <1>m, <2>1, <2>2, <2>3, <2>4, <2>6 DEF Common, TriggerVisibilityInv
<1>9. CASE TV!ClassifyTriggers
  <2> DEFINE hit == {k \in TV!Triggers : world.targets[k].reads \cap me.loc.hidden # {}}
             answers(S, says) == [on : S, arm : {"reads"}, says : {says}]
             N == answers(hit, "leak") \cup answers(TV!Triggers \ hit, "note")
             m == [TV!To("close") EXCEPT !.said = @ \cup answers(hit, "leak") \cup answers(TV!Triggers \ hit, "note")]
  <2>1. me.at = "judge" /\ pg' = pg /\ me' = m BY <1>9, Zenon DEF TV!ClassifyTriggers, TV!Do
  <2>2. m.said = me.said \cup N /\ DOMAIN m = DOMAIN me /\ m.at = "close" /\ m.todo = me.todo
        /\ m.thrown = me.thrown /\ m.result = me.result /\ m.loc = me.loc
    BY <1>c DEF TV!To, Shape
  <2> HIDE DEF m
  <2>3. Walks("close", me.todo, me.said \cup N) BY <2>1, <2>2 DEF Walks
  <2>4. ASSUME NEW a \in N
        PROVE  /\ a = [on |-> a.on, arm |-> "reads", says |-> a.says] /\ a.on \in TV!Triggers
               /\ a.says \in {"leak", "note"} /\ (a.says = "leak" => a.on \in hit)
    OBVIOUS
  <2>5. ASSUME NEW k \in TV!Triggers PROVE \E a \in N : a.on = k /\ a.arm = "reads" /\ (k \in hit => a.says = "leak")
    <3>1. CASE k \in hit
      <4>1. [on |-> k, arm |-> "reads", says |-> "leak"] \in N BY <3>1
      <4> HIDE DEF N, hit
      <4> QED BY <4>1
    <3>2. CASE k \notin hit
      <4>1. [on |-> k, arm |-> "reads", says |-> "note"] \in N BY <3>2
      <4> HIDE DEF N, hit
      <4> QED BY <3>2, <4>1
    <3> QED BY <3>1, <3>2
  <2>6. ASSUME NEW k \in hit PROVE [on |-> k, arm |-> "reads"] \in Truth.exposed \cup Truth.spurious
    <3>1. PICK i \in world.targets[k].reads : i \in me.loc.hidden OBVIOUS
    <3>2. CASE fault = "none"
      <4>1. TV!HiddenIn(i) /\ world.rls BY <1>c, <3>1, <3>2 DEF TriggerVisibilityKnow, ReallyHidden
      <4> QED BY <3>1, <4>1, TriggerVisibilityPoints
    <3>3. CASE fault # "none" BY <3>3, TriggerVisibilityPoints
    <3> QED BY <3>2, <3>3
  <2>7. ASSUME NEW e \in Truth.exposed, Counts
        PROVE  \E a \in N : a.on = e.on /\ (fault = "none" /\ e \in Truth.provable => a.arm = e.arm /\ a.says = "leak")
    <3>1. e.on \in TV!Triggers /\ e.arm = "reads" BY TriggerVisibilityPoints
    <3>2. ASSUME fault = "none", e \in Truth.provable PROVE e.on \in hit
      <4>1. PICK i \in world.targets[e.on].reads : TV!HiddenIn(i) /\ TV!Rows("conn", i) = TV!Counted("all", i)
        BY <3>2, TriggerVisibilityPoints
      <4>2. i \in TablesRead BY <1>c, <3>1, TriggerTables
      <4>3. TV!Rows("app", i) < TV!Rows("conn", i) BY <1>c, <4>1, <4>2, TriggerTables DEF TV!HiddenIn
      <4>4. ~TV!Denied("conn", i) BY <1>c, <4>2, <4>3, TriggerTables
      <4>5. i \in me.loc.hidden BY <1>c, <2>1, <2>7, <3>2, <4>2, <4>3, <4>4 DEF TriggerVisibilityKnow, SecondRound
      <4> QED BY <3>1, <4>5
    <3> HIDE DEF N, hit
    <3> QED BY <2>5, <3>1, <3>2
  <2> HIDE DEF N, hit
  <2>8. \A a \in N : Meaning(a) /\ a.says # "clear" BY <2>4, <2>6 DEF Meaning, Key
  <2>9. \A a \in N, b \in me.said : a.says = "leak" /\ b.on = a.on /\ b.arm = a.arm => b.says # "clear"
    BY <1>c DEF TriggerVisibilityKnow, Unclear
  <2>10. Unclear' BY <1>c, <2>1, <2>2, <2>4 DEF TriggerVisibilityKnow, Unclear
  <2>11. TriggerVisibilityKnow' BY <1>u, <1>w, <1>c, <2>1, <2>2, <2>10 DEF TriggerVisibilityKnow
  <2>12. \A e \in Truth.exposed : Counts /\ TriggerVisibilityPending(e) =>
                \/ TriggerVisibilityPending(e)' \/ Done(e)
                \/ e \in Truth.blind
                \/ \E a \in N : a.on = e.on /\ (fault = "none" /\ e \in Truth.provable => a.arm = e.arm /\ a.says = "leak")
    BY <2>7
  <2>13. PICK S : S = N OBVIOUS
  <2>14. Queue(me.todo) /\ Moved BY <1>c, <2>1 DEF Shape, Moved
  <2> QED BY <1>m, <2>1, <2>3, <2>8, <2>9, <2>11, <2>12, <2>13, <2>14
<1>10. CASE TV!Connect
  <2>1. /\ me.at = "start" /\ Common' /\ Plays /\ me'.loc = me.loc /\ me'.said = {} /\ me'.todo = me.todo
        /\ \/ me'.at = "plan" /\ pg' = [pg EXCEPT !.st = "idle"] /\ pg'.st = "idle" /\ Whole(me'.todo)
           \/ me'.at = "done" /\ ~Counts' /\ pg' = pg
    BY <1>b, <1>t, <1>10, Connects
  <2>2. TriggerVisibilityKnow' BY <1>u, <1>c, <2>1, <1>w DEF TriggerVisibilityKnow, Unclear
  <2>3. Counts' => \A e : TriggerVisibilityPending(e)' BY <2>1 DEF TriggerVisibilityPending
  <2> QED BY <2>1, <2>2, <2>3 DEF TriggerVisibilityInv
<1>11. CASE TV!Disconnect
  <2>1. /\ me.at = "close" /\ Common' /\ Plays /\ me'.at = "done"
        /\ me'.loc = me.loc /\ me'.said = me.said /\ me'.todo = me.todo /\ (Counts' => Counts)
    BY <1>b, <1>t, <1>11, Disconnects
  <2>2. (\A e : Done(e)' <=> Done(e)) /\ (Unclear' <=> Unclear) BY <1>u, <1>t, <1>c, <2>1, Quiet
  <2>3. TriggerVisibilityKnow' BY <1>u, <1>c, <2>1, <2>2, <1>w DEF TriggerVisibilityKnow
  <2>4. \A e : ~TriggerVisibilityPending(e) BY <2>1 DEF TriggerVisibilityPending
  <2> QED BY <1>t, <2>1, <2>2, <2>3, <2>4 DEF TriggerVisibilityInv
<1> QED BY <1>1, <1>2, <1>3, <1>6, <1>4, <1>5, <1>7, <1>8, <1>9, <1>10, <1>11 DEF TV!Next, TV!Check, TV!Run

\* So does a fault, whenever it strikes.
LEMMA TriggerVisibilityStruck ==
  ASSUME Common, TriggerVisibilityInv, world.guard = "trigger-visibility", Drop \/ Cancel
  PROVE  Common' /\ TriggerVisibilityInv'
<1>1. world' = world /\ fault = "none" BY DEF Drop, Cancel
<1>2. Truth'.exposed = Truth.exposed /\ Truth.blind \subseteq Truth'.blind /\ Truth.spurious \subseteq Truth'.spurious
  <2>1. Truth = TV!Truth /\ Truth' = TV!Truth' BY <1>1 DEF Truth
  <2>2. TV!Exposed' = TV!Exposed BY <1>1 DEF TV!Candidate, TV!Counted, TV!Denied, TV!Exposed, TV!HiddenIn, TV!Rows,
      TV!Triggers
  <2>3. TV!Blind \subseteq TV!Blind' BY <1>1, <2>2 DEF TV!Blind
  <2>4. TV!Spurious \subseteq TV!Spurious' BY <1>1 DEF TV!Candidate, TV!Spurious, TV!Triggers
  <2> QED BY <2>1, <2>2, <2>3, <2>4 DEF TV!Truth
<1>3. /\ me' = me /\ fault' # "none" /\ Common'
      /\ \/ fault' = "lost" /\ pg'.st = "lost" /\ pg'.who = "nobody" /\ pg'.saves = <<>>
         \/ fault' = "cancelled" /\ pg.st = "open" /\ pg'.st = "aborted" /\ pg' = Failed
      /\ \A e : Done(e) => Done(e)'
      /\ \A k, x : Untold(k, x)' <=> Untold(k, x)
      /\ Unclear' <=> Unclear
  BY <1>2, Striking
<1>4. TriggerVisibilityKnow' BY <1>1, <1>3, TriggerSame DEF TriggerVisibilityInv, TriggerVisibilityKnow
<1>5. \A e : TriggerVisibilityPending(e) => TriggerVisibilityPending(e)' BY <1>1, <1>3 DEF TriggerVisibilityPending
<1> QED BY <1>2, <1>3, <1>4, <1>5 DEF TriggerVisibilityInv, Counts

\* Trigger-visibility begins so.
LEMMA TriggerVisibilityBegins == ASSUME TV!Init PROVE Common /\ TriggerVisibilityInv /\ world.guard = "trigger-visibility"
<1>1. Begins("trigger-visibility") /\ me.loc = [left |-> {}, totals |-> {}, hidden |-> {}]
  BY WorldAssumption DEF Names, Begins, Whole, Count, Closed, TV!Init, TV!Enter, TV!Entered, TV!Closed
<1>2. Common BY <1>1, Beginning DEF Names
<1>3. TriggerVisibilityKnow BY <1>1 DEF TriggerVisibilityKnow, Begins, Unclear, ReallyHidden
<1> QED BY <1>1, <1>2, <1>3 DEF TriggerVisibilityInv, TriggerVisibilityPending, Begins

\* A step of nobody keeps it.
LEMMA TriggerVisibilityStays ==
  ASSUME Common, TriggerVisibilityInv, world.guard = "trigger-visibility", UNCHANGED vars
  PROVE  Common' /\ TriggerVisibilityInv'
<1>1. world' = world /\ fault' = fault /\ pg' = pg /\ me' = me BY DEF vars
<1>2. Truth' = Truth BY <1>1, TriggerVisibilitySame
<1>3. Common' /\ (\A e : Done(e)' <=> Done(e)) /\ (Counts' <=> Counts) BY <1>1, <1>2, Resting
<1>4. TriggerVisibilityKnow' /\ (\A e : TriggerVisibilityPending(e)' <=> TriggerVisibilityPending(e))
  BY <1>1, <1>2 DEF TriggerVisibilityInv, TriggerVisibilityKnow, TriggerVisibilityPending, Unclear, TablesRead,
      ReallyHidden, Live, FirstRound,
           SecondRound, Counts, TV!Triggers, TV!HiddenIn, TV!Denied, TV!Rows, TV!Candidate, TV!Counted
<1> QED BY <1>2, <1>3, <1>4 DEF TriggerVisibilityInv

\* At the end nothing is pending, and a question is a target and an arm.
LEMMA TriggerVisibilityEnds ==
  ASSUME Common, world.guard = "trigger-visibility", TriggerVisibilityInv, me.at = "done", Counts
  PROVE  /\ \A e \in Truth.exposed : e = Key(e) /\ Done(e)
         /\ Truth.provable \subseteq Truth.exposed
<1>1. \A e : ~TriggerVisibilityPending(e) BY DEF TriggerVisibilityPending
<1> QED BY <1>1, TriggerVisibilityPoints DEF TriggerVisibilityInv, Key

=============================================================================
