------------------------- MODULE PrRemediationProofs -------------------------
(***************************************************************************)
(* Safety of the remediation loop, for every number of executions,         *)
(* launches, deaths and damaged files; and what the quality of a           *)
(* remediation result means, for every plan and every document.            *)
(***************************************************************************)
EXTENDS PrRemediation, FiniteSetTheorems, FunctionTheorems, WellFoundedInduction, TLAPS

Positive == Nat \ {0}
Counters == [attempts : Nat, validation : Nat, stale : Nat]
Phases == {"reserved", "launched", "completed"}

IsSeq(s) == s \in Seq({s[i] : i \in DOMAIN s})

\* A retry state, whoever holds it.
IsState(v) ==
    v \in [scope : Positive \X Positive, bud : Counters, cnt : Counters, tt : {v.tt},
           phase : Phases, tok : {v.tok}, pred : Nat, reset : BOOLEAN, src : {v.src},
           promoted : {v.promoted}, reason : {v.reason}]

\* The token of a launch is its plan and its ordinal, which is within the budget.
IsLaunch(v) ==
    /\ IsState(v) /\ v.reset = FALSE
    /\ v.tok = <<v.scope[2], v.cnt.attempts>>
    /\ v.cnt.attempts >= 1 /\ v.cnt.attempts <= v.bud.attempts
    /\ v.tt = "launch_launched" => v.phase = "launched"

\* A tombstone belongs to no launch and leaves nothing of the budget.
IsTombstone(v) ==
    /\ IsState(v) /\ v.reset = TRUE
    /\ v.tok = NoToken /\ v.cnt = v.bud /\ v.pred = Missing
    /\ v.phase = "completed" /\ v.reason = "attempts" /\ v.tt = "terminal_tombstone"

IsSnapshot(s) ==
    /\ s \in [head : {s.v.scope[1]}, v : {s.v}, ok : BOOLEAN]
    /\ IsLaunch(s.v) \/ IsTombstone(s.v)

\* Ordinals and phases of the launches of a scope only grow, and a launch is
\* marked as launched once.
Precedes(v, w) ==
    /\ v.cnt.attempts <= w.cnt.attempts
    /\ v.cnt.attempts = w.cnt.attempts =>
          /\ v.phase = w.phase \/ v.phase = "reserved" \/ w.phase = "completed"
          /\ w.tt = "launch_launched" => v.phase = "reserved"

OrderOK(h) ==
    \A i, j \in DOMAIN h : i < j /\ h[i].v.scope = h[j].v.scope /\ ~h[j].v.reset =>
        ~h[i].v.reset /\ Precedes(h[i].v, h[j].v)

IsFirst(h, i) == \A j \in DOMAIN h : h[j].v.scope = h[i].v.scope => i <= j

\* Whatever an execution writes back, no budget of a scope exceeds its first.
BudgetOK(h) ==
    \A i, j \in DOMAIN h :
        IsFirst(h, i) /\ h[i].v.scope = h[j].v.scope /\ ~h[j].v.reset =>
            h[j].v.bud.attempts <= h[i].v.bud.attempts

\* The predecessor of a snapshot is the previous one of its scope.
IsPrevious(h, i, p) ==
    /\ p \in 0 .. (i - 1)
    /\ p # Missing => h[p].v.scope = h[i].v.scope
    /\ \A j \in 1 .. (i - 1) : h[j].v.scope = h[i].v.scope => j <= p

ChainOK(h) == \A i \in DOMAIN h : ~h[i].v.reset => IsPrevious(h, i, h[i].v.pred)

HistoryOK(h) ==
    /\ IsSeq(h) /\ \A i \in DOMAIN h : IsSnapshot(h[i])
    /\ OrderOK(h) /\ BudgetOK(h) /\ ChainOK(h)

\* The files of an artifact family.
IsFamily(f) == f \in [hist : {f.hist}, canon : Nat, spoiled : BOOLEAN]

RetryOK(f) == IsFamily(f) /\ HistoryOK(f.hist) /\ f.canon <= Len(f.hist)

\* A plan is for one head; neither ever comes back.
ScopesOK(h, hd, pl) ==
    /\ \A i \in DOMAIN h : h[i].v.scope[1] <= hd /\ h[i].v.scope[2] <= pl
    /\ \A i \in DOMAIN h : h[i].v.scope[2] = pl => h[i].v.scope[1] = hd
    /\ \A i, j \in DOMAIN h : h[i].v.scope[2] = h[j].v.scope[2] => h[i].v.scope = h[j].v.scope

\* The terminal failures of the heads.
TerminalOK(f) ==
    /\ IsFamily(f) /\ IsSeq(f.hist)
    /\ \A i \in DOMAIN f.hist : f.hist[i].ok = TRUE
    /\ \A i, j \in DOMAIN f.hist : i # j => f.hist[i].head # f.hist[j].head

IsDisk(d) ==
    d \in [retry : {d.retry}, result : {d.result}, terminal : {d.terminal},
           current : {d.current}, files : {d.files}]

DiskOK(d, hd, pl) ==
    /\ IsDisk(d) /\ RetryOK(d.retry) /\ ScopesOK(d.retry.hist, hd, pl) /\ TerminalOK(d.terminal)

\* The copy of a launch that an execution writes back.
CopyOK(v, h) ==
    /\ IsLaunch(v)
    /\ \E i \in DOMAIN h : /\ h[i].v.scope = v.scope /\ IsFirst(h, i)
                           /\ v.bud.attempts <= h[i].v.bud.attempts

OwnPhase(pc) == IF pc = "reserved" THEN "reserved" ELSE "launched"
Launching == {"reserved", "launched", "invoked", "promoted", "unpromoted"}

ExecutionOK(x, h) ==
    /\ x \in [pc : {x.pc}, st : {x.st}, c : Configs, src : {x.src}, r : {x.r}]
    /\ x.pc \in Launching => CopyOK(x.st, h) /\ x.st.phase = OwnPhase(x.pc)

Undamaged(f) == ~f.spoiled /\ \A i \in DOMAIN f.hist : f.hist[i].ok

RemediationInv ==
    /\ head \in Positive /\ plan \in Positive /\ cfg \in Configs /\ at \notin Launching
    /\ damage \in Nat /\ (damage = 0 => Undamaged(disk.retry))
    /\ DiskOK(disk, head, plan)
    /\ DOMAIN ex = Executions /\ \A e \in Executions : ExecutionOK(ex[e], disk.retry.hist)
-----------------------------------------------------------------------------
(* Sequences and greatest elements                                           *)

LEMMA SeqDomain == ASSUME NEW s, IsSeq(s) PROVE Len(s) \in Nat /\ DOMAIN s = 1 .. Len(s)
BY DEF IsSeq

LEMMA IntoSeq ==
    ASSUME NEW S, NEW s \in Seq(S)
    PROVE  IsSeq(s)
<1>1. s \in [1 .. Len(s) -> {s[i] : i \in DOMAIN s}] /\ Len(s) \in Nat
  OBVIOUS
<1> QED
  BY <1>1 DEF IsSeq

LEMMA Appended ==
    ASSUME NEW s, IsSeq(s), NEW x
    PROVE  /\ IsSeq(Append(s, x)) /\ Len(Append(s, x)) = Len(s) + 1
           /\ DOMAIN Append(s, x) = DOMAIN s \cup {Len(s) + 1}
           /\ \A i \in DOMAIN s : Append(s, x)[i] = s[i]
           /\ Append(s, x)[Len(s) + 1] = x
<1> DEFINE S == {s[i] : i \in DOMAIN s} \cup {x}
<1>1. s \in Seq(S)
  <2>1. s \in [1 .. Len(s) -> S] /\ Len(s) \in Nat
    BY DEF IsSeq
  <2> QED
    BY <2>1
<1>2. x \in S
  OBVIOUS
<1> HIDE DEF S
<1>3. Append(s, x) \in Seq(S)
  BY <1>1, <1>2
<1>4. IsSeq(Append(s, x))
  BY <1>3, IntoSeq
<1>5. Len(Append(s, x)) = Len(s) + 1 /\ Len(s) \in Nat
  BY <1>1, <1>2
<1>6. DOMAIN Append(s, x) = DOMAIN s \cup {Len(s) + 1}
  BY <1>4, <1>5, SeqDomain
<1>7. \A i \in DOMAIN s : Append(s, x)[i] = s[i]
  BY <1>1, <1>2, <1>5
<1>8. Append(s, x)[Len(s) + 1] = x
  BY <1>1, <1>2, <1>5
<1> QED
  BY <1>4, <1>5, <1>6, <1>7, <1>8

\* Every element of u is one of s or of t.
MadeOf(u, s, t) ==
    \A i \in DOMAIN u : (\E j \in DOMAIN s : u[i] = s[j]) \/ \E j \in DOMAIN t : u[i] = t[j]

LEMMA Concatenated ==
    ASSUME NEW s, NEW t, IsSeq(s), IsSeq(t)
    PROVE  /\ IsSeq(s \o t) /\ Len(s \o t) = Len(s) + Len(t)
           /\ MadeOf(s \o t, s, t)
           /\ t # <<>> => s \o t # <<>> /\ Last(s \o t) = Last(t)
<1> DEFINE S == {s[i] : i \in DOMAIN s} \cup {t[i] : i \in DOMAIN t}
<1>1. s \in Seq(S) /\ t \in Seq(S)
  <2>1. s \in [1 .. Len(s) -> S] /\ Len(s) \in Nat
    BY DEF IsSeq
  <2>2. t \in [1 .. Len(t) -> S] /\ Len(t) \in Nat
    BY DEF IsSeq
  <2> QED
    BY <2>1, <2>2
<1> HIDE DEF S
<1>2. s \o t \in Seq(S) /\ Len(s \o t) = Len(s) + Len(t)
  BY <1>1
<1>3. IsSeq(s \o t)
  BY <1>2, IntoSeq
<1>4. \A i \in 1 .. (Len(s) + Len(t)) : (s \o t)[i] = IF i <= Len(s) THEN s[i] ELSE t[i - Len(s)]
  BY <1>1
<1>5. \A i \in DOMAIN (s \o t) :
         (\E j \in DOMAIN s : (s \o t)[i] = s[j]) \/ \E j \in DOMAIN t : (s \o t)[i] = t[j]
  <2> SUFFICES ASSUME NEW i \in DOMAIN (s \o t)
      PROVE (\E j \in DOMAIN s : (s \o t)[i] = s[j]) \/ \E j \in DOMAIN t : (s \o t)[i] = t[j]
    OBVIOUS
  <2>1. i \in 1 .. (Len(s) + Len(t)) /\ Len(s) \in Nat /\ Len(t) \in Nat
    BY <1>2, <1>3, SeqDomain
  <2>2. DOMAIN s = 1 .. Len(s) /\ DOMAIN t = 1 .. Len(t)
    BY SeqDomain
  <2>3. CASE i <= Len(s)
    BY <1>4, <2>1, <2>2, <2>3
  <2>4. CASE i > Len(s)
    <3>1. i - Len(s) \in DOMAIN t
      BY <2>1, <2>2, <2>4
    <3>2. (s \o t)[i] = t[i - Len(s)]
      BY <1>4, <2>1, <2>4
    <3> QED
      BY <3>1, <3>2
  <2> QED
    BY <2>1, <2>3, <2>4
<1>6. t # <<>> => s \o t # <<>> /\ Last(s \o t) = Last(t)
  <2> SUFFICES ASSUME t # <<>> PROVE s \o t # <<>> /\ Last(s \o t) = Last(t)
    OBVIOUS
  <2>1. Len(s) \in Nat /\ Len(t) \in Nat /\ Len(t) # 0
    BY <1>1
  <2>2. (s \o t)[Len(s) + Len(t)] = t[Len(t)]
    BY <1>4, <2>1
  <2>3. s \o t # <<>>
    BY <1>2, <2>1
  <2> QED
    BY <1>2, <2>2, <2>3 DEF Last
<1>7. MadeOf(s \o t, s, t)
  BY ONLY <1>5 DEF MadeOf
<1> QED
  BY <1>2, <1>3, <1>7, <1>6

LEMMA One ==
    ASSUME NEW x
    PROVE  IsSeq(<<x>>) /\ <<x>> # <<>> /\ Last(<<x>>) = x /\ \A i \in DOMAIN <<x>> : <<x>>[i] = x
<1>1. <<x>> \in Seq({x})
  OBVIOUS
<1>2. IsSeq(<<x>>)
  BY <1>1, IntoSeq
<1> QED
  BY <1>2 DEF Last

LEMMA Two ==
    ASSUME NEW x, NEW y
    PROVE  /\ IsSeq(<<x, y>>) /\ <<x, y>> # <<>> /\ Last(<<x, y>>) = y
           /\ \A i \in DOMAIN <<x, y>> : <<x, y>>[i] \in {x, y}
<1>1. <<x, y>> \in Seq({x, y})
  OBVIOUS
<1>2. IsSeq(<<x, y>>)
  BY <1>1, IntoSeq
<1> QED
  BY <1>2 DEF Last

\* Every non-empty set of naturals has a least element.
LEMMA LeastNat ==
    ASSUME NEW T, T \subseteq Nat, T # {}
    PROVE  \E k \in T : \A j \in T : k <= j
<1>1. IsWellFoundedOn(OpToRel(<, Nat), Nat)
  BY NatLessThanWellFounded
<1>2. PICK k \in T : \A j \in T : ~(<<j, k>> \in OpToRel(<, Nat))
  BY <1>1, WFMin
<1>3. \A j \in T : ~(j < k)
  BY <1>2 DEF OpToRel
<1> QED
  BY <1>3

LEMMA MaxOf ==
    ASSUME NEW n \in Nat, NEW T, T \subseteq 0 .. n, T # {}
    PROVE  Max(T) \in T /\ \A j \in T : j <= Max(T)
<1> DEFINE U == {m \in Nat : \A j \in T : j <= m}
<1>1. U \subseteq Nat /\ n \in U
  OBVIOUS
<1>2. PICK m \in U : \A i \in U : m <= i
  <2> HIDE DEF U
  <2> QED
    BY <1>1, LeastNat
<1>3. m \in T
  <2> SUFFICES ASSUME m \notin T PROVE FALSE
    OBVIOUS
  <2>1. PICK j \in T : TRUE
    OBVIOUS
  <2>2. m \in Nat /\ m >= 1 /\ m - 1 \in Nat
    BY <2>1
  <2>3. m - 1 \in U
    BY <2>2
  <2> QED
    BY <1>2, <2>2, <2>3
<1>4. \E x \in T : \A y \in T : x >= y
  BY <1>3
<1>5. Max(T) \in T /\ \A y \in T : Max(T) >= y
  BY <1>4 DEF Max
<1> QED
  BY <1>5

LEMMA MinOf ==
    ASSUME NEW T, T \subseteq Nat, T # {}
    PROVE  Min(T) \in T /\ \A j \in T : Min(T) <= j
BY LeastNat DEF Min

-----------------------------------------------------------------------------
(* The history of the retry state                                            *)

LEMMA StateFields ==
    ASSUME NEW v, IsLaunch(v) \/ IsTombstone(v)
    PROVE  /\ IsState(v) /\ v # NoState
           /\ v.scope[1] \in Positive /\ v.scope[2] \in Positive
           /\ v.cnt.attempts \in Nat /\ v.bud.attempts \in Nat
<1>1. IsState(v)
  BY DEF IsLaunch, IsTombstone
<1>2. v.scope \in Positive \X Positive /\ v.cnt \in Counters /\ v.bud \in Counters
  BY <1>1 DEF IsState
<1>3. v # NoState
  BY <1>2 DEF NoState, Positive
<1> QED
  BY <1>1, <1>2, <1>3 DEF Counters

LEMMA PrecedesTransitive ==
    ASSUME NEW u, NEW v, NEW w, Precedes(u, v), Precedes(v, w),
           u.cnt.attempts \in Nat, v.cnt.attempts \in Nat, w.cnt.attempts \in Nat,
           v.phase \in Phases, w.phase \in Phases, w.tt = "launch_launched" => w.phase = "launched"
    PROVE  Precedes(u, w)
<1>1. u.cnt.attempts <= w.cnt.attempts
  BY DEF Precedes
<1>2. ASSUME u.cnt.attempts = w.cnt.attempts
      PROVE  /\ u.phase = w.phase \/ u.phase = "reserved" \/ w.phase = "completed"
             /\ w.tt = "launch_launched" => u.phase = "reserved"
  <2>1. u.cnt.attempts = v.cnt.attempts /\ v.cnt.attempts = w.cnt.attempts
    BY <1>2 DEF Precedes
  <2>2. u.phase = v.phase \/ u.phase = "reserved" \/ v.phase = "completed"
    BY <2>1 DEF Precedes
  <2>3. v.phase = w.phase \/ v.phase = "reserved" \/ w.phase = "completed"
    BY <2>1 DEF Precedes
  <2>4. w.tt = "launch_launched" => v.phase = "reserved"
    BY <2>1 DEF Precedes
  <2> QED
    BY <2>2, <2>3, <2>4
<1> QED
  BY <1>1, <1>2 DEF Precedes

\* What an appended snapshot has to satisfy.
Fits(h, v) ==
    /\ \A i \in DOMAIN h : h[i].v.scope = v.scope => ~h[i].v.reset /\ Precedes(h[i].v, v)
    /\ \A i \in DOMAIN h : IsFirst(h, i) /\ h[i].v.scope = v.scope => v.bud.attempts <= h[i].v.bud.attempts
    /\ v.pred \in 0 .. Len(h)
    /\ v.pred # Missing => h[v.pred].v.scope = v.scope
    /\ \A i \in DOMAIN h : h[i].v.scope = v.scope => i <= v.pred

LEMMA AppendHistory ==
    ASSUME NEW h, HistoryOK(h), NEW v, IsLaunch(v) \/ IsTombstone(v), ~v.reset => Fits(h, v),
           NEW g, g = Append(h, Snapshot(v.scope[1], v))
    PROVE  /\ HistoryOK(g)
           /\ Len(g) = Len(h) + 1 /\ DOMAIN g = DOMAIN h \cup {Len(h) + 1}
           /\ \A i \in DOMAIN h : g[i] = h[i]
           /\ g[Len(h) + 1] = Snapshot(v.scope[1], v)
<1> DEFINE n == Len(h) + 1
<1>1. IsSeq(h) /\ Len(h) \in Nat /\ DOMAIN h = 1 .. Len(h)
  BY SeqDomain DEF HistoryOK
<1>2. /\ IsSeq(g) /\ Len(g) = n /\ DOMAIN g = DOMAIN h \cup {n}
      /\ \A i \in DOMAIN h : g[i] = h[i]
      /\ g[n] = Snapshot(v.scope[1], v)
  BY <1>1, Appended
<1>3. g[n].v = v /\ g[n].ok = TRUE /\ g[n].head = v.scope[1]
  BY <1>2 DEF Snapshot
<1>4. \A i \in DOMAIN h : i < n /\ i # n /\ i \in Nat
  BY <1>1
<1>5. n \in Nat /\ n \in DOMAIN g
  BY <1>1, <1>2
<1> HIDE DEF n
<1>6. \A i \in DOMAIN g : IsSnapshot(g[i])
  <2>1. IsSnapshot(g[n])
    BY <1>2, <1>3 DEF IsSnapshot, Snapshot
  <2>2. \A i \in DOMAIN h : IsSnapshot(h[i])
    BY DEF HistoryOK
  <2> QED
    BY <1>2, <2>1, <2>2
<1>7. OrderOK(g)
  <2> SUFFICES ASSUME NEW i \in DOMAIN g, NEW j \in DOMAIN g, i < j, g[i].v.scope = g[j].v.scope,
                      ~g[j].v.reset
      PROVE ~g[i].v.reset /\ Precedes(g[i].v, g[j].v)
    BY DEF OrderOK
  <2>1. i \in DOMAIN h
    BY <1>2, <1>4, <1>1 DEF n
  <2>2. CASE j = n
    BY <1>2, <1>3, <2>1, <2>2 DEF Fits
  <2>3. CASE j \in DOMAIN h
    <3>1. OrderOK(h)
      BY DEF HistoryOK
    <3> QED
      BY <1>2, <2>1, <2>3, <3>1 DEF OrderOK
  <2> QED
    BY <1>2, <2>2, <2>3
<1>8. BudgetOK(g)
  <2> SUFFICES ASSUME NEW i \in DOMAIN g, NEW j \in DOMAIN g, IsFirst(g, i),
                      g[i].v.scope = g[j].v.scope, ~g[j].v.reset
      PROVE g[j].v.bud.attempts <= g[i].v.bud.attempts
    BY DEF BudgetOK
  <2>1. i <= j
    BY DEF IsFirst
  <2>2. CASE i = n
    <3>1. j = n
      BY <1>2, <1>4, <2>1, <2>2
    <3>2. v.bud.attempts \in Nat
      BY StateFields
    <3> QED
      BY <1>3, <2>2, <3>1, <3>2
  <2>3. CASE i \in DOMAIN h
    <3>1. IsFirst(h, i)
      BY <1>2, <2>3 DEF IsFirst
    <3>2. CASE j = n
      BY <1>2, <1>3, <2>3, <3>1, <3>2 DEF Fits
    <3>3. CASE j \in DOMAIN h
      <4>1. BudgetOK(h)
        BY DEF HistoryOK
      <4> QED
        BY <1>2, <2>3, <3>1, <3>3, <4>1 DEF BudgetOK
    <3> QED
      BY <1>2, <3>2, <3>3
  <2> QED
    BY <1>2, <2>2, <2>3
<1>9. ChainOK(g)
  <2> SUFFICES ASSUME NEW i \in DOMAIN g, ~g[i].v.reset PROVE IsPrevious(g, i, g[i].v.pred)
    BY DEF ChainOK
  <2>1. CASE i = n
    <3>1. Fits(h, v)
      BY <1>3, <2>1
    <3>2. v.pred \in 0 .. (n - 1) /\ n - 1 = Len(h)
      BY <1>1, <3>1 DEF Fits, n
    <3>3. v.pred # Missing => v.pred \in DOMAIN h
      BY <1>1, <3>2 DEF Missing
    <3>4. v.pred # Missing => g[v.pred].v.scope = v.scope
      BY <1>2, <3>1, <3>3 DEF Fits
    <3>5. \A j \in 1 .. (n - 1) : g[j].v.scope = v.scope => j <= v.pred
      BY <1>1, <1>2, <3>1, <3>2 DEF Fits
    <3> QED
      BY <1>3, <2>1, <3>2, <3>4, <3>5 DEF IsPrevious
  <2>2. CASE i \in DOMAIN h
    <3>1. IsPrevious(h, i, h[i].v.pred)
      <4>1. ChainOK(h)
        BY DEF HistoryOK
      <4> QED
        BY <1>2, <2>2, <4>1 DEF ChainOK
    <3>2. g[i] = h[i]
      BY <1>2, <2>2
    <3>3. \A j \in 1 .. (i - 1) : j \in DOMAIN h /\ g[j] = h[j]
      BY <1>1, <1>2, <2>2
    <3>4. h[i].v.pred \in 0 .. (i - 1)
      BY <3>1 DEF IsPrevious
    <3>5. h[i].v.pred # Missing => h[i].v.pred \in 1 .. (i - 1)
      BY <1>1, <2>2, <3>4 DEF Missing
    <3> DEFINE p == h[i].v.pred
    <3>6. p # Missing => h[p].v.scope = h[i].v.scope
      BY <3>1 DEF IsPrevious
    <3>7. p # Missing => g[p].v.scope = g[i].v.scope
      BY <3>2, <3>3, <3>5, <3>6
    <3>8. \A j \in 1 .. (i - 1) : g[j].v.scope = g[i].v.scope => j <= p
      BY <3>1, <3>2, <3>3 DEF IsPrevious
    <3>9. p \in 0 .. (i - 1) /\ g[i].v.pred = p
      BY <3>2, <3>4
    <3> HIDE DEF p
    <3> QED
      BY <3>7, <3>8, <3>9 DEF IsPrevious
  <2> QED
    BY <1>2, <2>1, <2>2
<1> QED
  BY <1>2, <1>6, <1>7, <1>8, <1>9 DEF HistoryOK, n

-----------------------------------------------------------------------------
(* What a critical section may leave behind                                  *)

IsNewest(h, n) == n \in DOMAIN h /\ \A j \in DOMAIN h : h[j].v.scope = h[n].v.scope => j <= n

\* A copy of a snapshot; the predecessor, the marks and the source may differ.
Agrees(st, v) ==
    /\ IsLaunch(st) \/ IsTombstone(st)
    /\ st.scope = v.scope /\ st.bud = v.bud /\ st.cnt = v.cnt
    /\ st.phase = v.phase /\ st.reset = v.reset

\* The canonical copy is the newest snapshot of its scope, and st is its copy.
Loaded(d, st) ==
    \E n \in DOMAIN d.retry.hist :
        d.retry.canon = n /\ IsNewest(d.retry.hist, n) /\ Agrees(st, d.retry.hist[n].v)

Extends(g, h) == \A i \in DOMAIN g : i \in DOMAIN h /\ h[i] = g[i]

Grows(d, t) ==
    /\ DiskOK(t, head, plan) /\ Extends(d.retry.hist, t.retry.hist)
    /\ Undamaged(d.retry) => Undamaged(t.retry)

\* No launch of the plan is newer than the promoted result.
PromotedNewest(t) ==
    \A i \in DOMAIN t.retry.hist :
        LET v == t.retry.hist[i].v
        IN  v.tt = "launch_launched" /\ v.scope[2] = t.current.tok[1] => v.tok[2] <= t.current.tok[2]

Calm(d, t) == Grows(d, t) /\ t.current = d.current /\ t.terminal = d.terminal
Leads(d, t) ==
    Grows(d, t) /\ (t.current # d.current /\ t.current.kind = "raw" => PromotedNewest(t))

IsTrail(s) == IsSeq(s) /\ s # <<>>
CalmTrail(d, s) == IsTrail(s) /\ \A i \in DOMAIN s : Calm(d, s[i])
TrailOK(d, s) == IsTrail(s) /\ \A i \in DOMAIN s : Leads(d, s[i])

LEMMA LastIn == ASSUME NEW s, IsTrail(s) PROVE \E i \in DOMAIN s : Last(s) = s[i]
<1>1. Len(s) \in Nat /\ DOMAIN s = 1 .. Len(s) /\ Len(s) # 0
  BY SeqDomain DEF IsTrail, IsSeq
<1> QED
  BY <1>1 DEF Last

LEMMA CalmSelf == ASSUME NEW d, DiskOK(d, head, plan) PROVE Calm(d, d)
BY DEF Calm, Grows, Extends

LEMMA CalmCalm == ASSUME NEW d, NEW t, NEW u, Calm(d, t), Calm(t, u) PROVE Calm(d, u)
BY DEF Calm, Grows, Extends

LEMMA CalmLeads == ASSUME NEW d, NEW t, NEW u, Calm(d, t), Leads(t, u) PROVE Leads(d, u)
BY DEF Calm, Leads, Grows, Extends

LEMMA CalmIsLead == ASSUME NEW d, NEW t, Calm(d, t) PROVE Leads(d, t)
BY DEF Calm, Leads

LEMMA CalmIsTrail == ASSUME NEW d, NEW s, CalmTrail(d, s) PROVE TrailOK(d, s)
BY CalmIsLead DEF CalmTrail, TrailOK

LEMMA CalmLast == ASSUME NEW d, NEW s, CalmTrail(d, s) PROVE Calm(d, Last(s))
<1>1. PICK i \in DOMAIN s : Last(s) = s[i]
  BY LastIn DEF CalmTrail
<1> QED
  BY <1>1 DEF CalmTrail

LEMMA TrailLast == ASSUME NEW d, NEW s, TrailOK(d, s) PROVE Leads(d, Last(s))
<1>1. PICK i \in DOMAIN s : Last(s) = s[i]
  BY LastIn DEF TrailOK
<1> QED
  BY <1>1 DEF TrailOK

LEMMA OneCalm ==
    ASSUME NEW d, NEW t, Calm(d, t) PROVE CalmTrail(d, <<t>>) /\ Last(<<t>>) = t
BY One DEF CalmTrail, IsTrail

LEMMA OneTrail ==
    ASSUME NEW d, NEW t, Leads(d, t) PROVE TrailOK(d, <<t>>) /\ Last(<<t>>) = t
BY One DEF TrailOK, IsTrail

LEMMA TwoTrail ==
    ASSUME NEW d, NEW t, NEW u, Leads(d, t), Leads(d, u)
    PROVE  TrailOK(d, <<t, u>>) /\ Last(<<t, u>>) = u
<1>1. IsTrail(<<t, u>>) /\ Last(<<t, u>>) = u /\ \A i \in DOMAIN <<t, u>> : <<t, u>>[i] \in {t, u}
  BY Two DEF IsTrail
<1> DEFINE s == <<t, u>>
<1> HIDE DEF s
<1>2. TrailOK(d, s)
  BY <1>1 DEF TrailOK, s
<1> QED
  BY <1>1, <1>2 DEF s

\* Trails that start at the same disk.
LEMMA Beside ==
    ASSUME NEW d, NEW s, NEW t, TrailOK(d, s), TrailOK(d, t)
    PROVE  TrailOK(d, s \o t) /\ Last(s \o t) = Last(t)
<1>1. IsSeq(s) /\ IsSeq(t) /\ t # <<>>
  BY DEF TrailOK, IsTrail
<1>2. IsTrail(s \o t) /\ Last(s \o t) = Last(t)
  BY <1>1, Concatenated DEF IsTrail
<1>3. MadeOf(s \o t, s, t)
  BY <1>1, Concatenated
<1> DEFINE u == s \o t
<1> HIDE DEF u
<1>4. \A i \in DOMAIN u : (\E j \in DOMAIN s : u[i] = s[j]) \/ \E j \in DOMAIN t : u[i] = t[j]
  BY <1>3 DEF u, MadeOf
<1>5. TrailOK(d, u)
  BY <1>2, <1>4 DEF TrailOK, u
<1> QED
  BY <1>2, <1>5 DEF u

LEMMA CalmBeside ==
    ASSUME NEW d, NEW s, NEW t, CalmTrail(d, s), CalmTrail(d, t)
    PROVE  CalmTrail(d, s \o t) /\ Last(s \o t) = Last(t)
<1>1. IsSeq(s) /\ IsSeq(t) /\ t # <<>>
  BY DEF CalmTrail, IsTrail
<1>2. IsTrail(s \o t) /\ Last(s \o t) = Last(t)
  BY <1>1, Concatenated DEF IsTrail
<1>3. MadeOf(s \o t, s, t)
  BY <1>1, Concatenated
<1> DEFINE u == s \o t
<1> HIDE DEF u
<1>4. \A i \in DOMAIN u : (\E j \in DOMAIN s : u[i] = s[j]) \/ \E j \in DOMAIN t : u[i] = t[j]
  BY <1>3 DEF u, MadeOf
<1>5. CalmTrail(d, u)
  BY <1>2, <1>4 DEF CalmTrail, u
<1> QED
  BY <1>2, <1>5 DEF u

\* A critical section that goes on where a calm one ended.
LEMMA CalmThen ==
    ASSUME NEW d, NEW s, NEW t, CalmTrail(d, s), TrailOK(Last(s), t)
    PROVE  TrailOK(d, s \o t) /\ Last(s \o t) = Last(t)
<1>1. TrailOK(d, s)
  BY CalmIsTrail
<1>2. TrailOK(d, t)
  BY CalmLast, CalmLeads DEF TrailOK
<1> QED
  BY <1>1, <1>2, Beside

LEMMA CalmThenCalm ==
    ASSUME NEW d, NEW s, NEW t, CalmTrail(d, s), CalmTrail(Last(s), t)
    PROVE  CalmTrail(d, s \o t) /\ Last(s \o t) = Last(t)
<1>1. CalmTrail(d, t)
  BY CalmLast, CalmCalm DEF CalmTrail
<1> QED
  BY <1>1, CalmBeside

LEMMA CalmFirst ==
    ASSUME NEW d, NEW t, NEW s, Calm(d, t), TrailOK(t, s)
    PROVE  TrailOK(d, s)
BY CalmLeads DEF TrailOK

LEMMA CalmFirstCalm ==
    ASSUME NEW d, NEW t, NEW s, Calm(d, t), CalmTrail(t, s)
    PROVE  CalmTrail(d, s)
BY CalmCalm DEF CalmTrail

-----------------------------------------------------------------------------
(* Writing the retry state                                                   *)

LEMMA Fitting ==
    ASSUME NEW h, HistoryOK(h), NEW n, IsNewest(h, n), NEW st, Agrees(st, h[n].v), st.reset = FALSE,
           NEW next, IsLaunch(next), next.scope = st.scope, Precedes(st, next), next.pred = n,
           CopyOK(next, h)
    PROVE  Fits(h, next)
<1>1. IsSeq(h) /\ Len(h) \in Nat /\ DOMAIN h = 1 .. Len(h)
  BY SeqDomain DEF HistoryOK
<1>2. n \in 1 .. Len(h) /\ h[n].v.scope = next.scope /\ ~h[n].v.reset
  BY <1>1 DEF IsNewest, Agrees
<1>3. Precedes(h[n].v, next)
  BY DEF Agrees, Precedes
<1>4. ASSUME NEW i \in DOMAIN h, h[i].v.scope = next.scope
      PROVE  i <= n /\ ~h[i].v.reset /\ Precedes(h[i].v, next)
  <2>1. i <= n
    BY <1>2, <1>4 DEF IsNewest
  <2>2. CASE i = n
    BY <1>2, <1>3, <2>2
  <2>3. CASE i < n
    <3>1. ~h[i].v.reset /\ Precedes(h[i].v, h[n].v)
      BY <1>1, <1>2, <1>4, <2>3 DEF HistoryOK, OrderOK
    <3>2. IsLaunch(h[i].v) \/ IsTombstone(h[i].v)
      BY DEF HistoryOK, IsSnapshot
    <3>3. IsLaunch(h[n].v) \/ IsTombstone(h[n].v)
      BY <1>1, <1>2 DEF HistoryOK, IsSnapshot
    <3>4. h[i].v.cnt.attempts \in Nat /\ h[n].v.cnt.attempts \in Nat /\ next.cnt.attempts \in Nat
      BY <3>2, <3>3, StateFields
    <3>5. h[n].v.phase \in Phases
      BY <3>3, StateFields DEF IsState
    <3>6. next.phase \in Phases /\ (next.tt = "launch_launched" => next.phase = "launched")
      BY DEF IsLaunch, IsState
    <3> QED
      BY <1>3, <2>1, <3>1, <3>4, <3>5, <3>6, PrecedesTransitive
  <2> QED
    BY <1>1, <1>2, <2>1, <2>2, <2>3
<1>5. ASSUME NEW i \in DOMAIN h, IsFirst(h, i), h[i].v.scope = next.scope
      PROVE  next.bud.attempts <= h[i].v.bud.attempts
  <2>1. PICK k \in DOMAIN h : /\ h[k].v.scope = next.scope /\ IsFirst(h, k)
                              /\ next.bud.attempts <= h[k].v.bud.attempts
    BY DEF CopyOK
  <2>2. i = k
    BY <1>1, <1>5, <2>1 DEF IsFirst
  <2> QED
    BY <2>1, <2>2
<1> QED
  BY <1>1, <1>2, <1>4, <1>5 DEF Fits

\* A snapshot whose scope is known, or is the current one.
Placed(h, v) == v.scope = Scope \/ \E i \in DOMAIN h : h[i].v.scope = v.scope

LEMMA ScopesExtended ==
    ASSUME NEW h, HistoryOK(h), ScopesOK(h, head, plan), head \in Positive, plan \in Positive,
           NEW v, Placed(h, v), NEW g, NEW n, DOMAIN g = DOMAIN h \cup {n},
           \A i \in DOMAIN h : g[i] = h[i], g[n].v = v
    PROVE  ScopesOK(g, head, plan)
<1>1. \A i \in DOMAIN g : i \in DOMAIN h \/ i = n
  OBVIOUS
<1>2. ASSUME NEW i \in DOMAIN g
      PROVE  \/ g[i].v.scope = Scope
             \/ \E j \in DOMAIN h : h[j].v.scope = g[i].v.scope
  BY <1>1 DEF Placed
<1>3. Scope[1] = head /\ Scope[2] = plan
  BY DEF Scope
<1>4. \A i \in DOMAIN g : g[i].v.scope[1] <= head /\ g[i].v.scope[2] <= plan
  BY <1>2, <1>3 DEF ScopesOK, Positive
<1>5. \A i \in DOMAIN g : g[i].v.scope[2] = plan => g[i].v.scope[1] = head
  BY <1>2, <1>3 DEF ScopesOK
<1>6. ASSUME NEW i \in DOMAIN h, h[i].v.scope[2] = plan
      PROVE  h[i].v.scope = Scope
  <2>1. IsLaunch(h[i].v) \/ IsTombstone(h[i].v)
    BY DEF HistoryOK, IsSnapshot
  <2>2. h[i].v.scope \in Positive \X Positive
    BY <2>1, StateFields DEF IsState
  <2>3. h[i].v.scope[1] = head
    BY <1>6 DEF ScopesOK
  <2> QED
    BY <1>6, <2>2, <2>3 DEF Scope
<1>7. ASSUME NEW i \in DOMAIN g, NEW j \in DOMAIN g, g[i].v.scope[2] = g[j].v.scope[2]
      PROVE  g[i].v.scope = g[j].v.scope
  <2>1. CASE g[i].v.scope = Scope
    BY <1>2, <1>3, <1>6, <1>7, <2>1
  <2>2. CASE g[j].v.scope = Scope
    BY <1>2, <1>3, <1>6, <1>7, <2>2
  <2>3. CASE g[i].v.scope # Scope /\ g[j].v.scope # Scope
    BY <1>2, <1>7, <2>3 DEF ScopesOK
  <2> QED
    BY <2>1, <2>2, <2>3
<1> QED
  BY <1>4, <1>5, <1>7 DEF ScopesOK

LEMMA RetryWrites ==
    ASSUME NEW d, IsDisk(d), NEW f
    PROVE  /\ IsDisk([d EXCEPT !.retry = f]) /\ [d EXCEPT !.retry = f].retry = f
           /\ [d EXCEPT !.retry = f].terminal = d.terminal /\ [d EXCEPT !.retry = f].current = d.current
           /\ [d EXCEPT !.retry = f].result = d.result /\ [d EXCEPT !.retry = f].files = d.files
BY DEF IsDisk

\* Nothing but v is added to the history.
OnlyAdds(h, s, v) ==
    \A i \in DOMAIN s : \A j \in DOMAIN s[i].retry.hist :
        j \in DOMAIN h \/ s[i].retry.hist[j].v = v

\* One publication: the history first, then the canonical copy.
LEMMA Published ==
    ASSUME NEW d, DiskOK(d, head, plan), head \in Positive, plan \in Positive,
           NEW v, IsLaunch(v) \/ IsTombstone(v), v.reset = FALSE => Fits(d.retry.hist, v),
           Placed(d.retry.hist, v), NEW s, s = retry_steps(d, publish_artifact(d.retry, v.scope[1], v))
    PROVE  /\ CalmTrail(d, s)
           /\ OnlyAdds(d.retry.hist, s, v)
           /\ \A st : Agrees(st, v) => Loaded(Last(s), st)
           /\ \E n \in DOMAIN Last(s).retry.hist : Last(s).retry.hist[n].v = v
<1> DEFINE h == d.retry.hist
           g == Append(h, Snapshot(v.scope[1], v))
           n == Len(h) + 1
           f1 == [d.retry EXCEPT !.hist = g]
           f2 == [d.retry EXCEPT !.hist = g, !.canon = Len(g), !.spoiled = FALSE]
           d1 == [d EXCEPT !.retry = f1]
           d2 == [d EXCEPT !.retry = f2]
<1>1. s = <<d1, d2>>
  BY DEF retry_steps, publish_artifact
<1>2. /\ HistoryOK(h) /\ IsFamily(d.retry) /\ d.retry.canon <= Len(h) /\ d.retry.canon \in Nat
      /\ IsDisk(d) /\ ScopesOK(h, head, plan) /\ TerminalOK(d.terminal)
  BY DEF DiskOK, RetryOK, IsFamily
<1>3. IsSeq(h) /\ Len(h) \in Nat /\ DOMAIN h = 1 .. Len(h)
  BY <1>2, SeqDomain DEF HistoryOK
<1>. HIDE DEF g
<1>4. IsFamily(f1) /\ f1.hist = g /\ f1.canon = d.retry.canon /\ f1.spoiled = d.retry.spoiled
  BY <1>2 DEF IsFamily
<1>5. Len(g) \in Nat => IsFamily(f2) /\ f2.hist = g /\ f2.canon = Len(g) /\ f2.spoiled = FALSE
  BY <1>2 DEF IsFamily
<1>0. Len(g) \in Nat
  BY <1>3, Appended DEF g
<1>. HIDE DEF f1, f2
<1>6. /\ IsDisk(d1) /\ d1.retry = f1 /\ d1.terminal = d.terminal /\ d1.current = d.current
      /\ IsDisk(d2) /\ d2.retry = f2 /\ d2.terminal = d.terminal /\ d2.current = d.current
  BY <1>2, RetryWrites DEF d1, d2
<1> HIDE DEF h, d1, d2
<1>7. /\ HistoryOK(g) /\ Len(g) = Len(h) + 1 /\ DOMAIN g = DOMAIN h \cup {Len(h) + 1}
      /\ \A i \in DOMAIN h : g[i] = h[i]
      /\ g[Len(h) + 1] = Snapshot(v.scope[1], v)
  <2>1. v.reset = FALSE => Fits(h, v)
    BY DEF h
  <2>2. ~v.reset => Fits(h, v)
    <3>1. CASE IsLaunch(v)
      <4>1. v.reset = FALSE
        BY <3>1 DEF IsLaunch
      <4> QED
        BY <2>1, <4>1
    <3>2. CASE IsTombstone(v)
      <4>1. v.reset = TRUE
        BY <3>2 DEF IsTombstone
      <4> QED
        BY <4>1
    <3> QED
      BY <3>1, <3>2
  <2>3. g = Append(h, Snapshot(v.scope[1], v))
    BY DEF g
  <2>4. HistoryOK(h)
    BY <1>2
  <2> QED
    BY <2>2, <2>3, <2>4, AppendHistory
<1>8. g[n].v = v /\ g[n].ok = TRUE /\ DOMAIN g = DOMAIN h \cup {n} /\ n \in Nat /\ n \in DOMAIN g
  <2>1. g[n] = Snapshot(v.scope[1], v) /\ DOMAIN g = DOMAIN h \cup {n}
    BY <1>7
  <2>2. n \in Nat
    BY <1>3
  <2> HIDE DEF n
  <2> QED
    BY <2>1, <2>2 DEF Snapshot
<1>9. ScopesOK(g, head, plan)
  <2>1. Placed(h, v)
    BY DEF h
  <2> HIDE DEF n
  <2> QED
    BY <1>2, <1>7, <1>8, <2>1, ScopesExtended
<1>10. RetryOK(f1) /\ RetryOK(f2)
  BY <1>0, <1>2, <1>3, <1>4, <1>5, <1>7 DEF RetryOK
<1>11. DiskOK(d1, head, plan) /\ DiskOK(d2, head, plan)
  BY <1>0, <1>2, <1>4, <1>5, <1>6, <1>9, <1>10 DEF DiskOK
<1>12. Extends(h, g)
  BY <1>7 DEF Extends
<1>13. Undamaged(d.retry) => Undamaged(f1) /\ Undamaged(f2)
  <2>1. Undamaged(d.retry) => \A i \in DOMAIN g : g[i].ok
    BY <1>7, <1>8 DEF Undamaged, h
  <2> QED
    BY <1>0, <1>4, <1>5, <2>1 DEF Undamaged
<1>14. Calm(d, d1) /\ Calm(d, d2)
  BY <1>0, <1>4, <1>5, <1>6, <1>11, <1>12, <1>13 DEF Calm, Grows, h
<1>15. IsTrail(s) /\ Last(s) = d2 /\ \A i \in DOMAIN s : s[i] \in {d1, d2}
  BY <1>1, Two DEF IsTrail
<1>16. CalmTrail(d, s)
  BY <1>14, <1>15 DEF CalmTrail
<1>17. OnlyAdds(d.retry.hist, s, v)
  <2>1. \A j \in DOMAIN g : j \in DOMAIN h \/ g[j].v = v
    BY <1>8
  <2> QED
    BY <1>0, <1>4, <1>5, <1>6, <1>15, <2>1 DEF h, OnlyAdds
<1>18. ASSUME NEW st, Agrees(st, v) PROVE Loaded(Last(s), st)
  <2>1. \A j \in DOMAIN g : j <= n
    BY <1>3, <1>8
  <2>2. IsNewest(g, n)
    BY <1>8, <2>1 DEF IsNewest
  <2> QED
    BY <1>0, <1>5, <1>6, <1>7, <1>8, <1>15, <1>18, <2>2 DEF Loaded
<1> QED
  BY <1>0, <1>5, <1>6, <1>8, <1>15, <1>16, <1>17, <1>18

-----------------------------------------------------------------------------
(* Reading the retry state                                                   *)

LEMMA LatestIsNewest ==
    ASSUME NEW f, HistoryOK(f.hist), NEW sc, NEW n, n = latest_compact_retry_snapshot(f, sc), n # -1
    PROVE  \/ n = Missing /\ \A i \in DOMAIN f.hist : f.hist[i].v.scope # sc
           \/ IsNewest(f.hist, n) /\ f.hist[n].v.scope = sc /\ n # Missing
<1> DEFINE h == f.hist
           chain == scan_retry_history(f, sc)
           reset == ResetAt(f, sc)
<1>1. Len(h) \in Nat /\ DOMAIN h = 1 .. Len(h)
  BY SeqDomain DEF HistoryOK
<1>2. n = Max(chain \cup {Missing}) /\ \A i \in DOMAIN h : i >= reset => h[i].ok
  BY DEF latest_compact_retry_snapshot, newest_of_chain
<1>3. /\ chain \subseteq DOMAIN h
      /\ \A i \in DOMAIN h : i \in chain <=> h[i].ok /\ h[i].v.scope = sc /\ i >= reset
  BY DEF scan_retry_history
<1>4. reset = 0 \/ reset \in chain
  <2>1. Tombstones(f, sc) \subseteq 0 .. Len(h)
    BY <1>1 DEF Tombstones
  <2>2. CASE Tombstones(f, sc) = {}
    BY <2>2 DEF ResetAt
  <2>3. CASE Tombstones(f, sc) # {}
    <3>1. reset = Max(Tombstones(f, sc))
      BY <2>3 DEF ResetAt
    <3>2. reset \in Tombstones(f, sc)
      BY <1>1, <2>1, <2>3, <3>1, MaxOf
    <3>3. reset \in DOMAIN h /\ h[reset].ok /\ h[reset].v.scope = sc
      BY <3>2 DEF Tombstones
    <3> QED
      BY <1>1, <1>3, <3>3
  <2> QED
    BY <2>2, <2>3
<1> HIDE DEF h, chain, reset
<1>5. n \in chain \cup {Missing} /\ \A j \in chain \cup {Missing} : j <= n
  <2>1. chain \cup {Missing} \subseteq 0 .. Len(h)
    BY <1>1, <1>3 DEF Missing
  <2>2. chain \cup {Missing} # {}
    OBVIOUS
  <2> QED
    BY <1>1, <1>2, <2>1, <2>2, MaxOf
<1>6. CASE n = Missing
  <2>1. chain = {}
    BY <1>1, <1>3, <1>5, <1>6 DEF Missing
  <2>2. reset = 0
    BY <1>4, <2>1
  <2>3. \A i \in DOMAIN h : i >= reset
    BY <1>1, <2>2
  <2> QED
    BY <1>2, <1>3, <1>6, <2>1, <2>3 DEF h
<1>7. CASE n # Missing
  <2>1. n \in chain /\ n \in DOMAIN h /\ h[n].v.scope = sc /\ n >= reset
    BY <1>3, <1>5, <1>7
  <2>2. ASSUME NEW j \in DOMAIN h, h[j].v.scope = sc PROVE j <= n
    <3>1. CASE j >= reset
      BY <1>2, <1>3, <1>5, <2>2, <3>1
    <3>2. CASE j < reset
      BY <1>1, <1>4, <1>3, <2>1, <3>2
    <3> QED
      BY <1>1, <1>3, <1>4, <3>1, <3>2
  <2> QED
    BY <1>7, <2>1, <2>2 DEF IsNewest, h
<1> QED
  BY <1>6, <1>7

LEMMA AgreesItself ==
    ASSUME NEW h, HistoryOK(h), NEW n \in DOMAIN h PROVE Agrees(h[n].v, h[n].v)
BY DEF HistoryOK, IsSnapshot, Agrees

LEMMA Restored ==
    ASSUME NEW d, DiskOK(d, head, plan), NEW n \in DOMAIN d.retry.hist,
           NEW f, f = restore_canonical_from_history(d.retry, n), NEW t, t = [d EXCEPT !.retry = f]
    PROVE  /\ Calm(d, t) /\ t.retry.hist = d.retry.hist /\ t.retry.canon = n
<1>1. /\ IsDisk(d) /\ IsFamily(d.retry) /\ HistoryOK(d.retry.hist)
      /\ ScopesOK(d.retry.hist, head, plan) /\ TerminalOK(d.terminal)
  BY DEF DiskOK, RetryOK
<1>2. Len(d.retry.hist) \in Nat /\ n \in Nat /\ n <= Len(d.retry.hist)
  BY <1>1, SeqDomain DEF HistoryOK
<1>3. IsFamily(f) /\ f.hist = d.retry.hist /\ f.canon = n /\ f.spoiled = FALSE
  BY <1>1, <1>2 DEF IsFamily, restore_canonical_from_history
<1>5. IsDisk(t) /\ t.retry = f /\ t.terminal = d.terminal /\ t.current = d.current
  BY <1>1 DEF IsDisk
<1>6. RetryOK(f)
  BY <1>1, <1>2, <1>3 DEF RetryOK
<1>7. DiskOK(t, head, plan)
  BY <1>1, <1>3, <1>5, <1>6 DEF DiskOK
<1>8. Undamaged(d.retry) => Undamaged(t.retry)
  BY <1>3, <1>5 DEF Undamaged
<1> QED
  BY <1>3, <1>5, <1>7, <1>8 DEF Calm, Grows, Extends

\* What a load returns is the newest snapshot of the scope, and the canonical
\* copy then is this snapshot.
LEMMA Loads ==
    ASSUME NEW d, DiskOK(d, head, plan), NEW sc, NEW load, load = load_matching_state(d, sc)
    PROVE  /\ Calm(d, load.d) /\ load.d.retry.hist = d.retry.hist
           /\ load.err \in BOOLEAN
           /\ ~load.err =>
                 \/ load.st = NoState /\ \A i \in DOMAIN d.retry.hist : d.retry.hist[i].v.scope # sc
                 \/ /\ load.st # NoState /\ load.st.scope = sc
                    /\ IsLaunch(load.st) \/ IsTombstone(load.st)
                    /\ Loaded(load.d, load.st)
<1> DEFINE n == latest_compact_retry_snapshot(d.retry, sc)
           wrong == canonical_contradicts(d.retry, sc, read_recoverable_current_json(d.retry, sc[1]), n)
           h == d.retry.hist
<1>1. load = recover_retry_state(d, n, wrong)
  BY DEF load_matching_state, reconcile_canonical
<1>2. HistoryOK(h)
  BY DEF DiskOK, RetryOK
<1>3. n # -1 => \/ n = Missing /\ \A i \in DOMAIN h : h[i].v.scope # sc
                \/ IsNewest(h, n) /\ h[n].v.scope = sc /\ n # Missing
  BY <1>2, LatestIsNewest
<1>4. Calm(d, d)
  BY CalmSelf
<1> HIDE DEF n, wrong
<1>5. CASE wrong \/ n = -1
  <2>1. load = [err |-> TRUE, st |-> NoState, d |-> d]
    BY <1>1, <1>5 DEF recover_retry_state
  <2> QED
    BY <1>4, <2>1
<1>6. CASE ~(wrong \/ n = -1) /\ n = Missing
  <2>1. load = [err |-> FALSE, st |-> NoState, d |-> d]
    BY <1>1, <1>6 DEF recover_retry_state
  <2>2. \A i \in DOMAIN h : h[i].v.scope # sc
    BY <1>3, <1>6
  <2> QED
    BY <1>4, <2>1, <2>2
<1>7. CASE ~(wrong \/ n = -1) /\ n # Missing
  <2> DEFINE t == [d EXCEPT !.retry = restore_canonical_from_history(@, n)]
  <2>1. load = [err |-> FALSE, st |-> h[n].v, d |-> t]
    BY <1>1, <1>7 DEF recover_retry_state
  <2>2. IsNewest(h, n) /\ h[n].v.scope = sc /\ n \in DOMAIN h
    BY <1>3, <1>7 DEF IsNewest
  <2> DEFINE f == restore_canonical_from_history(d.retry, n)
  <2>9. t = [d EXCEPT !.retry = f]
    BY DEF DiskOK, IsDisk, restore_canonical_from_history
  <2>11. f = restore_canonical_from_history(d.retry, n)
    OBVIOUS
  <2> HIDE DEF t, f
  <2>10. n \in DOMAIN d.retry.hist
    BY <2>2
  <2>12. \A x : x = [d EXCEPT !.retry = f] => Calm(d, x) /\ x.retry.hist = d.retry.hist /\ x.retry.canon = n
    <3> SUFFICES ASSUME NEW x, x = [d EXCEPT !.retry = f]
        PROVE Calm(d, x) /\ x.retry.hist = d.retry.hist /\ x.retry.canon = n
      OBVIOUS
    <3>1. Calm(d, x)
      BY <2>10, <2>11, Restored
    <3>2. x.retry = f
      BY DEF DiskOK, IsDisk
    <3>3. f.hist = d.retry.hist /\ f.canon = n
      BY <2>11 DEF DiskOK, RetryOK, IsFamily, restore_canonical_from_history
    <3> QED
      BY <3>1, <3>2, <3>3
  <2>3. Calm(d, t) /\ t.retry.hist = h /\ t.retry.canon = n
    BY <2>9, <2>12
  <2>4. Agrees(h[n].v, h[n].v)
    BY <1>2, <2>2, AgreesItself
  <2>5. IsLaunch(h[n].v) \/ IsTombstone(h[n].v)
    BY <2>4 DEF Agrees
  <2>6. h[n].v # NoState
    BY <2>5, StateFields
  <2>7. Loaded(t, h[n].v)
    BY <2>2, <2>3, <2>4 DEF Loaded
  <2>8. load.err = FALSE /\ load.st = h[n].v /\ load.d = t
    BY <2>1
  <2> QED
    BY <2>2, <2>3, <2>5, <2>6, <2>7, <2>8
<1> QED
  BY <1>5, <1>6, <1>7

\* A loaded launch is within the first budget of its scope.
LEMMA LoadedCopy ==
    ASSUME NEW d, HistoryOK(d.retry.hist), NEW st, Loaded(d, st), IsLaunch(st)
    PROVE  CopyOK(st, d.retry.hist)
<1> DEFINE h == d.retry.hist
           T == {i \in DOMAIN h : h[i].v.scope = st.scope}
<1>1. DOMAIN h = 1 .. Len(h) /\ Len(h) \in Nat
  BY SeqDomain DEF HistoryOK
<1>2. PICK n \in DOMAIN h : IsNewest(h, n) /\ Agrees(st, h[n].v)
  BY DEF Loaded
<1>3. n \in T
  BY <1>2 DEF Agrees
<1>4. T \subseteq Nat /\ T # {}
  BY <1>1, <1>3
<1>5. PICK i \in T : \A j \in T : i <= j
  <2> HIDE DEF T
  <2> QED
    BY <1>4, LeastNat
<1>6. i \in DOMAIN h /\ h[i].v.scope = st.scope /\ IsFirst(h, i)
  BY <1>5 DEF IsFirst
<1>7. st.reset = FALSE
  BY DEF IsLaunch
<1>8. h[n].v.scope = st.scope /\ h[n].v.bud = st.bud /\ h[n].v.reset = FALSE
  BY <1>2, <1>7 DEF Agrees
<1>9. st.bud.attempts <= h[i].v.bud.attempts
  BY <1>6, <1>8, <1>2 DEF HistoryOK, BudgetOK
<1> QED
  BY <1>6, <1>9 DEF CopyOK

\* A copy stays one while the history grows.
LEMMA CopyKept ==
    ASSUME NEW g, NEW h, HistoryOK(g), HistoryOK(h), Extends(g, h), NEW v, CopyOK(v, g)
    PROVE  CopyOK(v, h)
<1>1. PICK i \in DOMAIN g : g[i].v.scope = v.scope /\ IsFirst(g, i) /\ v.bud.attempts <= g[i].v.bud.attempts
  BY DEF CopyOK
<1>2. DOMAIN g = 1 .. Len(g) /\ Len(g) \in Nat /\ DOMAIN h = 1 .. Len(h) /\ Len(h) \in Nat
  BY SeqDomain DEF HistoryOK
<1>3. i \in DOMAIN h /\ h[i] = g[i]
  BY <1>1 DEF Extends
<1>4. ASSUME NEW j \in DOMAIN h, h[j].v.scope = h[i].v.scope PROVE i <= j
  <2>1. CASE j \in DOMAIN g
    BY <1>1, <1>3, <1>4, <2>1 DEF Extends, IsFirst
  <2>2. CASE j \notin DOMAIN g
    BY <1>1, <1>2, <2>2
  <2> QED
    BY <2>1, <2>2
<1> QED
  BY <1>1, <1>3, <1>4 DEF CopyOK, IsFirst

-----------------------------------------------------------------------------
(* Successors of a loaded state                                              *)

\* What every update of a launch keeps.
SameLaunch(st, next) ==
    /\ next.scope = st.scope /\ next.cnt.attempts = st.cnt.attempts /\ next.tok = st.tok
    /\ next.bud.attempts <= st.bud.attempts

LEMMA SmallerCopy ==
    ASSUME NEW h, HistoryOK(h), NEW st, CopyOK(st, h), NEW next, IsLaunch(next), SameLaunch(st, next)
    PROVE  CopyOK(next, h)
<1>1. PICK i \in DOMAIN h : h[i].v.scope = st.scope /\ IsFirst(h, i) /\ st.bud.attempts <= h[i].v.bud.attempts
  BY DEF CopyOK
<1>2. st.bud.attempts \in Nat /\ next.bud.attempts \in Nat
  BY StateFields DEF CopyOK
<1>3. IsLaunch(h[i].v) \/ IsTombstone(h[i].v)
  BY DEF HistoryOK, IsSnapshot
<1>4. h[i].v.bud.attempts \in Nat
  BY <1>3, StateFields
<1> QED
  BY <1>1, <1>2, <1>4 DEF CopyOK, SameLaunch

LEMMA Chained ==
    ASSUME NEW v, IsLaunch(v), NEW n \in Nat
    PROVE  LET w == [v EXCEPT !.pred = n]
           IN  /\ IsLaunch(w) /\ w.pred = n /\ w.scope = v.scope /\ w.bud = v.bud /\ w.cnt = v.cnt
               /\ w.tt = v.tt /\ w.phase = v.phase /\ w.tok = v.tok /\ w.reset = FALSE
BY DEF IsLaunch, IsState

\* Nothing but snapshots of the launch of v is added to the history.
OnlyAddsTo(h, s, v) ==
    \A i \in DOMAIN s : \A j \in DOMAIN s[i].retry.hist :
        j \in DOMAIN h \/ s[i].retry.hist[j].v.tok = v.tok

LEMMA Persists ==
    ASSUME NEW d, DiskOK(d, head, plan), head \in Positive, plan \in Positive,
           NEW st, Loaded(d, st), st.reset = FALSE,
           NEW next, IsLaunch(next), next.scope = st.scope, Precedes(st, next),
           CopyOK(next, d.retry.hist), NEW s, s = persist(d, next)
    PROVE  /\ CalmTrail(d, s) /\ Loaded(Last(s), next)
           /\ OnlyAddsTo(d.retry.hist, s, next)
<1> DEFINE h == d.retry.hist
<1>0. PICK v : v = [next EXCEPT !.pred = d.retry.canon]
  OBVIOUS
<1>1. HistoryOK(h)
  BY DEF DiskOK, RetryOK
<1>2. PICK n \in DOMAIN h : d.retry.canon = n /\ IsNewest(h, n) /\ Agrees(st, h[n].v)
  BY DEF Loaded
<1>3. n \in Nat
  BY <1>1, SeqDomain DEF HistoryOK
<1>4. /\ IsLaunch(v) /\ v.pred = n /\ v.scope = next.scope /\ v.bud = next.bud /\ v.cnt = next.cnt
      /\ v.tt = next.tt /\ v.phase = next.phase /\ v.tok = next.tok /\ v.reset = FALSE
  BY <1>0, <1>2, <1>3, Chained
<1>5. s = retry_steps(d, publish_artifact(d.retry, v.scope[1], v))
  BY <1>0, <1>4 DEF persist
<1> HIDE DEF h
<1>6. Precedes(st, v)
  BY <1>4 DEF Precedes
<1>7. CopyOK(v, h)
  BY <1>4 DEF CopyOK, h
<1>8. Fits(h, v)
  BY <1>1, <1>2, <1>4, <1>6, <1>7, Fitting
<1>9. Placed(h, v)
  BY <1>2, <1>4 DEF Placed, Agrees
<1>10. Agrees(next, v)
  BY <1>4 DEF Agrees, IsLaunch
<1>11. IsLaunch(v) \/ IsTombstone(v)
  BY <1>4
<1>12. v.reset = FALSE => Fits(d.retry.hist, v)
  BY <1>8 DEF h
<1>13. Placed(d.retry.hist, v)
  BY <1>9 DEF h
<1>14. CalmTrail(d, s) /\ OnlyAdds(d.retry.hist, s, v) /\ \A x : Agrees(x, v) => Loaded(Last(s), x)
  BY <1>5, <1>11, <1>12, <1>13, Published
<1>15. Loaded(Last(s), next)
  BY <1>10, <1>14
<1>16. \A w : w = v => w.tok = next.tok
  BY <1>4
<1>17. OnlyAddsTo(d.retry.hist, s, next)
  BY <1>14, <1>16 DEF OnlyAdds, OnlyAddsTo
<1> QED
  BY <1>14, <1>15, <1>17

LEMMA MinPair == ASSUME NEW a \in Nat, NEW b \in Nat PROVE Min({a, b}) = IF a <= b THEN a ELSE b
<1>1. Min({a, b}) \in {a, b} /\ Min({a, b}) <= a /\ Min({a, b}) <= b
  BY MinOf
<1> QED
  BY <1>1

LEMMA MaxPair == ASSUME NEW a \in Nat, NEW b \in Nat PROVE Max({a, b}) = IF a <= b THEN b ELSE a
<1>1. PICK n \in {a, b} : n >= a /\ n >= b
  OBVIOUS
<1>2. {a, b} \subseteq 0 .. n /\ {a, b} # {} /\ n \in Nat
  BY <1>1
<1>3. Max({a, b}) \in {a, b} /\ a <= Max({a, b}) /\ b <= Max({a, b})
  BY <1>2, MaxOf
<1> QED
  BY <1>3

LEMMA Tightened ==
    ASSUME NEW st, IsLaunch(st) \/ IsTombstone(st), NEW c \in Configs
    PROVE  LET b == tightened_budget(st, c)
           IN  /\ b \in Counters
               /\ IsLaunch(st) => b.attempts <= st.bud.attempts /\ st.cnt.attempts <= b.attempts
               /\ IsTombstone(st) => b = st.bud
<1> DEFINE b == tightened_budget(st, c)
           K == {"attempts", "validation", "stale"}
<1>1. st.bud \in Counters /\ st.cnt \in Counters
  BY StateFields DEF IsState
<1>2. c \in Counters
  BY ConfigsAssumption DEF Budget, Counters
<1>3. DOMAIN st.bud = K /\ \A k \in K : st.bud[k] \in Nat /\ st.cnt[k] \in Nat /\ c[k] \in Nat
  BY <1>1, <1>2 DEF Counters
<1>4. b = [k \in K |-> Max({Requested(st, c)[k], st.cnt[k]})]
  BY <1>3 DEF tightened_budget
<1>5. \A k \in K : Requested(st, c)[k] = IF st.bud[k] <= c[k] THEN st.bud[k] ELSE c[k]
  <2>1. \A k \in K : Requested(st, c)[k] = Min({st.bud[k], c[k]})
    BY <1>3 DEF Requested
  <2> QED
    BY <1>3, <2>1, MinPair
<1>6. \A k \in K : Requested(st, c)[k] \in Nat /\ Requested(st, c)[k] <= st.bud[k]
  BY <1>3, <1>5
<1>7. \A k \in K : Max({Requested(st, c)[k], st.cnt[k]})
                     = IF Requested(st, c)[k] <= st.cnt[k] THEN st.cnt[k] ELSE Requested(st, c)[k]
  BY <1>3, <1>6, MaxPair
<1> HIDE DEF b
<1>8. b = [attempts |-> b["attempts"], validation |-> b["validation"], stale |-> b["stale"]]
  BY <1>4
<1>9. \A k \in K : b[k] \in Nat /\ b[k] = IF Requested(st, c)[k] <= st.cnt[k] THEN st.cnt[k] ELSE Requested(st, c)[k]
  BY <1>3, <1>4, <1>6, <1>7
<1>10. b \in Counters
  BY <1>8, <1>9 DEF Counters
<1>11. ASSUME IsLaunch(st) PROVE b.attempts <= st.bud.attempts /\ st.cnt.attempts <= b.attempts
  <2>1. st.cnt.attempts <= st.bud.attempts
    BY <1>11 DEF IsLaunch
  <2>2. "attempts" \in K
    OBVIOUS
  <2> QED
    BY <1>3, <1>6, <1>9, <2>1, <2>2
<1>12. ASSUME IsTombstone(st) PROVE b = st.bud
  <2>1. st.cnt = st.bud
    BY <1>12 DEF IsTombstone
  <2>2. \A k \in K : b[k] = st.bud[k]
    BY <1>3, <1>6, <1>9, <2>1
  <2> QED
    BY <1>1, <1>10, <2>2 DEF Counters
<1> QED
  BY <1>10, <1>11, <1>12 DEF b


\* A launch stays within the tightened budget, a tombstone stays as it is.
LEMMA Reconciled ==
    ASSUME NEW d, DiskOK(d, head, plan), head \in Positive, plan \in Positive,
           NEW st, Loaded(d, st), NEW c \in Configs, NEW rec, rec = reconcile_retry_policy(d, st, c)
    PROVE  /\ CalmTrail(d, rec.trail) /\ rec.err \in BOOLEAN
           /\ ~rec.err =>
                 /\ Loaded(Last(rec.trail), rec.st) /\ rec.st.scope = st.scope
                 /\ IsLaunch(st) =>
                       IsLaunch(rec.st) /\ SameLaunch(st, rec.st) /\ rec.st.phase = st.phase
                 /\ IsTombstone(st) => rec.st = st
<1> DEFINE b == tightened_budget(st, c)
           reason == IF st.reason # "none" THEN st.reason
                     ELSE exhaustion_reason_against(st.cnt, Requested(st, c))
           next == policy_transition(st, b, reason)
<1>1. IsLaunch(st) \/ IsTombstone(st)
  BY DEF Loaded, Agrees
<1>2. HistoryOK(d.retry.hist)
  BY DEF DiskOK, RetryOK
<1>3. Calm(d, d)
  BY CalmSelf
<1>4. CalmTrail(d, <<d>>) /\ Last(<<d>>) = d
  BY <1>3, OneCalm
<1>5. /\ b \in Counters
      /\ IsLaunch(st) => b.attempts <= st.bud.attempts /\ st.cnt.attempts <= b.attempts
      /\ IsTombstone(st) => b = st.bud
  BY <1>1, Tightened
<1>6. IsLaunch(st) => SameLaunch(st, st)
  BY StateFields DEF SameLaunch
<1>7. CASE expands(st.bud, c)
  <2>1. rec = [err |-> TRUE, st |-> st, trail |-> <<d>>]
    BY <1>7 DEF reconcile_retry_policy
  <2> QED
    BY <1>4, <2>1
<1>8. CASE ~expands(st.bud, c)
  <2>1. rec = persist_policy(d, st, next)
    BY <1>8 DEF reconcile_retry_policy
  <2> HIDE DEF b, reason
  <2>2. CASE next.bud = st.bud /\ next.reason = st.reason
    <3>1. rec = [err |-> FALSE, st |-> st, trail |-> <<d>>]
      BY <2>1, <2>2 DEF persist_policy
    <3> QED
      BY <1>1, <1>4, <1>6, <3>1
  <2>3. CASE ~(next.bud = st.bud /\ next.reason = st.reason)
    <3> DEFINE s == persist(d, next)
    <3>1. rec = [err |-> FALSE, st |-> next, trail |-> <<d>> \o s]
      BY <2>1, <2>3 DEF persist_policy
    <3>2. IsLaunch(st)
      <4>1. SUFFICES ASSUME IsTombstone(st) PROVE FALSE
        BY <1>1
      <4>2. b = st.bud /\ reason = st.reason /\ IsState(st)
        BY <1>5, <4>1 DEF reason, IsTombstone
      <4>3. next.bud = b /\ next.reason = reason
        BY <4>2 DEF policy_transition, IsState
      <4> QED
        BY <2>3, <4>2, <4>3
    <3>3. IsState(st) /\ st.reset = FALSE
      BY <3>2 DEF IsLaunch
    <3>4. /\ IsState(next) /\ next.reset = FALSE /\ next.scope = st.scope /\ next.bud = b
          /\ next.cnt = st.cnt /\ next.tok = st.tok /\ next.phase = st.phase
          /\ next.tt # "launch_launched"
      BY <1>5, <3>3 DEF policy_transition, IsState
    <3> HIDE DEF next, s
    <3>5. b.attempts <= st.bud.attempts /\ st.cnt.attempts <= b.attempts
      BY <1>5, <3>2
    <3>6. IsLaunch(next) /\ SameLaunch(st, next)
      BY <3>2, <3>4, <3>5 DEF IsLaunch, SameLaunch
    <3>7. Precedes(st, next)
      BY <3>4, <3>2, StateFields DEF Precedes
    <3>8. CopyOK(st, d.retry.hist)
      BY <1>2, <3>2, LoadedCopy
    <3>9. CopyOK(next, d.retry.hist)
      BY <1>2, <3>6, <3>8, SmallerCopy
    <3>10. s = persist(d, next)
      BY DEF s
    <3>11. next.scope = st.scope
      BY <3>4
    <3>12. CalmTrail(d, s) /\ Loaded(Last(s), next)
      BY <3>3, <3>6, <3>7, <3>9, <3>10, <3>11, Persists
    <3>13. CalmTrail(d, <<d>> \o s) /\ Last(<<d>> \o s) = Last(s)
      BY <1>4, <3>12, CalmBeside
    <3>14. ~IsTombstone(st)
      BY <3>3 DEF IsTombstone
    <3>15. rec.err = FALSE /\ rec.st = next /\ rec.trail = <<d>> \o s
      BY <3>1
    <3> QED
      BY <3>4, <3>6, <3>12, <3>13, <3>14, <3>15
  <2> QED
    BY <2>2, <2>3
<1> QED
  BY <1>7, <1>8

\* Nothing is reconciled before the first reservation of a scope.
LEMMA ReconciledLoaded ==
    ASSUME NEW d, DiskOK(d, head, plan), head \in Positive, plan \in Positive,
           NEW st, st = NoState \/ Loaded(d, st), NEW c \in Configs,
           NEW rec, rec = reconcile_loaded(d, st, c)
    PROVE  /\ CalmTrail(d, rec.trail) /\ rec.err \in BOOLEAN
           /\ ~rec.err =>
                 \/ st = NoState /\ rec.st = NoState /\ Last(rec.trail) = d
                 \/ st # NoState /\ rec.st # NoState /\ Loaded(Last(rec.trail), rec.st) /\ rec.st.scope = st.scope
<1>1. CASE st = NoState
  <2>1. rec = [err |-> FALSE, st |-> st, trail |-> <<d>>]
    BY <1>1 DEF reconcile_loaded
  <2>2. CalmTrail(d, <<d>>) /\ Last(<<d>>) = d
    BY CalmSelf, OneCalm
  <2>3. rec.err = FALSE /\ rec.st = st /\ rec.trail = <<d>>
    BY <2>1
  <2> QED
    BY <1>1, <2>2, <2>3
<1>2. CASE st # NoState
  <2>1. rec = reconcile_retry_policy(d, st, c) /\ Loaded(d, st)
    BY <1>2 DEF reconcile_loaded
  <2>2. /\ CalmTrail(d, rec.trail) /\ rec.err \in BOOLEAN
        /\ ~rec.err => Loaded(Last(rec.trail), rec.st) /\ rec.st.scope = st.scope
    BY <2>1, Reconciled
  <2>3. ~rec.err => rec.st # NoState
    BY <2>2, StateFields DEF Loaded, Agrees
  <2> QED
    BY <1>2, <2>2, <2>3
<1> QED
  BY <1>1, <1>2
-----------------------------------------------------------------------------
(* Writing a phase of a launch                                               *)

\* The loaded launch is the newest of its plan.
LEMMA NewestLaunch ==
    ASSUME NEW d, DiskOK(d, head, plan), NEW st, Loaded(d, st), IsLaunch(st),
           NEW i \in DOMAIN d.retry.hist, d.retry.hist[i].v.scope[2] = st.tok[1]
    PROVE  d.retry.hist[i].v.tok[2] <= st.tok[2]
<1> DEFINE h == d.retry.hist
<1>1. HistoryOK(h) /\ ScopesOK(h, head, plan)
  BY DEF DiskOK, RetryOK
<1>2. DOMAIN h = 1 .. Len(h) /\ Len(h) \in Nat
  BY <1>1, SeqDomain DEF HistoryOK
<1>3. PICK n \in DOMAIN h : IsNewest(h, n) /\ Agrees(st, h[n].v)
  BY DEF Loaded
<1>4. /\ st.tok = <<st.scope[2], st.cnt.attempts>> /\ st.reset = FALSE
      /\ st.cnt.attempts \in Nat
  BY StateFields DEF IsLaunch
<1>5. h[n].v.scope = st.scope /\ h[n].v.cnt = st.cnt /\ h[n].v.reset = FALSE
  BY <1>3, <1>4 DEF Agrees
<1>6. h[i].v.scope[2] = h[n].v.scope[2]
  BY <1>4, <1>5
<1>7. h[i].v.scope = h[n].v.scope
  BY <1>1, <1>3, <1>6 DEF ScopesOK
<1>8. i <= n
  BY <1>3, <1>7 DEF IsNewest
<1>9. IsLaunch(h[i].v) \/ IsTombstone(h[i].v)
  BY <1>1 DEF HistoryOK, IsSnapshot
<1>10. h[i].v.cnt.attempts \in Nat
  BY <1>9, StateFields
<1>11. h[i].v.cnt.attempts <= st.cnt.attempts
  <2>1. CASE i = n
    BY <1>4, <1>5, <2>1
  <2>2. CASE i < n
    <3>1. Precedes(h[i].v, h[n].v)
      BY <1>1, <1>3, <1>5, <1>7, <2>2 DEF HistoryOK, OrderOK
    <3> QED
      BY <1>5, <3>1 DEF Precedes
  <2> QED
    BY <1>2, <1>3, <1>8, <2>1, <2>2
<1>12. CASE IsLaunch(h[i].v)
  <2>1. h[i].v.tok = <<h[i].v.scope[2], h[i].v.cnt.attempts>>
    BY <1>12 DEF IsLaunch
  <2> QED
    BY <1>4, <1>11, <2>1
<1>13. CASE IsTombstone(h[i].v)
  <2>1. h[i].v.tok = <<0, 0>>
    BY <1>13 DEF IsTombstone, NoToken
  <2> QED
    BY <1>4, <2>1
<1> QED
  BY <1>9, <1>12, <1>13

LEMMA CurrentWritten ==
    ASSUME NEW d, DiskOK(d, head, plan), NEW r, NEW t, t = [d EXCEPT !.current = r]
    PROVE  Grows(d, t) /\ t.retry = d.retry /\ t.current = r /\ t.terminal = d.terminal
<1>1. IsDisk(d)
  BY DEF DiskOK
<1>2. /\ IsDisk(t) /\ t.retry = d.retry /\ t.current = r /\ t.terminal = d.terminal
  BY <1>1 DEF IsDisk
<1> QED
  BY <1>2 DEF DiskOK, Grows, Extends

\* The canonical result stays, or the launch's own file is promoted.
Promotes(d, d1, st) ==
    d1 = d \/ \E r : d1 = [d EXCEPT !.current = r] /\ r.tok = st.tok

LEMMA PromotesLeads ==
    ASSUME NEW d, DiskOK(d, head, plan), NEW st, Loaded(d, st), IsLaunch(st),
           NEW d1, Promotes(d, d1, st)
    PROVE  /\ Leads(d, d1) /\ DiskOK(d1, head, plan) /\ d1.retry = d.retry
           /\ d1.current = d.current \/ (d1.current.tok = st.tok /\ PromotedNewest(d1))
<1>1. CASE d1 = d
  BY <1>1, CalmSelf, CalmIsLead
<1>2. CASE \E r : d1 = [d EXCEPT !.current = r] /\ r.tok = st.tok
  <2>1. PICK r : d1 = [d EXCEPT !.current = r] /\ r.tok = st.tok
    BY <1>2
  <2>2. Grows(d, d1) /\ d1.retry = d.retry /\ d1.current = r
    BY <2>1, CurrentWritten
  <2>3. ASSUME NEW i \in DOMAIN d.retry.hist, d.retry.hist[i].v.scope[2] = st.tok[1]
        PROVE  d.retry.hist[i].v.tok[2] <= st.tok[2]
    BY <2>3, NewestLaunch
  <2>4. PromotedNewest(d1)
    BY <2>1, <2>2, <2>3 DEF PromotedNewest
  <2> QED
    BY <2>1, <2>2, <2>4 DEF Leads, Grows
<1> QED
  BY <1>1, <1>2 DEF Promotes

LEMMA LaunchWrites ==
    ASSUME NEW d, DiskOK(d, head, plan), head \in Positive, plan \in Positive,
           NEW st, Loaded(d, st), IsLaunch(st), NEW d1, Promotes(d, d1, st),
           NEW next, IsLaunch(next), next.scope = st.scope, next.tok = st.tok, Precedes(st, next),
           CopyOK(next, d.retry.hist), NEW s, s = <<d, d1>> \o persist(d1, next)
    PROVE  TrailOK(d, s) /\ Loaded(Last(s), next)
<1>1. PICK p : p = persist(d1, next)
  OBVIOUS
<1>2. /\ Leads(d, d1) /\ DiskOK(d1, head, plan) /\ d1.retry = d.retry
      /\ d1.current = d.current \/ (d1.current.tok = st.tok /\ PromotedNewest(d1))
  BY PromotesLeads
<1>3. st.reset = FALSE
  BY DEF IsLaunch
<1>4. Loaded(d1, st) /\ CopyOK(next, d1.retry.hist)
  BY <1>2 DEF Loaded
<1>5. /\ CalmTrail(d1, p) /\ Loaded(Last(p), next)
      /\ OnlyAddsTo(d1.retry.hist, p, next)
  BY <1>1, <1>2, <1>3, <1>4, Persists
<1>6. st.tok[2] \in Nat
  <2>1. st.tok = <<st.scope[2], st.cnt.attempts>>
    BY DEF IsLaunch
  <2> QED
    BY <2>1, StateFields
<1>7. ASSUME NEW i \in DOMAIN p PROVE Leads(d, p[i])
  <2> DEFINE t == p[i]
  <2>1. Calm(d1, t)
    BY <1>5 DEF CalmTrail
  <2>2. Grows(d, t) /\ t.current = d1.current
    BY <1>2, <2>1 DEF Calm, Grows
  <2>3. ASSUME t.current # d.current PROVE PromotedNewest(t)
    <3>1. t.current.tok = st.tok /\ PromotedNewest(d1) /\ d1.current.tok = st.tok
      BY <1>2, <2>2, <2>3
    <3>2. SUFFICES ASSUME NEW j \in DOMAIN t.retry.hist, t.retry.hist[j].v.tt = "launch_launched",
                          t.retry.hist[j].v.scope[2] = st.tok[1]
          PROVE t.retry.hist[j].v.tok[2] <= st.tok[2]
      BY <3>1 DEF PromotedNewest
    <3>3. CASE j \in DOMAIN d1.retry.hist
      <4>1. t.retry.hist[j] = d1.retry.hist[j]
        BY <2>1, <3>3 DEF Calm, Grows, Extends
      <4>2. \A k \in DOMAIN d1.retry.hist :
               /\ d1.retry.hist[k].v.tt = "launch_launched"
               /\ d1.retry.hist[k].v.scope[2] = st.tok[1]
               => d1.retry.hist[k].v.tok[2] <= st.tok[2]
        BY <3>1 DEF PromotedNewest
      <4> QED
        BY <3>2, <3>3, <4>1, <4>2
    <3>4. CASE t.retry.hist[j].v.tok = next.tok
      BY <1>6, <3>4
    <3> QED
      BY <1>5, <3>3, <3>4 DEF OnlyAddsTo
  <2> QED
    BY <2>2, <2>3 DEF Leads
<1>8. TrailOK(d, p)
  BY <1>5, <1>7 DEF TrailOK, CalmTrail
<1>9. TrailOK(d, <<d, d1>>)
  <2>1. Leads(d, d)
    BY CalmSelf, CalmIsLead
  <2> QED
    BY <1>2, <2>1, TwoTrail
<1> QED
  BY <1>1, <1>5, <1>8, <1>9, Beside

\* One launch, recorded over itself.
LEMMA SameOrder ==
    ASSUME NEW st, IsLaunch(st), NEW next, IsLaunch(next), next.cnt.attempts = st.cnt.attempts,
           \/ next.phase = st.phase /\ next.tt # "launch_launched"
           \/ next.phase = "completed"
           \/ st.phase = "reserved"
    PROVE  Precedes(st, next)
<1>1. st.cnt.attempts \in Nat
  BY StateFields
<1>2. next.tt = "launch_launched" => next.phase = "launched"
  BY DEF IsLaunch
<1> QED
  BY <1>1, <1>2 DEF Precedes

-----------------------------------------------------------------------------
(* Reserving a launch                                                        *)

\* What an operation leaves: a trail, and a copy of the launch when it ends well.
Outcome(d, o, out, phase) ==
    /\ o \in [out : {o.out}, st : {o.st}, trail : {o.trail}]
    /\ TrailOK(d, o.trail)
    /\ o.out = out => CopyOK(o.st, Last(o.trail).retry.hist) /\ o.st.phase = phase

LEMMA FailedOutcome ==
    ASSUME NEW d, NEW s, TrailOK(d, s), NEW out, out # "error", NEW phase
    PROVE  Outcome(d, Failed(s), out, phase)
BY DEF Failed, Outcome

LEMMA PrefixedOutcome ==
    ASSUME NEW d, NEW s, CalmTrail(d, s), NEW out, NEW phase, NEW o, Outcome(Last(s), o, out, phase)
    PROVE  Outcome(d, Prefixed(s, o), out, phase)
<1> DEFINE p == Prefixed(s, o)
<1>1. /\ p \in [out : {p.out}, st : {p.st}, trail : {p.trail}]
      /\ p.out = o.out /\ p.st = o.st /\ p.trail = s \o o.trail
  BY DEF Outcome, Prefixed
<1>2. TrailOK(d, p.trail) /\ Last(p.trail) = Last(o.trail)
  BY <1>1, CalmThen DEF Outcome
<1> HIDE DEF p
<1>3. Outcome(d, p, out, phase)
  BY <1>1, <1>2 DEF Outcome
<1> QED
  BY <1>3 DEF p

\* What was read leads on.
LEMMA CalmOutcome ==
    ASSUME NEW d, NEW t, Calm(d, t), NEW out, NEW phase, NEW o, Outcome(t, o, out, phase)
    PROVE  Outcome(d, o, out, phase)
BY CalmFirst DEF Outcome

LEMMA LoadedIsCopy ==
    ASSUME NEW d, NEW s, TrailOK(d, s), NEW st, Loaded(Last(s), st), IsLaunch(st)
    PROVE  CopyOK(st, Last(s).retry.hist)
<1>1. DiskOK(Last(s), head, plan)
  BY TrailLast DEF Leads, Grows
<1>2. HistoryOK(Last(s).retry.hist)
  BY <1>1 DEF DiskOK, RetryOK
<1> QED
  BY <1>2, LoadedCopy

LEMMA PersistedTrail ==
    ASSUME NEW d, DiskOK(d, head, plan), NEW s, CalmTrail(d, s)
    PROVE  TrailOK(d, <<d>> \o s) /\ Last(<<d>> \o s) = Last(s)
<1>1. CalmTrail(d, <<d>>)
  BY CalmSelf, OneCalm
<1>2. CalmTrail(d, <<d>> \o s) /\ Last(<<d>> \o s) = Last(s)
  BY <1>1, CalmBeside
<1> QED
  BY <1>2, CalmIsTrail

LEMMA Rejects ==
    ASSUME NEW d, DiskOK(d, head, plan), head \in Positive, plan \in Positive,
           NEW st, Loaded(d, st), IsLaunch(st), NEW out, out # "error", NEW phase
    PROVE  Outcome(d, reject_launch_beyond_budget(d, st), out, phase)
<1>1. PICK next : next = [st EXCEPT !.tt = "next_launch_cap_exhausted", !.reason = "attempts"]
  OBVIOUS
<1>2. /\ IsState(next) /\ next.reset = FALSE /\ next.scope = st.scope /\ next.bud = st.bud
      /\ next.cnt = st.cnt /\ next.tok = st.tok /\ next.phase = st.phase
      /\ next.tt # "launch_launched"
  BY <1>1 DEF IsLaunch, IsState
<1>3. IsLaunch(next)
  BY <1>2 DEF IsLaunch
<1>4. Precedes(st, next)
  BY <1>2, <1>3, SameOrder
<1>5. SameLaunch(st, next)
  BY <1>2, StateFields DEF SameLaunch
<1>6. HistoryOK(d.retry.hist)
  BY DEF DiskOK, RetryOK
<1>7. CopyOK(st, d.retry.hist)
  BY <1>6, LoadedCopy
<1>8. CopyOK(next, d.retry.hist)
  BY <1>3, <1>5, <1>6, <1>7, SmallerCopy
<1>9. st.reset = FALSE /\ next.scope = st.scope
  BY <1>2 DEF IsLaunch
<1>10. PICK s : s = persist(d, next)
  OBVIOUS
<1>11. CalmTrail(d, s)
  BY <1>3, <1>4, <1>8, <1>9, <1>10, Persists
<1>12. TrailOK(d, <<d>> \o s)
  BY <1>11, PersistedTrail
<1>13. reject_launch_beyond_budget(d, st) = Failed(<<d>> \o s)
  BY <1>1, <1>10 DEF reject_launch_beyond_budget
<1> QED
  BY <1>12, <1>13, FailedOutcome

LEMMA Recovers ==
    ASSUME NEW d, DiskOK(d, head, plan), head \in Positive, plan \in Positive,
           NEW st, Loaded(d, st), IsLaunch(st)
    PROVE  Outcome(d, persist_recovered_launch(d, st), "reserved", "reserved")
<1>1. PICK o : o = persist_recovered_launch(d, st)
  OBVIOUS
<1>2. PICK d1, mark : /\ o = persist_launch("recovered", d, d1, recovered_launch(st, mark))
                      /\ d1 = d \/ d1 = promote_remediation_launch_result(d, st.tok)
  BY <1>1 DEF persist_recovered_launch
<1>3. PICK next : next = recovered_launch(st, mark)
  OBVIOUS
<1>4. /\ IsState(next) /\ next.reset = FALSE /\ next.scope = st.scope /\ next.bud = st.bud
      /\ next.cnt = st.cnt /\ next.tok = st.tok /\ next.phase = "completed"
      /\ next.tt # "launch_launched"
  BY <1>3 DEF recovered_launch, IsLaunch, IsState, Phases
<1>5. IsLaunch(next)
  BY <1>4 DEF IsLaunch
<1>6. Precedes(st, next)
  BY <1>4, <1>5, SameOrder
<1>7. SameLaunch(st, next)
  BY <1>4, StateFields DEF SameLaunch
<1>8. HistoryOK(d.retry.hist)
  BY DEF DiskOK, RetryOK
<1>9. CopyOK(st, d.retry.hist)
  BY <1>8, LoadedCopy
<1>10. CopyOK(next, d.retry.hist)
  BY <1>5, <1>7, <1>8, <1>9, SmallerCopy
<1>11. Promotes(d, d1, st)
  BY <1>2 DEF Promotes, promote_remediation_launch_result
<1>12. next.scope = st.scope /\ next.tok = st.tok
  BY <1>4
<1>13. o = [out |-> "recovered", st |-> next, trail |-> <<d, d1>> \o persist(d1, next)]
  BY <1>2, <1>3 DEF persist_launch
<1>14. PICK s : s = <<d, d1>> \o persist(d1, next)
  OBVIOUS
<1>15. TrailOK(d, s)
  BY <1>5, <1>6, <1>10, <1>11, <1>12, <1>14, LaunchWrites
<1>16. o = [out |-> "recovered", st |-> next, trail |-> s]
  BY <1>13, <1>14
<1>17. Outcome(d, o, "reserved", "reserved")
  BY <1>15, <1>16 DEF Outcome
<1> QED
  BY <1>1, <1>17

LEMMA ReservesFirst ==
    ASSUME NEW d, DiskOK(d, head, plan), head \in Positive, plan \in Positive,
           \A i \in DOMAIN d.retry.hist : d.retry.hist[i].v.scope # Scope,
           NEW c \in Configs, NEW over
    PROVE  Outcome(d, reserve_prepared(d, NoState, Scope, c, over), "reserved", "reserved")
<1>1. PICK next : next = reserved_state(Scope, c, [attempts |-> 1, validation |-> 0, stale |-> 0])
  OBVIOUS
<1>2. c \in Counters /\ c.attempts >= 1
  BY ConfigsAssumption DEF Budget, Counters
<1>3. /\ next.cnt.attempts = 1 /\ next.bud = c /\ next.scope = Scope /\ next.phase = "reserved"
      /\ next.pred = Missing /\ next.reset = FALSE
  BY <1>1 DEF reserved_state
<1>4. IsLaunch(next)
  BY <1>1, <1>2 DEF reserved_state, IsLaunch, IsState, Scope, Phases, Counters, Missing
<1>5. PICK s : s = persist_first(d, next)
  OBVIOUS
<1>6. ~(next.cnt.attempts > next.bud.attempts) /\ next.cnt.attempts >= 1
  BY <1>2, <1>3, ConfigsAssumption DEF Counters
<1>7. ~Active(NoState)
  BY DEF Active
<1>8. reserve_prepared(d, NoState, Scope, c, over) = [out |-> "reserved", st |-> next, trail |-> <<d>> \o s]
  BY <1>1, <1>5, <1>6, <1>7 DEF reserve_prepared, persist_reservation, next_launch_ordinal
<1>9. HistoryOK(d.retry.hist)
  BY DEF DiskOK, RetryOK
<1>10. Len(d.retry.hist) \in Nat
  BY <1>9, SeqDomain DEF HistoryOK
<1>11. Fits(d.retry.hist, next)
  BY <1>3, <1>10 DEF Fits, Missing
<1>12. Placed(d.retry.hist, next)
  BY <1>3 DEF Placed
<1>13. s = retry_steps(d, publish_artifact(d.retry, next.scope[1], next))
  BY <1>5 DEF persist_first
<1>14. IsLaunch(next) \/ IsTombstone(next)
  BY <1>4
<1>15. next.reset = FALSE => Fits(d.retry.hist, next)
  BY <1>11
<1>16. CalmTrail(d, s) /\ \A x : Agrees(x, next) => Loaded(Last(s), x)
  BY <1>12, <1>13, <1>14, <1>15, Published
<1>17. Agrees(next, next)
  BY <1>4 DEF Agrees
<1>18. TrailOK(d, <<d>> \o s) /\ Last(<<d>> \o s) = Last(s)
  BY <1>16, PersistedTrail
<1>19. CopyOK(next, Last(<<d>> \o s).retry.hist)
  BY <1>4, <1>16, <1>17, <1>18, LoadedIsCopy
<1>20. PICK o : o = [out |-> "reserved", st |-> next, trail |-> <<d>> \o s]
  OBVIOUS
<1>21. Outcome(d, o, "reserved", "reserved")
  BY <1>3, <1>18, <1>19, <1>20 DEF Outcome
<1> QED
  BY <1>8, <1>20, <1>21

LEMMA ReservesNext ==
    ASSUME NEW d, DiskOK(d, head, plan), head \in Positive, plan \in Positive,
           NEW st, Loaded(d, st), IsLaunch(st), st.scope = Scope, NEW c \in Configs, NEW over
    PROVE  Outcome(d, reserve_prepared(d, st, Scope, c, over), "reserved", "reserved")
<1>1. CASE Active(st) /\ ~over
  <2>1. reserve_prepared(d, st, Scope, c, over) = Failed(<<d>>)
    BY <1>1 DEF reserve_prepared
  <2>2. TrailOK(d, <<d>>)
    BY CalmSelf, CalmIsLead, OneTrail
  <2> QED
    BY <2>1, <2>2, FailedOutcome
<1>2. CASE ~(Active(st) /\ ~over)
  <2>1. PICK cnt : cnt = [st.cnt EXCEPT !.attempts = st.cnt.attempts + 1]
    OBVIOUS
  <2>2. PICK next : next = reserved_state(Scope, st.bud, cnt)
    OBVIOUS
  <2>3. st # NoState /\ st.cnt \in Counters /\ st.bud \in Counters /\ st.reset = FALSE
    BY StateFields DEF IsLaunch, IsState
  <2>4. cnt \in Counters /\ cnt.attempts = st.cnt.attempts + 1 /\ st.cnt.attempts \in Nat
    BY <2>1, <2>3 DEF Counters
  <2>5. reserve_prepared(d, st, Scope, c, over) = persist_reservation(d, st, next)
    BY <1>2, <2>1, <2>2, <2>3 DEF reserve_prepared, next_launch_ordinal
  <2>6. CASE next.cnt.attempts > next.bud.attempts
    <3>1. reserve_prepared(d, st, Scope, c, over) = reject_launch_beyond_budget(d, st)
      BY <2>5, <2>6 DEF persist_reservation
    <3> QED
      BY <3>1, Rejects
  <2>7. CASE ~(next.cnt.attempts > next.bud.attempts)
    <3>1. PICK s : s = persist(d, next)
      OBVIOUS
    <3>2. reserve_prepared(d, st, Scope, c, over) = [out |-> "reserved", st |-> next, trail |-> <<d>> \o s]
      BY <2>3, <2>5, <2>7, <3>1 DEF persist_reservation
    <3>3. /\ next.cnt = cnt /\ next.bud = st.bud /\ next.scope = Scope /\ next.phase = "reserved"
          /\ next.reset = FALSE /\ next.tok = <<Scope[2], cnt.attempts>> /\ next.tt = "launch_reserved"
      BY <2>2 DEF reserved_state
    <3>4. IsState(next)
      BY <2>2, <2>3, <2>4 DEF reserved_state, IsState, Scope, Phases, Missing
    <3>5. next.cnt.attempts >= 1 /\ next.cnt.attempts <= next.bud.attempts
      BY <2>3, <2>4, <2>7, <3>3 DEF Counters
    <3>6. IsLaunch(next)
      BY <3>3, <3>4, <3>5 DEF IsLaunch
    <3>7. Precedes(st, next)
      BY <2>4, <3>3 DEF Precedes
    <3>8. HistoryOK(d.retry.hist)
      BY DEF DiskOK, RetryOK
    <3>9. CopyOK(st, d.retry.hist)
      BY <3>8, LoadedCopy
    <3>10. CopyOK(next, d.retry.hist)
      BY <3>3, <3>6, <3>9 DEF CopyOK
    <3>11. next.scope = st.scope
      BY <3>3
    <3>12. CalmTrail(d, s) /\ Loaded(Last(s), next)
      BY <2>3, <3>1, <3>6, <3>7, <3>10, <3>11, Persists
    <3>13. TrailOK(d, <<d>> \o s) /\ Last(<<d>> \o s) = Last(s)
      BY <3>12, PersistedTrail
    <3>14. CopyOK(next, Last(<<d>> \o s).retry.hist)
      BY <3>6, <3>12, <3>13, LoadedIsCopy
    <3>15. PICK o : o = [out |-> "reserved", st |-> next, trail |-> <<d>> \o s]
      OBVIOUS
    <3>16. Outcome(d, o, "reserved", "reserved")
      BY <3>3, <3>13, <3>14, <3>15 DEF Outcome
    <3> QED
      BY <3>2, <3>15, <3>16
  <2> QED
    BY <2>6, <2>7
<1> QED
  BY <1>1, <1>2

LEMMA ReservesReconciled ==
    ASSUME NEW d, DiskOK(d, head, plan), head \in Positive, plan \in Positive,
           NEW st, Loaded(d, st), IsLaunch(st), st.scope = Scope, NEW c \in Configs, NEW over
    PROVE  Outcome(d, reserve_reconciled(d, st, Scope, c, over), "reserved", "reserved")
<1>1. PICK o : o = reserve_reconciled(d, st, Scope, c, over)
  OBVIOUS
<1>2. \/ o = reserve_prepared(d, st, Scope, c, over)
      \/ o = reject_launch_beyond_budget(d, st)
      \/ o = persist_recovered_launch(d, st)
  BY <1>1 DEF reserve_reconciled
<1>3. CASE o = reserve_prepared(d, st, Scope, c, over)
  BY <1>1, <1>3, ReservesNext
<1>4. CASE o = reject_launch_beyond_budget(d, st)
  BY <1>1, <1>4, Rejects
<1>5. CASE o = persist_recovered_launch(d, st)
  BY <1>1, <1>5, Recovers
<1> QED
  BY <1>2, <1>3, <1>4, <1>5

LEMMA LoadedKind == ASSUME NEW d, NEW st, Loaded(d, st) PROVE IsLaunch(st) \/ IsTombstone(st)
BY DEF Loaded, Agrees

LEMMA CalmEnd == ASSUME NEW d, NEW s, CalmTrail(d, s) PROVE DiskOK(Last(s), head, plan)
BY CalmLast DEF Calm, Grows

\* reserve_launch, the whole critical section.
LEMMA Reserves ==
    ASSUME NEW d, DiskOK(d, head, plan), head \in Positive, plan \in Positive,
           NEW c \in Configs, NEW over
    PROVE  Outcome(d, reserve_launch(d, Scope, c, over), "reserved", "reserved")
<1>1. PICK load : load = load_matching_state(d, Scope)
  OBVIOUS
<1>2. PICK o : o = reserve_launch(d, Scope, c, over)
  OBVIOUS
<1>3. o = reserve_loaded(d, load, Scope, c, over)
  BY <1>1, <1>2 DEF reserve_launch
<1>4. /\ Calm(d, load.d) /\ load.d.retry.hist = d.retry.hist
      /\ ~load.err =>
            \/ load.st = NoState /\ \A i \in DOMAIN d.retry.hist : d.retry.hist[i].v.scope # Scope
            \/ load.st # NoState /\ load.st.scope = Scope /\ Loaded(load.d, load.st)
  <2>1. /\ Calm(d, load.d) /\ load.d.retry.hist = d.retry.hist
        /\ ~load.err =>
              \/ load.st = NoState /\ \A i \in DOMAIN d.retry.hist : d.retry.hist[i].v.scope # Scope
              \/ /\ load.st # NoState /\ load.st.scope = Scope
                 /\ IsLaunch(load.st) \/ IsTombstone(load.st)
                 /\ Loaded(load.d, load.st)
    BY <1>1, Loads
  <2> QED
    BY <2>1
<1>5. DiskOK(load.d, head, plan)
  BY <1>4 DEF Calm, Grows
<1>6. CASE load.err \/ ~Writable(d)
  <2>1. o = Failed(<<d>>)
    BY <1>3, <1>6 DEF reserve_loaded
  <2>2. TrailOK(d, <<d>>)
    BY CalmSelf, CalmIsLead, OneTrail
  <2>3. Outcome(d, o, "reserved", "reserved")
    BY <2>1, <2>2, FailedOutcome
  <2> QED
    BY <1>2, <2>3
<1>7. CASE ~(load.err \/ ~Writable(d))
  <2>1. PICK rec : rec = reconcile_loaded(load.d, load.st, c)
    OBVIOUS
  <2>2. o = reserve_unless_exhausted(rec, Scope, c, over)
    BY <1>3, <1>7, <2>1 DEF reserve_loaded
  <2>3. load.st = NoState \/ Loaded(load.d, load.st)
    BY <1>4, <1>7
  <2>4. /\ CalmTrail(load.d, rec.trail) /\ rec.err \in BOOLEAN
        /\ ~rec.err =>
              \/ load.st = NoState /\ rec.st = NoState /\ Last(rec.trail) = load.d
              \/ /\ load.st # NoState /\ rec.st # NoState
                 /\ Loaded(Last(rec.trail), rec.st) /\ rec.st.scope = load.st.scope
    BY <1>5, <2>1, <2>3, ReconciledLoaded
  <2>5. CalmTrail(d, rec.trail)
    BY <1>4, <2>4, CalmFirstCalm
  <2>6. CASE rec.err \/ exhausted(rec.st)
    <3>1. o = Failed(rec.trail)
      BY <2>2, <2>6 DEF reserve_unless_exhausted
    <3>2. TrailOK(d, rec.trail)
      BY <2>5, CalmIsTrail
    <3>3. Outcome(d, o, "reserved", "reserved")
      BY <3>1, <3>2, FailedOutcome
    <3> QED
      BY <1>2, <3>3
  <2>7. CASE ~(rec.err \/ exhausted(rec.st))
    <3>1. PICK t : t = Last(rec.trail)
      OBVIOUS
    <3>2. PICK o1 : o1 = reserve_reconciled(t, rec.st, Scope, c, over)
      OBVIOUS
    <3>3. o = Prefixed(rec.trail, o1)
      BY <2>2, <2>7, <3>1, <3>2 DEF reserve_unless_exhausted
    <3>4. DiskOK(t, head, plan)
      BY <2>5, <3>1, CalmEnd
    <3>5. CASE rec.st = NoState
      <4>1. t = load.d
        BY <2>4, <2>7, <3>1, <3>5
      <4>2. \A i \in DOMAIN t.retry.hist : t.retry.hist[i].v.scope # Scope
        BY <1>4, <1>7, <2>4, <2>7, <3>5, <4>1
      <4>3. o1 = reserve_prepared(t, NoState, Scope, c, over)
        BY <3>2, <3>5 DEF reserve_reconciled
      <4>4. Outcome(t, o1, "reserved", "reserved")
        BY <3>4, <4>2, <4>3, ReservesFirst
      <4> QED
        BY <1>2, <2>5, <3>1, <3>3, <4>4, PrefixedOutcome
    <3>6. CASE rec.st # NoState
      <4>1. Loaded(t, rec.st) /\ rec.st.scope = Scope
        BY <1>4, <1>7, <2>4, <2>7, <3>1, <3>6
      <4>2. rec.st.reason = "none"
        BY <2>7, <3>6 DEF exhausted
      <4>3. IsLaunch(rec.st)
        BY <4>1, <4>2, LoadedKind DEF IsTombstone
      <4>4. Outcome(t, o1, "reserved", "reserved")
        BY <3>2, <3>4, <4>1, <4>3, ReservesReconciled
      <4> QED
        BY <1>2, <2>5, <3>1, <3>3, <4>4, PrefixedOutcome
    <3> QED
      BY <3>5, <3>6
  <2> QED
    BY <2>6, <2>7
<1> QED
  BY <1>6, <1>7

-----------------------------------------------------------------------------
(* The phases of a launch                                                    *)

\* owned_update: the execution's own copy, if the launch is still its own.
LEMMA OwnedUpdates ==
    ASSUME NEW d, DiskOK(d, head, plan), head \in Positive, plan \in Positive,
           NEW own, IsLaunch(own), NEW promoted \in BOOLEAN,
           NEW next, IsLaunch(next), CopyOK(next, d.retry.hist), next.scope = own.scope, next.tok = own.tok,
           next.cnt = own.cnt, Precedes(own, next),
           NEW o, o = owned_update(d, load_matching_state(d, own.scope), own, promoted, next)
    PROVE  Outcome(d, o, "ok", next.phase)
<1>1. PICK load : load = load_matching_state(d, own.scope)
  OBVIOUS
<1>2. o = owned_update(d, load, own, promoted, next)
  BY <1>1
<1>3. /\ Calm(d, load.d) /\ load.d.retry.hist = d.retry.hist
      /\ ~load.err => load.st = NoState \/ Loaded(load.d, load.st)
  <2>1. /\ Calm(d, load.d) /\ load.d.retry.hist = d.retry.hist
        /\ ~load.err =>
              \/ load.st = NoState /\ \A i \in DOMAIN d.retry.hist : d.retry.hist[i].v.scope # own.scope
              \/ /\ load.st # NoState /\ load.st.scope = own.scope
                 /\ IsLaunch(load.st) \/ IsTombstone(load.st)
                 /\ Loaded(load.d, load.st)
    BY <1>1, Loads
  <2> QED
    BY <2>1
<1>4. DiskOK(load.d, head, plan)
  BY <1>3 DEF Calm, Grows
<1>5. CASE load.err \/ ~Writable(d) \/ ~verify_ownership(load.st, own)
  <2>1. o = Failed(<<d>>)
    BY <1>2, <1>5 DEF owned_update
  <2>2. TrailOK(d, <<d>>)
    BY CalmSelf, CalmIsLead, OneTrail
  <2> QED
    BY <2>1, <2>2, FailedOutcome
<1>6. CASE ~(load.err \/ ~Writable(d) \/ ~verify_ownership(load.st, own))
  <2>1. PICK st, t : st = load.st /\ t = load.d
    OBVIOUS
  <2>2. PICK d1 : d1 = IF promoted THEN promote_remediation_launch_result(t, own.tok) ELSE t
    OBVIOUS
  <2>3. PICK s : s = <<t, d1>> \o persist(d1, next)
    OBVIOUS
  <2>4. o = [out |-> "ok", st |-> next, trail |-> s]
    BY <1>2, <1>6, <2>1, <2>2, <2>3 DEF owned_update, persist_launch
  <2>5. /\ Loaded(t, st) /\ DiskOK(t, head, plan) /\ Calm(d, t) /\ t.retry.hist = d.retry.hist
        /\ st.scope = own.scope /\ st.tok = own.tok /\ st.phase = own.phase
    BY <1>3, <1>4, <1>6, <2>1 DEF verify_ownership
  <2>6. IsLaunch(st)
    <3>1. own.tok = <<own.scope[2], own.cnt.attempts>> /\ own.cnt.attempts # 0
      BY DEF IsLaunch
    <3>2. own.tok # <<0, 0>>
      BY <3>1
    <3> QED
      BY <2>5, <3>2, LoadedKind DEF IsTombstone, NoToken
  <2>7. st.cnt.attempts = own.cnt.attempts
    <3>1. own.tok = <<own.scope[2], own.cnt.attempts>>
      BY DEF IsLaunch
    <3>2. st.tok = <<st.scope[2], st.cnt.attempts>>
      BY <2>6 DEF IsLaunch
    <3> QED
      BY <2>5, <3>1, <3>2
  <2>8. Precedes(st, next)
    BY <2>5, <2>7 DEF Precedes
  <2>9. Promotes(t, d1, st)
    <3>1. CASE promoted
      <4>1. PICK r : r = [kind |-> "raw", q |-> t.files[own.tok], tok |-> own.tok, src |-> NoSource]
        OBVIOUS
      <4>3. r.tok = st.tok
        BY <2>5, <4>1
      <4>2. d1 = [t EXCEPT !.current = r]
        BY <2>2, <3>1, <4>1 DEF promote_remediation_launch_result
      <4> QED
        BY <4>2, <4>3 DEF Promotes
    <3>2. CASE ~promoted
      BY <2>2, <3>2 DEF Promotes
    <3> QED
      BY <3>1, <3>2
  <2>10. next.scope = st.scope /\ next.tok = st.tok /\ CopyOK(next, t.retry.hist)
    BY <2>5
  <2>11. TrailOK(t, s) /\ Loaded(Last(s), next)
    BY <2>3, <2>5, <2>6, <2>8, <2>9, <2>10, LaunchWrites
  <2>12. CopyOK(next, Last(s).retry.hist)
    BY <2>11, LoadedIsCopy
  <2>13. Outcome(t, o, "ok", next.phase)
    BY <2>4, <2>11, <2>12 DEF Outcome
  <2> QED
    BY <2>5, <2>13, CalmOutcome
<1> QED
  BY <1>5, <1>6

\* The copy with another phase or another mark.
LEMMA OwnNext ==
    ASSUME NEW h, HistoryOK(h), NEW own, CopyOK(own, h), NEW next, IsState(next), next.reset = FALSE,
           next.scope = own.scope, next.bud = own.bud, next.cnt = own.cnt, next.tok = own.tok,
           \/ next.phase = own.phase /\ next.tt # "launch_launched"
           \/ next.phase = "completed" /\ next.tt # "launch_launched"
           \/ own.phase = "reserved" /\ next.phase = "launched"
    PROVE  IsLaunch(next) /\ CopyOK(next, h) /\ Precedes(own, next)
<1>1. IsLaunch(own)
  BY DEF CopyOK
<1>2. IsLaunch(next)
  BY <1>1 DEF IsLaunch
<1>3. SameLaunch(own, next)
  BY <1>1, StateFields DEF SameLaunch
<1>4. CopyOK(next, h)
  BY <1>2, <1>3, SmallerCopy
<1>5. Precedes(own, next)
  BY <1>1, <1>2, SameOrder
<1> QED
  BY <1>2, <1>4, <1>5

LEMMA RecordsPhase ==
    ASSUME NEW d, DiskOK(d, head, plan), head \in Positive, plan \in Positive,
           NEW own, CopyOK(own, d.retry.hist),
           NEW phase, phase = "completed" \/ (phase = "launched" /\ own.phase = "reserved")
    PROVE  Outcome(d, record_launch_phase(d, own, phase), "ok", phase)
<1>1. PICK next : next = [own EXCEPT !.phase = phase,
                                     !.tt = IF phase = "launched" THEN "launch_launched" ELSE "launch_completed"]
  OBVIOUS
<1>2. IsLaunch(own) /\ IsState(own) /\ own.reset = FALSE
  BY DEF CopyOK, IsLaunch
<1>3. /\ IsState(next) /\ next.reset = FALSE /\ next.scope = own.scope /\ next.bud = own.bud
      /\ next.cnt = own.cnt /\ next.tok = own.tok /\ next.phase = phase
      /\ phase = "completed" => next.tt # "launch_launched"
  BY <1>1, <1>2 DEF IsState, Phases
<1>4. HistoryOK(d.retry.hist)
  BY DEF DiskOK, RetryOK
<1>5. IsLaunch(next) /\ CopyOK(next, d.retry.hist) /\ Precedes(own, next)
  BY <1>3, <1>4, OwnNext
<1>6. PICK o : o = record_launch_phase(d, own, phase)
  OBVIOUS
<1>7. o = owned_update(d, load_matching_state(d, own.scope), own, FALSE, next)
  BY <1>1, <1>6 DEF record_launch_phase
<1>8. next.scope = own.scope /\ next.tok = own.tok /\ next.cnt = own.cnt /\ next.phase = phase
  BY <1>3
<1>9. Outcome(d, o, "ok", next.phase)
  BY <1>2, <1>5, <1>7, <1>8, OwnedUpdates
<1> QED
  BY <1>6, <1>8, <1>9

LEMMA PromotesResult ==
    ASSUME NEW d, DiskOK(d, head, plan), head \in Positive, plan \in Positive,
           NEW own, CopyOK(own, d.retry.hist), own.phase = "launched"
    PROVE  Outcome(d, promote_launch_result(d, own), "ok", "launched")
<1>1. PICK next : next = [own EXCEPT !.promoted = TRUE, !.tt = "launch_result_promoted"]
  OBVIOUS
<1>2. IsLaunch(own) /\ IsState(own) /\ own.reset = FALSE
  BY DEF CopyOK, IsLaunch
<1>3. /\ IsState(next) /\ next.reset = FALSE /\ next.scope = own.scope /\ next.bud = own.bud
      /\ next.cnt = own.cnt /\ next.tok = own.tok /\ next.phase = own.phase
      /\ next.tt # "launch_launched"
  BY <1>1, <1>2 DEF IsState, Phases
<1>4. HistoryOK(d.retry.hist)
  BY DEF DiskOK, RetryOK
<1>5. IsLaunch(next) /\ CopyOK(next, d.retry.hist) /\ Precedes(own, next)
  BY <1>3, <1>4, OwnNext
<1>6. PICK o : o = promote_launch_result(d, own)
  OBVIOUS
<1>7. o = owned_update(d, load_matching_state(d, own.scope), own, TRUE, next)
  BY <1>1, <1>6 DEF promote_launch_result
<1>8. next.scope = own.scope /\ next.tok = own.tok /\ next.cnt = own.cnt /\ next.phase = "launched"
  BY <1>3
<1>9. Outcome(d, o, "ok", next.phase)
  BY <1>2, <1>5, <1>7, <1>8, OwnedUpdates
<1> QED
  BY <1>6, <1>8, <1>9
-----------------------------------------------------------------------------
(* Validating a result                                                       *)

LEMMA Publishes ==
    ASSUME NEW d, DiskOK(d, head, plan), NEW hd, NEW r, r.kind = "validated"
    PROVE  TrailOK(d, publish_validated_result(d, hd, r))
<1>1. PICK s : s = publish_validated_result(d, hd, r)
  OBVIOUS
<1>2. Leads(d, d)
  BY CalmSelf, CalmIsLead
<1>3. ASSUME NEW x, NEW t, IsDisk(x), x.retry = d.retry, x.terminal = d.terminal, x.current = d.current,
             t = x \/ t = [x EXCEPT !.current = r]
      PROVE  Leads(d, t)
  <2>1. DiskOK(x, head, plan)
    BY <1>3 DEF DiskOK
  <2>2. DiskOK(t, head, plan) /\ t.retry = d.retry /\ (t.current = d.current \/ t.current = r)
    <3>1. CASE t = x
      BY <1>3, <2>1, <3>1
    <3>2. CASE t = [x EXCEPT !.current = r]
      <4>1. Grows(x, t) /\ t.retry = x.retry /\ t.current = r
        BY <2>1, <3>2, CurrentWritten
      <4> QED
        BY <1>3, <4>1 DEF Grows
    <3> QED
      BY <1>3, <3>1, <3>2
  <2>3. Grows(d, t)
    BY <2>2 DEF Grows, Extends
  <2>4. t.current = d.current \/ t.current.kind # "raw"
    BY <2>2
  <2> QED
    BY <2>3, <2>4 DEF Leads
<1>4. IsDisk(d)
  BY DEF DiskOK
<1>5. CASE s = <<d>>
  <2>1. TrailOK(d, s)
    BY <1>2, <1>5, OneTrail
  <2> QED
    BY <1>1, <2>1
<1>6. CASE s = <<[d EXCEPT !.current = r]>>
  <2>1. PICK t : t = [d EXCEPT !.current = r]
    OBVIOUS
  <2>2. Leads(d, t) /\ s = <<t>>
    BY <1>3, <1>4, <1>6, <2>1
  <2>3. TrailOK(d, s)
    BY <2>2, OneTrail
  <2> QED
    BY <1>1, <2>3
<1>7. CASE s = result_steps(d, publish_artifact(d.result, hd, r), r)
  <2>1. PICK f, g : s = << [d EXCEPT !.result = f], [d EXCEPT !.result = g, !.current = r] >>
    BY <1>7 DEF result_steps
  <2>2. PICK t1, x2, t2 : /\ t1 = [d EXCEPT !.result = f] /\ x2 = [d EXCEPT !.result = g]
                          /\ t2 = [x2 EXCEPT !.current = r]
    OBVIOUS
  <2>3. t2 = [d EXCEPT !.result = g, !.current = r]
    BY <1>4, <2>2 DEF IsDisk
  <2>4. IsDisk(t1) /\ t1.retry = d.retry /\ t1.terminal = d.terminal /\ t1.current = d.current
    BY <1>4, <2>2 DEF IsDisk
  <2>5. IsDisk(x2) /\ x2.retry = d.retry /\ x2.terminal = d.terminal /\ x2.current = d.current
    BY <1>4, <2>2 DEF IsDisk
  <2>6. Leads(d, t1)
    BY <1>3, <2>4
  <2>7. Leads(d, t2)
    BY <1>3, <2>2, <2>5
  <2>8. s = <<t1, t2>>
    BY <2>1, <2>2, <2>3
  <2>9. TrailOK(d, s)
    BY <2>6, <2>7, <2>8, TwoTrail
  <2> QED
    BY <1>1, <2>9
<1> QED
  BY <1>1, <1>5, <1>6, <1>7 DEF publish_validated_result

LEMMA ThenPublishes ==
    ASSUME NEW d, NEW s, CalmTrail(d, s), NEW st, NEW r, r.kind = "validated"
    PROVE  TrailOK(d, then_publish(s, st, r).trail)
<1>1. PICK p : p = publish_validated_result(Last(s), st.scope[1], r)
  OBVIOUS
<1>2. DiskOK(Last(s), head, plan)
  BY CalmEnd
<1>3. TrailOK(Last(s), p)
  BY <1>1, <1>2, Publishes
<1>4. TrailOK(d, s \o p)
  BY <1>3, CalmThen
<1>5. then_publish(s, st, r).trail = s \o p
  BY <1>1 DEF then_publish
<1> QED
  BY <1>4, <1>5

\* A counted validation outcome is the next state of the same launch.
LEMMA Counted ==
    ASSUME NEW st, IsLaunch(st), NEW src, NEW ev, ev.tt # "launch_launched",
           NEW next, next = validated_state(st, src, ev), legal_advance(st, next)
    PROVE  IsLaunch(next) /\ SameLaunch(st, next) /\ next.phase = st.phase /\ next.tt # "launch_launched"
<1>1. IsState(st) /\ st.reset = FALSE /\ st.cnt \in Counters /\ st.bud \in Counters
  BY DEF IsLaunch, IsState
<1>2. PICK cnt : cnt = [st.cnt EXCEPT !.validation = ev.cnt.validation, !.stale = ev.cnt.stale]
  OBVIOUS
<1>3. /\ cnt.attempts = st.cnt.attempts /\ cnt.validation = ev.cnt.validation /\ cnt.stale = ev.cnt.stale
      /\ cnt \in [attempts : {cnt.attempts}, validation : {cnt.validation}, stale : {cnt.stale}]
  BY <1>1, <1>2 DEF Counters
<1>4. next.cnt = cnt
  BY <1>1, <1>2 DEF validated_state, IsState
<1>5. \A k \in {"attempts", "validation", "stale"} : cnt[k] \in st.cnt[k] .. (st.cnt[k] + 1)
  BY <1>1, <1>4 DEF legal_advance, Counters
<1>6. cnt.validation \in Nat /\ cnt.stale \in Nat
  BY <1>1, <1>5 DEF Counters
<1>7. cnt \in Counters
  BY <1>1, <1>3, <1>6 DEF Counters
<1>8. /\ next.scope = st.scope /\ next.bud = st.bud /\ next.tok = st.tok /\ next.phase = st.phase
      /\ next.reset = FALSE /\ next.tt = ev.tt /\ next.pred = st.pred
      /\ next \in [scope : {next.scope}, bud : {next.bud}, cnt : {next.cnt}, tt : {next.tt},
                   phase : {next.phase}, tok : {next.tok}, pred : {next.pred}, reset : {next.reset},
                   src : {next.src}, promoted : {next.promoted}, reason : {next.reason}]
  BY <1>1 DEF validated_state, IsState
<1>9. IsState(next)
  BY <1>1, <1>4, <1>7, <1>8 DEF IsState
<1>10. IsLaunch(next)
  BY <1>3, <1>4, <1>8, <1>9 DEF IsLaunch
<1>11. st.bud.attempts <= st.bud.attempts
  BY <1>1 DEF Counters
<1> QED
  BY <1>3, <1>4, <1>8, <1>10, <1>11 DEF SameLaunch

LEMMA AdvancesThenPublishes ==
    ASSUME NEW d, DiskOK(d, head, plan), head \in Positive, plan \in Positive,
           NEW s, CalmTrail(d, s), NEW st, Loaded(Last(s), st),
           NEW src, NEW ev, ev.tt # "launch_launched", NEW r, r.kind = "validated"
    PROVE  TrailOK(d, advance_then_publish(s, st, validated_state(st, src, ev), r).trail)
<1>1. PICK next : next = validated_state(st, src, ev)
  OBVIOUS
<1>2. PICK o : o = advance_then_publish(s, st, next, r)
  OBVIOUS
<1>3. CASE ~legal_advance(st, next)
  <2>1. o.trail = s
    BY <1>2, <1>3 DEF advance_then_publish, Failed
  <2> QED
    BY <1>1, <1>2, <2>1, CalmIsTrail
<1>4. CASE legal_advance(st, next)
  <2>1. IsLaunch(st)
    BY <1>4, LoadedKind DEF legal_advance, IsTombstone
  <2>2. IsLaunch(next) /\ SameLaunch(st, next) /\ next.phase = st.phase /\ next.tt # "launch_launched"
    BY <1>1, <1>4, <2>1, Counted
  <2>3. DiskOK(Last(s), head, plan)
    BY CalmEnd
  <2>4. HistoryOK(Last(s).retry.hist)
    BY <2>3 DEF DiskOK, RetryOK
  <2>5. CopyOK(st, Last(s).retry.hist)
    BY <2>1, <2>4, LoadedCopy
  <2>6. CopyOK(next, Last(s).retry.hist)
    BY <2>2, <2>4, <2>5, SmallerCopy
  <2>7. next.scope = st.scope /\ next.cnt.attempts = st.cnt.attempts /\ st.reset = FALSE
    BY <2>1, <2>2 DEF SameLaunch, IsLaunch
  <2>8. Precedes(st, next)
    BY <2>1, <2>2, <2>7, SameOrder
  <2>9. PICK p : p = persist(Last(s), next)
    OBVIOUS
  <2>10. CalmTrail(Last(s), p)
    BY <2>2, <2>3, <2>6, <2>7, <2>8, <2>9, Persists
  <2>11. CalmTrail(d, s \o p)
    BY <2>10, CalmThenCalm
  <2>12. PICK u : u = s \o p
    OBVIOUS
  <2>13. o = then_publish(u, next, r) /\ CalmTrail(d, u)
    BY <1>2, <1>4, <2>9, <2>11, <2>12 DEF advance_then_publish
  <2>14. TrailOK(d, o.trail)
    BY <2>13, ThenPublishes
  <2> QED
    BY <1>1, <1>2, <2>14
<1> QED
  BY <1>3, <1>4

\* record_validation_and_publish, the whole critical section.
LEMMA RecordsValidation ==
    ASSUME NEW d, DiskOK(d, head, plan), head \in Positive, plan \in Positive,
           NEW own, NEW src, NEW ev, ev.tt # "launch_launched", NEW r, r.kind = "validated",
           NEW c \in Configs
    PROVE  TrailOK(d, record_validation_and_publish(d, own, src, ev, r, c).trail)
<1>1. PICK load : load = load_matching_state(d, own.scope)
  OBVIOUS
<1>2. PICK o : o = record_validation_and_publish(d, own, src, ev, r, c)
  OBVIOUS
<1>3. o = record_loaded(d, load, own, src, ev, r, c)
  BY <1>1, <1>2 DEF record_validation_and_publish
<1>4. Calm(d, load.d) /\ (~load.err => load.st = NoState \/ Loaded(load.d, load.st))
  <2>1. /\ Calm(d, load.d) /\ load.d.retry.hist = d.retry.hist
        /\ ~load.err =>
              \/ load.st = NoState /\ \A i \in DOMAIN d.retry.hist : d.retry.hist[i].v.scope # own.scope
              \/ /\ load.st # NoState /\ load.st.scope = own.scope
                 /\ IsLaunch(load.st) \/ IsTombstone(load.st)
                 /\ Loaded(load.d, load.st)
    BY <1>1, Loads
  <2> QED
    BY <2>1
<1>5. DiskOK(load.d, head, plan)
  BY <1>4 DEF Calm, Grows
<1>6. PICK rec : rec = reconcile_retry_policy(load.d, load.st, c)
  OBVIOUS
<1>7. CASE o = Failed(<<d>>)
  <2>1. o.trail = <<d>>
    BY <1>7 DEF Failed
  <2> QED
    BY <1>2, <2>1, CalmSelf, CalmIsLead, OneTrail
<1>8. CASE o = Failed(<<load.d>>)
  <2>1. o.trail = <<load.d>>
    BY <1>8 DEF Failed
  <2> QED
    BY <1>2, <1>4, <2>1, CalmIsLead, OneTrail
<1>9. CASE /\ ~load.err /\ verify_ownership(load.st, own)
           /\ o = record_reconciled(rec, src, ev, r, load.st.src = src)
  <2>1. Loaded(load.d, load.st)
    BY <1>4, <1>9 DEF verify_ownership
  <2>2. CalmTrail(load.d, rec.trail) /\ (~rec.err => Loaded(Last(rec.trail), rec.st))
    <3>1. /\ CalmTrail(load.d, rec.trail) /\ rec.err \in BOOLEAN
          /\ ~rec.err =>
                /\ Loaded(Last(rec.trail), rec.st) /\ rec.st.scope = load.st.scope
                /\ IsLaunch(load.st) =>
                      /\ IsLaunch(rec.st) /\ SameLaunch(load.st, rec.st)
                      /\ rec.st.phase = load.st.phase
                /\ IsTombstone(load.st) => rec.st = load.st
      BY <1>5, <1>6, <2>1, Reconciled
    <3> QED
      BY <3>1
  <2>3. CalmTrail(d, rec.trail)
    BY <1>4, <2>2, CalmFirstCalm
  <2>4. CASE rec.err
    <3>1. o.trail = rec.trail
      BY <1>9, <2>4 DEF record_reconciled, Failed
    <3> QED
      BY <1>2, <2>3, <3>1, CalmIsTrail
  <2>5. CASE ~rec.err /\ load.st.src = src
    <3>1. PICK next : next = validated_state(rec.st, src, ev)
      OBVIOUS
    <3>2. o = then_publish(rec.trail, next, r)
      BY <1>9, <2>5, <3>1 DEF record_reconciled
    <3> QED
      BY <1>2, <2>3, <3>2, ThenPublishes
  <2>6. CASE ~rec.err /\ load.st.src # src
    <3>1. o = advance_then_publish(rec.trail, rec.st, validated_state(rec.st, src, ev), r)
      BY <1>9, <2>6 DEF record_reconciled
    <3>2. Loaded(Last(rec.trail), rec.st)
      BY <2>2, <2>6
    <3> QED
      BY <1>2, <2>3, <3>1, <3>2, AdvancesThenPublishes
  <2> QED
    BY <2>4, <2>5, <2>6
<1> QED
  BY <1>3, <1>6, <1>7, <1>8, <1>9 DEF record_loaded

LEMMA ValidatesAndPublishes ==
    ASSUME NEW d, DiskOK(d, head, plan), head \in Positive, plan \in Positive,
           NEW own, NEW src, NEW r, NEW c \in Configs
    PROVE  TrailOK(d, validate_and_publish(d, own, src, r, c).trail)
<1>1. PICK ev : ev = evaluate_remediation_result(effective_quality(r, own), own, advances(own, src))
  OBVIOUS
<1>2. ev.tt # "launch_launched"
  <2>1. PICK q, a : ev = evaluate_remediation_result(q, own, a)
    BY <1>1
  <2>2. \/ ev = stale_scope_validation(own, a)
        \/ ev = malformed_remediation_validation(own, a)
        \/ ev = unsuccessful_remediation_validation(own)
        \/ ev = [tt |-> "valid", cnt |-> Kept(own)]
    BY <2>1 DEF evaluate_remediation_result
  <2> QED
    BY <2>2 DEF stale_scope_validation, malformed_remediation_validation, unsuccessful_remediation_validation
<1>3. PICK w : w = [kind |-> "validated", q |-> r.q, tok |-> own.tok, src |-> src]
  OBVIOUS
<1>4. w.kind = "validated"
  BY <1>3
<1>5. validate_and_publish(d, own, src, r, c) = record_validation_and_publish(d, own, src, ev, w, c)
  BY <1>1, <1>3 DEF validate_and_publish
<1>6. TrailOK(d, record_validation_and_publish(d, own, src, ev, w, c).trail)
  BY <1>2, <1>4, RecordsValidation
<1> QED
  BY <1>5, <1>6

-----------------------------------------------------------------------------
(* The terminal failure                                                      *)

LEMMA TerminalWritten ==
    ASSUME NEW d, DiskOK(d, head, plan), NEW f, TerminalOK(f), NEW t, t = [d EXCEPT !.terminal = f]
    PROVE  Leads(d, t)
<1>1. IsDisk(d)
  BY DEF DiskOK
<1>2. IsDisk(t) /\ t.retry = d.retry /\ t.current = d.current /\ t.terminal = f
  BY <1>1 DEF IsDisk
<1>3. DiskOK(t, head, plan)
  BY <1>2 DEF DiskOK
<1> QED
  BY <1>2, <1>3 DEF Leads, Grows, Extends

LEMMA TerminalRestored ==
    ASSUME NEW f, TerminalOK(f), NEW hd, committed_terminal(f, hd) # {}
    PROVE  TerminalOK(restore_canonical_from_history(f, Max(committed_terminal(f, hd))))
<1>1. IsFamily(f) /\ IsSeq(f.hist)
  BY DEF TerminalOK
<1>2. Len(f.hist) \in Nat /\ DOMAIN f.hist = 1 .. Len(f.hist)
  BY <1>1, SeqDomain
<1>3. PICK T : T = committed_terminal(f, hd)
  OBVIOUS
<1>4. T \subseteq 0 .. Len(f.hist) /\ T # {}
  BY <1>2, <1>3 DEF committed_terminal, recoverable_history_candidates
<1>5. PICK n : n = Max(T)
  OBVIOUS
<1>6. n \in Nat
  <2>1. Max(T) \in T
    BY <1>2, <1>4, MaxOf
  <2>2. \A i \in T : i \in Nat
    BY <1>2, <1>4
  <2> QED
    BY ONLY <1>5, <2>1, <2>2
<1>7. PICK g : g = restore_canonical_from_history(f, n)
  OBVIOUS
<1>8. IsFamily(g) /\ g.hist = f.hist
  BY <1>1, <1>6, <1>7 DEF IsFamily, restore_canonical_from_history
<1>9. TerminalOK(g)
  BY <1>8 DEF TerminalOK
<1> QED
  BY <1>3, <1>5, <1>7, <1>9, Zenon

LEMMA TerminalAppended ==
    ASSUME NEW f, TerminalOK(f), NEW hd, committed_terminal(f, hd) = {}, NEW v,
           NEW n, n \in Nat, NEW b \in BOOLEAN,
           NEW g, g = [f EXCEPT !.hist = Append(f.hist, Snapshot(hd, v)), !.canon = n, !.spoiled = b]
    PROVE  TerminalOK(g)
<1>1. IsFamily(f) /\ IsSeq(f.hist) /\ \A i \in DOMAIN f.hist : f.hist[i].ok = TRUE
  BY DEF TerminalOK
<1>2. Len(f.hist) \in Nat /\ DOMAIN f.hist = 1 .. Len(f.hist)
  BY <1>1, SeqDomain
<1>3. PICK h : h = Append(f.hist, Snapshot(hd, v))
  OBVIOUS
<1>4. IsFamily(g) /\ g.hist = h
  BY <1>1, <1>3 DEF IsFamily
<1>5. /\ IsSeq(h) /\ DOMAIN h = DOMAIN f.hist \cup {Len(f.hist) + 1}
      /\ \A i \in DOMAIN f.hist : h[i] = f.hist[i]
      /\ h[Len(f.hist) + 1] = Snapshot(hd, v)
  BY <1>1, <1>3, Appended
<1>6. h[Len(f.hist) + 1].ok = TRUE /\ h[Len(f.hist) + 1].head = hd
  BY <1>5 DEF Snapshot
<1>7. \A i \in DOMAIN f.hist : f.hist[i].head # hd
  BY <1>1 DEF committed_terminal, recoverable_history_candidates, validate_artifact_value
<1>8. \A i \in DOMAIN h : h[i].ok = TRUE
  BY <1>1, <1>5, <1>6
<1>9. ASSUME NEW i \in DOMAIN h, NEW j \in DOMAIN h, i # j
      PROVE  h[i].head # h[j].head
  <2>1. CASE i \in DOMAIN f.hist /\ j \in DOMAIN f.hist
    BY <1>5, <1>9, <2>1 DEF TerminalOK
  <2>2. CASE i \notin DOMAIN f.hist
    BY <1>5, <1>6, <1>7, <1>9, <2>2
  <2>3. CASE j \notin DOMAIN f.hist
    BY <1>5, <1>6, <1>7, <1>9, <2>3
  <2> QED
    BY <2>1, <2>2, <2>3
<1>10. \A i, j \in DOMAIN h : i # j => h[i].head # h[j].head
  BY <1>9
<1>11. IsSeq(h)
  BY <1>5
<1> QED
  BY ONLY <1>4, <1>8, <1>10, <1>11 DEF TerminalOK

LEMMA PublishesTerminal ==
    ASSUME NEW d, DiskOK(d, head, plan), NEW st, NEW hd, NEW over,
           committed_terminal(d.terminal, hd) = {}
    PROVE  Outcome(d, publish_terminal(d, st, hd, over), "ok", "none")
<1>1. PICK o : o = publish_terminal(d, st, hd, over)
  OBVIOUS
<1>2. TrailOK(d, <<d>>)
  BY CalmSelf, CalmIsLead, OneTrail
<1>3. CASE read_recoverable_current_json(d.terminal, hd) = "corrupt"
  <2>1. o = Failed(<<d>>)
    BY <1>1, <1>3 DEF publish_terminal
  <2>2. Outcome(d, o, "ok", "none")
    BY <1>2, <2>1, FailedOutcome
  <2> QED
    BY <1>1, <2>2
<1>4. CASE read_recoverable_current_json(d.terminal, hd) # "corrupt"
  <2>1. PICK v : v = terminal_failure(st, Active(st) /\ ~over)
    OBVIOUS
  <2>2. PICK f : f = d.terminal
    OBVIOUS
  <2>3. PICK h : h = Append(f.hist, Snapshot(hd, v))
    OBVIOUS
  <2>4. PICK f1, f2 : f1 = [f EXCEPT !.hist = h] /\ f2 = [f EXCEPT !.hist = h, !.canon = Len(h), !.spoiled = FALSE]
    OBVIOUS
  <2>5. PICK t1, t2 : t1 = [d EXCEPT !.terminal = f1] /\ t2 = [d EXCEPT !.terminal = f2]
    OBVIOUS
  <2>6. o = [out |-> "fatal", st |-> NoState, trail |-> <<d>> \o <<t1, t2>>]
    BY <1>1, <1>4, <2>1, <2>2, <2>3, <2>4, <2>5 DEF publish_terminal, terminal_steps, publish_artifact
  <2>7. TerminalOK(f) /\ IsFamily(f) /\ IsSeq(f.hist) /\ committed_terminal(f, hd) = {}
    BY <2>2 DEF DiskOK, TerminalOK
  <2>8. Len(h) \in Nat
    <3>1. Len(f.hist) \in Nat
      BY <2>7, SeqDomain
    <3> QED
      BY <2>3, <2>7, <3>1, Appended
  <2>9. TerminalOK(f2)
    <3>1. f2 = [f EXCEPT !.hist = Append(f.hist, Snapshot(hd, v)), !.canon = Len(h), !.spoiled = FALSE]
      BY <2>3, <2>4
    <3>2. PICK n : n = Len(h)
      OBVIOUS
    <3> QED
      BY <2>7, <2>8, <3>1, <3>2, TerminalAppended
  <2>10. TerminalOK(f1)
    <3>1. PICK n, b : n = f.canon /\ b = f.spoiled
      OBVIOUS
    <3>2. n \in Nat /\ b \in BOOLEAN
      BY <2>7, <3>1 DEF IsFamily
    <3>3. f1 = [f EXCEPT !.hist = Append(f.hist, Snapshot(hd, v)), !.canon = n, !.spoiled = b]
      BY <2>3, <2>4, <2>7, <3>1 DEF IsFamily
    <3> QED
      BY <2>7, <3>2, <3>3, TerminalAppended
  <2>11. Leads(d, t1) /\ Leads(d, t2)
    BY <2>5, <2>9, <2>10, TerminalWritten
  <2>12. TrailOK(d, <<d>> \o <<t1, t2>>)
    BY <1>2, <2>11, TwoTrail, Beside
  <2>13. PICK s : s = <<d>> \o <<t1, t2>>
    OBVIOUS
  <2>14. o = [out |-> "fatal", st |-> NoState, trail |-> s] /\ TrailOK(d, s)
    BY <2>6, <2>12, <2>13
  <2>15. Outcome(d, o, "ok", "none")
    BY <2>14 DEF Outcome
  <2> QED
    BY <1>1, <2>15
<1> QED
  BY <1>3, <1>4

\* A corrupt retry state is replaced by an exhausted one.
LEMMA Quarantined ==
    ASSUME NEW d, DiskOK(d, head, plan)
    PROVE  Calm(d, quarantine_corrupt_retry_state(d))
<1>1. PICK t : t = quarantine_corrupt_retry_state(d)
  OBVIOUS
<1>2. IsDisk(d) /\ IsFamily(d.retry) /\ HistoryOK(d.retry.hist)
  BY DEF DiskOK, RetryOK
<1>3. Len(d.retry.hist) \in Nat
  BY <1>2, SeqDomain DEF HistoryOK
<1>4. PICK f : f = [d.retry EXCEPT !.canon = Missing, !.spoiled = FALSE]
  OBVIOUS
<1>5. IsFamily(f) /\ f.hist = d.retry.hist /\ f.canon = 0 /\ f.spoiled = FALSE
  BY <1>2, <1>4 DEF IsFamily, Missing
<1>6. t = [d EXCEPT !.retry = f]
  BY <1>1, <1>2, <1>4 DEF quarantine_corrupt_retry_state, IsDisk, IsFamily
<1>7. IsDisk(t) /\ t.retry = f /\ t.terminal = d.terminal /\ t.current = d.current
  BY <1>2, <1>6, RetryWrites
<1>8. RetryOK(f)
  BY <1>2, <1>3, <1>5 DEF RetryOK
<1>9. DiskOK(t, head, plan)
  BY <1>5, <1>7, <1>8 DEF DiskOK
<1>10. Undamaged(d.retry) => Undamaged(t.retry)
  BY <1>5, <1>7 DEF Undamaged
<1>11. Extends(d.retry.hist, t.retry.hist)
  BY <1>5, <1>7 DEF Extends
<1> QED
  BY <1>1, <1>7, <1>9, <1>10, <1>11 DEF Calm, Grows

LEMMA Resolves ==
    ASSUME NEW d, DiskOK(d, head, plan), head \in Positive, plan \in Positive,
           NEW c \in Configs, NEW res, res = resolve_retry_state(d, Scope, c)
    PROVE  CalmTrail(d, res.trail) /\ (res.st = NoState \/ Loaded(Last(res.trail), res.st))
<1>1. PICK load : load = load_matching_state(d, Scope)
  OBVIOUS
<1>2. res = resolve_loaded(d, load, Scope, c)
  BY <1>1 DEF resolve_retry_state
<1>3. Calm(d, load.d) /\ (~load.err => load.st = NoState \/ Loaded(load.d, load.st))
  <2>1. /\ Calm(d, load.d) /\ load.d.retry.hist = d.retry.hist
        /\ ~load.err =>
              \/ load.st = NoState /\ \A i \in DOMAIN d.retry.hist : d.retry.hist[i].v.scope # Scope
              \/ /\ load.st # NoState /\ load.st.scope = Scope
                 /\ IsLaunch(load.st) \/ IsTombstone(load.st)
                 /\ Loaded(load.d, load.st)
    BY <1>1, Loads
  <2> QED
    BY <2>1
<1>4. CASE ~load.err /\ (load.st # NoState \/ d.retry.canon = Missing)
  <2>1. res = [st |-> load.st, trail |-> <<load.d>>]
    BY <1>2, <1>4 DEF resolve_loaded
  <2>2. CalmTrail(d, <<load.d>>) /\ Last(<<load.d>>) = load.d
    BY <1>3, OneCalm
  <2>3. res.st = load.st /\ res.trail = <<load.d>>
    BY <2>1
  <2> QED
    BY <1>3, <1>4, <2>2, <2>3
<1>5. CASE ~(~load.err /\ (load.st # NoState \/ d.retry.canon = Missing))
  <2>1. PICK d1 : d1 = quarantine_corrupt_retry_state(d)
    OBVIOUS
  <2>2. PICK tb : tb = terminal_tombstone(Scope, c)
    OBVIOUS
  <2>3. PICK s : s = persist_first(d1, tb)
    OBVIOUS
  <2>4. res = [st |-> tb, trail |-> <<d, d1>> \o s]
    BY <1>2, <1>5, <2>1, <2>2, <2>3 DEF resolve_loaded, replace_by_tombstone
  <2>5. Calm(d, d1)
    BY <2>1, Quarantined
  <2>6. DiskOK(d1, head, plan)
    BY <2>5 DEF Calm, Grows
  <2>7. c \in Counters
    BY ConfigsAssumption DEF Budget, Counters
  <2>8. IsTombstone(tb) /\ tb.scope = Scope
    BY <2>2, <2>7 DEF terminal_tombstone, IsTombstone, IsState, Scope, Phases, Missing
  <2>9. s = retry_steps(d1, publish_artifact(d1.retry, tb.scope[1], tb))
    BY <2>3 DEF persist_first
  <2>10. IsLaunch(tb) \/ IsTombstone(tb)
    BY <2>8
  <2>11. tb.reset = FALSE => Fits(d1.retry.hist, tb)
    BY <2>8 DEF IsTombstone
  <2>12. Placed(d1.retry.hist, tb)
    BY <2>8 DEF Placed
  <2>13. CalmTrail(d1, s) /\ \A x : Agrees(x, tb) => Loaded(Last(s), x)
    BY <2>6, <2>9, <2>10, <2>11, <2>12, Published
  <2>14. Agrees(tb, tb)
    BY <2>10 DEF Agrees
  <2>15. CalmTrail(d, <<d, d1>>)
    <3>1. Calm(d, d)
      BY CalmSelf
    <3>2. IsTrail(<<d, d1>>) /\ \A i \in DOMAIN <<d, d1>> : <<d, d1>>[i] \in {d, d1}
      BY Two DEF IsTrail
    <3>3. PICK u : u = <<d, d1>>
      OBVIOUS
    <3>4. IsTrail(u) /\ \A i \in DOMAIN u : u[i] \in {d, d1}
      BY <3>2, <3>3
    <3>5. CalmTrail(d, u)
      BY <2>5, <3>1, <3>4 DEF CalmTrail
    <3> QED
      BY <3>3, <3>5
  <2>16. CalmTrail(d, s)
    BY <2>5, <2>13, CalmFirstCalm
  <2>17. CalmTrail(d, <<d, d1>> \o s) /\ Last(<<d, d1>> \o s) = Last(s)
    BY <2>15, <2>16, CalmBeside
  <2>18. res.st = tb /\ res.trail = <<d, d1>> \o s
    BY <2>4
  <2> QED
    BY <2>13, <2>14, <2>17, <2>18
<1> QED
  BY <1>4, <1>5

\* execute_terminal, the whole critical section.
LEMMA Terminates ==
    ASSUME NEW d, DiskOK(d, head, plan), head \in Positive, plan \in Positive,
           NEW c \in Configs, NEW over
    PROVE  TrailOK(d, execute_terminal(d, Scope, c, over).trail)
<1>1. PICK o : o = execute_terminal(d, Scope, c, over)
  OBVIOUS
<1>2. CASE committed_terminal(d.terminal, Scope[1]) # {}
  <2>1. PICK f : f = restore_canonical_from_history(d.terminal, Max(committed_terminal(d.terminal, Scope[1])))
    OBVIOUS
  <2>2. PICK t : t = [d EXCEPT !.terminal = f]
    OBVIOUS
  <2>3. o.trail = <<t>>
    <3>1. [d EXCEPT !.terminal =
             restore_canonical_from_history(@, Max(committed_terminal(d.terminal, Scope[1])))] = t
      BY <2>1, <2>2 DEF DiskOK, IsDisk
    <3> QED
      BY <1>1, <1>2, <3>1 DEF execute_terminal
  <2>4. TerminalOK(d.terminal)
    BY DEF DiskOK
  <2>5. TerminalOK(f)
    BY <1>2, <2>1, <2>4, TerminalRestored
  <2>6. Leads(d, t)
    BY <2>2, <2>5, TerminalWritten
  <2> QED
    BY <1>1, <2>3, <2>6, OneTrail
<1>3. CASE committed_terminal(d.terminal, Scope[1]) = {}
  <2>1. PICK res : res = resolve_retry_state(d, Scope, c)
    OBVIOUS
  <2>2. CalmTrail(d, res.trail) /\ (res.st = NoState \/ Loaded(Last(res.trail), res.st))
    BY <2>1, Resolves
  <2>3. PICK t : t = Last(res.trail)
    OBVIOUS
  <2>4. DiskOK(t, head, plan) /\ t.terminal = d.terminal
    BY <2>2, <2>3, CalmLast DEF Calm, Grows
  <2>5. PICK rec : rec = reconcile_loaded(t, res.st, c)
    OBVIOUS
  <2>6. res.st = NoState \/ Loaded(t, res.st)
    BY <2>2, <2>3
  <2>7. CalmTrail(t, rec.trail)
    BY <2>4, <2>5, <2>6, ReconciledLoaded
  <2>8. PICK o1 : o1 = terminate_reconciled(rec, Scope[1], over)
    OBVIOUS
  <2>9. o = Prefixed(res.trail, o1)
    BY <1>1, <1>3, <2>1, <2>3, <2>5, <2>8 DEF execute_terminal, terminate_resolved
  <2>10. Outcome(t, o1, "ok", "none")
    <3>1. CASE rec.err
      <4>1. o1 = Failed(rec.trail)
        BY <2>8, <3>1 DEF terminate_reconciled
      <4>2. TrailOK(t, rec.trail)
        BY <2>7, CalmIsTrail
      <4> QED
        BY <4>1, <4>2, FailedOutcome
    <3>2. CASE ~rec.err
      <4>1. PICK u : u = Last(rec.trail)
        OBVIOUS
      <4>2. DiskOK(u, head, plan) /\ u.terminal = d.terminal
        BY <2>4, <2>7, <4>1, CalmLast DEF Calm, Grows
      <4>3. PICK o2 : o2 = publish_terminal(u, rec.st, Scope[1], over)
        OBVIOUS
      <4>4. o1 = Prefixed(rec.trail, o2)
        BY <2>8, <3>2, <4>1, <4>3 DEF terminate_reconciled
      <4>5. committed_terminal(u.terminal, Scope[1]) = {}
        BY <1>3, <4>2
      <4>6. Outcome(u, o2, "ok", "none")
        BY <4>2, <4>3, <4>5, PublishesTerminal
      <4> QED
        BY <2>7, <4>1, <4>4, <4>6, PrefixedOutcome
    <3> QED
      BY <3>1, <3>2
  <2>11. Outcome(d, o, "ok", "none")
    BY <2>2, <2>3, <2>9, <2>10, PrefixedOutcome
  <2> QED
    BY <1>1, <2>11 DEF Outcome
<1> QED
  BY <1>2, <1>3
-----------------------------------------------------------------------------
(* The actions                                                               *)

\* The launch is not among the steps a checkpoint resumes at.
Steady ==
    /\ head' = head /\ plan' = plan /\ cfg' = cfg /\ damage' = damage
    /\ at' = at \/ at' \notin Launching

\* A step that leaves the branch, the plan and the budget alone.
Advances ==
    /\ Leads(disk, disk') /\ Steady
    /\ DOMAIN ex' = Executions
    /\ \A e \in Executions : ex'[e] = ex[e] \/ ExecutionOK(ex'[e], disk'.retry.hist)

LEMMA ExecutionKept ==
    ASSUME NEW g, NEW h, HistoryOK(g), HistoryOK(h), Extends(g, h), NEW x, ExecutionOK(x, g)
    PROVE  ExecutionOK(x, h)
BY CopyKept DEF ExecutionOK

LEMMA AdvancesSafely ==
    ASSUME RemediationInv, Advances
    PROVE  /\ RemediationInv'
           /\ disk'.current # disk.current /\ disk'.current.kind = "raw" => PromotedNewest(disk')
<1>1. /\ DiskOK(disk', head, plan) /\ Extends(disk.retry.hist, disk'.retry.hist)
      /\ Undamaged(disk.retry) => Undamaged(disk'.retry)
  BY DEF Advances, Leads, Grows
<1>2. HistoryOK(disk.retry.hist) /\ HistoryOK(disk'.retry.hist)
  BY <1>1 DEF RemediationInv, DiskOK, RetryOK
<1>3. /\ head' = head /\ plan' = plan /\ cfg' = cfg /\ damage' = damage
      /\ at' = at \/ at' \notin Launching
  BY DEF Advances, Steady
<1>4. ASSUME NEW e \in Executions PROVE ExecutionOK(ex'[e], disk'.retry.hist)
  <2>1. ExecutionOK(ex[e], disk.retry.hist)
    BY DEF RemediationInv
  <2>2. ExecutionOK(ex[e], disk'.retry.hist)
    BY <1>1, <1>2, <2>1, ExecutionKept
  <2> QED
    BY <2>2 DEF Advances
<1>5. DiskOK(disk', head', plan')
  BY <1>1, <1>3
<1>6. DOMAIN ex' = Executions
  BY DEF Advances
<1>7. /\ head' \in Positive /\ plan' \in Positive /\ cfg' \in Configs /\ at' \notin Launching
      /\ damage' \in Nat /\ (damage' = 0 => Undamaged(disk'.retry))
  BY <1>1, <1>3 DEF RemediationInv
<1>8. RemediationInv'
  BY <1>4, <1>5, <1>6, <1>7 DEF RemediationInv
<1> QED
  BY <1>8 DEF Advances, Leads

\* An execution that holds no launch.
LEMMA Released ==
    ASSUME NEW h, NEW pc, pc \notin Launching, NEW c \in Configs
    PROVE  ExecutionOK(Idle, h) /\ ExecutionOK([Idle EXCEPT !.pc = pc, !.c = c], h)
<1>1. (CHOOSE x \in Configs : TRUE) \in Configs
  BY ConfigsAssumption
<1> QED
  BY <1>1 DEF ExecutionOK, Idle, Launching

LEMMA Replaces ==
    ASSUME RemediationInv, NEW e \in Executions, Leads(disk, disk'), Steady,
           NEW x, ex' = [ex EXCEPT ![e] = x], ExecutionOK(x, disk'.retry.hist)
    PROVE  Advances
<1>1. DOMAIN ex = Executions
  BY DEF RemediationInv
<1>2. DOMAIN ex' = Executions
  BY <1>1
<1>3. \A k \in Executions : ex'[k] = ex[k] \/ ex'[k] = x
  BY <1>1
<1> QED
  BY <1>2, <1>3 DEF Advances

LEMMA IdleOK == ASSUME NEW h PROVE ExecutionOK(Idle, h)
<1>1. (CHOOSE x \in Configs : TRUE) \in Configs
  BY ConfigsAssumption
<1> QED
  BY <1>1 DEF ExecutionOK, Idle, Launching

LEMMA DyingInside ==
    ASSUME RemediationInv, NEW e \in Executions, NEW s, TrailOK(disk, s), DiesIn(e, s)
    PROVE  Advances
<1>1. IsSeq(s)
  BY DEF TrailOK, IsTrail
<1>2. Len(s) \in Nat /\ DOMAIN s = 1 .. Len(s)
  BY <1>1, SeqDomain
<1>3. PICK i \in 1 .. (Len(s) - 1) : disk' = s[i]
  BY DEF DiesIn
<1>4. i \in DOMAIN s
  BY <1>2
<1>5. Leads(disk, disk')
  BY <1>3, <1>4 DEF TrailOK
<1>6. ex' = [ex EXCEPT ![e] = Idle] /\ Steady
  BY DEF DiesIn, Keep, Steady
<1>7. ExecutionOK(Idle, disk'.retry.hist)
  BY IdleOK
<1> QED
  BY <1>5, <1>6, <1>7, Replaces

LEMMA Erring ==
    ASSUME RemediationInv, NEW e \in Executions, NEW s, TrailOK(disk, s), Errs(e, s)
    PROVE  Advances
<1>1. Leads(disk, disk')
  BY TrailLast DEF Errs
<1>2. ex' = [ex EXCEPT ![e] = Idle] /\ Steady
  BY DEF Errs, Keep, Steady
<1>3. ExecutionOK(Idle, disk'.retry.hist)
  BY IdleOK
<1> QED
  BY <1>1, <1>2, <1>3, Replaces

LEMMA Advancing ==
    ASSUME RemediationInv, NEW e \in Executions, NEW s, TrailOK(disk, s), NEW step, step \notin Launching,
           Advance(e, step, s)
    PROVE  Advances
<1>1. Leads(disk, disk')
  BY TrailLast DEF Advance
<1>2. Steady
  BY DEF Advance, Keep, Steady
<1>3. PICK x : x = IF step = "failed" THEN Idle ELSE [Idle EXCEPT !.pc = step, !.c = ex[e].c]
  OBVIOUS
<1>4. ex' = [ex EXCEPT ![e] = x]
  BY <1>3 DEF Advance
<1>5. ex[e].c \in Configs
  BY DEF RemediationInv, ExecutionOK
<1>6. ExecutionOK(x, disk'.retry.hist)
  BY <1>3, <1>5, Released, IdleOK
<1> QED
  BY <1>1, <1>2, <1>4, <1>6, Replaces

\* The execution goes on with its launch.
LEMMA Continuing ==
    ASSUME RemediationInv, NEW e \in Executions, Leads(disk, disk'),
           Steady,
           NEW pc, NEW st, ex' = [ex EXCEPT ![e].pc = pc, ![e].st = st],
           pc \in Launching => CopyOK(st, disk'.retry.hist) /\ st.phase = OwnPhase(pc)
    PROVE  Advances
<1>1. DOMAIN ex = Executions /\ ExecutionOK(ex[e], disk.retry.hist)
  BY DEF RemediationInv
<1>2. PICK x : x = [ex[e] EXCEPT !.pc = pc, !.st = st]
  OBVIOUS
<1>3. /\ x.pc = pc /\ x.st = st
      /\ x \in [pc : {x.pc}, st : {x.st}, c : Configs, src : {x.src}, r : {x.r}]
  BY <1>1, <1>2 DEF ExecutionOK
<1>4. ExecutionOK(x, disk'.retry.hist)
  BY <1>3 DEF ExecutionOK
<1>5. ex' = [ex EXCEPT ![e] = x]
  BY <1>1, <1>2, <1>3
<1> QED
  BY <1>4, <1>5, Replaces

\* What the invariant gives to every critical section of an execution.
LEMMA Ready ==
    ASSUME RemediationInv, NEW e \in Executions
    PROVE  /\ DiskOK(disk, head, plan) /\ head \in Positive /\ plan \in Positive
           /\ DOMAIN ex = Executions /\ ex[e].c \in Configs
           /\ ex[e].pc \in Launching => CopyOK(ex[e].st, disk.retry.hist) /\ ex[e].st.phase = OwnPhase(ex[e].pc)
           /\ HistoryOK(disk.retry.hist) /\ IsDisk(disk)
BY DEF RemediationInv, ExecutionOK, DiskOK, RetryOK

LEMMA Preparing ==
    ASSUME RemediationInv, NEW e \in Executions, prepare(e)
    PROVE  Advances
<1>1. PICK over, o : /\ o = reserve_launch(disk, Scope, ex[e].c, over)
                     /\ \/ DiesIn(e, o.trail)
                        \/ o.out = "error" /\ Errs(e, o.trail)
                        \/ o.out = "recovered" /\ Advance(e, "validate", o.trail)
                        \/ /\ o.out = "reserved" /\ disk' = Last(o.trail)
                           /\ ex' = [ex EXCEPT ![e].pc = "reserved", ![e].st = o.st]
                           /\ Steady
  BY DEF prepare, Keep, Steady
<1>2. DiskOK(disk, head, plan) /\ head \in Positive /\ plan \in Positive /\ ex[e].c \in Configs
  BY Ready
<1>3. PICK c : c = ex[e].c
  OBVIOUS
<1>4. c \in Configs /\ o = reserve_launch(disk, Scope, c, over)
  BY <1>1, <1>2, <1>3
<1>5. Outcome(disk, o, "reserved", "reserved")
  BY <1>2, <1>4, Reserves
<1>6. TrailOK(disk, o.trail)
  BY <1>5 DEF Outcome
<1>7. CASE DiesIn(e, o.trail)
  BY <1>6, <1>7, DyingInside
<1>8. CASE Errs(e, o.trail)
  BY <1>6, <1>8, Erring
<1>9. CASE Advance(e, "validate", o.trail)
  BY <1>6, <1>9, Advancing DEF Launching
<1>10. CASE /\ o.out = "reserved" /\ disk' = Last(o.trail)
            /\ ex' = [ex EXCEPT ![e].pc = "reserved", ![e].st = o.st]
            /\ Steady
  <2>1. Leads(disk, disk')
    BY <1>6, <1>10, TrailLast
  <2>2. CopyOK(o.st, disk'.retry.hist) /\ o.st.phase = "reserved"
    BY <1>5, <1>10 DEF Outcome
  <2>3. PICK pc, st : pc = "reserved" /\ st = o.st
    OBVIOUS
  <2>4. ex' = [ex EXCEPT ![e].pc = pc, ![e].st = st]
    BY <1>10, <2>3
  <2>5. CopyOK(st, disk'.retry.hist) /\ st.phase = OwnPhase(pc)
    BY <2>2, <2>3 DEF OwnPhase
  <2> QED
    BY <1>10, <2>1, <2>4, <2>5, Continuing
<1> QED
  BY <1>1, <1>7, <1>8, <1>9, <1>10

LEMMA Stopping ==
    ASSUME RemediationInv, NEW e \in Executions, scope_control_barrier(e) \/ Dies(e)
    PROVE  Advances
<1>1. Leads(disk, disk)
  BY Ready, CalmSelf, CalmIsLead
<1>2. /\ disk' = disk /\ ex' = [ex EXCEPT ![e] = Idle]
      /\ Steady
  BY DEF scope_control_barrier, Dies, Keep, Steady
<1>3. Leads(disk, disk')
  BY <1>1, <1>2
<1>4. ExecutionOK(Idle, disk'.retry.hist)
  BY IdleOK
<1> QED
  BY <1>2, <1>3, <1>4, Replaces

LEMMA Marking ==
    ASSUME RemediationInv, NEW e \in Executions, mark_launched(e)
    PROVE  Advances
<1>1. PICK o : /\ o = record_launch_phase(disk, ex[e].st, "launched")
               /\ \/ DiesIn(e, o.trail)
                  \/ o.out = "error" /\ Errs(e, o.trail)
                  \/ /\ o.out = "ok" /\ disk' = Last(o.trail)
                     /\ ex' = [ex EXCEPT ![e].pc = "launched", ![e].st = o.st]
                     /\ Steady
  BY DEF mark_launched, Keep, Steady
<1>2. DiskOK(disk, head, plan) /\ head \in Positive /\ plan \in Positive
  BY Ready
<1>3. PICK own : own = ex[e].st
  OBVIOUS
<1>4. CopyOK(own, disk.retry.hist) /\ own.phase = "reserved"
  BY <1>3, Ready DEF mark_launched, Launching, OwnPhase
<1>5. o = record_launch_phase(disk, own, "launched")
  BY <1>1, <1>3
<1>6. PICK phase : phase = "launched"
  OBVIOUS
<1>7. Outcome(disk, record_launch_phase(disk, own, phase), "ok", phase)
  BY <1>2, <1>4, <1>6, RecordsPhase
<1>8. Outcome(disk, o, "ok", "launched")
  BY <1>5, <1>6, <1>7
<1>9. TrailOK(disk, o.trail)
  BY <1>8 DEF Outcome
<1>10. CASE DiesIn(e, o.trail)
  BY <1>9, <1>10, DyingInside
<1>11. CASE Errs(e, o.trail)
  BY <1>9, <1>11, Erring
<1>12. CASE /\ o.out = "ok" /\ disk' = Last(o.trail)
            /\ ex' = [ex EXCEPT ![e].pc = "launched", ![e].st = o.st]
            /\ Steady
  <2>1. Leads(disk, disk')
    BY <1>9, <1>12, TrailLast
  <2>2. CopyOK(o.st, disk'.retry.hist) /\ o.st.phase = "launched"
    BY <1>8, <1>12 DEF Outcome
  <2>3. PICK pc, st : pc = "launched" /\ st = o.st
    OBVIOUS
  <2>4. ex' = [ex EXCEPT ![e].pc = pc, ![e].st = st]
    BY <1>12, <2>3
  <2>5. CopyOK(st, disk'.retry.hist) /\ st.phase = OwnPhase(pc)
    BY <2>2, <2>3 DEF OwnPhase
  <2> QED
    BY <1>12, <2>1, <2>4, <2>5, Continuing
<1> QED
  BY <1>1, <1>10, <1>11, <1>12

LEMMA Invoking ==
    ASSUME RemediationInv, NEW e \in Executions, invoke(e)
    PROVE  Advances
<1>1. PICK f : disk' = [disk EXCEPT !.files = f]
  <2>1. PICK q \in Answers : disk' = [disk EXCEPT !.files[ex[e].st.tok] = q]
    BY DEF invoke
  <2>2. PICK f : f = [disk.files EXCEPT ![ex[e].st.tok] = q]
    OBVIOUS
  <2>3. disk' = [disk EXCEPT !.files = f]
    BY <2>1, <2>2, Ready DEF IsDisk
  <2> QED
    BY <2>3
<1>2. DiskOK(disk, head, plan) /\ IsDisk(disk)
  BY Ready
<1>3. IsDisk(disk') /\ disk'.retry = disk.retry /\ disk'.terminal = disk.terminal /\ disk'.current = disk.current
  BY <1>1, <1>2 DEF IsDisk
<1>4. Leads(disk, disk')
  BY <1>2, <1>3 DEF Leads, Grows, Extends, DiskOK
<1>5. ex[e].pc = "launched" /\ ex' = [ex EXCEPT ![e].pc = "invoked"] /\ Steady
  BY DEF invoke, Goto, Keep, Steady
<1>6. PICK x : x = [ex[e] EXCEPT !.pc = "invoked"]
  OBVIOUS
<1>7. ExecutionOK(ex[e], disk.retry.hist) /\ DOMAIN ex = Executions
  BY DEF RemediationInv
<1>8. ExecutionOK(x, disk'.retry.hist)
  BY <1>3, <1>5, <1>6, <1>7 DEF ExecutionOK, Launching, OwnPhase
<1>9. ex' = [ex EXCEPT ![e] = x]
  BY <1>5, <1>6, <1>7
<1> QED
  BY <1>4, <1>5, <1>8, <1>9, Replaces

LEMMA Promoting ==
    ASSUME RemediationInv, NEW e \in Executions, promote_result(e)
    PROVE  Advances
<1>1. PICK o : /\ o = promote_launch_result(disk, ex[e].st)
               /\ \/ DiesIn(e, o.trail)
                  \/ /\ o.out = "error" /\ disk' = Last(o.trail)
                     /\ ex' = [ex EXCEPT ![e].pc = "unpromoted"]
                     /\ Steady
                  \/ /\ o.out = "ok" /\ disk' = Last(o.trail)
                     /\ ex' = [ex EXCEPT ![e].pc = "promoted", ![e].st = o.st]
                     /\ Steady
  BY DEF promote_result, Keep, Steady, Goto
<1>2. DiskOK(disk, head, plan) /\ head \in Positive /\ plan \in Positive
  BY Ready
<1>3. PICK own : own = ex[e].st
  OBVIOUS
<1>4. CopyOK(own, disk.retry.hist) /\ own.phase = "launched"
  BY <1>3, Ready DEF promote_result, Launching, OwnPhase
<1>5. o = promote_launch_result(disk, own)
  BY <1>1, <1>3
<1>6. Outcome(disk, o, "ok", "launched")
  BY <1>2, <1>4, <1>5, PromotesResult
<1>7. TrailOK(disk, o.trail)
  BY <1>6 DEF Outcome
<1>8. CASE DiesIn(e, o.trail)
  BY <1>7, <1>8, DyingInside
<1>9. CASE /\ o.out = "error" /\ disk' = Last(o.trail)
           /\ ex' = [ex EXCEPT ![e].pc = "unpromoted"]
           /\ Steady
  <2>1. Leads(disk, disk')
    BY <1>7, <1>9, TrailLast
  <2>2. HistoryOK(disk.retry.hist) /\ HistoryOK(disk'.retry.hist) /\ Extends(disk.retry.hist, disk'.retry.hist)
    BY <1>2, <2>1 DEF Leads, Grows, DiskOK, RetryOK
  <2>3. ExecutionOK(ex[e], disk.retry.hist) /\ DOMAIN ex = Executions
    BY DEF RemediationInv
  <2>4. ExecutionOK(ex[e], disk'.retry.hist)
    BY <2>2, <2>3, ExecutionKept
  <2>5. PICK x : x = [ex[e] EXCEPT !.pc = "unpromoted"]
    OBVIOUS
  <2>6. ExecutionOK(x, disk'.retry.hist)
    BY <2>4, <2>5 DEF ExecutionOK, Launching, OwnPhase, promote_result
  <2>7. ex' = [ex EXCEPT ![e] = x]
    BY <1>9, <2>3, <2>5
  <2> QED
    BY <1>9, <2>1, <2>6, <2>7, Replaces
<1>10. CASE /\ o.out = "ok" /\ disk' = Last(o.trail)
            /\ ex' = [ex EXCEPT ![e].pc = "promoted", ![e].st = o.st]
            /\ Steady
  <2>1. Leads(disk, disk')
    BY <1>7, <1>10, TrailLast
  <2>2. CopyOK(o.st, disk'.retry.hist) /\ o.st.phase = "launched"
    BY <1>6, <1>10 DEF Outcome
  <2>3. PICK pc, st : pc = "promoted" /\ st = o.st
    OBVIOUS
  <2>4. ex' = [ex EXCEPT ![e].pc = pc, ![e].st = st]
    BY <1>10, <2>3
  <2>5. CopyOK(st, disk'.retry.hist) /\ st.phase = OwnPhase(pc)
    BY <2>2, <2>3 DEF OwnPhase
  <2> QED
    BY <1>10, <2>1, <2>4, <2>5, Continuing
<1> QED
  BY <1>1, <1>8, <1>9, <1>10

LEMMA Completing ==
    ASSUME RemediationInv, NEW e \in Executions, complete_launch(e)
    PROVE  Advances
<1>1. PICK o : /\ o = record_launch_phase(disk, ex[e].st, "completed")
               /\ \/ DiesIn(e, o.trail)
                  \/ Errs(e, o.trail)
                  \/ Advance(e, "validate", o.trail)
  BY DEF complete_launch
<1>2. DiskOK(disk, head, plan) /\ head \in Positive /\ plan \in Positive
  BY Ready
<1>3. PICK own : own = ex[e].st
  OBVIOUS
<1>4. CopyOK(own, disk.retry.hist)
  BY <1>3, Ready DEF complete_launch, Launching
<1>5. PICK phase : phase = "completed"
  OBVIOUS
<1>6. Outcome(disk, record_launch_phase(disk, own, phase), "ok", phase)
  BY <1>2, <1>4, <1>5, RecordsPhase
<1>7. TrailOK(disk, o.trail)
  BY <1>1, <1>3, <1>5, <1>6 DEF Outcome
<1>8. CASE DiesIn(e, o.trail)
  BY <1>7, <1>8, DyingInside
<1>9. CASE Errs(e, o.trail)
  BY <1>7, <1>9, Erring
<1>10. CASE Advance(e, "validate", o.trail)
  BY <1>7, <1>10, Advancing DEF Launching
<1> QED
  BY <1>1, <1>8, <1>9, <1>10

LEMMA PreparingValidation ==
    ASSUME RemediationInv, NEW e \in Executions, prepare_validation(e)
    PROVE  Advances
<1>1. PICK load : /\ load = load_matching_state(disk, Scope)
                  /\ \/ Errs(e, <<load.d>>)
                     \/ /\ disk' = load.d
                        /\ ex' = [ex EXCEPT ![e].pc = "validating", ![e].st = load.st, ![e].r = disk.current]
                        /\ Steady
  BY DEF prepare_validation, Keep, Steady
<1>2. DiskOK(disk, head, plan)
  BY Ready
<1>3. PICK sc : sc = Scope
  OBVIOUS
<1>4. Calm(disk, load.d)
  BY <1>1, <1>2, <1>3, Loads
<1>5. Leads(disk, load.d)
  BY <1>4, CalmIsLead
<1>6. CASE Errs(e, <<load.d>>)
  <2>1. TrailOK(disk, <<load.d>>)
    BY <1>5, OneTrail
  <2>2. PICK s : s = <<load.d>>
    OBVIOUS
  <2> QED
    BY <1>6, <2>1, <2>2, Erring
<1>7. CASE /\ disk' = load.d
           /\ ex' = [ex EXCEPT ![e].pc = "validating", ![e].st = load.st, ![e].r = disk.current]
           /\ Steady
  <2>1. ExecutionOK(ex[e], disk.retry.hist) /\ DOMAIN ex = Executions
    BY DEF RemediationInv
  <2>2. PICK x : x = [ex[e] EXCEPT !.pc = "validating", !.st = load.st, !.r = disk.current]
    OBVIOUS
  <2>3. x.pc = "validating" /\ x \in [pc : {x.pc}, st : {x.st}, c : Configs, src : {x.src}, r : {x.r}]
    BY <2>1, <2>2 DEF ExecutionOK
  <2>4. ExecutionOK(x, disk'.retry.hist)
    BY <2>3 DEF ExecutionOK, Launching
  <2>5. ex' = [ex EXCEPT ![e] = x]
    BY <1>7, <2>1, <2>2
  <2>6. Leads(disk, disk')
    BY <1>5, <1>7
  <2> QED
    BY <1>7, <2>4, <2>5, <2>6, Replaces
<1> QED
  BY <1>1, <1>6, <1>7

LEMMA Publishing ==
    ASSUME RemediationInv, NEW e \in Executions, publish_result(e)
    PROVE  Advances
<1>1. PICK o : /\ \E own, src, r, c : c = ex[e].c /\ o = validate_and_publish(disk, own, src, r, c)
               /\ \/ DiesIn(e, o.trail)
                  \/ Errs(e, o.trail)
                  \/ Advance(e, "push", o.trail)
                  \/ Advance(e, "remediate", o.trail)
                  \/ Advance(e, "terminal", o.trail)
  BY DEF publish_result
<1>2. PICK own, src, r, c : c = ex[e].c /\ o = validate_and_publish(disk, own, src, r, c)
  BY <1>1
<1>3. DiskOK(disk, head, plan) /\ head \in Positive /\ plan \in Positive /\ c \in Configs
  BY <1>2, Ready
<1>4. TrailOK(disk, o.trail)
  BY <1>2, <1>3, ValidatesAndPublishes
<1>5. CASE DiesIn(e, o.trail)
  BY <1>4, <1>5, DyingInside
<1>6. CASE Errs(e, o.trail)
  BY <1>4, <1>6, Erring
<1>7. ASSUME NEW step \in {"push", "remediate", "terminal"}, Advance(e, step, o.trail)
      PROVE  Advances
  BY <1>4, <1>7, Advancing DEF Launching
<1> QED
  BY <1>1, <1>5, <1>6, <1>7

LEMMA Terminating ==
    ASSUME RemediationInv, NEW e \in Executions, terminal(e)
    PROVE  Advances
<1>1. PICK over, o : /\ o = execute_terminal(disk, Scope, ex[e].c, over)
                     /\ \/ DiesIn(e, o.trail)
                        \/ Errs(e, o.trail)
                        \/ Advance(e, "failed", o.trail)
  BY DEF terminal
<1>2. PICK c : c = ex[e].c
  OBVIOUS
<1>3. DiskOK(disk, head, plan) /\ head \in Positive /\ plan \in Positive /\ c \in Configs
  BY <1>2, Ready
<1>4. o = execute_terminal(disk, Scope, c, over)
  BY <1>1, <1>2
<1>5. TrailOK(disk, o.trail)
  BY <1>3, <1>4, Terminates
<1>6. CASE DiesIn(e, o.trail)
  BY <1>5, <1>6, DyingInside
<1>7. CASE Errs(e, o.trail)
  BY <1>5, <1>7, Erring
<1>8. CASE Advance(e, "failed", o.trail)
  BY <1>5, <1>8, Advancing DEF Launching
<1> QED
  BY <1>1, <1>6, <1>7, <1>8

LEMMA Beginning ==
    ASSUME RemediationInv, NEW e \in Executions, Begin(e)
    PROVE  Advances
<1>1. Leads(disk, disk)
  BY Ready, CalmSelf, CalmIsLead
<1>2. ExecutionOK(ex[e], disk.retry.hist) /\ DOMAIN ex = Executions /\ cfg \in Configs /\ at \notin Launching
  BY DEF RemediationInv
<1>3. /\ ex' = [ex EXCEPT ![e].pc = at, ![e].c = cfg] /\ disk' = disk
      /\ Steady
  BY DEF Begin, Steady
<1>4. PICK x : x = [ex[e] EXCEPT !.pc = at, !.c = cfg]
  OBVIOUS
<1>5. x.pc = at /\ x \in [pc : {x.pc}, st : {x.st}, c : Configs, src : {x.src}, r : {x.r}]
  BY <1>2, <1>4 DEF ExecutionOK
<1>6. ExecutionOK(x, disk'.retry.hist)
  BY <1>2, <1>5 DEF ExecutionOK
<1>7. ex' = [ex EXCEPT ![e] = x]
  BY <1>2, <1>3, <1>4
<1>8. Leads(disk, disk')
  BY <1>1, <1>3
<1> QED
  BY <1>3, <1>6, <1>7, <1>8, Replaces

-----------------------------------------------------------------------------
(* Steps that leave the retry state as it is, or damage it                   *)

LEMMA Standing ==
    ASSUME RemediationInv, disk' = disk, damage' = damage, cfg' \in Configs, at' \notin Launching,
           head' \in Positive, plan' \in Positive, ScopesOK(disk.retry.hist, head', plan'),
           DOMAIN ex' = Executions,
           \A e \in Executions : ex'[e] = ex[e] \/ ExecutionOK(ex'[e], disk.retry.hist)
    PROVE  RemediationInv'
<1>1. DiskOK(disk', head', plan')
  BY DEF RemediationInv, DiskOK
<1>2. \A e \in Executions : ExecutionOK(ex'[e], disk'.retry.hist)
  BY DEF RemediationInv
<1>3. damage' \in Nat /\ (damage' = 0 => Undamaged(disk'.retry))
  BY DEF RemediationInv
<1> QED
  BY <1>1, <1>2, <1>3 DEF RemediationInv

LEMMA Pushing ==
    ASSUME RemediationInv, NEW e \in Executions, push(e)
    PROVE  RemediationInv' /\ disk' = disk
<1>1. /\ disk' = disk /\ cfg' = cfg /\ damage' = damage
      /\ \/ head' = head /\ plan' = plan
         \/ head' \in {head, head + 1} /\ plan' = plan + 1
      /\ at' \in {"done", "remediate"}
      /\ ex' = [ex EXCEPT ![e] = Idle] \/ ex' = [ex EXCEPT ![e].pc = "remediate"]
  BY DEF push, Goto
<1>2. /\ head \in Positive /\ plan \in Positive /\ cfg \in Configs /\ DOMAIN ex = Executions
      /\ ExecutionOK(ex[e], disk.retry.hist) /\ DiskOK(disk, head, plan)
  BY DEF RemediationInv
<1>3. HistoryOK(disk.retry.hist) /\ ScopesOK(disk.retry.hist, head, plan)
  BY <1>2 DEF DiskOK, RetryOK
<1>4. head' \in Positive /\ plan' \in Positive
  BY <1>1, <1>2 DEF Positive
<1>5. \A i \in DOMAIN disk.retry.hist :
         /\ disk.retry.hist[i].v.scope[1] \in Positive /\ disk.retry.hist[i].v.scope[2] \in Positive
         /\ disk.retry.hist[i].v.scope[1] <= head /\ disk.retry.hist[i].v.scope[2] <= plan
  BY <1>3, StateFields DEF HistoryOK, IsSnapshot, ScopesOK
<1>6. ScopesOK(disk.retry.hist, head', plan')
  <2>1. CASE head' = head /\ plan' = plan
    BY <1>3, <2>1
  <2>2. CASE head' \in {head, head + 1} /\ plan' = plan + 1
    <3>1. \A i \in DOMAIN disk.retry.hist :
             /\ disk.retry.hist[i].v.scope[1] <= head' /\ disk.retry.hist[i].v.scope[2] <= plan'
             /\ disk.retry.hist[i].v.scope[2] # plan'
      BY <1>2, <1>5, <2>2 DEF Positive
    <3> QED
      BY <1>3, <3>1 DEF ScopesOK
  <2> QED
    BY <1>1, <2>1, <2>2
<1>7. DOMAIN ex' = Executions
  BY <1>1, <1>2
<1>8. ASSUME NEW k \in Executions PROVE ex'[k] = ex[k] \/ ExecutionOK(ex'[k], disk.retry.hist)
  <2>1. CASE ex' = [ex EXCEPT ![e] = Idle]
    <3>1. ex'[k] = ex[k] \/ ex'[k] = Idle
      BY <1>2, <2>1
    <3> QED
      BY <3>1, IdleOK
  <2>2. CASE ex' = [ex EXCEPT ![e].pc = "remediate"]
    <3>1. PICK x : x = [ex[e] EXCEPT !.pc = "remediate"]
      OBVIOUS
    <3>2. ex'[k] = ex[k] \/ ex'[k] = x
      BY <1>2, <2>2, <3>1
    <3>3. ExecutionOK(x, disk.retry.hist)
      BY <1>2, <3>1 DEF ExecutionOK, Launching
    <3> QED
      BY <3>2, <3>3
  <2> QED
    BY <1>1, <2>1, <2>2
<1>9. cfg' \in Configs /\ at' \notin Launching /\ disk' = disk /\ damage' = damage
  BY <1>1, <1>2 DEF Launching
<1> QED
  BY <1>4, <1>6, <1>7, <1>8, <1>9, Standing

LEMMA Resting ==
    ASSUME RemediationInv, Retune \/ UNCHANGED vars
    PROVE  RemediationInv' /\ disk' = disk
<1>1. /\ disk' = disk /\ head' = head /\ plan' = plan /\ at' = at /\ ex' = ex /\ damage' = damage
      /\ cfg' = cfg \/ cfg' \in Configs
  BY DEF Retune, vars
<1>2. /\ head \in Positive /\ plan \in Positive /\ cfg \in Configs /\ at \notin Launching
      /\ DOMAIN ex = Executions /\ ScopesOK(disk.retry.hist, head, plan)
  BY DEF RemediationInv, DiskOK
<1>3. ScopesOK(disk.retry.hist, head', plan')
  BY <1>1, <1>2
<1> QED
  BY <1>1, <1>2, <1>3, Standing

\* Snapshots that stop parsing keep what they said.
SaysTheSame(g, h) ==
    /\ IsSeq(g) /\ DOMAIN g = DOMAIN h /\ Len(g) = Len(h)
    /\ \A i \in DOMAIN h : IsSnapshot(g[i]) /\ g[i].v = h[i].v

LEMMA SameValues ==
    ASSUME NEW h, HistoryOK(h), NEW g, SaysTheSame(g, h)
    PROVE  /\ HistoryOK(g)
           /\ \A x : ExecutionOK(x, h) => ExecutionOK(x, g)
           /\ \A hd, pl : ScopesOK(h, hd, pl) => ScopesOK(g, hd, pl)
<1>0. IsSeq(g) /\ DOMAIN g = DOMAIN h /\ \A i \in DOMAIN h : IsSnapshot(g[i]) /\ g[i].v = h[i].v
  BY DEF SaysTheSame
<1>1. OrderOK(g)
  BY <1>0 DEF HistoryOK, OrderOK
<1>2. \A i \in DOMAIN h : IsFirst(g, i) <=> IsFirst(h, i)
  BY <1>0 DEF IsFirst
<1>3. BudgetOK(g)
  BY <1>0, <1>2 DEF HistoryOK, BudgetOK
<1>4. DOMAIN h = 1 .. Len(h) /\ Len(h) \in Nat
  BY SeqDomain DEF HistoryOK
<1>5. ChainOK(g)
  <2> SUFFICES ASSUME NEW i \in DOMAIN g, ~g[i].v.reset PROVE IsPrevious(g, i, g[i].v.pred)
    BY DEF ChainOK
  <2>1. PICK p : p = h[i].v.pred
    OBVIOUS
  <2>2. IsPrevious(h, i, p)
    BY <1>0, <2>1 DEF HistoryOK, ChainOK
  <2>3. \A j \in 1 .. (i - 1) : j \in DOMAIN h
    BY <1>0, <1>4
  <2>4. p # Missing => p \in DOMAIN h
    BY <1>0, <1>4, <2>2 DEF IsPrevious, Missing
  <2>5. IsPrevious(g, i, p)
    BY <1>0, <2>2, <2>3, <2>4 DEF IsPrevious
  <2> QED
    BY <1>0, <2>1, <2>5
<1>6. HistoryOK(g)
  BY <1>0, <1>1, <1>3, <1>5 DEF HistoryOK
<1>7. \A v : CopyOK(v, h) => CopyOK(v, g)
  BY <1>0, <1>2 DEF CopyOK
<1>8. \A x : ExecutionOK(x, h) => ExecutionOK(x, g)
  BY <1>7 DEF ExecutionOK
<1>9. \A hd, pl : ScopesOK(h, hd, pl) => ScopesOK(g, hd, pl)
  BY <1>0 DEF ScopesOK
<1> QED
  BY <1>6, <1>8, <1>9

LEMMA Unparsed ==
    ASSUME NEW h, HistoryOK(h), h # <<>>, NEW g, g = [h EXCEPT ![Len(h)].ok = FALSE]
    PROVE  SaysTheSame(g, h)
<1>1. IsSeq(h) /\ Len(h) \in Nat /\ DOMAIN h = 1 .. Len(h)
  BY SeqDomain DEF HistoryOK
<1>2. Len(h) \in DOMAIN h
  BY <1>1 DEF IsSeq
<1>3. PICK n : n = Len(h)
  OBVIOUS
<1>4. PICK s : s = [h[n] EXCEPT !.ok = FALSE]
  OBVIOUS
<1>5. DOMAIN g = DOMAIN h /\ \A i \in DOMAIN h : g[i] = h[i] \/ (i = n /\ g[i] = s)
  BY <1>1, <1>2, <1>3, <1>4
<1>6. IsSnapshot(h[n]) /\ n \in DOMAIN h /\ \A i \in DOMAIN h : IsSnapshot(h[i])
  BY <1>2, <1>3 DEF HistoryOK
<1>7. s.v = h[n].v /\ IsSnapshot(s)
  BY <1>4, <1>6 DEF IsSnapshot
<1>8. \A i \in DOMAIN h : IsSnapshot(g[i]) /\ g[i].v = h[i].v
  BY <1>5, <1>6, <1>7
<1>9. IsSeq(g) /\ Len(g) = Len(h)
  <2>1. PICK S : S = {g[i] : i \in DOMAIN g}
    OBVIOUS
  <2>2. g \in [1 .. Len(h) -> S]
    BY <1>1, <1>5, <2>1
  <2>3. Len(h) \in Nat
    BY <1>1
  <2>4. g \in Seq(S) /\ Len(g) = Len(h)
    BY ONLY <2>2, <2>3
  <2> QED
    BY <2>1, <2>4 DEF IsSeq
<1> QED
  BY <1>5, <1>8, <1>9 DEF SaysTheSame

LEMMA Damaging ==
    ASSUME RemediationInv, Damage
    PROVE  RemediationInv' /\ disk'.current = disk.current
<1>1. PICK h : h = disk.retry.hist
  OBVIOUS
<1>2. /\ IsDisk(disk) /\ IsFamily(disk.retry) /\ HistoryOK(h) /\ ScopesOK(h, head, plan)
      /\ TerminalOK(disk.terminal) /\ disk.retry.canon <= Len(h)
  BY <1>1 DEF RemediationInv, DiskOK, RetryOK
<1>3. IsSeq(h) /\ Len(h) \in Nat /\ DOMAIN h = 1 .. Len(h)
  BY <1>2, SeqDomain DEF HistoryOK
<1>4. h # <<>>
  <2>1. disk.retry.canon \in Nat /\ disk.retry.canon # 0
    BY <1>2 DEF Damage, IsFamily, Missing
  <2> QED
    BY <1>2, <1>3, <2>1
<1>5. PICK f : /\ disk' = [disk EXCEPT !.retry = f] /\ IsFamily(f) /\ f.canon = disk.retry.canon
               /\ f.hist = h \/ f.hist = [h EXCEPT ![Len(h)].ok = FALSE]
  <2>1. CASE disk' = [disk EXCEPT !.retry.spoiled = TRUE]
    <3>1. PICK f : f = [disk.retry EXCEPT !.spoiled = TRUE]
      OBVIOUS
    <3>2. IsFamily(f) /\ f.hist = h /\ f.canon = disk.retry.canon
      BY <1>1, <1>2, <3>1 DEF IsFamily
    <3>3. disk' = [disk EXCEPT !.retry = f]
      BY <1>2, <2>1, <3>1 DEF IsDisk
    <3> QED
      BY <3>2, <3>3
  <2>2. CASE disk' = [disk EXCEPT !.retry.hist[Len(disk.retry.hist)].ok = FALSE]
    <3>1. PICK g : g = [h EXCEPT ![Len(h)].ok = FALSE]
      OBVIOUS
    <3>2. PICK f : f = [disk.retry EXCEPT !.hist = g]
      OBVIOUS
    <3>3. IsFamily(f) /\ f.hist = g /\ f.canon = disk.retry.canon
      BY <1>2, <3>2 DEF IsFamily
    <3>4. disk' = [disk EXCEPT !.retry = f]
      BY <1>1, <1>2, <2>2, <3>1, <3>2 DEF IsDisk, IsFamily
    <3> QED
      BY <3>1, <3>3, <3>4
  <2> QED
    BY <2>1, <2>2 DEF Damage
<1>6. PICK g : g = f.hist
  OBVIOUS
<1>7. /\ HistoryOK(g) /\ Len(g) = Len(h) /\ ScopesOK(g, head, plan)
      /\ \A x : ExecutionOK(x, h) => ExecutionOK(x, g)
  <2>1. CASE g = h
    BY <1>2, <2>1
  <2>2. CASE g = [h EXCEPT ![Len(h)].ok = FALSE]
    <3>1. SaysTheSame(g, h)
      BY <1>2, <1>4, <2>2, Unparsed
    <3>2. /\ HistoryOK(g)
          /\ \A x : ExecutionOK(x, h) => ExecutionOK(x, g)
          /\ \A hd, pl : ScopesOK(h, hd, pl) => ScopesOK(g, hd, pl)
      BY <1>2, <3>1, SameValues
    <3> QED
      BY <1>2, <3>1, <3>2 DEF SaysTheSame
  <2> QED
    BY <1>5, <1>6, <2>1, <2>2
<1>8. /\ IsDisk(disk') /\ disk'.retry = f /\ disk'.terminal = disk.terminal /\ disk'.current = disk.current
  BY <1>2, <1>5 DEF IsDisk
<1>9. head' = head /\ plan' = plan /\ at' = at /\ cfg' = cfg /\ ex' = ex /\ damage' = damage + 1
  BY DEF Damage
<1>10. DiskOK(disk', head', plan')
  BY <1>2, <1>5, <1>6, <1>7, <1>8, <1>9 DEF DiskOK, RetryOK
<1>11. \A e \in Executions : ExecutionOK(ex'[e], disk'.retry.hist)
  BY <1>1, <1>6, <1>7, <1>8, <1>9 DEF RemediationInv
<1>12. damage' \in Nat /\ damage' # 0
  BY <1>9 DEF RemediationInv
<1>13. RemediationInv'
  BY <1>9, <1>10, <1>11, <1>12 DEF RemediationInv
<1> QED
  BY <1>8, <1>13

-----------------------------------------------------------------------------
(* The invariant of the specification                                        *)

LEMMA Started == ASSUME Init PROVE RemediationInv
<1>1. IsSeq(<<>>) /\ Len(<<>>) = 0 /\ DOMAIN <<>> = {}
  <2>1. <<>> \in Seq({})
    OBVIOUS
  <2>2. IsSeq(<<>>)
    BY <2>1, IntoSeq
  <2> QED
    BY <2>2
<1>2. HistoryOK(<<>>) /\ ScopesOK(<<>>, head, plan)
  BY <1>1 DEF HistoryOK, OrderOK, BudgetOK, ChainOK, ScopesOK
<1>3. PICK f : f = EmptyFamily
  OBVIOUS
<1>4. f.hist = <<>> /\ f.canon = 0 /\ f.spoiled = FALSE /\ IsFamily(f)
  BY <1>3 DEF EmptyFamily, Missing, IsFamily
<1>5. RetryOK(f) /\ TerminalOK(f) /\ Undamaged(f)
  BY <1>1, <1>2, <1>4 DEF RetryOK, TerminalOK, Undamaged
<1>6. IsDisk(disk) /\ disk.retry = f /\ disk.terminal = f
  BY <1>3 DEF Init, IsDisk
<1>7. DiskOK(disk, head, plan)
  BY <1>2, <1>4, <1>5, <1>6 DEF DiskOK
<1>8. DOMAIN ex = Executions /\ \A e \in Executions : ex[e] = Idle
  BY DEF Init
<1>9. \A e \in Executions : ExecutionOK(ex[e], disk.retry.hist)
  BY <1>8, IdleOK
<1>10. /\ head \in Positive /\ plan \in Positive /\ cfg \in Configs /\ at \notin Launching /\ damage = 0
  BY DEF Init, Positive, Launching
<1> QED
  BY <1>5, <1>6, <1>7, <1>8, <1>9, <1>10 DEF RemediationInv

LEMMA StepsSafely ==
    ASSUME RemediationInv, [Next]_vars
    PROVE  /\ RemediationInv'
           /\ disk'.current # disk.current /\ disk'.current.kind = "raw" => PromotedNewest(disk')
<1>1. ASSUME NEW e \in Executions, Begin(e) PROVE Advances
  BY <1>1, Beginning
<1>2. ASSUME NEW e \in Executions, prepare(e) PROVE Advances
  BY <1>2, Preparing
<1>3. ASSUME NEW e \in Executions, scope_control_barrier(e) \/ Dies(e) PROVE Advances
  BY <1>3, Stopping
<1>4. ASSUME NEW e \in Executions, mark_launched(e) PROVE Advances
  BY <1>4, Marking
<1>5. ASSUME NEW e \in Executions, invoke(e) PROVE Advances
  BY <1>5, Invoking
<1>6. ASSUME NEW e \in Executions, promote_result(e) PROVE Advances
  BY <1>6, Promoting
<1>7. ASSUME NEW e \in Executions, complete_launch(e) PROVE Advances
  BY <1>7, Completing
<1>8. ASSUME NEW e \in Executions, prepare_validation(e) PROVE Advances
  BY <1>8, PreparingValidation
<1>9. ASSUME NEW e \in Executions, publish_result(e) PROVE Advances
  BY <1>9, Publishing
<1>10. ASSUME NEW e \in Executions, terminal(e) PROVE Advances
  BY <1>10, Terminating
<1>11. ASSUME NEW e \in Executions, push(e) PROVE RemediationInv' /\ disk' = disk
  BY <1>11, Pushing
<1>12. ASSUME Retune \/ UNCHANGED vars PROVE RemediationInv' /\ disk' = disk
  BY <1>12, Resting
<1>13. ASSUME Damage PROVE RemediationInv' /\ disk'.current = disk.current
  BY <1>13, Damaging
<1>14. \/ Advances
       \/ RemediationInv' /\ disk'.current = disk.current
  BY <1>1, <1>2, <1>3, <1>4, <1>5, <1>6, <1>7, <1>8, <1>9, <1>10, <1>11, <1>12, <1>13 DEF Next, Step
<1> QED
  BY <1>14, AdvancesSafely

\* The retry state every execution of a run writes under the publication lock:
\* ordinals, phases and predecessors of the launches of a scope only move
\* forward, budgets stay within the first one, and a plan is for one head.
THEOREM RemediationInvariant == Spec => []RemediationInv
<1>1. RemediationInv /\ [Next]_vars => RemediationInv'
  BY StepsSafely
<1> QED
  BY <1>1, Started, PTL DEF Spec

\* promote_remediation_launch_result_locked: whoever promotes the file of a
\* launch, no newer launch of that plan has been marked as launched.
THEOREM OnlyNewestPromoted == Spec => PromotionIsNewest
<1>1. ASSUME RemediationInv, [Next]_vars
      PROVE  [disk'.current # disk.current /\ disk'.current.kind = "raw" =>
                \A i \in DOMAIN disk'.retry.hist :
                   LET v == disk'.retry.hist[i].v
                   IN  v.tt = "launch_launched" /\ v.scope[2] = disk'.current.tok[1] =>
                       v.tok[2] <= disk'.current.tok[2]]_vars
  BY <1>1, StepsSafely DEF PromotedNewest
<1> QED
  BY <1>1, RemediationInvariant, PTL DEF Spec, PromotionIsNewest

\* publish_terminal_once: a head has one terminal failure.
THEOREM OneTerminalPerHead == Spec => []TerminalOnce
<1>1. RemediationInv => TerminalOnce
  BY DEF RemediationInv, DiskOK, TerminalOK, TerminalOnce
<1> QED
  BY <1>1, RemediationInvariant, PTL

-----------------------------------------------------------------------------
(* How often an agent is launched                                            *)

\* The launches of a scope have different ordinals, within its first budget.
LEMMA LaunchOrdinals ==
    ASSUME NEW h, HistoryOK(h), NEW sc, NEW b, NEW first \in DOMAIN h, IsFirst(h, first),
           h[first].v.scope = sc, b = h[first].v.bud.attempts,
           NEW T, T = {i \in DOMAIN h : h[i].v.scope = sc /\ h[i].v.tt = "launch_launched"}
    PROVE  Cardinality(T) <= b
<1>1. Len(h) \in Nat /\ DOMAIN h = 1 .. Len(h) /\ OrderOK(h) /\ BudgetOK(h)
  BY SeqDomain DEF HistoryOK
<1>2. \A i \in T : /\ i \in DOMAIN h /\ i \in Nat
                   /\ IsLaunch(h[i].v) /\ h[i].v.scope = sc /\ h[i].v.tt = "launch_launched"
  <2> SUFFICES ASSUME NEW i \in T
      PROVE /\ i \in DOMAIN h /\ i \in Nat
            /\ IsLaunch(h[i].v) /\ h[i].v.scope = sc /\ h[i].v.tt = "launch_launched"
    OBVIOUS
  <2>1. i \in DOMAIN h /\ h[i].v.scope = sc /\ h[i].v.tt = "launch_launched"
    OBVIOUS
  <2>2. IsSnapshot(h[i])
    BY <2>1 DEF HistoryOK
  <2>3. ~IsTombstone(h[i].v)
    BY <2>1 DEF IsTombstone
  <2> QED
    BY <1>1, <2>1, <2>2, <2>3 DEF IsSnapshot
<1>3. b \in Nat
  <2>1. IsSnapshot(h[first])
    BY DEF HistoryOK
  <2> QED
    BY <2>1, StateFields DEF IsSnapshot
<1>4. \A i \in T : h[i].v.cnt.attempts \in 1 .. b
  <2> SUFFICES ASSUME NEW i \in T PROVE h[i].v.cnt.attempts \in 1 .. b
    OBVIOUS
  <2>1. IsLaunch(h[i].v) /\ i \in DOMAIN h /\ h[i].v.scope = sc
    BY <1>2
  <2>2. h[i].v.cnt.attempts \in Nat /\ h[i].v.bud.attempts \in Nat
    BY <2>1, StateFields
  <2>3. h[i].v.cnt.attempts >= 1 /\ h[i].v.cnt.attempts <= h[i].v.bud.attempts /\ ~h[i].v.reset
    BY <2>1 DEF IsLaunch
  <2>4. h[i].v.bud.attempts <= b
    BY <1>1, <2>1, <2>3 DEF BudgetOK
  <2> QED
    BY <1>3, <2>2, <2>3, <2>4
<1>5. ASSUME NEW i \in T, NEW j \in T, h[i].v.cnt.attempts = h[j].v.cnt.attempts, i < j
      PROVE  FALSE
  <2>1. IsLaunch(h[i].v) /\ IsLaunch(h[j].v) /\ h[i].v.scope = h[j].v.scope
    BY <1>2
  <2>2. h[i].v.tt = "launch_launched" /\ h[j].v.tt = "launch_launched"
    BY <1>2
  <2>3. i \in DOMAIN h /\ j \in DOMAIN h /\ ~h[j].v.reset
    BY <1>2, <2>1 DEF IsLaunch
  <2>4. Precedes(h[i].v, h[j].v)
    BY <1>1, <1>5, <2>1, <2>3 DEF OrderOK
  <2>5. h[i].v.phase = "reserved"
    BY <1>5, <2>2, <2>4 DEF Precedes
  <2>6. h[i].v.phase = "launched"
    BY <2>1, <2>2 DEF IsLaunch
  <2> QED
    BY <2>5, <2>6
<1>6. PICK f : f = [i \in T |-> h[i].v.cnt.attempts]
  OBVIOUS
<1>7. f \in [T -> 1 .. b]
  BY <1>4, <1>6
<1>8. \A i, j \in T : f[i] = f[j] => i = j
  <2> SUFFICES ASSUME NEW i \in T, NEW j \in T, f[i] = f[j] PROVE i = j
    OBVIOUS
  <2>1. h[i].v.cnt.attempts = h[j].v.cnt.attempts
    BY <1>6
  <2>2. i \in Nat /\ j \in Nat
    BY <1>2
  <2>3. ~(i < j) /\ ~(j < i)
    BY <1>5, <2>1
  <2> QED
    BY <2>2, <2>3
<1>9. f \in Injection(T, 1 .. b)
  BY <1>7, <1>8, Fun_IsInj
<1>10. IsFiniteSet(1 .. b) /\ Cardinality(1 .. b) = b
  <2>1. 1 \in Int /\ b \in Int
    BY <1>3
  <2>2. IsFiniteSet(1 .. b) /\ Cardinality(1 .. b) = IF 1 > b THEN 0 ELSE b - 1 + 1
    BY <2>1, FS_Interval
  <2> QED
    BY <1>3, <2>2
<1>11. Cardinality(T) <= Cardinality(1 .. b)
  BY <1>9, <1>10, FS_Injection
<1> QED
  BY <1>10, <1>11

LEMMA Scoped ==
    ASSUME RemediationInv, NEW sc \in Scopes
    PROVE  /\ Entries(sc) # {} /\ Entries(sc) \subseteq Nat
           /\ Entries(sc) \subseteq 0 .. Len(disk.retry.hist) /\ Len(disk.retry.hist) \in Nat
<1>1. HistoryOK(disk.retry.hist)
  BY DEF RemediationInv, DiskOK, RetryOK
<1>2. Len(disk.retry.hist) \in Nat /\ DOMAIN disk.retry.hist = 1 .. Len(disk.retry.hist)
  BY <1>1, SeqDomain DEF HistoryOK
<1>3. \A i \in Entries(sc) : i \in 1 .. Len(disk.retry.hist)
  BY <1>2 DEF Entries
<1>4. \A i \in Entries(sc) : i \in Nat /\ i \in 0 .. Len(disk.retry.hist)
  BY <1>2, <1>3
<1>5. Entries(sc) # {}
  BY DEF Scopes, Entries
<1> QED
  BY <1>2, <1>4, <1>5

LEMMA WithinLaunchBudget == ASSUME RemediationInv PROVE LaunchBudget
<1> SUFFICES ASSUME NEW sc \in Scopes
    PROVE Cardinality(Launches(sc)) <= disk.retry.hist[Min(Entries(sc))].v.bud.attempts
  BY DEF LaunchBudget
<1>1. PICK h : h = disk.retry.hist
  OBVIOUS
<1>2. HistoryOK(h)
  BY <1>1 DEF RemediationInv, DiskOK, RetryOK
<1>3. PICK m : m = Min(Entries(sc))
  OBVIOUS
<1>4. m \in Entries(sc) /\ \A j \in Entries(sc) : m <= j
  BY <1>3, Scoped, MinOf
<1>5. m \in DOMAIN h /\ h[m].v.scope = sc
  BY <1>1, <1>4 DEF Entries
<1>6. IsFirst(h, m)
  BY <1>1, <1>4, <1>5 DEF IsFirst, Entries
<1>7. Launches(sc) = {i \in DOMAIN h : h[i].v.scope = sc /\ h[i].v.tt = "launch_launched"}
  BY <1>1 DEF Launches, Entries
<1>8. Cardinality(Launches(sc)) <= h[m].v.bud.attempts
  BY <1>2, <1>5, <1>6, <1>7, LaunchOrdinals
<1> QED
  BY <1>1, <1>3, <1>8

\* reserve_launch, record_launch_phase: over crashes, resumes, overlapping
\* executions and edited budgets, the agent of a scope is launched at most as
\* often as the budget the scope began with.
THEOREM LaunchesWithinBudget == Spec => []LaunchBudget
BY WithinLaunchBudget, RemediationInvariant, PTL

-----------------------------------------------------------------------------
(* What a crash leaves                                                       *)

\* The chain of a scope is unbroken, and its newest snapshot is the newest
\* one the scope has.
LEMMA NewestLoads ==
    ASSUME NEW f, HistoryOK(f.hist), Undamaged(f), NEW sc, NEW n \in DOMAIN f.hist,
           f.hist[n].v.scope = sc, \A j \in DOMAIN f.hist : f.hist[j].v.scope = sc => j <= n
    PROVE  latest_compact_retry_snapshot(f, sc) = n
<1> DEFINE h == f.hist
           chain == scan_retry_history(f, sc)
           reset == ResetAt(f, sc)
           tombs == Tombstones(f, sc)
<1>1. Len(h) \in Nat /\ DOMAIN h = 1 .. Len(h) /\ OrderOK(h) /\ ChainOK(h)
  BY SeqDomain DEF HistoryOK
<1>2. \A i \in DOMAIN h : h[i].ok /\ i \in Nat /\ i >= 1
  BY <1>1 DEF Undamaged
<1>3. tombs = {i \in DOMAIN h : h[i].v.scope = sc /\ h[i].v.reset}
  BY <1>2 DEF Tombstones
<1>4. chain = {i \in DOMAIN h : h[i].v.scope = sc /\ i >= reset}
  BY <1>2 DEF scan_retry_history
<1>5. reset = IF tombs = {} THEN 0 ELSE Max(tombs)
  BY DEF ResetAt
<1>6. \A i \in DOMAIN h : IsLaunch(h[i].v) \/ IsTombstone(h[i].v)
  BY DEF HistoryOK, IsSnapshot
<1>7. latest_compact_retry_snapshot(f, sc) = newest_of_chain(f, chain, reset)
  BY DEF latest_compact_retry_snapshot
<1>8. n \in Nat /\ n >= 1
  BY <1>2
<1> HIDE DEF chain, reset, tombs
<1>9. n \in chain /\ \A i \in chain : i \in DOMAIN h /\ i <= n /\ h[i].v.scope = sc
  <2>1. reset <= n
    <3>1. CASE tombs = {}
      BY <1>5, <1>8, <3>1
    <3>2. CASE tombs # {}
      <4>1. tombs \subseteq 0 .. Len(h)
        BY <1>1, <1>3
      <4>2. reset \in tombs
        BY <1>1, <1>5, <3>2, <4>1, MaxOf
      <4> QED
        BY <1>3, <4>2
    <3> QED
      BY <3>1, <3>2
  <2>2. n >= reset
    <3>1. reset \in Nat
      <4>1. tombs \subseteq 0 .. Len(h)
        BY <1>1, <1>3
      <4>2. CASE tombs = {}
        BY <1>5, <4>2
      <4>3. CASE tombs # {}
        <5>1. reset \in tombs
          BY <1>1, <1>5, <4>1, <4>3, MaxOf
        <5> QED
          BY <1>2, <1>3, <5>1
      <4> QED
        BY <4>2, <4>3
    <3> QED
      BY <1>8, <2>1, <3>1
  <2> QED
    BY <1>4, <2>2
<1>10. Max(chain \cup {Missing}) = n
  <2>1. \A i \in chain \cup {Missing} : i \in 0 .. Len(h)
    BY <1>1, <1>9 DEF Missing
  <2>2. PICK m : m = Max(chain \cup {Missing})
    OBVIOUS
  <2>3. chain \cup {Missing} \subseteq 0 .. Len(h) /\ chain \cup {Missing} # {}
    BY <2>1
  <2>4. m \in chain \cup {Missing} /\ \A j \in chain \cup {Missing} : j <= m
    BY <1>1, <2>2, <2>3, MaxOf
  <2>5. n <= m
    BY <1>9, <2>4
  <2>6. m \in chain
    BY <1>8, <2>4, <2>5 DEF Missing
  <2>7. m <= n /\ m \in Nat
    BY <1>2, <1>9, <2>6
  <2> QED
    BY <1>8, <2>2, <2>5, <2>7
<1>11. ASSUME NEW i \in chain
       PROVE  f.hist[i].v.pred = Max({j \in chain : j < i} \cup {Missing})
  <2>1. PICK B : B = {j \in chain : j < i} \cup {Missing}
    OBVIOUS
  <2>2. i \in DOMAIN h /\ i \in Nat /\ h[i].v.scope = sc
    BY <1>2, <1>9
  <2>3. \A j \in B : j \in 0 .. Len(h)
    BY <1>1, <1>9, <2>1 DEF Missing
  <2>4. B \subseteq 0 .. Len(h) /\ B # {}
    BY <2>1, <2>3
  <2>5. PICK m : m = Max(B)
    OBVIOUS
  <2>6. m \in B /\ \A j \in B : j <= m
    BY <1>1, <2>4, <2>5, MaxOf
  <2>7. CASE tombs = {}
    <3>1. ~h[i].v.reset
      BY <1>3, <2>2, <2>7
    <3>2. PICK p : p = h[i].v.pred
      OBVIOUS
    <3>3. IsPrevious(h, i, p)
      BY <1>1, <2>2, <3>1, <3>2 DEF ChainOK
    <3>4. p \in 0 .. (i - 1) /\ p \in Nat /\ p < i
      BY <2>2, <3>3 DEF IsPrevious
    <3>5. reset = 0
      BY <1>5, <2>7
    <3>6. p \in B
      <4>1. CASE p = Missing
        BY <2>1, <4>1
      <4>2. CASE p # Missing
        <5>1. h[p].v.scope = sc /\ p \in DOMAIN h
          BY <1>1, <2>2, <3>3, <3>4, <4>2 DEF IsPrevious, Missing
        <5>2. p \in chain
          BY <1>4, <3>4, <3>5, <5>1
        <5> QED
          BY <2>1, <3>4, <5>2
      <4> QED
        BY <4>1, <4>2
    <3>7. m <= p
      <4>1. CASE m = Missing
        BY <3>4, <4>1 DEF Missing
      <4>2. CASE m # Missing
        <5>1. m \in chain /\ m < i
          BY <2>1, <2>6, <4>2
        <5>2. m \in 1 .. (i - 1) /\ h[m].v.scope = h[i].v.scope
          BY <1>2, <1>9, <2>2, <5>1
        <5> QED
          BY <3>3, <5>2 DEF IsPrevious
      <4> QED
        BY <4>1, <4>2
    <3>8. p <= m /\ m \in Nat
      BY <2>3, <2>6, <3>6
    <3> QED
      BY <2>1, <2>5, <3>2, <3>4, <3>7, <3>8
  <2>8. CASE tombs # {}
    <3>1. tombs \subseteq 0 .. Len(h)
      BY <1>1, <1>3
    <3>2. reset \in tombs /\ \A j \in tombs : j <= reset
      BY <1>1, <1>5, <2>8, <3>1, MaxOf
    <3>3. reset \in DOMAIN h /\ reset \in Nat /\ h[reset].v.scope = sc /\ h[reset].v.reset
      BY <1>2, <1>3, <3>2
    <3>4. \A j \in chain : j = reset
      <4> SUFFICES ASSUME NEW j \in chain PROVE j = reset
        OBVIOUS
      <4>1. j \in DOMAIN h /\ j \in Nat /\ h[j].v.scope = sc /\ j >= reset
        BY <1>2, <1>4, <1>9
      <4>2. CASE j = reset
        BY <4>2
      <4>3. CASE j # reset
        <5>1. reset < j
          BY <3>3, <4>1, <4>3
        <5>2. h[j].v.reset
          BY <1>1, <3>3, <4>1, <5>1 DEF OrderOK
        <5>3. j \in tombs
          BY <1>3, <4>1, <5>2
        <5> QED
          BY <3>2, <3>3, <4>1, <5>1, <5>3
      <4> QED
        BY <4>2, <4>3
    <3>5. i = reset
      BY <3>4
    <3>6. h[i].v.pred = Missing
      BY <1>6, <3>3, <3>5 DEF IsLaunch, IsTombstone
    <3>7. \A j \in chain : ~(j < i)
      BY <2>2, <3>4, <3>5
    <3>8. m = Missing
      BY <2>1, <2>6, <3>7
    <3> QED
      BY <2>1, <2>5, <3>6, <3>8
  <2> QED
    BY <2>7, <2>8
<1>12. unbroken_chain(f, chain)
  BY <1>11 DEF unbroken_chain
<1>13. ~\E i \in DOMAIN f.hist : ~f.hist[i].ok /\ i >= reset
  BY <1>2
<1> QED
  BY <1>7, <1>10, <1>12, <1>13 DEF newest_of_chain

LEMMA LosesNothing == ASSUME RemediationInv PROVE CrashLoads
<1> SUFFICES ASSUME damage = 0, head = 1, NEW sc \in Scopes, NEW load, load = load_matching_state(disk, sc)
    PROVE ~load.err /\ load.st = disk.retry.hist[Max(Entries(sc))].v
  BY DEF CrashLoads
<1>1. PICK f : f = disk.retry
  OBVIOUS
<1>2. RetryOK(f) /\ Undamaged(f) /\ ScopesOK(f.hist, head, plan)
  BY <1>1 DEF RemediationInv, DiskOK
<1>3. PICK n : n = Max(Entries(sc))
  OBVIOUS
<1>4. n \in Entries(sc) /\ \A j \in Entries(sc) : j <= n
  BY <1>3, Scoped, MaxOf
<1>5. n \in DOMAIN f.hist /\ f.hist[n].v.scope = sc
  BY <1>1, <1>4 DEF Entries
<1>6. \A j \in DOMAIN f.hist : f.hist[j].v.scope = sc => j <= n
  BY <1>1, <1>4 DEF Entries
<1>7. latest_compact_retry_snapshot(f, sc) = n
  BY <1>2, <1>5, <1>6, NewestLoads DEF RetryOK
<1>8. DOMAIN f.hist = 1 .. Len(f.hist) /\ Len(f.hist) \in Nat
  BY <1>2, SeqDomain DEF RetryOK, HistoryOK
<1>9. n \in Nat /\ n >= 1
  BY <1>5, <1>8
<1>10. \A i \in DOMAIN f.hist : f.hist[i].ok /\ f.hist[i].head = f.hist[i].v.scope[1] /\ f.hist[i].v.scope[1] = 1
  <2> SUFFICES ASSUME NEW i \in DOMAIN f.hist
      PROVE f.hist[i].ok /\ f.hist[i].head = f.hist[i].v.scope[1] /\ f.hist[i].v.scope[1] = 1
    OBVIOUS
  <2>1. IsSnapshot(f.hist[i])
    BY <1>2 DEF RetryOK, HistoryOK
  <2>2. f.hist[i].v.scope[1] \in Positive
    BY <2>1, StateFields DEF IsSnapshot
  <2>3. f.hist[i].v.scope[1] <= 1
    BY <1>2 DEF ScopesOK
  <2>4. f.hist[i].head = f.hist[i].v.scope[1]
    BY <2>1 DEF IsSnapshot
  <2>5. f.hist[i].ok
    BY <1>2 DEF Undamaged
  <2> QED
    BY <2>2, <2>3, <2>4, <2>5 DEF Positive
<1>11. sc[1] = 1
  BY <1>5, <1>10
<1>12. PICK cur : cur = read_recoverable_current_json(f, sc[1])
  OBVIOUS
<1>13. f.canon \in Nat /\ f.canon <= Len(f.hist) /\ ~f.spoiled
  BY <1>2 DEF RetryOK, IsFamily, Undamaged
<1>14. cur # "corrupt"
  <2>1. CASE f.canon = Missing
    BY <1>12, <2>1 DEF read_recoverable_current_json
  <2>2. CASE f.canon # Missing
    <3>1. f.canon \in DOMAIN f.hist
      BY <1>8, <1>13, <2>2 DEF Missing
    <3>2. f.hist[f.canon].ok /\ f.hist[f.canon].head = sc[1]
      BY <1>10, <1>11, <3>1
    <3>3. validate_canonical_matches_immutable_history(f, sc[1])
      BY <3>1, <3>2 DEF validate_canonical_matches_immutable_history,
              recoverable_history_candidates, validate_artifact_value
    <3> QED
      BY <1>12, <1>13, <2>2, <3>3 DEF read_recoverable_current_json
  <2> QED
    BY <2>1, <2>2
<1>15. ~canonical_contradicts(f, sc, cur, n)
  <2>1. ASSUME cur = "valid", f.hist[f.canon].v.scope = sc, n < f.canon PROVE FALSE
    <3>1. f.canon \in DOMAIN f.hist
      BY <1>8, <1>9, <1>13, <2>1
    <3>2. f.canon <= n
      BY <1>6, <2>1, <3>1
    <3> QED
      BY <1>9, <1>13, <2>1, <3>2
  <2>2. n # Missing
    BY <1>9 DEF Missing
  <2> QED
    BY <1>14, <2>1, <2>2 DEF canonical_contradicts
<1>16. load = recover_retry_state(disk, n, canonical_contradicts(f, sc, cur, n))
  BY <1>1, <1>7, <1>12 DEF load_matching_state, reconcile_canonical
<1>17. n # -1 /\ n # Missing
  BY <1>9 DEF Missing
<1>18. load.err = FALSE /\ load.st = f.hist[n].v
  BY <1>1, <1>15, <1>16, <1>17 DEF recover_retry_state
<1> QED
  BY <1>1, <1>3, <1>18

\* load_matching_state: wherever the writes of the retry state were cut off,
\* every scope written at this head loads, and what loads is the newest
\* snapshot written for it.
THEOREM CrashesLoseNothing == Spec => []CrashLoads
BY LosesNothing, RemediationInvariant, PTL

-----------------------------------------------------------------------------
(* The quality of a remediation result                                      *)

Plan(pln) ==
    /\ pln.must_fix \in Seq([key : STRING, head : STRING, marker : STRING, hash : STRING])
    /\ pln.must_fix # << >>

\* plan_items_by_key: two items of the map never share a key.
LEMMA OneItemPerKey ==
    ASSUME NEW pln, Plan(pln),
           NEW p \in plan_items_by_key(pln), NEW q \in plan_items_by_key(pln), p.key = q.key
    PROVE  p = q
<1> USE DEF plan_items_by_key
<1>1. PICK n \in DOMAIN pln.must_fix :
         /\ p = pln.must_fix[n]
         /\ \A m \in DOMAIN pln.must_fix : pln.must_fix[m].key = pln.must_fix[n].key => m <= n
  OBVIOUS
<1>2. PICK m \in DOMAIN pln.must_fix :
         /\ q = pln.must_fix[m]
         /\ \A k \in DOMAIN pln.must_fix : pln.must_fix[k].key = pln.must_fix[m].key => k <= m
  OBVIOUS
<1>3. n \in Nat /\ m \in Nat
  BY DEF Plan
<1>4. m <= n /\ n <= m
  BY <1>1, <1>2
<1> QED
  BY <1>1, <1>2, <1>3, <1>4

\* wrapper_failure_result_item: it carries the identity of the plan's item.
LEMMA WrapperItem ==
    ASSUME NEW b, NEW p, NEW i, i = wrapper_failure_result_item(b, p)
    PROVE  /\ i.key = p.key /\ i.head = b.head /\ i.marker = p.marker /\ i.hash = p.hash
           /\ i.response # Null /\ i.status = "failed"
<1>1. i.key = p.key /\ i.head = b.head /\ i.marker = p.marker /\ i.hash = p.hash
  BY DEF wrapper_failure_result_item
<1>2. i.response # Null
  BY DEF wrapper_failure_result_item, Null
<1>3. i.status = "failed"
  BY DEF wrapper_failure_result_item
<1> QED
  BY <1>1, <1>2, <1>3

\* semantic_remediation_validation: a result counts as a success only when
\* every item the plan must fix has exactly one result, that result is of a
\* successful kind and is bound to the head and the wording the plan saw, what
\* was fixed is evidenced at the head the work directory is left at, and no
\* result answers anything the plan does not ask for.
THEOREM GoodCoversPlan ==
    ASSUME NEW b, NEW pln, NEW document, result_quality(b, pln, document) = "good"
    PROVE  LET r == normalize_remediation_result_for_validation(b, pln, document) IN
           /\ \A p \in plan_items_by_key(pln) :
                 \E n \in DOMAIN r.results :
                    /\ r.results[n].key = p.key
                    /\ r.results[n].status \in success_statuses
                    /\ validate_result_binding(b, p, r.results[n])
                    /\ r.results[n].status \in {"fixed", "changed"} => r.results[n].evidence.head = r.out
                    /\ \A m \in DOMAIN r.results : r.results[m].key = p.key => m = n
           /\ \A n \in DOMAIN r.results :
                 \E p \in plan_items_by_key(pln) : p.key = r.results[n].key
<1> DEFINE r == normalize_remediation_result_for_validation(b, pln, document)
<1>1. semantic_remediation_validation(b, pln, r) /\ Successful(r)
  BY DEF result_quality
<1> HIDE DEF r
<1>2. \A n \in DOMAIN r.results :
         /\ r.results[n].status \in success_statuses
         /\ validate_item_identity(b, pln, r.results[n])
         /\ validate_success_evidence(b, r, r.results[n])
  BY <1>1 DEF semantic_remediation_validation, Successful, validate_result_item
<1>3. validate_complete_result_coverage(pln, r)
  BY <1>1 DEF semantic_remediation_validation
<1>4. ASSUME NEW p \in plan_items_by_key(pln)
      PROVE  \E n \in DOMAIN r.results :
                /\ r.results[n].key = p.key
                /\ r.results[n].status \in success_statuses
                /\ validate_result_binding(b, p, r.results[n])
                /\ r.results[n].status \in {"fixed", "changed"} => r.results[n].evidence.head = r.out
                /\ \A m \in DOMAIN r.results : r.results[m].key = p.key => m = n
  <2>1. PICK n \in DOMAIN r.results :
           /\ r.results[n].key = p.key
           /\ \A m \in DOMAIN r.results : r.results[m].key = p.key => m = n
    BY <1>3 DEF validate_complete_result_coverage
  <2>2. validate_result_binding(b, p, r.results[n])
    BY <1>2, <2>1 DEF validate_item_identity
  <2>3. r.results[n].status \in {"fixed", "changed"} => r.results[n].evidence.head = r.out
    BY <1>2 DEF validate_success_evidence, validate_fixed_evidence
  <2> QED
    BY <1>2, <2>1, <2>2, <2>3
<1>5. \A n \in DOMAIN r.results : \E p \in plan_items_by_key(pln) : p.key = r.results[n].key
  BY <1>2 DEF validate_item_identity
<1> QED
  BY <1>4, <1>5 DEF r

\* wrapper_failure_payload: whatever plan was being worked on, the failure
\* result the executor writes for an agent that left none is read back as an
\* unsuccessful attempt, so it is charged to the remediation attempts and
\* never to the retries of a malformed or a stale result.
THEOREM WrapperIsUnsuccessful ==
    ASSUME NEW b, NEW pln, NEW out, Plan(pln), pln.seq # Null, b.id # Null, b.head # Null,
           \A n \in DOMAIN pln.must_fix :
               pln.must_fix[n].key # Null /\ pln.must_fix[n].head = b.head,
           \A n, m \in DOMAIN pln.must_fix : pln.must_fix[n].key = pln.must_fix[m].key => n = m
    PROVE  result_quality(b, pln, wrapper_failure_payload(b, pln, out)) = "unsuccessful"
<1> DEFINE w == wrapper_failure_payload(b, pln, out)
           r == normalize_remediation_result_for_validation(b, pln, w)
<1>1. /\ w.id = b.id /\ w.head = b.head /\ w.plan = pln.seq
      /\ backfill_current_retry_scope(b, pln, w) = wrapper_failure_retry_scope(b, pln, out)
      /\ r = [w EXCEPT !.plan = pln.seq, !.scope = wrapper_failure_retry_scope(b, pln, out)]
  <2>1. w.id = b.id /\ w.head = b.head /\ w.plan = pln.seq /\ w.out = out
        /\ w.scope = wrapper_failure_retry_scope(b, pln, out)
    BY DEF wrapper_failure_payload
  <2> HIDE DEF w
  <2>2. backfill_current_retry_scope(b, pln, w) = wrapper_failure_retry_scope(b, pln, out)
    BY <2>1 DEF backfill_current_retry_scope, Filled, wrapper_failure_retry_scope
  <2> QED
    BY <2>1, <2>2 DEF normalize_remediation_result_for_validation, top_level_current
<1>2. /\ r.id = b.id /\ r.head = b.head /\ r.out = out /\ r.plan = pln.seq
      /\ r.state = "unvalidated" /\ r.replay_error = FALSE
      /\ r.scope = wrapper_failure_retry_scope(b, pln, out)
      /\ DOMAIN r.results = DOMAIN pln.must_fix
      /\ \A n \in DOMAIN pln.must_fix : r.results[n] = wrapper_failure_result_item(b, pln.must_fix[n])
  <2> HIDE DEF r
  <2> QED
    BY <1>1 DEF wrapper_failure_payload
<1> HIDE DEF r
<1>3. /\ r.scope.id = b.id /\ r.scope.head = b.head /\ r.scope.plan = pln.seq
      /\ r.scope.out = out /\ r.scope.kind = ScopeKind
  BY <1>2 DEF wrapper_failure_retry_scope
<1>4. ~classify_stale_remediation_scope(b, pln, r)
  BY <1>2, <1>3 DEF classify_stale_remediation_scope, compare_required_scope_fields,
              compare_optional_scope_fields
<1>5. plan_items_by_key(pln) = {pln.must_fix[n] : n \in DOMAIN pln.must_fix}
  <2>1. \A n \in DOMAIN pln.must_fix : n \in Nat
    BY DEF Plan
  <2>2. {n \in DOMAIN pln.must_fix :
           /\ pln.must_fix[n].key # Null
           /\ \A m \in DOMAIN pln.must_fix : pln.must_fix[m].key = pln.must_fix[n].key => m <= n}
        = DOMAIN pln.must_fix
    BY <2>1
  <2> QED
    BY <2>2 DEF plan_items_by_key
<1>6. \A n \in DOMAIN pln.must_fix :
         /\ r.results[n].key = pln.must_fix[n].key
         /\ r.results[n].head = b.head
         /\ r.results[n].marker = pln.must_fix[n].marker
         /\ r.results[n].hash = pln.must_fix[n].hash
         /\ r.results[n].response # Null
         /\ r.results[n].status = "failed"
  <2> SUFFICES ASSUME NEW n \in DOMAIN pln.must_fix
              PROVE  /\ r.results[n].key = pln.must_fix[n].key
                     /\ r.results[n].head = b.head
                     /\ r.results[n].marker = pln.must_fix[n].marker
                     /\ r.results[n].hash = pln.must_fix[n].hash
                     /\ r.results[n].response # Null
                     /\ r.results[n].status = "failed"
    OBVIOUS
  <2>1. r.results[n] = wrapper_failure_result_item(b, pln.must_fix[n])
    BY <1>2
  <2> QED
    BY <2>1, WrapperItem
<1>7. 1 \in DOMAIN pln.must_fix /\ r.results # << >>
  <2>1. 1 \in DOMAIN pln.must_fix
    BY DEF Plan
  <2> QED
    BY <1>2, <2>1
<1>8. ~top_level_remediation_errors(b, pln, r)
  BY <1>2, <1>7 DEF top_level_remediation_errors
<1>9. ASSUME NEW n \in DOMAIN r.results
      PROVE  validate_result_item(b, pln, r, r.results[n])
  <2>1. pln.must_fix[n] \in plan_items_by_key(pln)
    BY <1>2, <1>5
  <2>2. ASSUME NEW p \in plan_items_by_key(pln), p.key = r.results[n].key
        PROVE  validate_result_binding(b, p, r.results[n])
    <3>1. p = pln.must_fix[n]
      BY <1>2, <1>6, <2>1, <2>2, OneItemPerKey
    <3> QED
      BY <1>2, <1>6, <3>1 DEF validate_result_binding
  <2>3. validate_item_identity(b, pln, r.results[n])
    BY <1>2, <1>6, <2>1, <2>2 DEF validate_item_identity
  <2> QED
    BY <1>2, <1>6, <2>3 DEF validate_result_item, validate_item_status, validate_success_evidence,
                            success_statuses, unsuccessful_statuses
<1>10. validate_complete_result_coverage(pln, r)
  <2>1. ASSUME NEW p \in plan_items_by_key(pln)
        PROVE  \E n \in DOMAIN r.results :
                  /\ r.results[n].key = p.key
                  /\ \A m \in DOMAIN r.results : r.results[m].key = p.key => m = n
    <3>1. PICK n \in DOMAIN pln.must_fix : p = pln.must_fix[n]
      BY <1>5
    <3> QED
      BY <1>2, <1>6, <3>1
  <2> QED
    BY <2>1 DEF validate_complete_result_coverage
<1>11. ~Successful(r)
  BY <1>2, <1>6, <1>7 DEF Successful, success_statuses
<1> QED
  BY <1>4, <1>8, <1>9, <1>10, <1>11 DEF result_quality, semantic_remediation_validation, r
=============================================================================
