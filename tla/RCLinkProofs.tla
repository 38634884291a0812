---------------------------- MODULE RCLinkProofs ----------------------------
(***************************************************************************)
(* What is proved of a connection.  The WRs processed so far are a plan    *)
(* (Numbered).  The requester sends packets of the plan only (Sends), the  *)
(* responder takes them in its order (TakesPlan), and what answers say of  *)
(* the responder stays true, however late they arrive (Told).  Linked      *)
(* joins the three.  Paced says how far apart the ends can be, as PSNs     *)
(* compare only within half of their space.  All theorems follow.          *)
(***************************************************************************)
EXTENDS RCLink, RequesterProofs, ResponderProofs

-----------------------------------------------------------------------------
(***************************************************************************)
(* The WRs the requester has sent: number s is plan[s] and takes the PSNs  *)
(* from start[s] up to start[s + 1], counted from the first one.           *)
(***************************************************************************)
Numbered(n, plan, start) ==
  /\ n \in Nat /\ plan \in [1 .. n -> WorkReqs] /\ start \in [1 .. (n + 1) -> Nat]
  /\ start[1] = 0
  /\ \A s \in 1 .. n : start[s + 1] = start[s] + plan[s].n
  /\ \A a, b \in 1 .. (n + 1) : a < b => start[a] < start[b]

\* One more WR.
OneMorePlan(n, plan, w) == [s \in 1 .. (n + 1) |-> IF s <= n THEN plan[s] ELSE w]

OneMoreStart(n, start, w) ==
  [s \in 1 .. (n + 2) |-> IF s <= n + 1 THEN start[s] ELSE start[n + 1] + w.n]

Extends(n, plan, start, m, plan2, start2) ==
  /\ n <= m
  /\ \A s \in 1 .. n : plan2[s] = plan[s]
  /\ \A s \in 1 .. (n + 1) : start2[s] = start[s]

LEMMA WorkReqLength ==
  ASSUME NEW w \in WorkReqs
  PROVE  /\ w.n \in Nat /\ w.n >= 1 /\ w.op \in Ops /\ w.sig \in BOOLEAN
         /\ w.op = "ATOMIC" => w.n = 1
  <1>1. w \in WorkReq
    BY WorkReqsAssumption
  <1>. QED BY <1>1, WorkReqsAssumption DEF WorkReq

LEMMA OneMoreNumbered ==
  ASSUME NEW n, NEW plan, NEW start, Numbered(n, plan, start), NEW w \in WorkReqs
  PROVE  /\ Numbered(n + 1, OneMorePlan(n, plan, w), OneMoreStart(n, start, w))
         /\ Extends(n, plan, start, n + 1, OneMorePlan(n, plan, w), OneMoreStart(n, start, w))
         /\ OneMorePlan(n, plan, w)[n + 1] = w
         /\ OneMoreStart(n, start, w)[n + 2] = start[n + 1] + w.n
  <1> DEFINE P == OneMorePlan(n, plan, w)
             S == OneMoreStart(n, start, w)
  <1>1. /\ n \in Nat /\ start[1] = 0 /\ \A s \in 1 .. (n + 1) : start[s] \in Nat
        /\ \A s \in 1 .. n : plan[s] \in WorkReqs /\ start[s + 1] = start[s] + plan[s].n
        /\ \A a, b \in 1 .. (n + 1) : a < b => start[a] < start[b]
    BY DEF Numbered
  <1>2. w.n \in Nat /\ w.n >= 1
    BY WorkReqLength
  <1>3. /\ P \in [1 .. (n + 1) -> WorkReqs] /\ P[n + 1] = w
        /\ \A s \in 1 .. n : P[s] = plan[s]
    BY <1>1 DEF OneMorePlan
  <1>4. /\ S \in [1 .. (n + 2) -> Nat] /\ S[n + 2] = start[n + 1] + w.n
        /\ \A s \in 1 .. (n + 1) : S[s] = start[s]
    BY <1>1, <1>2 DEF OneMoreStart
  <1> HIDE DEF P, S
  <1>5. ASSUME NEW s \in 1 .. (n + 1) PROVE S[s + 1] = S[s] + P[s].n
    <2>1. CASE s <= n
      <3>1. s \in 1 .. n /\ s + 1 \in 1 .. (n + 1)
        BY <1>1, <2>1
      <3>. QED BY <1>1, <1>3, <1>4, <3>1
    <2>2. CASE s = n + 1
      <3>1. S[s + 1] = S[n + 2]
        BY <1>1, <2>2
      <3>. QED BY <1>1, <1>3, <1>4, <2>2, <3>1
    <2>. QED BY <1>1, <2>1, <2>2
  <1>6. ASSUME NEW a \in 1 .. (n + 2), NEW b \in 1 .. (n + 2), a < b PROVE S[a] < S[b]
    <2>1. CASE b <= n + 1
      BY <1>1, <1>4, <1>6, <2>1
    <2>2. CASE b = n + 2
      <3>1. a \in 1 .. (n + 1) /\ n + 1 \in 1 .. (n + 1)
        BY <1>1, <1>6, <2>2
      <3>2. start[a] <= start[n + 1]
        BY <1>1, <3>1
      <3>. QED BY <1>1, <1>2, <1>4, <2>2, <3>1, <3>2
    <2>. QED BY <1>1, <2>1, <2>2
  <1>7. S[1] = 0
    BY <1>1, <1>4
  <1>8. n + 1 + 1 = n + 2
    BY <1>1
  <1>9. Numbered(n + 1, P, S)
    BY <1>1, <1>3, <1>4, <1>5, <1>6, <1>7, <1>8 DEF Numbered
  <1>10. Extends(n, plan, start, n + 1, P, S)
    BY <1>1, <1>3, <1>4 DEF Extends
  <1>. QED BY <1>3, <1>4, <1>9, <1>10 DEF P, S

-----------------------------------------------------------------------------
(***************************************************************************)
(* The packets of the plan, and the contexts that are about its WRs.       *)
(***************************************************************************)
PsnsOf(c) == c.first .. (c.first + c.wr.n - 1)

PlanCtx(s, plan, start) == WrCtx(plan[s], InitPsn + start[s], {})

OnWire(k, n, plan, start) ==
  \E s \in 1 .. n : \E p \in PsnsOf(PlanCtx(s, plan, start)) :
    k = Packet(s, PlanCtx(s, plan, start), p)

FromPlan(P, n, plan, start) ==
  \A s \in DOMAIN P :
    /\ s \in 1 .. n /\ P[s].wr = plan[s] /\ P[s].first = InitPsn + start[s]
    /\ DOMAIN P[s].pkts \subseteq PsnsOf(P[s]) /\ P[s].first \in DOMAIN P[s].pkts

\* Every PSN from the first one of WR m on has an owner.
Owned(R, m, start) ==
  \A p \in (InitPsn + start[m]) .. (sqPsn - 1) : p \in DOMAIN R \cup DOMAIN respSsn

Working == Running /\ qps = "RTS"

Sends(n, plan, start) ==
  /\ Numbered(n, plan, start) /\ n <= posted
  /\ sqPsn = InitPsn + start[n + 1]
  /\ Running => ssn = n + 1
  /\ Working => /\ 1 <= mssn /\ mssn <= n + 1
                /\ FromPlan(pend, n, plan, start)
                /\ \A s \in DOMAIN readPsn : pend[s].first <= readPsn[s]
                /\ Owned(reqSsn, mssn, start)
                /\ mssn = ssn => mpsn = sqPsn

\* What a call leaves behind: the plan, longer when a request was processed, and
\* packets of its WRs.
SendsNext(n, plan, start) ==
  \E m, plan2, start2 :
    /\ Extends(n, plan, start, m, plan2, start2)
    /\ Sends(m, plan2, start2)'
    /\ \A k \in tx' : OnWire(k, m, plan2, start2)

\* What the requester knows of itself.
ReqInv(N) == Inv /\ WindowInv /\ Completed /\ IndexInv(N)

LEMMA SamePacket ==
  ASSUME NEW s, NEW c, NEW d, c.wr = d.wr, c.first = d.first, NEW p
  PROVE  Packet(s, c, p) = Packet(s, d, p)
  BY DEF Packet, Place

LEMMA CtxPacket ==
  ASSUME NEW P, NEW n, NEW plan, NEW start, FromPlan(P, n, plan, start),
         NEW s \in DOMAIN P, NEW p \in DOMAIN P[s].pkts
  PROVE  OnWire(Packet(s, P[s], p), n, plan, start)
  <1> DEFINE c == PlanCtx(s, plan, start)
  <1>1. s \in 1 .. n /\ P[s].wr = plan[s] /\ P[s].first = InitPsn + start[s] /\ p \in PsnsOf(P[s])
    BY DEF FromPlan
  <1>2. c.wr = plan[s] /\ c.first = InitPsn + start[s]
    BY DEF PlanCtx, WrCtx
  <1> HIDE DEF c
  <1>3. p \in PsnsOf(c) /\ Packet(s, P[s], p) = Packet(s, c, p)
    BY <1>1, <1>2, SamePacket DEF PsnsOf
  <1>. QED BY <1>1, <1>3 DEF OnWire, c

LEMMA ExtendsWire ==
  ASSUME NEW n, NEW plan, NEW start, Numbered(n, plan, start), NEW m \in Nat, NEW plan2, NEW start2,
         Extends(n, plan, start, m, plan2, start2), NEW k, OnWire(k, n, plan, start)
  PROVE  OnWire(k, m, plan2, start2)
  <1>1. PICK s \in 1 .. n : \E p \in PsnsOf(PlanCtx(s, plan, start)) :
                              k = Packet(s, PlanCtx(s, plan, start), p)
    BY DEF OnWire
  <1>2. n \in Nat /\ s \in 1 .. m /\ s \in 1 .. (n + 1)
    BY DEF Numbered, Extends
  <1>3. PlanCtx(s, plan2, start2) = PlanCtx(s, plan, start)
    BY <1>2 DEF Extends, PlanCtx
  <1>. QED BY <1>1, <1>2, <1>3 DEF OnWire

LEMMA ExtendsFromPlan ==
  ASSUME NEW n, NEW plan, NEW start, Numbered(n, plan, start), NEW m \in Nat, NEW plan2, NEW start2,
         Extends(n, plan, start, m, plan2, start2), NEW P, FromPlan(P, n, plan, start)
  PROVE  FromPlan(P, m, plan2, start2)
  <1> SUFFICES ASSUME NEW s \in DOMAIN P
               PROVE  /\ s \in 1 .. m /\ P[s].wr = plan2[s] /\ P[s].first = InitPsn + start2[s]
                      /\ DOMAIN P[s].pkts \subseteq PsnsOf(P[s]) /\ P[s].first \in DOMAIN P[s].pkts
    BY DEF FromPlan
  <1>1. n \in Nat /\ s \in 1 .. n /\ P[s].wr = plan[s] /\ P[s].first = InitPsn + start[s]
    BY DEF FromPlan, Numbered
  <1>2. s \in 1 .. m /\ s \in 1 .. (n + 1)
    BY <1>1 DEF Extends
  <1>. QED BY <1>1, <1>2 DEF Extends, FromPlan

-----------------------------------------------------------------------------
(***************************************************************************)
(* Whose PSN it is: the indexes agree with the plan.                       *)
(***************************************************************************)
Owns(R, n, start) ==
  \A p \in DOMAIN R : /\ p \in Int /\ R[p] \in 1 .. n
                      /\ InitPsn + start[R[p]] <= p /\ p < InitPsn + start[R[p] + 1]

LEMMA PlanOrder ==
  ASSUME NEW n, NEW plan, NEW start, Numbered(n, plan, start)
  PROVE  /\ n \in Nat /\ start[1] = 0 /\ n + 1 \in 1 .. (n + 1)
         /\ \A a \in 1 .. (n + 1) : start[a] \in Nat /\ start[a] <= start[n + 1]
         /\ \A a, b \in 1 .. (n + 1) : a < b => start[a] < start[b]
         /\ \A a, b \in 1 .. (n + 1) : a <= b => start[a] <= start[b]
         /\ \A s \in 1 .. n : /\ s \in 1 .. (n + 1) /\ s + 1 \in 1 .. (n + 1)
                              /\ plan[s] \in WorkReqs /\ plan[s].n \in Nat /\ plan[s].n >= 1
                              /\ start[s + 1] = start[s] + plan[s].n
  <1>1. /\ n \in Nat /\ start[1] = 0 /\ n + 1 \in 1 .. (n + 1)
        /\ \A a \in 1 .. (n + 1) : start[a] \in Nat
        /\ \A a, b \in 1 .. (n + 1) : a < b => start[a] < start[b]
        /\ \A s \in 1 .. n : plan[s] \in WorkReqs /\ start[s + 1] = start[s] + plan[s].n
    BY DEF Numbered
  <1>2. \A a, b \in 1 .. (n + 1) : a <= b => start[a] <= start[b]
    BY <1>1
  <1>3. \A a \in 1 .. (n + 1) : start[a] <= start[n + 1]
    BY <1>1, <1>2
  <1>4. \A s \in 1 .. n : /\ s \in 1 .. (n + 1) /\ s + 1 \in 1 .. (n + 1)
                          /\ plan[s].n \in Nat /\ plan[s].n >= 1
    BY <1>1, WorkReqLength
  <1>. QED BY <1>1, <1>2, <1>3, <1>4

LEMMA InitPsnType == InitPsn \in Nat /\ InitPsn < MAX_PSN /\ MAX_PSN \in Nat /\ RespInitPsn = InitPsn
  BY RequesterAssumption, LinkAssumption, MaxPsnAssumption DEF Psn

\* A PSN from the first one of WR m on belongs to m or to a later WR, ...
LEMMA OwnsAfter ==
  ASSUME NEW n, NEW plan, NEW start, Numbered(n, plan, start), NEW R, Owns(R, n, start),
         NEW p \in DOMAIN R, NEW m \in 1 .. (n + 1), InitPsn + start[m] <= p
  PROVE  m <= R[p]
  <1>1. p \in Int /\ R[p] \in 1 .. n /\ p < InitPsn + start[R[p] + 1]
    BY DEF Owns
  <1>2. n \in Nat /\ R[p] + 1 \in 1 .. (n + 1) /\ start[m] \in Nat /\ start[R[p] + 1] \in Nat
    BY <1>1, PlanOrder
  <1>3. R[p] + 1 <= m => start[R[p] + 1] <= start[m]
    BY <1>2, PlanOrder
  <1>. QED BY <1>1, <1>2, <1>3, InitPsnType

\* ... and the WR with its last PSN before b is that with PSN b - 1.
LEMMA EndsAt ==
  ASSUME NEW n, NEW plan, NEW start, Numbered(n, plan, start), NEW R, Owns(R, n, start),
         NEW p \in DOMAIN R, NEW t \in 1 .. n, p + 1 = InitPsn + start[t + 1]
  PROVE  p + 1 = InitPsn + start[R[p] + 1]
  <1> DEFINE s == R[p]
  <1>1. p \in Int /\ s \in 1 .. n /\ InitPsn + start[s] <= p /\ p < InitPsn + start[s + 1]
    BY DEF Owns
  <1> HIDE DEF s
  <1>2. /\ n \in Nat /\ s \in 1 .. (n + 1) /\ s + 1 \in 1 .. (n + 1) /\ t + 1 \in 1 .. (n + 1)
        /\ start[s] \in Nat /\ start[s + 1] \in Nat /\ start[t + 1] \in Nat
    BY <1>1, PlanOrder
  <1>3. /\ t + 1 <= s => start[t + 1] <= start[s]
        /\ s < t => start[s + 1] < start[t + 1]
    BY <1>2, PlanOrder
  <1>4. s = t
    BY <1>1, <1>2, <1>3, InitPsnType
  <1>. QED BY <1>4 DEF s

LEMMA CtxOwns ==
  ASSUME NEW n, NEW plan, NEW start, Numbered(n, plan, start), NEW P, FromPlan(P, n, plan, start),
         NEW R, Indexed(P, R)
  PROVE  Owns(R, n, start)
  <1> SUFFICES ASSUME NEW p \in DOMAIN R
               PROVE  /\ p \in Int /\ R[p] \in 1 .. n
                      /\ InitPsn + start[R[p]] <= p /\ p < InitPsn + start[R[p] + 1]
    BY DEF Owns
  <1> DEFINE s == R[p]
  <1>1. s \in DOMAIN P /\ p \in DOMAIN P[s].pkts
    BY DEF Indexed
  <1> HIDE DEF s
  <1>2. s \in 1 .. n /\ p \in (InitPsn + start[s]) .. (InitPsn + start[s] + plan[s].n - 1)
    BY <1>1 DEF FromPlan, PsnsOf
  <1>3. start[s] \in Nat /\ plan[s].n \in Nat /\ start[s + 1] = start[s] + plan[s].n
    BY <1>2, PlanOrder
  <1>4. /\ p \in Int /\ InitPsn + start[s] <= p /\ p < InitPsn + start[s + 1]
    BY <1>2, <1>3, InitPsnType
  <1>. QED BY <1>2, <1>4 DEF s

LEMMA AnswersOwn ==
  ASSUME NEW n, NEW plan, NEW start, Numbered(n, plan, start), FromPlan(pend, n, plan, start),
         Answers(pend), \A p \in DOMAIN respSsn : respSsn[p] \in Reads(pend),
         InitPsn + start[n + 1] < MAX_PSN
  PROVE  Owns(respSsn, n, start)
  <1> SUFFICES ASSUME NEW p \in DOMAIN respSsn
               PROVE  /\ p \in Int /\ respSsn[p] \in 1 .. n
                      /\ InitPsn + start[respSsn[p]] <= p /\ p < InitPsn + start[respSsn[p] + 1]
    BY DEF Owns
  <1> DEFINE s == respSsn[p]
             a == pend[s].first
             e == a + pend[s].wr.n
  <1>1. s \in Reads(pend) /\ s \in DOMAIN pend
    BY DEF Reads
  <1>2. p \in psn_range(a, e % MAX_PSN)
    BY <1>1 DEF Answers
  <1>3. s \in 1 .. n /\ a = InitPsn + start[s] /\ pend[s].wr = plan[s]
    BY <1>1 DEF FromPlan
  <1> HIDE DEF s
  <1>4. /\ start[s] \in Nat /\ start[s + 1] \in Nat /\ start[n + 1] \in Nat
        /\ start[s + 1] = start[s] + plan[s].n /\ plan[s].n \in Nat
        /\ start[s + 1] <= start[n + 1]
    BY <1>3, PlanOrder
  <1>5. a \in Nat /\ e \in Nat /\ a <= e /\ e = InitPsn + start[s + 1] /\ e < MAX_PSN
    BY <1>3, <1>4, InitPsnType
  <1> HIDE DEF a, e
  <1>6. e % MAX_PSN = e
    BY <1>5, InitPsnType, ModLow
  <1>7. a \in 0 .. (MAX_PSN - 1) /\ e \in 0 .. (MAX_PSN - 1) /\ MAX_PSN > 1
    BY <1>5, InitPsnType, MaxPsnAssumption
  <1>8. p \in {x \in 0 .. (MAX_PSN - 1) : a <= x /\ x < e}
    BY <1>2, <1>5, <1>6, <1>7, InitPsnType, RangeSetCases DEF psn_range
  <1>. QED BY <1>3, <1>5, <1>8 DEF s

-----------------------------------------------------------------------------
(***************************************************************************)
(* What a working requester has of the plan, and what implicit             *)
(* acknowledgements and retries leave of it.                               *)
(***************************************************************************)
HasPlan(n, plan, start) ==
  /\ Work /\ Books(pend, reqSsn, mssn) /\ Indexed(pend, reqSsn) /\ Answers(pend)
  /\ Numbered(n, plan, start) /\ FromPlan(pend, n, plan, start)
  /\ Owns(reqSsn, n, start) /\ Owns(respSsn, n, start) /\ Owned(reqSsn, mssn, start)
  /\ \A s \in DOMAIN readPsn : s \in DOMAIN pend /\ pend[s].first <= readPsn[s]
  /\ mssn \in 1 .. (n + 1) /\ mssn <= ssn /\ ssn = n + 1
  /\ sqPsn = InitPsn + start[n + 1] /\ sqPsn < MAX_PSN

LEMMA WorkingPlan ==
  ASSUME NEW N, ReqInv(N), NEW n, NEW plan, NEW start, Sends(n, plan, start), Working
  PROVE  HasPlan(n, plan, start)
  <1>1. Work /\ Rest
    BY InvSplit DEF ReqInv
  <1>2. /\ Books(pend, reqSsn, mssn) /\ Indexed(pend, reqSsn) /\ Answers(pend) /\ mssn <= ssn
    BY DEF ReqInv, WindowInv, IndexInv, Completed, Working
  <1>3. /\ Numbered(n, plan, start) /\ FromPlan(pend, n, plan, start)
        /\ sqPsn = InitPsn + start[n + 1]
        /\ ssn = n + 1 /\ 1 <= mssn /\ mssn <= n + 1 /\ Owned(reqSsn, mssn, start)
        /\ \A s \in DOMAIN readPsn : pend[s].first <= readPsn[s]
    BY DEF Sends, Working
  <1>4. sqPsn < MAX_PSN /\ mssn \in Int
    BY <1>1, RequesterAssumption, MaxPsnAssumption DEF Work, Psn, Ssn
  <1>5. Owns(reqSsn, n, start)
    BY <1>2, <1>3, CtxOwns
  <1>6. \A p \in DOMAIN respSsn : respSsn[p] \in Reads(pend)
    BY <1>2 DEF Books
  <1>7. Owns(respSsn, n, start)
    BY <1>2, <1>3, <1>4, <1>6, AnswersOwn
  <1>8. mssn \in 1 .. (n + 1)
    BY <1>3, <1>4, PlanOrder
  <1>9. \A s \in DOMAIN readPsn : s \in DOMAIN pend
    BY <1>2 DEF Books, Reads
  <1>. QED BY <1>1, <1>2, <1>3, <1>4, <1>5, <1>7, <1>8, <1>9 DEF HasPlan

LEMMA AcksKeepPlan ==
  ASSUME NEW n, NEW plan, NEW start, HasPlan(n, plan, start), NEW h \in Ssn, Reached(h)
  PROVE  /\ FromPlan(PendFrom(h), n, plan, start) /\ Owned(ReqFrom(h), h, start)
         /\ h \in 1 .. (n + 1) /\ mssn <= h /\ h <= ssn
         /\ Books(PendFrom(h), ReqFrom(h), h)
         /\ \A s \in DOMAIN PendFrom(h) : PendFrom(h)[s] = pend[s]
         /\ \A s \in DOMAIN readPsn : PendFrom(h)[s].first <= readPsn[s]
  <1>1. /\ Work /\ Numbered(n, plan, start) /\ FromPlan(pend, n, plan, start) /\ ssn = n + 1
        /\ Owns(reqSsn, n, start) /\ Owned(reqSsn, mssn, start) /\ mssn \in 1 .. (n + 1)
        /\ mssn <= ssn /\ \A s \in DOMAIN readPsn : pend[s].first <= readPsn[s]
        /\ sqPsn = InitPsn + start[n + 1]
    BY DEF HasPlan
  <1>2. mssn <= h /\ h <= ssn /\ h \in 1 .. (n + 1)
    <2>1. mssn <= h /\ h <= ssn /\ h \in Int /\ n \in Nat
      BY <1>1, ReachedAbove, PlanOrder, RequesterAssumption DEF Ssn
    <2>. QED BY <1>1, <2>1
  <1>3. Books(PendFrom(h), ReqFrom(h), h)
    BY AcksKeepBooks DEF HasPlan
  <1>4. \A s \in DOMAIN PendFrom(h) : s \in DOMAIN pend /\ PendFrom(h)[s] = pend[s]
    BY DEF PendFrom, Without, Only
  <1>5. FromPlan(PendFrom(h), n, plan, start)
    BY <1>1, <1>4 DEF FromPlan
  <1>6. \A s \in DOMAIN readPsn : PendFrom(h)[s].first <= readPsn[s]
    BY <1>1, <1>3, <1>4 DEF Books, Reads
  <1>7. ASSUME NEW p \in (InitPsn + start[h]) .. (sqPsn - 1)
        PROVE  p \in DOMAIN ReqFrom(h) \cup DOMAIN respSsn
    <2>1. start[mssn] <= start[h] /\ start[mssn] \in Nat /\ start[h] \in Nat /\ start[n + 1] \in Nat
      BY <1>1, <1>2, PlanOrder
    <2>2. p \in (InitPsn + start[mssn]) .. (sqPsn - 1) /\ InitPsn + start[h] <= p
      BY <1>1, <1>7, <2>1, InitPsnType
    <2>3. p \in DOMAIN reqSsn \cup DOMAIN respSsn
      BY <1>1, <2>2 DEF Owned
    <2>4. CASE p \in DOMAIN reqSsn
      <3>1. h <= reqSsn[p]
        BY <1>1, <1>2, <2>2, <2>4, OwnsAfter
      <3>2. ssn_range(mssn, h) = {x \in Ssn : mssn <= x /\ x < h}
        BY <1>1, <1>2, SsnRangeCases DEF Work
      <3>3. reqSsn[p] \notin ssn_range(mssn, h)
        BY <3>1, <3>2, RequesterAssumption DEF Ssn
      <3>. QED BY <2>4, <3>3 DEF ReqFrom, Only
    <2>. QED BY <2>3, <2>4
  <1>. QED BY <1>2, <1>3, <1>4, <1>5, <1>6, <1>7 DEF Owned

LEMMA ResentPlan ==
  ASSUME NEW n, NEW plan, NEW start, HasPlan(n, plan, start), NEW h \in Ssn, Reached(h),
         NEW from, NEW C, NEW R, Resent(h, from, C, R)
  PROVE  /\ FromPlan(C, n, plan, start) /\ Owned(R, h, start)
         /\ DOMAIN C = ssn_range(h, ssn)
         /\ \A s \in DOMAIN readPsn : C[s].first <= readPsn[s]
  <1> DEFINE Q == PendFrom(h)
             S == ReqFrom(h)
  <1>1. /\ FromPlan(Q, n, plan, start) /\ Owned(S, h, start) /\ Books(Q, S, h)
        /\ \A s \in DOMAIN readPsn : Q[s].first <= readPsn[s]
    BY AcksKeepPlan
  <1>2. /\ Numbered(n, plan, start) /\ Owns(respSsn, n, start)
    BY DEF HasPlan
  <1>3. /\ DOMAIN C = DOMAIN Q
        /\ \A s \in DOMAIN C : C[s].wr = Q[s].wr /\ C[s].first = Q[s].first
        /\ SamePackets(h, C, R) \/ OneMorePacket(h, from, C, R)
    BY DEF Resent
  <1>4. CASE SamePackets(h, C, R)
    <2>1. R = S /\ \A s \in DOMAIN C : DOMAIN C[s].pkts = DOMAIN Q[s].pkts
      BY <1>4 DEF SamePackets
    <2> HIDE DEF Q, S
    <2>. QED BY <1>1, <1>3, <2>1 DEF FromPlan, PsnsOf, Owned, Books, Reads
  <1>5. CASE OneMorePacket(h, from, C, R)
    <2>1. /\ from \in DOMAIN respSsn
          /\ R = Put(S, from, respSsn[from])
          /\ \A s \in DOMAIN C : DOMAIN C[s].pkts =
               DOMAIN Q[s].pkts \cup (IF s = respSsn[from] THEN {from} ELSE {})
      BY <1>5 DEF OneMorePacket
    <2> HIDE DEF Q, S
    <2>2. DOMAIN S \subseteq DOMAIN R
      BY <2>1 DEF Put
    <2>3. Owned(R, h, start)
      BY <1>1, <2>2 DEF Owned
    <2>4. ASSUME NEW s \in DOMAIN C
          PROVE  /\ s \in 1 .. n /\ C[s].wr = plan[s] /\ C[s].first = InitPsn + start[s]
                 /\ DOMAIN C[s].pkts \subseteq PsnsOf(C[s]) /\ C[s].first \in DOMAIN C[s].pkts
      <3>1. /\ s \in 1 .. n /\ C[s].wr = plan[s] /\ C[s].first = InitPsn + start[s]
            /\ DOMAIN Q[s].pkts \subseteq PsnsOf(C[s]) /\ C[s].first \in DOMAIN Q[s].pkts
        BY <1>1, <1>3 DEF FromPlan, PsnsOf
      <3>2. s = respSsn[from] => from \in PsnsOf(C[s])
        <4> SUFFICES ASSUME s = respSsn[from] PROVE from \in PsnsOf(C[s])
          OBVIOUS
        <4>1. /\ from \in Int /\ InitPsn + start[s] <= from /\ from < InitPsn + start[s + 1]
          BY <1>2, <2>1 DEF Owns
        <4>2. /\ start[s + 1] = start[s] + plan[s].n /\ start[s] \in Nat /\ plan[s].n \in Nat
          BY <1>2, <3>1, PlanOrder
        <4>. QED BY <3>1, <4>1, <4>2, InitPsnType DEF PsnsOf
      <3>. QED BY <2>1, <3>1, <3>2
    <2>. QED BY <1>1, <1>3, <2>3, <2>4 DEF FromPlan, Books, Reads
  <1>. QED BY <1>3, <1>4, <1>5

-----------------------------------------------------------------------------
(***************************************************************************)
(* Calls that process no request keep to the same plan.                    *)
(***************************************************************************)
SendsSame(n, plan, start) ==
  Sends(n, plan, start)' /\ \A k \in tx' : OnWire(k, n, plan, start)

LEMMA StopsSends ==
  ASSUME NEW n, NEW plan, NEW start, Sends(n, plan, start), UNCHANGED <<sqPsn, posted>>,
         Running' => Running /\ ssn' = ssn, ~Working', tx' = {}
  PROVE  SendsSame(n, plan, start)
  BY DEF Sends, SendsSame

LEMMA WorksOn ==
  ASSUME NEW n, NEW plan, NEW start, Sends(n, plan, start), Running,
         UNCHANGED <<sqPsn, posted, ssn>>, NEW h \in 1 .. (n + 1), mssn' = h,
         FromPlan(pend', n, plan, start), \A s \in DOMAIN readPsn' : pend'[s].first <= readPsn'[s],
         Owned(reqSsn, h, start)', h = ssn => mpsn' = sqPsn
  PROVE  Sends(n, plan, start)'
  <1>1. /\ Numbered(n, plan, start) /\ n <= posted'
        /\ sqPsn' = InitPsn + start[n + 1] /\ ssn' = n + 1
    BY DEF Sends
  <1>2. 1 <= mssn' /\ mssn' <= n + 1
    BY <1>1, PlanOrder
  <1>. QED BY <1>1, <1>2 DEF Sends

\* An error ends the queue pair or the program, and sends nothing itself.
LEMMA GotoErrSends ==
  ASSUME NEW n, NEW plan, NEW start, Sends(n, plan, start), Running,
         NEW P, NEW R, NEW h, NEW p, NEW status, GotoErrState(P, R, h, p, status)
  PROVE  Sends(n, plan, start)'
  <1>1. ~Working' /\ UNCHANGED <<sqPsn, posted>> /\ (Running' => ssn' = ssn)
    BY DEF GotoErrState, Running, Working
  <1>. QED BY <1>1 DEF Sends

LEMMA RetrySends ==
  ASSUME NEW n, NEW plan, NEW start, Sends(n, plan, start), HasPlan(n, plan, start), Working,
         NEW h \in Ssn, Reached(h), NEW from, NEW type, NEW all, Retry(h, from, type, all),
         from \in DOMAIN reqSsn \cup DOMAIN respSsn => Owner(from) \in ssn_range(h, ssn)
  PROVE  SendsSame(n, plan, start)
  <1>1. /\ Work /\ Running /\ mssn <= ssn /\ ssn \in Ssn
    BY DEF HasPlan, Working, Work
  <1>2. CASE /\ fault' = "AssertionError" /\ tx' = {}
             /\ UNCHANGED <<qps, sq, ssn, sqPsn, rdAtomic, respSsn, readPsn, cq, posted>>
    BY <1>1, <1>2, StopsSends DEF Working, Running
  <1>3. ASSUME from \in DOMAIN reqSsn \cup DOMAIN respSsn, NEW C, NEW R,
               Resent(h, from, C, R), Resends(C, from)
        PROVE  /\ \A k \in tx' : OnWire(k, n, plan, start)
               /\ FromPlan(C, n, plan, start) /\ Owned(R, h, start)
               /\ \A s \in DOMAIN readPsn : C[s].first <= readPsn[s]
               /\ h \in 1 .. (n + 1) /\ h < ssn
    <2>1. /\ FromPlan(C, n, plan, start) /\ Owned(R, h, start)
          /\ DOMAIN C = ssn_range(h, ssn)
          /\ \A s \in DOMAIN readPsn : C[s].first <= readPsn[s]
      BY <1>3, ResentPlan
    <2>2. h \in 1 .. (n + 1)
      BY AcksKeepPlan
    <2> DEFINE o == Owner(from)
    <2>3. o \in ssn_range(h, ssn) /\ o \in Ssn
      BY <1>1, <1>3, SsnRangeType
    <2> HIDE DEF o
    <2>4. h <= o /\ o < ssn
      BY <1>1, <2>3, ReachedAbove
    <2>5. ssn_range(next_ssn(o), ssn) \subseteq ssn_range(h, ssn)
      <3>1. next_ssn(o) = o + 1 /\ o + 1 \in Ssn /\ o + 1 <= ssn
        BY <1>1, <2>3, <2>4, NextSsnCases, RequesterAssumption DEF Ssn
      <3>2. ssn_range(o + 1, ssn) = {x \in Ssn : o + 1 <= x /\ x < ssn}
        BY <1>1, <3>1, SsnRangeCases
      <3>3. ssn_range(h, ssn) = {x \in Ssn : h <= x /\ x < ssn}
        <4>1. h <= ssn
          BY <1>1, ReachedAbove
        <4>. QED BY <1>1, <4>1, SsnRangeCases
      <3>. QED BY <2>3, <2>4, <3>1, <3>2, <3>3, RequesterAssumption DEF Ssn
    <2>6. ASSUME NEW k \in tx' PROVE OnWire(k, n, plan, start)
      <3>1. PICK s \in {o} \cup ssn_range(next_ssn(o), ssn) :
              s \in DOMAIN C => \E p \in DOMAIN C[s].pkts : k = Packet(s, C[s], p)
        BY <1>3 DEF Resends, o
      <3>2. s \in DOMAIN C
        BY <2>1, <2>3, <2>5, <3>1
      <3>. QED BY <2>1, <3>1, <3>2, CtxPacket
    <2>7. h < ssn
      BY <1>1, <2>3, <2>4, RequesterAssumption DEF Ssn
    <2>. QED BY <2>1, <2>2, <2>6, <2>7
  <1>4. ASSUME from \in DOMAIN reqSsn \cup DOMAIN respSsn, NEW C, NEW R,
               Resent(h, from, C, R), Resends(C, from),
               pend' = C, reqSsn' = R, mssn' = h,
               UNCHANGED <<qps, sq, ssn, sqPsn, rdAtomic, respSsn, readPsn, cq, posted>>
        PROVE  SendsSame(n, plan, start)
    <2>1. /\ \A k \in tx' : OnWire(k, n, plan, start)
          /\ FromPlan(C, n, plan, start) /\ Owned(R, h, start)
          /\ \A s \in DOMAIN readPsn : C[s].first <= readPsn[s]
          /\ h \in 1 .. (n + 1) /\ h < ssn
      BY <1>3, <1>4
    <2>2. Owned(reqSsn, h, start)'
      BY <1>4, <2>1 DEF Owned
    <2>3. h # ssn
      BY <1>1, <2>1, RequesterAssumption DEF Ssn
    <2>4. Sends(n, plan, start)'
      BY <1>1, <1>4, <2>1, <2>2, <2>3, WorksOn
    <2>. QED BY <2>1, <2>4 DEF SendsSame
  <1>5. ASSUME from \in DOMAIN reqSsn \cup DOMAIN respSsn, NEW C, NEW R,
               Resent(h, from, C, R), Resends(C, from),
               NEW p, NEW status, GotoErrState(C, R, h, p, status)
        PROVE  SendsSame(n, plan, start)
    BY <1>1, <1>3, <1>5, GotoErrSends DEF SendsSame
  <1>. QED BY <1>1, <1>2, <1>4, <1>5, RetryResult

LEMMA StillThere ==
  ASSUME NEW n, NEW plan, NEW start, HasPlan(n, plan, start), NEW h \in Ssn, Reached(h),
         NEW s \in DOMAIN pend, h <= s
  PROVE  s \in ssn_range(h, ssn)
  <1>1. mssn \in Ssn /\ ssn \in Ssn /\ DOMAIN pend = ssn_range(mssn, ssn) /\ mssn <= ssn
    BY DEF HasPlan, Work, Books
  <1>2. s \in Ssn /\ s < ssn
    BY <1>1, SsnRangeCases
  <1>3. h <= ssn
    BY <1>1, ReachedAbove DEF HasPlan
  <1>. QED BY <1>1, <1>2, <1>3, SsnRangeCases

\* The first PSN of an outstanding WR leads to it.
LEMMA FirstLeads ==
  ASSUME NEW n, NEW plan, NEW start, HasPlan(n, plan, start), NEW s \in DOMAIN pend
  PROVE  Owner(pend[s].first) = s
  <1>1. pend[s].first \in DOMAIN pend[s].pkts
    BY DEF HasPlan, FromPlan
  <1>. QED BY <1>1 DEF HasPlan, Indexed, Owner

\* The PSN of an answer leads to a WR that is outstanding.
LEMMA AnswerOwned ==
  ASSUME NEW n, NEW plan, NEW start, HasPlan(n, plan, start), NEW r, Known(r)
  PROVE  /\ Owner(r.psn) = Cur(r) /\ Cur(r) \in DOMAIN pend
         /\ Cur(r) \in 1 .. n /\ Cur(r) \in Ssn /\ mssn <= Cur(r) /\ Cur(r) < ssn
         /\ r.psn \in Int /\ InitPsn + start[Cur(r)] <= r.psn
         /\ r.psn < InitPsn + start[Cur(r) + 1]
         /\ pend[Cur(r)].wr = plan[Cur(r)] /\ pend[Cur(r)].first = InitPsn + start[Cur(r)]
  <1>1. Owner(r.psn) = Cur(r)
    BY DEF Owner, Cur
  <1>2. Cur(r) \in DOMAIN pend
    BY CurOutstanding DEF HasPlan
  <1>3. /\ r.psn \in Int /\ Cur(r) \in 1 .. n
        /\ InitPsn + start[Cur(r)] <= r.psn /\ r.psn < InitPsn + start[Cur(r) + 1]
    <2>1. CASE r.psn \in DOMAIN reqSsn
      BY <2>1 DEF HasPlan, Owns, Cur
    <2>2. CASE r.psn \notin DOMAIN reqSsn
      BY <2>2 DEF HasPlan, Owns, Cur, Known
    <2>. QED BY <2>1, <2>2
  <1>4. /\ mssn \in Ssn /\ ssn \in Ssn /\ DOMAIN pend = ssn_range(mssn, ssn) /\ mssn <= ssn
    BY DEF HasPlan, Work, Books
  <1>5. Cur(r) \in Ssn /\ mssn <= Cur(r) /\ Cur(r) < ssn
    BY <1>2, <1>4, SsnRangeCases
  <1>6. pend[Cur(r)].wr = plan[Cur(r)] /\ pend[Cur(r)].first = InitPsn + start[Cur(r)]
    BY <1>2 DEF HasPlan, FromPlan
  <1>. QED BY <1>1, <1>2, <1>3, <1>5, <1>6

LEMMA RetryAtOwner ==
  ASSUME NEW n, NEW plan, NEW start, HasPlan(n, plan, start), NEW r \in Responses, RecvRetry(r)
  PROVE  \E h \in Ssn : \E from, type :
           /\ Reached(h) /\ Retry(h, from, type, TRUE)
           /\ from \in DOMAIN reqSsn \cup DOMAIN respSsn => Owner(from) \in ssn_range(h, ssn)
  <1> DEFINE s == Cur(r)
  <1>1. /\ Work /\ Books(pend, reqSsn, mssn) /\ Known(r)
    BY DEF HasPlan, RecvRetry, Expected
  <1>2. /\ Owner(r.psn) = s /\ s \in DOMAIN pend /\ s \in 1 .. n /\ s \in Ssn /\ mssn <= s
        /\ pend[s].first = InitPsn + start[s]
    BY <1>1, AnswerOwned
  <1>3. Unacked(r) = IF r.op = "READ_LAST" THEN mssn ELSE s
    BY DEF Unacked
  <1>4. CASE ImplicitNak(r)
    <2>1. PICK k \in Ssn : FirstToRetry(k, s) /\ Retry(k, pend[k].first, "IMPLICIT", TRUE)
      BY <1>4 DEF RecvRetry
    <2>2. Reached(k)
      BY <1>1, <2>1, RetryReached
    <2>3. k \in DOMAIN pend
      <3>1. k \in ssn_range(mssn, s) /\ s \in ssn_range(mssn, ssn) /\ mssn \in Ssn /\ ssn \in Ssn
        BY <1>1, <1>2, <2>1 DEF FirstToRetry, Books, Work
      <3>2. k \in ssn_range(mssn, ssn)
        BY <1>2, <3>1, SsnRangeCut
      <3>. QED BY <1>1, <3>2 DEF Books
    <2>4. Owner(pend[k].first) = k
      BY <2>3, FirstLeads
    <2>5. k \in ssn_range(k, ssn)
      BY <2>2, <2>3, StillThere, RequesterAssumption DEF Ssn
    <2>. QED BY <2>1, <2>2, <2>4, <2>5
  <1>5. CASE ~ImplicitNak(r)
    <2> DEFINE h == Unacked(r)
    <2>1. Reached(h) /\ h \in Ssn
      BY <1>1, <1>5, UnackedReached
    <2>2. h <= s
      BY <1>1, <1>2, <1>3, RequesterAssumption DEF Ssn, Work
    <2>3. s \in ssn_range(h, ssn)
      BY <1>2, <2>1, <2>2, StillThere
    <2>4. CASE Retry(h, pend[s].first, "IMPLICIT", TRUE)
      <3>1. Owner(pend[s].first) = s
        BY <1>2, FirstLeads
      <3> HIDE DEF h, s
      <3>. QED BY <2>1, <2>3, <2>4, <3>1
    <2>5. CASE Retry(h, r.psn, "RNR", TRUE) \/ Retry(h, r.psn, "SEQ", TRUE)
      BY <1>2, <2>1, <2>3, <2>5
    <2>6. CASE s \in DOMAIN readPsn /\ Retry(h, readPsn[s], "READ_RESP_SEQ", TRUE)
      <3> DEFINE from == readPsn[s]
                 o == Owner(from)
      <3>1. pend[s].first <= from
        BY <2>6 DEF HasPlan
      <3>2. ASSUME from \in DOMAIN reqSsn \cup DOMAIN respSsn
            PROVE  o \in DOMAIN pend /\ s <= o
        <4>1. InitPsn + start[s] <= from /\ s \in 1 .. (n + 1) /\ Numbered(n, plan, start)
          <5>1. n \in Nat /\ Numbered(n, plan, start)
            BY PlanOrder DEF HasPlan
          <5>. QED BY <1>2, <3>1, <5>1
        <4> HIDE DEF s
        <4>2. CASE from \in DOMAIN reqSsn
          BY <1>1, <4>1, <4>2, OwnsAfter DEF HasPlan, Owner, Books
        <4>3. CASE from \notin DOMAIN reqSsn
          <5>1. o = respSsn[from] /\ from \in DOMAIN respSsn
            BY <3>2, <4>3 DEF Owner
          <5>2. respSsn[from] \in DOMAIN pend
            BY <1>1, <5>1 DEF Books, Reads
          <5>3. s <= respSsn[from]
            BY <4>1, <5>1, OwnsAfter DEF HasPlan
          <5>. QED BY <5>1, <5>2, <5>3
        <4>. QED BY <4>2, <4>3
      <3>3. ASSUME from \in DOMAIN reqSsn \cup DOMAIN respSsn
            PROVE  o \in ssn_range(h, ssn)
        <4>1. o \in DOMAIN pend /\ s <= o
          BY <3>2, <3>3
        <4>2. o \in Ssn
          BY <1>1, <4>1, SsnRangeType DEF Books, Work
        <4> HIDE DEF o, h, s
        <4>3. h <= o
          BY <1>2, <2>1, <2>2, <4>1, <4>2, RequesterAssumption DEF Ssn
        <4>. QED BY <2>1, <4>1, <4>3, StillThere
      <3>. QED BY <2>1, <2>6, <3>3
    <2>. QED BY <1>5, <2>4, <2>5, <2>6 DEF RecvRetry
  <1>. QED BY <1>4, <1>5

-----------------------------------------------------------------------------
(***************************************************************************)
(* One lemma per action.  The answer to an atomic has the last PSN of a WR.*)
(***************************************************************************)
LastOfWr(r, n, start) ==
  r.op = "ATOMIC_ACK" => \E t \in 1 .. n : r.psn + 1 = InitPsn + start[t + 1]

LEMMA CompletesAtEnd ==
  ASSUME NEW n, NEW plan, NEW start, HasPlan(n, plan, start), NEW r \in Responses,
         LastOfWr(r, n, start), RecvComplete(r)
  PROVE  r.psn + 1 = InitPsn + start[Cur(r) + 1] /\ r.aeth = "ACK"
  <1> DEFINE s == Cur(r)
  <1>1. Known(r) /\ Numbered(n, plan, start)
    BY DEF HasPlan, RecvComplete, Expected
  <1>2. /\ s \in 1 .. n /\ r.psn \in Int
        /\ InitPsn + start[s] <= r.psn /\ r.psn < InitPsn + start[s + 1]
        /\ pend[s].wr = plan[s] /\ pend[s].first = InitPsn + start[s]
    BY <1>1, AnswerOwned
  <1>3. /\ start[s] \in Nat /\ start[s + 1] \in Nat /\ start[n + 1] \in Nat
        /\ plan[s].n \in Nat /\ plan[s].n >= 1
        /\ start[s + 1] = start[s] + plan[s].n /\ start[s + 1] <= start[n + 1]
    BY <1>1, <1>2, PlanOrder
  <1>4. \/ /\ r.op = "ACK" /\ r.aeth = "ACK" /\ ~ReadOrAtomic(pend[s].wr)
           /\ Place(pend[s], r.psn) \in {"LAST", "ONLY"}
        \/ r.op = "ATOMIC_ACK"
        \/ r.op \in {"READ_LAST", "READ_ONLY"} /\ r.psn = LastReadPsn(s)
    BY DEF RecvComplete, ReadData
  <1> HIDE DEF s
  <1>5. r.aeth = "ACK"
    BY <1>4 DEF Responses, ReadOps
  <1>6. CASE ~ReadOrAtomic(pend[s].wr) /\ Place(pend[s], r.psn) \in {"LAST", "ONLY"}
    <2>1. plan[s].n = 1 \/ r.psn - (InitPsn + start[s]) = plan[s].n - 1
      BY <1>2, <1>6 DEF Place
    <2>. QED BY <1>2, <1>3, <1>5, <2>1, InitPsnType DEF s
  <1>7. CASE r.op = "ATOMIC_ACK"
    <2>1. PICK t \in 1 .. n : r.psn + 1 = InitPsn + start[t + 1]
      BY <1>7 DEF LastOfWr
    <2>2. CASE r.psn \in DOMAIN reqSsn
      BY <1>1, <1>5, <2>1, <2>2, EndsAt DEF HasPlan, Cur
    <2>3. CASE r.psn \notin DOMAIN reqSsn
      BY <1>1, <1>5, <2>1, <2>3, EndsAt DEF HasPlan, Cur, Known
    <2>. QED BY <2>2, <2>3
  <1>8. CASE r.psn = LastReadPsn(s)
    <2>1. r.psn = (InitPsn + start[s] + plan[s].n - 1) % MAX_PSN
      BY <1>2, <1>8 DEF LastReadPsn
    <2>2. InitPsn + start[n + 1] < MAX_PSN
      BY DEF HasPlan
    <2> DEFINE e == InitPsn + start[s] + plan[s].n - 1
    <2>3. e \in Int /\ 0 <= e /\ e < MAX_PSN /\ e + 1 = InitPsn + start[s + 1]
      BY <1>3, <2>2, InitPsnType
    <2> HIDE DEF e
    <2>4. e % MAX_PSN = e
      BY <2>3, InitPsnType, MaxPsnAssumption, ModLow
    <2>5. r.psn = e
      BY <2>1, <2>4 DEF e
    <2>. QED BY <1>5, <2>3, <2>5 DEF s
  <1>. QED BY <1>4, <1>6, <1>7, <1>8

LEMMA NextOfAnswer ==
  ASSUME NEW n, NEW plan, NEW start, HasPlan(n, plan, start), NEW r, Known(r)
  PROVE  next_psn(r.psn) = r.psn + 1 /\ r.psn < sqPsn
  <1>1. /\ Cur(r) \in 1 .. n /\ r.psn \in Int /\ InitPsn + start[Cur(r)] <= r.psn
        /\ r.psn < InitPsn + start[Cur(r) + 1]
    BY AnswerOwned
  <1>2. /\ start[Cur(r)] \in Nat /\ start[Cur(r) + 1] \in Nat /\ start[n + 1] \in Nat
        /\ start[Cur(r) + 1] <= start[n + 1]
    BY <1>1, PlanOrder DEF HasPlan
  <1>3. sqPsn = InitPsn + start[n + 1] /\ sqPsn < MAX_PSN
    BY DEF HasPlan
  <1>4. r.psn < sqPsn /\ 0 <= r.psn /\ r.psn + 1 < MAX_PSN
    BY <1>1, <1>2, <1>3, InitPsnType
  <1>5. (r.psn + 1) % MAX_PSN = r.psn + 1
    BY <1>1, <1>4, InitPsnType, MaxPsnAssumption, ModLow
  <1>. QED BY <1>4, <1>5 DEF next_psn

LEMMA PostSendSends ==
  ASSUME NEW n, NEW plan, NEW start, Sends(n, plan, start), posted \in Nat,
         NEW w \in WorkReqs, PostSend(w)
  PROVE  SendsSame(n, plan, start)
  <1>1. /\ posted' = posted + 1 /\ tx' = {} /\ n \in Nat /\ n <= posted
        /\ UNCHANGED <<qps, ssn, sqPsn, mpsn, mssn, pend, reqSsn, respSsn, readPsn, fault>>
    BY PlanOrder DEF PostSend, Sends
  <1>2. n <= posted'
    BY <1>1
  <1>. QED BY <1>1, <1>2 DEF Sends, SendsSame, Working, Running, Owned

LEMMA RecvPartialSends ==
  ASSUME NEW n, NEW plan, NEW start, Sends(n, plan, start), HasPlan(n, plan, start),
         NEW r \in Responses, RecvPartial(r)
  PROVE  SendsSame(n, plan, start)
  <1> DEFINE s == Cur(r)
  <1>1. /\ Work /\ Books(pend, reqSsn, mssn) /\ Known(r) /\ ~ImplicitNak(r) /\ Running
        /\ r.op # "READ_LAST"
        /\ pend' = PendFrom(s) /\ reqSsn' = ReqFrom(s) /\ mssn' = s /\ tx' = {}
        /\ UNCHANGED <<sqPsn, posted, ssn, respSsn>>
        /\ \/ readPsn' = readPsn
           \/ /\ s \in DOMAIN readPsn /\ r.psn = readPsn[s]
              /\ readPsn' = [readPsn EXCEPT ![s] = next_psn(@)]
    BY DEF HasPlan, RecvPartial, Expected, ReadData, ReadOps
  <1>2. s \in Ssn /\ Reached(s)
    BY <1>1, CurReached, CurType
  <1>3. /\ FromPlan(PendFrom(s), n, plan, start) /\ Owned(ReqFrom(s), s, start)
        /\ s \in 1 .. (n + 1)
        /\ \A t \in DOMAIN readPsn : PendFrom(s)[t].first <= readPsn[t]
    BY <1>2, AcksKeepPlan
  <1>4. s < ssn /\ s # ssn
    BY <1>1, <1>2, AnswerOwned, RequesterAssumption DEF Work, Ssn
  <1>5. ASSUME s \in DOMAIN readPsn, r.psn = readPsn[s],
               readPsn' = [readPsn EXCEPT ![s] = next_psn(@)], NEW t \in DOMAIN readPsn'
        PROVE  pend'[t].first <= readPsn'[t]
    <2>1. t \in DOMAIN readPsn /\ readPsn'[t] = IF t = s THEN next_psn(r.psn) ELSE readPsn[t]
      BY <1>5
    <2>2. next_psn(r.psn) = r.psn + 1 /\ r.psn \in Int
      BY <1>1, NextOfAnswer, AnswerOwned
    <2>3. PendFrom(s)[t].first <= readPsn[t] /\ PendFrom(s)[t] = pend[t]
      BY <1>2, <1>3, <2>1, AcksKeepPlan DEF Books, Reads
    <2>4. pend[t].first \in Int
      <3>1. t \in DOMAIN pend /\ GoodPend(pend)
        BY <1>1, <2>1 DEF HasPlan, Work
      <3>. QED BY <3>1, MaxPsnAssumption DEF GoodPend, GoodCtx, IsCtx, Psn, NoPsn
    <2>. QED BY <1>1, <1>5, <2>1, <2>2, <2>3, <2>4
  <1> HIDE DEF s
  <1>0. PICK h : h = s
    OBVIOUS
  <1>6. \A t \in DOMAIN readPsn' : pend'[t].first <= readPsn'[t]
    BY <1>1, <1>3, <1>5
  <1>7. Owned(reqSsn, h, start)'
    BY <1>0, <1>1, <1>3 DEF Owned
  <1>8. Sends(n, plan, start)'
    BY <1>0, <1>1, <1>3, <1>4, <1>6, <1>7, WorksOn
  <1>. QED BY <1>1, <1>8 DEF SendsSame

LEMMA RecvCompleteSends ==
  ASSUME NEW n, NEW plan, NEW start, Sends(n, plan, start), HasPlan(n, plan, start),
         NEW r \in Responses, LastOfWr(r, n, start), RecvComplete(r)
  PROVE  SendsSame(n, plan, start)
  <1> DEFINE s == Cur(r)
             Q == PendFrom(s)
             R == ReqFrom(s)
  <1>1. /\ Work /\ Books(pend, reqSsn, mssn) /\ Known(r) /\ ~ImplicitNak(r) /\ Running
        /\ mpsn' = next_psn(r.psn) /\ tx' = {}
        /\ UNCHANGED <<sqPsn, posted, ssn>>
    BY DEF HasPlan, RecvComplete, Expected
  <1>2. CASE s # Unacked(r)
    <2>1. ~Running'
      BY <1>2 DEF RecvComplete, Running
    <2>. QED BY <1>1, <2>1, StopsSends DEF Working
  <1>3. CASE s = Unacked(r)
    <2>1. /\ pend' = Without(Q, {s}) /\ mssn' = next_ssn(s)
          /\ reqSsn' = Only(R, {p \in DOMAIN R : reqSsn[p] # s})
          /\ respSsn' = Only(respSsn, {p \in DOMAIN respSsn : respSsn[p] # s})
          /\ readPsn' = Without(readPsn, {s})
      BY <1>3 DEF RecvComplete, DeleteWr
    <2>2. s \in Ssn /\ Reached(s)
      BY <1>1, <1>3, UnackedReached
    <2>3. /\ FromPlan(Q, n, plan, start) /\ Owned(R, s, start)
          /\ \A t \in DOMAIN readPsn : Q[t].first <= readPsn[t]
          /\ \A t \in DOMAIN Q : Q[t] = pend[t]
      BY <2>2, AcksKeepPlan
    <2>4. /\ s \in 1 .. n /\ s < ssn /\ ssn = n + 1 /\ ssn \in Ssn /\ n \in Nat
          /\ Numbered(n, plan, start) /\ sqPsn = InitPsn + start[n + 1]
      BY <1>1, AnswerOwned, PlanOrder DEF HasPlan, Work
    <2>5. next_ssn(s) = s + 1 /\ s + 1 \in 1 .. (n + 1)
      BY <2>2, <2>4, NextSsnCases, RequesterAssumption DEF Ssn
    <2>6. \A p \in DOMAIN R : R[p] = reqSsn[p] /\ p \in DOMAIN reqSsn
      BY DEF ReqFrom, Only
    <2>7. DOMAIN readPsn \subseteq DOMAIN Q
      BY <2>2, AcksKeepPlan DEF Books, Reads
    <2> HIDE DEF s, Q, R
    <2>8. /\ DOMAIN pend' = DOMAIN Q \ {s} /\ \A t \in DOMAIN pend' : pend'[t] = Q[t]
          /\ DOMAIN readPsn' = DOMAIN readPsn \ {s}
          /\ \A t \in DOMAIN readPsn' : readPsn'[t] = readPsn[t]
          /\ DOMAIN reqSsn' = {p \in DOMAIN R : R[p] # s}
          /\ DOMAIN respSsn' = {p \in DOMAIN respSsn : respSsn[p] # s}
      BY <2>1, <2>6 DEF Without, Only
    <2>9. FromPlan(pend', n, plan, start)
      BY <2>3, <2>8 DEF FromPlan
    <2>10. \A t \in DOMAIN readPsn' : pend'[t].first <= readPsn'[t]
      BY <2>3, <2>7, <2>8
    <2>11. ASSUME NEW p \in (InitPsn + start[s + 1]) .. (sqPsn - 1)
           PROVE  p \in DOMAIN reqSsn' \cup DOMAIN respSsn'
      <3>1. start[s] <= start[s + 1] /\ start[s] \in Nat /\ start[s + 1] \in Nat /\ start[n + 1] \in Nat
        BY <2>4, <2>5, PlanOrder
      <3>2. p \in (InitPsn + start[s]) .. (sqPsn - 1) /\ InitPsn + start[s + 1] <= p
        BY <2>4, <2>11, <3>1, InitPsnType
      <3>3. p \in DOMAIN R \cup DOMAIN respSsn
        BY <2>3, <3>2 DEF Owned
      <3>4. CASE p \in DOMAIN R
        <4>1. s + 1 <= reqSsn[p]
          BY <2>4, <2>5, <2>6, <3>2, <3>4, OwnsAfter DEF HasPlan
        <4>2. R[p] # s
          BY <2>4, <2>6, <3>4, <4>1
        <4>. QED BY <2>8, <3>4, <4>2
      <3>5. CASE p \in DOMAIN respSsn
        <4>1. s + 1 <= respSsn[p]
          BY <2>4, <2>5, <3>2, <3>5, OwnsAfter DEF HasPlan
        <4>2. respSsn[p] # s
          BY <2>4, <4>1
        <4>. QED BY <2>8, <3>5, <4>2
      <3>. QED BY <3>3, <3>4, <3>5
    <2>0. PICK h : h = s + 1
      OBVIOUS
    <2>12. Owned(reqSsn, h, start)'
      BY <1>1, <2>0, <2>11 DEF Owned
    <2>13. s + 1 = ssn => mpsn' = sqPsn
      <3>1. r.psn + 1 = InitPsn + start[s + 1] /\ next_psn(r.psn) = r.psn + 1
        BY <1>1, CompletesAtEnd, NextOfAnswer DEF s
      <3>. QED BY <1>1, <2>4, <3>1
    <2>14. mssn' = s + 1
      BY <2>1, <2>5
    <2>15. Sends(n, plan, start)'
      BY <1>1, <2>0, <2>5, <2>9, <2>10, <2>12, <2>13, <2>14, WorksOn
    <2>. QED BY <1>1, <2>15 DEF SendsSame
  <1>. QED BY <1>2, <1>3

LEMMA RecvRetrySends ==
  ASSUME NEW n, NEW plan, NEW start, Sends(n, plan, start), HasPlan(n, plan, start), Working,
         NEW r \in Responses, RecvRetry(r)
  PROVE  SendsSame(n, plan, start)
  <1>1. PICK h \in Ssn : \E from, type :
          /\ Reached(h) /\ Retry(h, from, type, TRUE)
          /\ from \in DOMAIN reqSsn \cup DOMAIN respSsn => Owner(from) \in ssn_range(h, ssn)
    BY RetryAtOwner
  <1>2. PICK from, type :
          /\ Reached(h) /\ Retry(h, from, type, TRUE)
          /\ from \in DOMAIN reqSsn \cup DOMAIN respSsn => Owner(from) \in ssn_range(h, ssn)
    BY <1>1
  <1>. QED BY <1>2, RetrySends

LEMMA RecvErrorSends ==
  ASSUME NEW n, NEW plan, NEW start, Sends(n, plan, start), Running,
         NEW r \in Responses, RecvError(r)
  PROVE  SendsSame(n, plan, start)
  <1>1. tx' = {} /\ \E P, R, h, p, status : GotoErrState(P, R, h, p, status)
    BY DEF RecvError
  <1>. QED BY <1>1, GotoErrSends DEF SendsSame

LEMMA RecvUnexpectedSends ==
  ASSUME NEW n, NEW plan, NEW start, Sends(n, plan, start), NEW r, RecvUnexpected(r)
  PROVE  SendsSame(n, plan, start)
  <1>1. /\ Running /\ tx' = {}
        /\ UNCHANGED <<qps, ssn, sqPsn, mpsn, mssn, pend, reqSsn, respSsn, readPsn, posted>>
    BY DEF RecvUnexpected
  <1>2. CASE Running'
    BY <1>1, <1>2 DEF Sends, SendsSame, Working, Owned
  <1>3. CASE ~Running'
    BY <1>1, <1>3, StopsSends DEF Working
  <1>. QED BY <1>2, <1>3

LEMMA RecvCrashSends ==
  ASSUME NEW n, NEW plan, NEW start, Sends(n, plan, start), NEW r, RecvCrash(r)
  PROVE  SendsSame(n, plan, start)
  <1>1. tx' = {} /\ ~Running' /\ UNCHANGED <<sqPsn, posted>>
    BY DEF RecvCrash, Running
  <1>. QED BY <1>1, StopsSends DEF Working

LEMMA CheckTimeoutSends ==
  ASSUME NEW N, ReqInv(N), NEW n, NEW plan, NEW start, Sends(n, plan, start), CheckTimeout
  PROVE  SendsSame(n, plan, start)
  <1>1. Work /\ Running /\ mssn \in Ssn /\ WindowInv
    BY InvSplit DEF CheckTimeout, Work, ReqInv
  <1>2. CASE mpsn \in DOMAIN reqSsn /\ Retry(mssn, mpsn, "TIMEOUT", FALSE)
    <2>1. qps = "RTS" /\ Working
      BY <1>1, <1>2 DEF WindowInv, NothingLeft, Working
    <2>2. Books(pend, reqSsn, mssn) /\ HasPlan(n, plan, start)
      BY <1>1, <2>1, WorkingPlan DEF WindowInv
    <2>3. Reached(mssn)
      BY <1>1, SsnRangeEmpty DEF Reached
    <2>4. Owner(mpsn) \in ssn_range(mssn, ssn)
      BY <1>2, <2>2 DEF Owner, Books
    <2>. QED BY <1>1, <1>2, <2>1, <2>2, <2>3, <2>4, RetrySends
  <1>3. CASE fault' \in {"KeyError", "AssertionError"} /\ tx' = {} /\ UNCHANGED <<sqPsn, posted>>
    <2>1. ~Running'
      BY <1>3 DEF Running
    <2>. QED BY <1>3, <2>1, StopsSends DEF Working
  <1>. QED BY <1>2, <1>3 DEF CheckTimeout

\* A request that is processed becomes the next WR of the plan.
LEMMA ProcessReqPlan ==
  ASSUME NEW N \in Nat, FewPosts, FewPsns(N), ReqInv(N),
         NEW n, NEW plan, NEW start, Sends(n, plan, start), HasPlan(n, plan, start), ProcessReq
  PROVE  LET w == Head(sq)
             end == start[n + 1] + w.n
         IN /\ w \in WorkReqs /\ w.n \in Nat /\ w.n >= 1 /\ w.n <= N
            /\ InitPsn + end < MAX_PSN /\ sqPsn' = InitPsn + end
            /\ (sqPsn + w.n) % MAX_PSN = sqPsn + w.n /\ sqPsn + w.n = InitPsn + end
            /\ n + 1 <= posted' /\ ssn' = n + 2
  <1> DEFINE w == Head(sq)
             k == posted - Len(sq)
             end == start[n + 1] + w.n
  <1>1. /\ Work /\ sq # <<>> /\ Running /\ sqPsn' = (sqPsn + w.n) % MAX_PSN
        /\ ssn' = next_ssn(ssn) /\ posted' = posted
    BY DEF HasPlan, ProcessReq
  <1>2. /\ sqPsn = InitPsn + start[n + 1] /\ n \in Nat /\ start[n + 1] \in Nat /\ ssn = n + 1
    BY PlanOrder DEF HasPlan
  <1>3. /\ w \in WorkReqs /\ w.n \in Nat /\ w.n >= 1 /\ w.n <= N
        /\ Len(sq) \in Nat /\ Len(sq) >= 1 /\ posted \in 0 .. MaxPosts /\ MaxPosts \in Nat
    <2>1. sq \in Seq(WorkReqs) /\ posted \in 0 .. MaxPosts
      BY <1>1 DEF Work
    <2>2. w \in WorkReqs /\ Len(sq) \in Nat /\ Len(sq) >= 1
      BY <1>1, <2>1, HeadTailProperties, LenProperties, EmptySeq
    <2> HIDE DEF w
    <2>. QED BY <2>1, <2>2, WorkReqLength, RequesterAssumption DEF FewPsns
  <1>4. ssn + Len(sq) <= posted + 1 /\ sqPsn <= InitPsn + k * N
    BY <1>1 DEF ReqInv, Completed, IndexInv, PsnsGivenOut
  <1>5. k \in Int /\ k < MaxPosts
    BY <1>3
  <1> HIDE DEF w, k
  <1>6. (k + 1) * N = k * N + N /\ (k + 1) * N <= MaxPosts * N
        /\ k * N \in Int /\ (k + 1) * N \in Int /\ MaxPosts * N \in Int
    <2>1. (k + 1) * N = k * N + N /\ (k + 1) * N <= MaxPosts * N
      BY <1>3, <1>5, OneMoreRequest
    <2>. QED BY <1>3, <1>5, <2>1
  <1> DEFINE kN == k * N
             MN == MaxPosts * N
  <1>7. /\ kN \in Int /\ MN \in Int /\ kN + N <= MN /\ sqPsn <= InitPsn + kN
        /\ InitPsn + MN < MAX_PSN
    BY <1>4, <1>6 DEF FewPsns
  <1> HIDE DEF kN, MN
  <1>8. InitPsn + end < MAX_PSN /\ sqPsn + w.n = InitPsn + end /\ end \in Nat
    <2>1. /\ InitPsn \in Nat /\ MAX_PSN \in Nat /\ start[n + 1] \in Nat /\ N \in Nat
          /\ w.n \in Nat /\ w.n <= N
      BY <1>2, <1>3, InitPsnType
    <2>2. InitPsn + start[n + 1] <= InitPsn + kN
      BY <1>2, <1>7
    <2>. QED BY <1>2, <1>7, <2>1, <2>2
  <1>9. (sqPsn + w.n) % MAX_PSN = sqPsn + w.n
    <2> DEFINE e == sqPsn + w.n
    <2>1. e \in Int /\ 0 <= e /\ e < MAX_PSN
      BY <1>8, InitPsnType
    <2> HIDE DEF e
    <2>2. e % MAX_PSN = e
      BY <2>1, InitPsnType, MaxPsnAssumption, ModLow
    <2>. QED BY <2>2 DEF e
  <1>10. n + 1 <= posted /\ n + 2 < MAX_SSN
    BY <1>2, <1>3, <1>4, RequesterAssumption DEF FewPosts
  <1>11. ssn' = n + 2
    <2>1. (n + 2) % MAX_SSN = n + 2
      BY <1>2, <1>10, RequesterAssumption, ModLow
    <2>2. ssn' = (n + 1 + 1) % MAX_SSN
      BY <1>1, <1>2 DEF next_ssn
    <2>. QED BY <1>2, <2>1, <2>2
  <1>. QED BY <1>1, <1>3, <1>8, <1>9, <1>10, <1>11 DEF w

LEMMA ProcessReqSends ==
  ASSUME NEW N \in Nat, FewPosts, FewPsns(N), ReqInv(N),
         NEW n, NEW plan, NEW start, Sends(n, plan, start), HasPlan(n, plan, start), ProcessReq
  PROVE  SendsNext(n, plan, start)
  <1>0. PICK w : w = Head(sq)
    OBVIOUS
  <1> DEFINE m == n + 1
             plan2 == OneMorePlan(n, plan, w)
             start2 == OneMoreStart(n, start, w)
             end == start[n + 1] + w.n
             first == InitPsn + start[n + 1]
             c == WrCtx(w, sqPsn, ReqPsns(w))
             range == psn_range(sqPsn, sqPsn + w.n)
  <1>1. /\ w \in WorkReqs /\ w.n \in Nat /\ w.n >= 1
        /\ InitPsn + end < MAX_PSN /\ sqPsn' = InitPsn + end
        /\ (sqPsn + w.n) % MAX_PSN = sqPsn + w.n /\ sqPsn + w.n = InitPsn + end
        /\ m <= posted' /\ ssn' = n + 2
    BY <1>0, ProcessReqPlan
  <1>2. /\ sqPsn = first /\ n \in Nat /\ start[n + 1] \in Nat /\ ssn = m
        /\ mssn \in 1 .. m /\ Numbered(n, plan, start) /\ FromPlan(pend, n, plan, start)
        /\ Owned(reqSsn, mssn, start) /\ Books(pend, reqSsn, mssn) /\ Work
        /\ \A s \in DOMAIN readPsn : s \in DOMAIN pend /\ pend[s].first <= readPsn[s]
    BY PlanOrder DEF HasPlan
  <1>3. /\ pend' = Put(pend, ssn, c)
        /\ reqSsn' = [p \in DOMAIN reqSsn \cup ReqPsns(w) |->
                        IF p \in ReqPsns(w) THEN ssn ELSE reqSsn[p]]
        /\ IF w.op = "READ"
             THEN /\ respSsn' = [p \in DOMAIN respSsn \cup range |->
                                   IF p \in range THEN ssn ELSE respSsn[p]]
                  /\ readPsn' = Put(readPsn, ssn, sqPsn)
             ELSE UNCHANGED <<respSsn, readPsn>>
        /\ tx' = {Packet(ssn, c, p) : p \in ReqPsns(w)}
        /\ UNCHANGED <<mssn, mpsn>>
    BY <1>0, <1>1 DEF ProcessReq
  <1>4. /\ Numbered(m, plan2, start2) /\ Extends(n, plan, start, m, plan2, start2)
        /\ plan2[m] = w /\ start2[m + 1] = end /\ start2[m] = start[m]
    <2>1. /\ Numbered(n + 1, plan2, start2) /\ Extends(n, plan, start, n + 1, plan2, start2)
          /\ plan2[n + 1] = w /\ start2[n + 2] = end
      BY <1>1, <1>2, OneMoreNumbered
    <2>2. start2[n + 1] = start[n + 1]
      BY <1>2 DEF OneMoreStart
    <2>3. n + 1 + 1 = n + 2
      BY <1>2
    <2> HIDE DEF plan2, start2
    <2>. QED BY <2>1, <2>2, <2>3
  <1> HIDE DEF plan2, start2
  <1>5. /\ c.wr = w /\ c.first = sqPsn /\ DOMAIN c.pkts = ReqPsns(w)
        /\ PlanCtx(m, plan2, start2).wr = w /\ PlanCtx(m, plan2, start2).first = sqPsn
    BY <1>2, <1>4 DEF WrCtx, PlanCtx
  <1>6. ssn \notin DOMAIN pend
    BY <1>2, SsnRangeType DEF Work, Books
  <1>7. /\ DOMAIN pend' = DOMAIN pend \cup {m} /\ pend'[m] = c
        /\ \A s \in DOMAIN pend : pend'[s] = pend[s] /\ s # m
    BY <1>2, <1>3, <1>6 DEF Put
  <1> HIDE DEF c
  <1>8. ReqPsns(w) \subseteq sqPsn .. (sqPsn + w.n - 1) /\ sqPsn \in ReqPsns(w)
    <2>1. sqPsn \in Nat
      BY <1>2, InitPsnType
    <2>2. CASE ReadOrAtomic(w)
      BY <1>1, <2>1, <2>2 DEF ReqPsns
    <2>3. CASE ~ReadOrAtomic(w)
      BY <1>1, <2>1, <2>3 DEF ReqPsns
    <2>. QED BY <2>2, <2>3
  <1>9. FromPlan(pend', m, plan2, start2)
    <2>1. FromPlan(pend, m, plan2, start2)
      BY <1>2, <1>4, ExtendsFromPlan
    <2>2. m \in 1 .. m
      BY <1>2
    <2> SUFFICES ASSUME NEW s \in DOMAIN pend'
                 PROVE  /\ s \in 1 .. m /\ pend'[s].wr = plan2[s]
                        /\ pend'[s].first = InitPsn + start2[s]
                        /\ DOMAIN pend'[s].pkts \subseteq PsnsOf(pend'[s])
                        /\ pend'[s].first \in DOMAIN pend'[s].pkts
      BY DEF FromPlan
    <2>3. CASE s = m
      BY <1>2, <1>4, <1>5, <1>7, <1>8, <2>2, <2>3 DEF PsnsOf
    <2>4. CASE s # m
      BY <1>7, <2>1, <2>4 DEF FromPlan
    <2>. QED BY <2>3, <2>4
  <1>10. ASSUME NEW k \in tx' PROVE OnWire(k, m, plan2, start2)
    <2>1. PICK p \in ReqPsns(w) : k = Packet(m, c, p)
      BY <1>2, <1>3, <1>10
    <2>2. p \in PsnsOf(PlanCtx(m, plan2, start2)) /\ m \in 1 .. m
      BY <1>2, <1>5, <1>8, <2>1 DEF PsnsOf
    <2>3. k = Packet(m, PlanCtx(m, plan2, start2), p)
      BY <1>5, <2>1, SamePacket
    <2>. QED BY <2>2, <2>3 DEF OnWire
  <1>11. ASSUME NEW s \in DOMAIN readPsn' PROVE pend'[s].first <= readPsn'[s]
    <2>1. CASE s \in DOMAIN readPsn
      <3>1. s # m /\ pend'[s] = pend[s] /\ pend[s].first <= readPsn[s]
        BY <1>2, <1>7, <2>1
      <3>2. readPsn'[s] = readPsn[s]
        BY <1>2, <1>3, <2>1, <3>1 DEF Put
      <3>. QED BY <3>1, <3>2
    <2>2. CASE s \notin DOMAIN readPsn
      <3>1. s = m /\ readPsn'[s] = sqPsn
        BY <1>2, <1>3, <1>11, <2>2 DEF Put
      <3>. QED BY <1>2, <1>5, <1>7, <3>1, InitPsnType
    <2>. QED BY <2>1, <2>2
  <1>12. ASSUME NEW p \in (InitPsn + start[mssn]) .. (sqPsn' - 1)
         PROVE  p \in DOMAIN reqSsn' \cup DOMAIN respSsn'
    <2>1. CASE p < sqPsn
      <3>1. start[mssn] \in Nat
        BY <1>2, PlanOrder
      <3>2. p \in (InitPsn + start[mssn]) .. (sqPsn - 1)
        BY <1>1, <1>2, <1>12, <2>1, <3>1, InitPsnType
      <3>3. p \in DOMAIN reqSsn \cup DOMAIN respSsn
        BY <1>2, <3>2 DEF Owned
      <3>. QED BY <1>3, <3>3
    <2>2. CASE ~(p < sqPsn)
      <3>1. p \in Int /\ sqPsn <= p /\ p < sqPsn + w.n
        BY <1>1, <1>2, <1>12, <2>2, PlanOrder, InitPsnType
      <3>2. CASE w.op = "READ"
        <4>1. range = {x \in 0 .. (MAX_PSN - 1) : sqPsn <= x /\ x < sqPsn + w.n}
          <5>1. /\ MAX_PSN \in Nat /\ MAX_PSN > 1 /\ sqPsn \in 0 .. (MAX_PSN - 1)
                /\ sqPsn + w.n \in 0 .. (MAX_PSN - 1) /\ sqPsn <= sqPsn + w.n
            BY <1>1, <1>2, InitPsnType, MaxPsnAssumption
          <5>. QED BY <5>1, RangeSetCases DEF psn_range
        <4>2. p \in range
          BY <1>1, <1>2, <3>1, <4>1, InitPsnType
        <4> HIDE DEF range
        <4>. QED BY <1>3, <3>2, <4>2
      <3>3. CASE w.op # "READ"
        <4>1. p \in ReqPsns(w)
          <5>1. sqPsn \in Nat
            BY <1>2, InitPsnType
          <5>2. CASE ReadOrAtomic(w)
            <6>1. w.n = 1
              BY <1>1, <3>3, <5>2, WorkReqLength DEF ReadOrAtomic
            <6>. QED BY <3>1, <5>1, <5>2, <6>1 DEF ReqPsns
          <5>3. CASE ~ReadOrAtomic(w)
            BY <1>1, <3>1, <5>1, <5>3 DEF ReqPsns
          <5>. QED BY <5>2, <5>3
        <4>. QED BY <1>3, <4>1
      <3>. QED BY <3>2, <3>3
    <2>. QED BY <2>1, <2>2
  <1>13. PICK h : h = mssn
    OBVIOUS
  <1>14. Owned(reqSsn, mssn, start2)'
    <2>1. start2[h] = start[h]
      BY <1>2, <1>4, <1>13 DEF Extends
    <2>2. mssn' = h
      BY <1>3, <1>13
    <2>. QED BY <1>12, <1>13, <2>1, <2>2 DEF Owned
  <1>15. Sends(m, plan2, start2)'
    <2>1. 1 <= mssn' /\ mssn' <= m + 1 /\ mssn' # ssn' /\ ssn' = m + 1
      BY <1>1, <1>2, <1>3
    <2>2. sqPsn' = InitPsn + start2[m + 1]
      BY <1>1, <1>4
    <2> HIDE DEF m, end, first
    <2>. QED BY <2>2, <1>1, <1>4, <1>9, <1>11, <1>14, <2>1 DEF Sends
  <1>. QED BY <1>4, <1>10, <1>15 DEF SendsNext

-----------------------------------------------------------------------------
(***************************************************************************)
(* What a call does to min_unacked_psn and to the completions.             *)
(***************************************************************************)
Fails(n) ==
  \E s \in 1 .. n : \E status \in Statuses \ {"SUCCESS"} :
    cq' = Append(cq, [ssn |-> s, status |-> status])

Succeeds(r, n, start) ==
  \E s \in 1 .. n : /\ cq' = Append(cq, [ssn |-> s, status |-> "SUCCESS"])
                    /\ r.aeth = "ACK" /\ r.psn + 1 = InitPsn + start[s + 1]

Advances(r) ==
  \/ mpsn' = mpsn
  \/ Known(r) /\ (mpsn' = r.psn \/ (r.aeth = "ACK" /\ mpsn' = next_psn(r.psn)))

LEMMA GotoErrFails ==
  ASSUME NEW n, NEW plan, NEW start, NEW P, FromPlan(P, n, plan, start),
         NEW R, \A p \in DOMAIN R : R[p] \in DOMAIN P,
         NEW h, NEW p, NEW status \in Statuses \ {"SUCCESS"}, GotoErrState(P, R, h, p, status)
  PROVE  UNCHANGED cq \/ Fails(n)
  <1>1. CASE p \notin DOMAIN R
    BY <1>1 DEF GotoErrState
  <1>2. CASE p \in DOMAIN R
    <2>1. R[p] \in 1 .. n
      BY <1>2 DEF FromPlan
    <2>2. cq' = Append(cq, [ssn |-> R[p], status |-> status])
      BY <1>2 DEF GotoErrState
    <2>. QED BY <2>1, <2>2 DEF Fails
  <1>. QED BY <1>1, <1>2

LEMMA RetryFails ==
  ASSUME NEW n, NEW plan, NEW start, HasPlan(n, plan, start),
         NEW h \in Ssn, Reached(h), NEW from, NEW type, NEW all, Retry(h, from, type, all)
  PROVE  UNCHANGED cq \/ Fails(n)
  <1>1. Work /\ Books(pend, reqSsn, mssn)
    BY DEF HasPlan
  <1>2. ASSUME NEW C, NEW R, Resent(h, from, C, R),
               NEW p, NEW status \in Statuses \ {"SUCCESS"}, GotoErrState(C, R, h, p, status)
        PROVE  UNCHANGED cq \/ Fails(n)
    <2>1. FromPlan(C, n, plan, start)
      BY <1>2, ResentPlan
    <2>2. Books(C, R, h)
      <3>1. Books(PendFrom(h), ReqFrom(h), h)
        BY AcksKeepPlan
      <3>. QED BY <1>1, <1>2, <3>1, ResentBooks
    <2>. QED BY <1>2, <2>1, <2>2, GotoErrFails DEF Books
  <1>. QED BY <1>1, <1>2, RetryResult

LEMMA RetryKeeps ==
  ASSUME Work, NEW h \in Ssn, NEW from, NEW type, NEW all, Retry(h, from, type, all)
  PROVE  UNCHANGED <<sqPsn, posted>>
  <1>1. ASSUME NEW C, NEW R, NEW p, NEW status, GotoErrState(C, R, h, p, status)
        PROVE  UNCHANGED <<sqPsn, posted>>
    BY <1>1 DEF GotoErrState
  <1>. QED BY <1>1, RetryResult

LEMMA CheckTimeoutEffect ==
  ASSUME NEW N, ReqInv(N), NEW n, NEW plan, NEW start, Sends(n, plan, start), CheckTimeout
  PROVE  UNCHANGED <<mpsn, posted, sqPsn>> /\ (UNCHANGED cq \/ (Working /\ Fails(n)))
  <1>1. Work /\ Running /\ mssn \in Ssn /\ WindowInv
    BY InvSplit DEF CheckTimeout, Work, ReqInv
  <1>2. CASE mpsn \in DOMAIN reqSsn /\ Retry(mssn, mpsn, "TIMEOUT", FALSE)
    <2>1. qps = "RTS" /\ Working
      BY <1>1, <1>2 DEF WindowInv, NothingLeft, Working
    <2>2. HasPlan(n, plan, start)
      BY <2>1, WorkingPlan
    <2>3. Reached(mssn)
      BY <1>1, SsnRangeEmpty DEF Reached
    <2>4. UNCHANGED <<sqPsn, posted>>
      BY <1>1, <1>2, RetryKeeps
    <2>5. UNCHANGED mpsn
      BY DEF CheckTimeout
    <2>. QED BY <1>1, <1>2, <2>1, <2>2, <2>3, <2>4, <2>5, RetryFails
  <1>3. CASE UNCHANGED <<mpsn, posted, sqPsn, cq>>
    BY <1>3
  <1>. QED BY <1>2, <1>3 DEF CheckTimeout

LEMMA ResponseEffect ==
  ASSUME NEW n, NEW plan, NEW start, HasPlan(n, plan, start),
         NEW r \in Responses, LastOfWr(r, n, start), RecvResponse(r)
  PROVE  /\ Advances(r) /\ UNCHANGED <<posted, sqPsn>>
         /\ UNCHANGED cq \/ Fails(n) \/ Succeeds(r, n, start)
  <1>1. CASE RecvPartial(r)
    BY <1>1 DEF RecvPartial, Expected, Advances
  <1>2. CASE RecvComplete(r)
    <2>1. /\ Known(r) /\ UNCHANGED <<posted, sqPsn>> /\ mpsn' = next_psn(r.psn)
          /\ cq' = Append(cq, [ssn |-> Cur(r), status |-> "SUCCESS"])
      BY <1>2 DEF RecvComplete, Expected
    <2>2. Cur(r) \in 1 .. n
      BY <2>1, AnswerOwned
    <2>3. r.psn + 1 = InitPsn + start[Cur(r) + 1] /\ r.aeth = "ACK"
      BY <1>2, CompletesAtEnd
    <2>. QED BY <2>1, <2>2, <2>3 DEF Advances, Succeeds
  <1>3. CASE RecvRetry(r)
    <2>1. Advances(r)
      BY <1>3 DEF RecvRetry, Expected, Advances, MpsnAt
    <2>2. PICK h \in Ssn : \E from, type : Reached(h) /\ Retry(h, from, type, TRUE)
      BY <1>3, RetryAtOwner
    <2>3. UNCHANGED <<posted, sqPsn>>
      BY <2>2, RetryKeeps DEF HasPlan
    <2>. QED BY <2>1, <2>2, <2>3, RetryFails
  <1>4. CASE RecvError(r)
    <2> DEFINE h == Unacked(r)
    <2>1. /\ Known(r) /\ ~ImplicitNak(r) /\ mpsn' = MpsnAt(r)
          /\ \E p : \E status \in Statuses \ {"SUCCESS"} :
               GotoErrState(PendFrom(h), ReqFrom(h), h, p, status)
      BY <1>4, RequesterAssumption DEF RecvError, Expected, Statuses
    <2>2. Advances(r)
      BY <2>1 DEF Advances, MpsnAt
    <2>3. UNCHANGED <<posted, sqPsn>>
      BY <2>1 DEF GotoErrState
    <2>4. Reached(h) /\ h \in Ssn
      BY <2>1, UnackedReached DEF HasPlan
    <2> HIDE DEF h
    <2>5. FromPlan(PendFrom(h), n, plan, start) /\ Books(PendFrom(h), ReqFrom(h), h)
      BY <2>4, AcksKeepPlan
    <2>6. \A p \in DOMAIN ReqFrom(h) : ReqFrom(h)[p] \in DOMAIN PendFrom(h)
      BY <2>5 DEF Books
    <2>7. UNCHANGED cq \/ Fails(n)
      BY <2>1, <2>5, <2>6, GotoErrFails
    <2>. QED BY <2>2, <2>3, <2>7
  <1>5. CASE RecvUnexpected(r)
    BY <1>5 DEF RecvUnexpected, Advances
  <1>6. CASE RecvCrash(r)
    BY <1>6 DEF RecvCrash, Expected, Advances, MpsnAt
  <1>. QED BY <1>1, <1>2, <1>3, <1>4, <1>5, <1>6 DEF RecvResponse

\* A response to a queue pair in the error state ends the program.
LEMMA AnswerInError ==
  ASSUME NEW r, RecvResponse(r), ~Working
  PROVE  RecvCrash(r) /\ UNCHANGED <<mpsn, cq, posted, sqPsn>>
  BY DEF RecvResponse, RecvPartial, RecvComplete, RecvRetry, RecvError, RecvUnexpected, RecvCrash,
         Expected, Working

LEMMA AnswerSends ==
  ASSUME NEW N, ReqInv(N), NEW n, NEW plan, NEW start, Sends(n, plan, start),
         NEW r \in Responses, LastOfWr(r, n, start), RecvResponse(r)
  PROVE  SendsSame(n, plan, start)
  <1>1. CASE Working
    <2>1. HasPlan(n, plan, start) /\ Running
      BY <1>1, WorkingPlan DEF Working
    <2>. QED BY <1>1, <2>1, RecvPartialSends, RecvCompleteSends, RecvRetrySends, RecvErrorSends,
                RecvUnexpectedSends, RecvCrashSends DEF RecvResponse
  <1>2. CASE ~Working
    BY <1>2, AnswerInError, RecvCrashSends
  <1>. QED BY <1>1, <1>2

LEMMA SameSends ==
  ASSUME NEW n, NEW plan, NEW start, Sends(n, plan, start), Aside \/ UNCHANGED vars
  PROVE  Sends(n, plan, start)'
  BY DEF Sends, Aside, vars, Working, Running, Owned

-----------------------------------------------------------------------------
(***************************************************************************)
(* The packets of the plan are requests as the responder was proved to     *)
(* take them.                                                              *)
(***************************************************************************)
InSpace(n, start) == InitPsn + start[n + 1] < MAX_PSN

LEMMA PsnOffset ==
  ASSUME NEW x \in Nat, InitPsn + x < MAX_PSN
  PROVE  InitPsn + x \in Psn /\ Offset(InitPsn + x) = x
  <1>1. InitPsn + x \in Psn
    BY InitPsnType DEF Psn
  <1>. QED BY <1>1, OffsetCases, InitPsnType

LEMMA OffsetPsn ==
  ASSUME NEW p \in Psn, InitPsn + Offset(p) < MAX_PSN
  PROVE  p = InitPsn + Offset(p)
  BY OffsetCases, InitPsnType, MaxPsnAssumption DEF Psn

LEMMA NumberedPlan ==
  ASSUME NEW n, NEW plan, NEW start, Numbered(n, plan, start), InSpace(n, start)
  PROVE  n \in Nat /\ PlanOf(n, start)
  <1>1. start[n + 1] < MAX_PSN
    BY PlanOrder, InitPsnType DEF InSpace
  <1>. QED BY <1>1 DEF Numbered, PlanOf

LEMMA WireFits ==
  ASSUME NEW n, NEW plan, NEW start, Numbered(n, plan, start), InSpace(n, start),
         NEW k, OnWire(k, n, plan, start)
  PROVE  /\ k \in Request /\ Fits(k, n, start) /\ k.op = plan[k.ssn].op
         /\ k.psn = InitPsn + Offset(k.psn)
  <1>1. PICK s \in 1 .. n : \E q \in PsnsOf(PlanCtx(s, plan, start)) :
                              k = Packet(s, PlanCtx(s, plan, start), q)
    BY DEF OnWire
  <1> DEFINE w == plan[s]
             first == InitPsn + start[s]
             c == PlanCtx(s, plan, start)
  <1>2. c.wr = w /\ c.first = first
    BY DEF PlanCtx, WrCtx
  <1>3. PICK p \in first .. (first + w.n - 1) : k = Packet(s, c, p)
    BY <1>1, <1>2 DEF PsnsOf
  <1> HIDE DEF c
  <1>4. /\ n \in Nat /\ start[s] \in Nat /\ w.n \in Nat /\ w.n >= 1
        /\ start[s + 1] = start[s] + w.n /\ start[s + 1] <= start[n + 1]
        /\ w \in WorkReqs /\ start[n + 1] \in Nat
    BY PlanOrder
  <1>5. w.op \in Ops /\ w.sig \in BOOLEAN /\ (w.op = "ATOMIC" => w.n = 1)
    BY <1>4, WorkReqLength
  <1> DEFINE i == p - first
             o == start[s] + i
  <1> HIDE DEF w
  <1>6. i \in Nat /\ i < w.n /\ o \in Nat /\ o < start[s + 1] /\ start[s] <= o
        /\ p = InitPsn + o /\ InitPsn + o < MAX_PSN
    BY <1>3, <1>4, InitPsnType DEF InSpace
  <1>7. p \in Psn /\ first \in Psn /\ Offset(p) = o /\ first <= p
    <2>1. InitPsn + start[s] < MAX_PSN
      BY <1>4, InitPsnType DEF InSpace
    <2>. QED BY <1>3, <1>4, <1>6, <2>1, PsnOffset, InitPsnType
  <1>8. p % MAX_PSN = p
    BY <1>7, MaxPsnAssumption, ModLow DEF Psn
  <1>9. RangeLen(first, p, MAX_PSN) = i
    BY <1>7, RangeLenCases
  <1> HIDE DEF first, i, o
  <1>10. /\ k.ssn = s /\ k.op = w.op /\ k.psn = p /\ k.place = Place(c, p)
         /\ k.len = IF w.op = "READ" THEN w.n - i ELSE 1
         /\ k.ackreq \in BOOLEAN
         /\ k = [ssn |-> k.ssn, op |-> k.op, psn |-> k.psn, place |-> k.place,
                 ackreq |-> k.ackreq, len |-> k.len]
    BY <1>2, <1>3, <1>5, <1>8, <1>9 DEF Packet
  <1>11. Place(c, p) = IF ReadOrAtomic(w) \/ w.n = 1 THEN "ONLY"
                       ELSE IF i = 0 THEN "FIRST" ELSE IF i = w.n - 1 THEN "LAST" ELSE "MIDDLE"
    BY <1>2 DEF Place, i
  <1>12. ReadOrAtomic(w) <=> ~IsMessage(k)
    BY <1>5, <1>10 DEF ReadOrAtomic, IsMessage, Ops
  <1>13. k.len \in Nat \ {0} /\ (ReadOrAtomic(w) => o + k.len = start[s + 1])
    <2>1. CASE w.op = "READ"
      BY <1>4, <1>6, <1>10, <2>1 DEF o
    <2>2. CASE w.op # "READ"
      <3>1. k.len = 1
        BY <1>10, <2>2
      <3>2. ReadOrAtomic(w) => w.n = 1
        BY <1>5, <2>2 DEF ReadOrAtomic
      <3>. QED BY <1>4, <1>6, <3>1, <3>2
    <2>. QED BY <2>1, <2>2
  <1>14. k \in Request
    <2>1. k.ssn \in Nat /\ k.op \in {"SEND", "WRITE", "WRITE_IMM", "READ", "ATOMIC"} /\ k.psn \in Psn
      BY <1>4, <1>5, <1>7, <1>10 DEF Ops
    <2>2. k.place \in {"FIRST", "MIDDLE", "LAST", "ONLY"}
      BY <1>10, <1>11
    <2>. QED BY <1>10, <1>13, <2>1, <2>2 DEF Request
  <1>15. IsMessage(k) => /\ Begins(k) <=> o = start[s]
                         /\ Ends(k) <=> o + 1 = start[s + 1]
    <2> SUFFICES ASSUME ~ReadOrAtomic(w)
                 PROVE  /\ Begins(k) <=> o = start[s]
                        /\ Ends(k) <=> o + 1 = start[s + 1]
      BY <1>12
    <2>1. k.place = IF w.n = 1 THEN "ONLY"
                    ELSE IF i = 0 THEN "FIRST" ELSE IF i = w.n - 1 THEN "LAST" ELSE "MIDDLE"
      BY <1>10, <1>11
    <2>2. (o = start[s] <=> i = 0) /\ (o + 1 = start[s + 1] <=> i = w.n - 1)
      BY <1>4, <1>6 DEF o
    <2>. QED BY <1>4, <1>6, <2>1, <2>2 DEF Begins, Ends
  <1>16. Fits(k, n, start)
    <2>1. Offset(k.psn) = o
      BY <1>7, <1>10
    <2>2. ~IsMessage(k) => k.place = "ONLY"
      BY <1>10, <1>11, <1>12
    <2>3. k.op = "ATOMIC" => k.len = 1
      BY <1>10
    <2>. QED BY <1>6, <1>10, <1>12, <1>13, <1>15, <2>1, <2>2, <2>3 DEF Fits
  <1>. QED BY <1>6, <1>7, <1>10, <1>14, <1>16 DEF w

-----------------------------------------------------------------------------
(***************************************************************************)
(* The responder takes the packets of the plan.  Only a message is ever    *)
(* left unfinished, so the answers to a read sent again end below ePSN.    *)
(***************************************************************************)
TakesPlan(n, plan, start) ==
  /\ ExecInv(n, start)
  /\ openMsg # "NONE" => ~ReadOrAtomic(plan[Len(done) + 1])

\* What a packet in the network tells the requester.
Told(r, n, start) ==
  /\ r \in Responses /\ LastOfWr(r, n, start)
  /\ Offset(r.psn) <= Offset(epsn)
  /\ r.aeth \in {"ACK", "NONE"} => Offset(r.psn) < Offset(epsn)

\* Or it is a saved response wrapped into another packet, which no handler sees.
Wraps == {Response("WRAPPED", p, "NONE") : p \in Psn}

LEMMA WrapsApart ==
  /\ \A r \in Wraps : Wrapped(r)
  /\ IsFiniteSet(Wraps)
  <1>1. \A r \in Wraps : Wrapped(r)
    BY DEF Wraps, Wrapped, Response
  <1>2. IsFiniteSet(Psn)
    BY FS_Interval, MaxPsnAssumption DEF Psn
  <1>3. IsFiniteSet(Wraps)
    <2> DEFINE wrap == [p \in Psn |-> Response("WRAPPED", p, "NONE")]
    <2>1. wrap \in [Psn -> Wraps] /\ \A r \in Wraps : \E p \in Psn : r = wrap[p]
      BY DEF Wraps
    <2>2. wrap \in Surjection(Psn, Wraps)
      BY <2>1 DEF Surjection
    <2>. QED BY <1>2, <2>2, FS_Surjection
  <1>. QED BY <1>1, <1>3

LEMMA AckTold ==
  ASSUME NEW n, NEW start, NEW p \in Psn, NEW code \in {"ACK", "RNR", "NAK_SEQ"} \cup Refusals,
         NEW m, Offset(epsn)' = m, m \in Nat,
         Offset(p) <= m, code = "ACK" => Offset(p) < m
  PROVE  Told(Ack(p, code), n, start)'
  <1>0. PICK r : r = Ack(p, code)
    OBVIOUS
  <1>1. r.op = "ACK" /\ r.psn = p /\ r.aeth = code
    BY <1>0 DEF Ack, Response
  <1>2. r \in Responses
    BY <1>0, LinkAssumption DEF Ack, Response, Responses
  <1>3. LastOfWr(r, n, start) /\ code # "NONE"
    BY <1>1, ResponderAssumption DEF LastOfWr
  <1>. QED BY <1>0, <1>1, <1>2, <1>3 DEF Told, Offset

LEMMA AtomicTold ==
  ASSUME NEW n, NEW start, NEW p \in Psn, NEW m, Offset(epsn)' = m, m \in Nat, Offset(p) < m,
         \E t \in 1 .. n : p + 1 = InitPsn + start[t + 1]
  PROVE  Told(Response("ATOMIC_ACK", p, "ACK"), n, start)'
  <1>0. PICK r : r = Response("ATOMIC_ACK", p, "ACK")
    OBVIOUS
  <1>1. r.op = "ATOMIC_ACK" /\ r.psn = p /\ r.aeth = "ACK"
    BY <1>0 DEF Response
  <1>2. r \in Responses
    BY <1>0 DEF Response, Responses
  <1>3. LastOfWr(r, n, start)
    BY <1>1 DEF LastOfWr
  <1>4. Offset(p) \in Nat
    BY OffsetCases
  <1>. QED BY <1>0, <1>1, <1>2, <1>3, <1>4 DEF Told, Offset

LEMMA ReadTold ==
  ASSUME NEW n, NEW start, NEW k \in Request, NEW m, Offset(epsn)' = m, m \in Nat, m < MAX_PSN,
         Offset(k.psn) + k.len <= m, NEW r \in ReadResponses(k)
  PROVE  Told(r, n, start)'
  <1>1. k.psn \in Psn /\ k.len \in Nat \ {0} /\ Offset(k.psn) \in Nat
    BY RequestType, OffsetCases
  <1>2. PICK i \in 0 .. (k.len - 1) :
          r = Response(CASE k.len = 1                -> "READ_ONLY"
                         [] k.len > 1 /\ i = 0       -> "READ_FIRST"
                         [] k.len > 1 /\ i = k.len-1 -> "READ_LAST"
                         [] OTHER                    -> "READ_MIDDLE",
                       (k.psn + i) % MAX_PSN,
                       IF k.len > 2 /\ i \in 1 .. (k.len - 2) THEN "NONE" ELSE "ACK")
    BY DEF ReadResponses
  <1>3. (k.psn + i) % MAX_PSN \in Psn /\ Offset((k.psn + i) % MAX_PSN) = Offset(k.psn) + i
    <2>1. i \in Nat /\ Offset(k.psn) + i < MAX_PSN
      BY <1>1, InitPsnType
    <2>. QED BY <1>1, <2>1, OffsetPlus
  <1>4. r.psn = (k.psn + i) % MAX_PSN /\ Offset(r.psn) < m /\ Offset(r.psn) \in Nat
    BY <1>1, <1>2, <1>3 DEF Response
  <1>5. r.op # "ATOMIC_ACK" /\ r \in Responses
    <2>1. CASE k.len = 1
      BY <1>2, <1>3, <2>1 DEF Response, Responses, ReadOps
    <2>2. CASE k.len > 1 /\ i = 0
      BY <1>1, <1>2, <1>3, <2>2 DEF Response, Responses, ReadOps
    <2>3. CASE k.len > 1 /\ i = k.len - 1
      BY <1>1, <1>2, <1>3, <2>3 DEF Response, Responses, ReadOps
    <2>4. CASE k.len > 1 /\ i # 0 /\ i # k.len - 1
      BY <1>1, <1>2, <1>3, <2>4 DEF Response, Responses, ReadOps
    <2>. QED BY <1>1, <2>1, <2>2, <2>3, <2>4
  <1>6. Offset(r.psn) <= m
    BY <1>4
  <1>. QED BY <1>4, <1>5, <1>6 DEF Told, LastOfWr, Offset

\* The requester is less than half of the PSNs ahead of the responder.
Near(n, start) == start[n + 1] < Offset(epsn) + HALF

\* A read behind ePSN belongs to a request that is done.
LEMMA BehindDone ==
  ASSUME NEW n, NEW plan, NEW start, Numbered(n, plan, start), InSpace(n, start),
         Near(n, start), TakesPlan(n, plan, start), NEW k, OnWire(k, n, plan, start), Behind(k)
  PROVE  /\ Offset(k.psn) < Offset(epsn)
         /\ k.op = "READ" => Offset(k.psn) + k.len <= Offset(epsn)
  <1>1. /\ k \in Request /\ Fits(k, n, start) /\ k.op = plan[k.ssn].op
        /\ n \in Nat /\ PlanOf(n, start) /\ ExecInv(n, start)
    BY WireFits, NumberedPlan DEF TakesPlan
  <1> DEFINE d == Len(done)
             o == Offset(epsn)
  <1>2. /\ d \in Nat /\ d <= n /\ o \in Nat /\ o <= start[n + 1]
        /\ \A s \in 1 .. n : start[s + 1] <= o <=> s <= d
    BY <1>1, EpsnInPlan
  <1>3. /\ k.ssn \in 1 .. n /\ start[k.ssn] <= Offset(k.psn) /\ Offset(k.psn) < start[k.ssn + 1]
        /\ Offset(k.psn) \in Nat /\ start[k.ssn] \in Nat /\ start[k.ssn + 1] \in Nat
        /\ start[n + 1] \in Nat /\ start[k.ssn + 1] <= start[n + 1] /\ HALF \in Nat
        /\ k.psn \in Psn /\ epsn \in Psn /\ start[n + 1] < o + HALF
    <2>1. k.psn \in Psn /\ epsn \in Psn /\ HALF \in Nat
      BY <1>1, RequestType, OldestCases DEF ExecInv, RespTypeOK
    <2>. QED BY <1>1, <2>1, OffsetCases, PlanOrder DEF Fits, Near
  <1> HIDE DEF o, d
  <1>4. Offset(k.psn) < o + HALF
    BY <1>2, <1>3
  <1>5. Offset(k.psn) < o
    BY <1>3, <1>4, CompareOffsets DEF Behind, o
  <1>6. ASSUME k.op = "READ" PROVE Offset(k.psn) + k.len <= o
    <2>1. Offset(k.psn) + k.len = start[k.ssn + 1]
      BY <1>1, <1>6 DEF Fits, IsMessage
    <2>2. k.ssn <= d
      <3> SUFFICES ASSUME ~(k.ssn <= d) PROVE FALSE
        OBVIOUS
      <3>1. k.ssn >= d + 1 /\ d + 1 \in 1 .. n
        BY <1>1, <1>2, <1>3
      <3>2. start[d + 1] <= start[k.ssn]
        BY <1>2, <1>3, <3>1, PlanOrder
      <3>3. CASE openMsg = "NONE"
        <4>1. o = start[d + 1]
          BY <1>1, <3>3 DEF ExecInv, NextPacket, o, d
        <4>. QED BY <1>2, <1>3, <1>5, <3>2, <4>1
      <3>4. CASE openMsg # "NONE"
        <4>1. /\ ~ReadOrAtomic(plan[d + 1]) /\ o < start[d + 2]
          BY <1>1, <3>4 DEF TakesPlan, ExecInv, NextPacket, o, d
        <4>2. k.ssn # d + 1
          BY <1>1, <1>6, <4>1 DEF ReadOrAtomic
        <4>3. d + 2 <= k.ssn /\ d + 2 \in 1 .. (n + 1) /\ k.ssn \in 1 .. (n + 1)
          BY <1>1, <1>2, <1>3, <3>1, <4>2
        <4>4. start[d + 2] <= start[k.ssn] /\ start[d + 2] \in Nat
          BY <4>3, PlanOrder
        <4>. QED BY <1>2, <1>3, <1>5, <4>1, <4>4
      <3>. QED BY <3>3, <3>4
    <2>. QED BY <1>2, <1>3, <2>1, <2>2
  <1>. QED BY <1>5, <1>6 DEF o

LEMMA NaksTold ==
  ASSUME NEW n, NEW start, NEW p \in Psn, NEW m, Offset(epsn)' = m, m \in Nat, Offset(p) <= m,
         Naks(p), NEW r \in out'
  PROVE  Told(r, n, start)'
  <1>1. PICK c \in {"RNR", "NAK_SEQ"} \cup Refusals : r = Ack(p, c)
    BY DEF Naks
  <1>2. c # "ACK"
    BY ResponderAssumption
  <1>3. Told(Ack(p, c), n, start)'
    BY <1>2, AckTold
  <1>. QED BY <1>1, <1>3

LEMMA StaysTaking ==
  ASSUME NEW n, NEW plan, NEW start, TakesPlan(n, plan, start), RespTypeOK',
         UNCHANGED <<epsn, openMsg, done>>
  PROVE  TakesPlan(n, plan, start)' /\ Offset(epsn)' = Offset(epsn)
  BY DEF TakesPlan, ExecInv, ExecutesInOrder, NextPacket, Offset

LEMMA RequestTaken ==
  ASSUME NEW n, NEW plan, NEW start, Numbered(n, plan, start), InSpace(n, start),
         Near(n, start), TakesPlan(n, plan, start), NEW k, OnWire(k, n, plan, start), RecvRequest(k)
  PROVE  /\ TakesPlan(n, plan, start)' /\ Offset(epsn) <= Offset(epsn)'
         /\ \A r \in out' : r \in Wraps \/ Told(r, n, start)'
         /\ Len(done)' = Len(done) \/ Len(done)' = Len(done) + 1
  <1>1. /\ k \in Request /\ Fits(k, n, start) /\ k.op = plan[k.ssn].op
        /\ k.psn = InitPsn + Offset(k.psn)
        /\ n \in Nat /\ PlanOf(n, start) /\ ExecInv(n, start)
    BY WireFits, NumberedPlan DEF TakesPlan
  <1>2. RespTypeOK /\ RespTypeOK' /\ epsn \in Psn /\ Offset(epsn) \in Nat /\ Offset(epsn) < MAX_PSN
    <2>1. RespTypeOK
      BY <1>1 DEF ExecInv
    <2>2. RespTypeOK'
      BY <1>1, <2>1, RecvTypes
    <2>. QED BY <2>1, <2>2, OffsetCases DEF RespTypeOK
  <1>3. k.psn \in Psn /\ Offset(k.psn) \in Nat
    BY <1>1, RequestType, OffsetCases
  <1>4. \/ Stays /\ Naks(epsn)
        \/ Stays /\ Behind(k) /\ (Naks(k.psn) \/ AnsweredAgain(k))
        \/ Up /\ k.psn = epsn /\ LegalOrder(k) /\ Executes(k) /\ Answered(k)
    BY <1>1, <1>2, RecvEffect
  <1>5. PICK m : m = Offset(epsn)
    OBVIOUS
  <1>6. CASE Stays
    <2>1. /\ UNCHANGED <<epsn, openMsg, done>> /\ TakesPlan(n, plan, start)' /\ Offset(epsn)' = m
      BY <1>2, <1>5, <1>6, StaysTaking DEF Stays
    <2>2. ASSUME Naks(epsn), NEW r \in out' PROVE Told(r, n, start)'
      <3>1. PICK p : p = epsn
        OBVIOUS
      <3>2. Naks(p) /\ p \in Psn /\ Offset(p) <= m
        BY <1>2, <1>5, <2>2, <3>1
      <3>. QED BY <1>2, <1>5, <2>1, <2>2, <3>2, NaksTold
    <2>3. ASSUME Behind(k), Naks(k.psn), NEW r \in out' PROVE Told(r, n, start)'
      <3>1. Offset(k.psn) <= m
        BY <1>2, <1>3, <1>5, <2>3, BehindDone
      <3>. QED BY <1>2, <1>3, <1>5, <2>1, <2>3, <3>1, NaksTold
    <2>4. ASSUME Behind(k), k.op = "READ", out' = ReadResponses(k), NEW r \in out'
          PROVE  Told(r, n, start)'
      <3>1. Offset(k.psn) + k.len <= m
        BY <1>5, <2>4, BehindDone
      <3>. QED BY <1>1, <1>2, <1>5, <2>1, <2>4, <3>1, ReadTold
    <2>5. ~(k.psn = epsn /\ LegalOrder(k) /\ Executes(k))
      <3>1. SUFFICES ASSUME Executes(k), k.psn = epsn, LegalOrder(k) PROVE FALSE
        OBVIOUS
      <3>2. Offset(epsn)' = Offset(epsn) + (IF IsMessage(k) THEN 1 ELSE k.len)
        BY <1>1, <1>2, <3>1, ExecutesNext
      <3>3. k.len \in Nat \ {0}
        BY <1>1, RequestType
      <3>. QED BY <1>2, <1>5, <2>1, <3>2, <3>3
    <2>6. \A r \in out' : r \in Wraps \/ Told(r, n, start)'
      <3>1. CASE Stays /\ Naks(epsn)
        BY <2>2, <3>1
      <3>2. CASE Behind(k) /\ Naks(k.psn)
        BY <2>3, <3>2
      <3>3. CASE Behind(k) /\ k.op = "READ" /\ out' = ReadResponses(k)
        BY <2>4, <3>3
      <3>4. CASE out' = {SavedAgain(k)}
        BY <1>3, <3>4 DEF Wraps, SavedAgain
      <3>. QED BY <1>4, <2>5, <3>1, <3>2, <3>3, <3>4 DEF AnsweredAgain
    <2>7. Len(done)' = Len(done) /\ Offset(epsn) <= Offset(epsn)'
      BY <1>2, <1>5, <2>1
    <2>. QED BY <2>1, <2>6, <2>7
  <1>7. CASE k.psn = epsn /\ LegalOrder(k) /\ Executes(k) /\ Answered(k)
    <2> DEFINE step == IF IsMessage(k) THEN 1 ELSE k.len
    <2>1. ExecInv(n, start)' /\ Offset(epsn)' = Offset(epsn) + step
      BY <1>1, <1>2, <1>7, ExecutesNext
    <2>2. step \in Nat \ {0}
      BY <1>1, RequestType
    <2>3. /\ Len(done) \in Nat /\ Len(done) < n /\ k.ssn = Len(done) + 1
      BY <1>1, <1>7, ExpectedIsNext
    <2>4. done' = done \/ done' = Append(done, k.ssn)
      BY <1>7 DEF Executes
    <2>5. Len(done') = Len(done) \/ Len(done') = Len(done) + 1
      <3>1. done \in Seq(Nat) /\ k.ssn \in Nat
        BY <1>2, <2>3 DEF RespTypeOK
      <3>. QED BY <2>4, <3>1, AppendProperties
    <2>6. openMsg' # "NONE" => ~ReadOrAtomic(plan[Len(done) + 1])'
      <3> SUFFICES ASSUME openMsg' # "NONE" PROVE ~ReadOrAtomic(plan[Len(done') + 1])
        BY DEF ReadOrAtomic
      <3>1. IsMessage(k) /\ done' = done
        BY <1>7 DEF Executes
      <3>2. plan[Len(done') + 1].op = k.op
        BY <1>1, <2>3, <3>1
      <3>. QED BY <3>1, <3>2 DEF IsMessage, ReadOrAtomic
    <2>7. TakesPlan(n, plan, start)'
      BY <2>1, <2>6 DEF TakesPlan
    <2>8. PICK o : o = Offset(epsn)'
      OBVIOUS
    <2> HIDE DEF step
    <2>9. o \in Nat /\ o < MAX_PSN /\ o = Offset(k.psn) + step /\ Offset(k.psn) < o
      <3>1. epsn' \in Psn
        BY <1>2 DEF RespTypeOK
      <3>2. Offset(epsn') < MAX_PSN
        BY <3>1, OffsetCases
      <3>3. Offset(epsn') = Offset(epsn)'
        BY DEF Offset
      <3>. QED BY <1>2, <1>7, <2>1, <2>2, <2>8, <3>2, <3>3
    <2>10. ASSUME NEW r \in AnswerTo(k) PROVE Told(r, n, start)'
      <3>1. CASE IsMessage(k)
        <4>1. r = Ack(k.psn, "ACK") /\ Offset(k.psn) <= o
          BY <1>3, <2>9, <2>10, <3>1 DEF AnswerTo
        <4>. QED BY <1>3, <2>8, <2>9, <4>1, AckTold
      <3>2. CASE ~IsMessage(k) /\ k.op = "READ"
        <4>1. r \in ReadResponses(k) /\ Offset(k.psn) + k.len <= o
          BY <1>3, <2>9, <2>10, <3>2 DEF AnswerTo, step
        <4>. QED BY <1>1, <2>8, <2>9, <4>1, ReadTold
      <3>3. CASE ~IsMessage(k) /\ k.op # "READ"
        <4>1. r = Response("ATOMIC_ACK", k.psn, "ACK") /\ k.op = "ATOMIC"
          BY <1>1, <2>10, <3>3, RequestType DEF AnswerTo, IsMessage
        <4>2. /\ k.ssn \in 1 .. n /\ k.len = 1 /\ Offset(k.psn) + k.len = start[k.ssn + 1]
          BY <1>1, <3>3, <4>1 DEF Fits
        <4>3. k.psn + 1 = InitPsn + start[k.ssn + 1]
          BY <1>1, <1>3, <4>2, InitPsnType
        <4>. QED BY <1>3, <2>8, <2>9, <4>1, <4>2, <4>3, AtomicTold
      <3>. QED BY <3>1, <3>2, <3>3
    <2>11. \A r \in out' : Told(r, n, start)'
      BY <1>7, <2>10 DEF Answered
    <2>. QED BY <1>2, <2>1, <2>2, <2>5, <2>7, <2>11
  <1>. QED BY <1>4, <1>6, <1>7

-----------------------------------------------------------------------------
(***************************************************************************)
(* The network.  What a call sends is finite, so it is a sequence.         *)
(***************************************************************************)
Wire(n, plan, start) == {k \in Request : OnWire(k, n, plan, start)}

Heard(n, start) == {r \in Responses : Told(r, n, start)} \cup Wraps

LEMMA FiniteImage ==
  ASSUME NEW S, IsFiniteSet(S), NEW V, NEW f \in [S -> V], NEW T, \A t \in T : \E x \in S : t = f[x]
  PROVE  IsFiniteSet(T)
  <1> DEFINE U == {f[x] : x \in S}
  <1>1. f \in Surjection(S, U)
    BY DEF Surjection
  <1>2. IsFiniteSet(U)
    BY <1>1, FS_Surjection
  <1>3. T \in SUBSET U
    OBVIOUS
  <1> HIDE DEF U
  <1>. QED BY <1>2, <1>3, FS_Subset

LEMMA FiniteWire ==
  ASSUME NEW n, NEW plan, NEW start, Numbered(n, plan, start), InSpace(n, start)
  PROVE  IsFiniteSet(Wire(n, plan, start))
  <1> DEFINE last == InitPsn + start[n + 1]
             S == (1 .. n) \X (InitPsn .. last)
             f == [x \in S |-> Packet(x[1], PlanCtx(x[1], plan, start), x[2])]
             V == {f[x] : x \in S}
  <1>1. n \in Int /\ InitPsn \in Int /\ last \in Int
    BY PlanOrder, InitPsnType
  <1>2. IsFiniteSet(S)
    <2> HIDE DEF last
    <2>1. IsFiniteSet(1 .. n) /\ IsFiniteSet(InitPsn .. last)
      BY <1>1, FS_Interval
    <2>. QED BY <2>1, FS_Product
  <1>3. f \in [S -> V]
    OBVIOUS
  <1>4. ASSUME NEW k \in Wire(n, plan, start) PROVE \E x \in S : k = f[x]
    <2>1. PICK s \in 1 .. n : \E p \in PsnsOf(PlanCtx(s, plan, start)) :
                                k = Packet(s, PlanCtx(s, plan, start), p)
      BY DEF Wire, OnWire
    <2>2. PICK p \in PsnsOf(PlanCtx(s, plan, start)) : k = Packet(s, PlanCtx(s, plan, start), p)
      BY <2>1
    <2>3. p \in (InitPsn + start[s]) .. (InitPsn + start[s] + plan[s].n - 1)
      BY <2>2 DEF PsnsOf, PlanCtx, WrCtx
    <2>4. /\ start[s] \in Nat /\ plan[s].n \in Nat /\ start[s + 1] = start[s] + plan[s].n
          /\ start[s + 1] <= start[n + 1] /\ start[n + 1] \in Nat
      BY PlanOrder
    <2>5. p \in InitPsn .. last
      BY <1>1, <2>3, <2>4
    <2>6. <<s, p>> \in S
      BY <2>5
    <2>7. f[<<s, p>>] = k
      BY <2>2, <2>6
    <2>. QED BY <2>6, <2>7
  <1> HIDE DEF S, f, V
  <1>. QED BY <1>2, <1>3, <1>4, FiniteImage

LEMMA FiniteFour ==
  ASSUME NEW a, NEW b, NEW c, NEW d
  PROVE  IsFiniteSet({a, b, c, d})
  <1>1. /\ IsFiniteSet({a}) /\ IsFiniteSet({b}) /\ IsFiniteSet({c}) /\ IsFiniteSet({d})
    BY FS_Singleton
  <1>2. IsFiniteSet({a} \cup {b}) /\ IsFiniteSet({c} \cup {d})
    BY <1>1, FS_Union
  <1>3. IsFiniteSet(({a} \cup {b}) \cup ({c} \cup {d}))
    BY <1>2, FS_Union
  <1>4. ({a} \cup {b}) \cup ({c} \cup {d}) = {a, b, c, d}
    OBVIOUS
  <1>. QED BY <1>3, <1>4

LEMMA FiniteResponses == IsFiniteSet(Responses)
  <1> DEFINE ops == RespOps
             codes == {"ACK", "RNR", "NAK_SEQ", "RESERVED", "NONE"} \cup NakErrors
             S == (ops \X Psn) \X codes
             f == [x \in S |-> [op |-> x[1][1], psn |-> x[1][2], aeth |-> x[2]]]
             V == {f[x] : x \in S}
  <1>1. IsFiniteSet(ops)
    <2>1. IsFiniteSet(ReadOps)
      BY FiniteFour DEF ReadOps
    <2>2. IsFiniteSet({"ACK", "ATOMIC_ACK", "ACK", "ACK"})
      BY FiniteFour
    <2>3. RespOps = ReadOps \cup {"ACK", "ATOMIC_ACK", "ACK", "ACK"}
      BY DEF RespOps
    <2>. QED BY <2>1, <2>2, <2>3, FS_Union
  <1>2. IsFiniteSet(Psn)
    BY MaxPsnAssumption, FS_Interval DEF Psn
  <1>3. IsFiniteSet(codes)
    <2> DEFINE one == {"ACK", "RNR", "NAK_SEQ", "RESERVED"}
               two == {"NONE", "REM_INV_REQ_ERR", "REM_ACCESS_ERR", "REM_OP_ERR"}
    <2>1. IsFiniteSet(one) /\ IsFiniteSet(two)
      BY FiniteFour
    <2>2. codes \in SUBSET (one \cup two)
      BY RequesterAssumption
    <2> HIDE DEF one, two
    <2>3. IsFiniteSet(one \cup two)
      BY <2>1, FS_Union
    <2>. QED BY <2>2, <2>3, FS_Subset
  <1>4. IsFiniteSet(S)
    <2> HIDE DEF ops, codes
    <2>1. IsFiniteSet(ops \X Psn)
      BY <1>1, <1>2, FS_Product
    <2>. QED BY <1>3, <2>1, FS_Product
  <1>5. f \in [S -> V]
    OBVIOUS
  <1>6. ASSUME NEW r \in Responses PROVE \E x \in S : r = f[x]
    <2>1. /\ r.op \in ops /\ r.psn \in Psn /\ r.aeth \in codes
          /\ r = [op |-> r.op, psn |-> r.psn, aeth |-> r.aeth]
      BY DEF Responses, RespOps, ReadOps
    <2> HIDE DEF ops, codes
    <2> DEFINE x == <<<<r.op, r.psn>>, r.aeth>>
    <2>2. x \in S
      BY <2>1
    <2>3. f[x] = r
      BY <2>1, <2>2
    <2>. QED BY <2>2, <2>3
  <1> HIDE DEF S, f, V
  <1>. QED BY <1>4, <1>5, <1>6, FiniteImage

LEMMA SentInOrder ==
  ASSUME NEW S, IsFiniteSet(S), NEW T \in SUBSET S, NEW q, q \in InOrder(T) \/ \E p : q \in InPsnOrder(T, p)
  PROVE  q \in Seq(S)
  <1>1. IsFiniteSet(T) /\ Cardinality(T) \in Nat
    BY FS_Subset, FS_CardinalityType
  <1>2. q \in [1 .. Cardinality(T) -> T]
    BY DEF InOrder, InPsnOrder, Sorted
  <1>3. q \in [1 .. Cardinality(T) -> S]
    BY <1>2
  <1>. QED BY <1>1, <1>3, IsASeq

LEMMA Tails ==
  ASSUME NEW S, NEW q \in Seq(S), q # <<>>
  PROVE  Head(q) \in S /\ Tail(q) \in Seq(S)
  BY HeadTailProperties

LEMMA DisturbedSeq ==
  ASSUME NEW S, NEW q \in Seq(S), NEW t \in Disturbed(q)
  PROVE  t \in Seq(S)
  <1>1. PICK i \in DOMAIN q :
          LET rest == SubSeq(q, 1, i - 1) \o SubSeq(q, i + 1, Len(q))
          IN  t \in {rest, Append(rest, q[i]), Append(q, q[i])}
    BY DEF Disturbed
  <1>2. Len(q) \in Nat /\ i \in 1 .. Len(q)
    BY LenProperties
  <1>3. SubSeq(q, 1, i - 1) \in Seq(S)
    BY <1>2, SubSeqProperties
  <1>4. SubSeq(q, i + 1, Len(q)) \in Seq(S)
    BY <1>2, SubSeqProperties
  <1>5. q[i] \in S
    BY <1>2, ElementOfSeq
  <1> DEFINE rest == SubSeq(q, 1, i - 1) \o SubSeq(q, i + 1, Len(q))
  <1>6. rest \in Seq(S)
    BY <1>3, <1>4, ConcatProperties
  <1>7. t \in {rest, Append(rest, q[i]), Append(q, q[i])}
    BY <1>1
  <1> HIDE DEF rest
  <1>8. CASE t = rest
    BY <1>6, <1>8
  <1>9. CASE t = Append(rest, q[i])
    BY <1>5, <1>6, <1>9, AppendProperties
  <1>10. CASE t = Append(q, q[i])
    BY <1>5, <1>10, AppendProperties
  <1>. QED BY <1>7, <1>8, <1>9, <1>10

-----------------------------------------------------------------------------
(***************************************************************************)
(* How an answer moves the two ends of the requester's window.  The oldest *)
(* WR left is one the answer reaches, and min_unacked_psn is at its first  *)
(* PSN or later, unless an implicit NAK left min_unacked_psn behind.       *)
(***************************************************************************)
Reaches(r, h, start) ==
  /\ Known(r)
  /\ InitPsn + start[h] <= r.psn \/ (r.aeth = "ACK" /\ InitPsn + start[h] = r.psn + 1)

Moves(r, n, start) ==
  Working' =>
    /\ ssn' = ssn
    /\ \/ mssn' = mssn /\ mpsn' = mpsn
       \/ \E h \in 1 .. (n + 1) :
            /\ mssn' = h /\ mssn <= h /\ Reaches(r, h, start)
            /\ \/ InitPsn + start[h] <= mpsn'
               \/ mpsn' = mpsn /\ FirstToRetry(h, Cur(r))

LEMMA RetryMoves ==
  ASSUME Work, NEW h \in Ssn, NEW from, NEW type, NEW all, Retry(h, from, type, all), Working'
  PROVE  mssn' = h /\ UNCHANGED <<ssn, qps>>
  <1>1. ASSUME NEW C, NEW R, NEW p, NEW status, GotoErrState(C, R, h, p, status)
        PROVE  FALSE
    BY <1>1 DEF GotoErrState, Running, Working
  <1>. QED BY <1>1, RetryResult

LEMMA ResponseMoves ==
  ASSUME NEW n, NEW plan, NEW start, HasPlan(n, plan, start),
         NEW r \in Responses, LastOfWr(r, n, start), RecvResponse(r)
  PROVE  Moves(r, n, start)
  <1> SUFFICES ASSUME Working' PROVE Moves(r, n, start)
    BY DEF Moves
  <1> DEFINE s == Cur(r)
  <1>1. Work /\ n \in Nat /\ mssn \in 1 .. (n + 1) /\ Numbered(n, plan, start) /\ InitPsn \in Nat
    BY PlanOrder, InitPsnType DEF HasPlan
  <1>2. ASSUME Known(r)
        PROVE  /\ s \in 1 .. n /\ s \in 1 .. (n + 1) /\ s \in Ssn /\ mssn <= s /\ s < ssn
               /\ r.psn \in Int /\ InitPsn + start[s] <= r.psn /\ next_psn(r.psn) = r.psn + 1
               /\ Reaches(r, s, start) /\ start[s] \in Nat
    BY <1>1, <1>2, AnswerOwned, NextOfAnswer, PlanOrder DEF Reaches
  <1>3. CASE RecvPartial(r)
    <2>1. Known(r) /\ ssn' = ssn /\ mssn' = s /\ mpsn' \in {r.psn, next_psn(r.psn)}
      BY <1>3 DEF RecvPartial, Expected
    <2> HIDE DEF s
    <2>2. InitPsn + start[s] <= mpsn'
      BY <1>1, <1>2, <2>1
    <2>. QED BY <1>2, <2>1, <2>2 DEF Moves
  <1>4. CASE RecvComplete(r)
    <2>1. /\ Known(r) /\ ssn' = ssn /\ mpsn' = next_psn(r.psn) /\ mssn' = next_ssn(s)
      BY <1>4 DEF RecvComplete, Expected, Working, Running
    <2>2. r.psn + 1 = InitPsn + start[s + 1] /\ r.aeth = "ACK"
      BY <1>4, CompletesAtEnd
    <2>3. ssn \in Ssn
      BY <1>1 DEF Work
    <2> HIDE DEF s
    <2>4. s + 1 \in 1 .. (n + 1) /\ mssn <= s + 1 /\ next_ssn(s) = s + 1
      BY <1>1, <1>2, <2>1, <2>3, NextSsnCases, RequesterAssumption DEF Ssn
    <2>5. Reaches(r, s + 1, start)
      BY <2>1, <2>2 DEF Reaches
    <2>6. InitPsn + start[s + 1] <= mpsn'
      BY <1>2, <2>1, <2>2
    <2>. QED BY <2>1, <2>4, <2>5, <2>6 DEF Moves
  <1>5. CASE RecvRetry(r) /\ ImplicitNak(r)
    <2>1. /\ Known(r) /\ mpsn' = mpsn
          /\ \E k \in Ssn : FirstToRetry(k, s) /\ Retry(k, pend[k].first, "IMPLICIT", TRUE)
      BY <1>5 DEF RecvRetry, Expected
    <2>2. PICK k \in Ssn : FirstToRetry(k, s) /\ Retry(k, pend[k].first, "IMPLICIT", TRUE)
      BY <2>1
    <2>3. mssn' = k /\ ssn' = ssn
      BY <1>1, <2>2, RetryMoves
    <2>4. mssn <= k /\ k < s
      <3>1. k \in ssn_range(mssn, s) /\ mssn \in Ssn /\ s \in Ssn /\ mssn <= s
        BY <1>1, <1>2, <2>1, <2>2 DEF FirstToRetry, Work
      <3> HIDE DEF s
      <3>. QED BY <3>1, SsnRangeCases
    <2>5. k \in 1 .. (n + 1) /\ Reaches(r, k, start)
      <3> HIDE DEF s
      <3>1. k \in 1 .. (n + 1)
        BY <1>1, <1>2, <2>1, <2>4, RequesterAssumption DEF Ssn
      <3>2. start[k] <= start[s] /\ start[k] \in Nat
        BY <1>1, <1>2, <2>1, <2>4, <3>1, PlanOrder
      <3>. QED BY <1>1, <1>2, <2>1, <3>1, <3>2 DEF Reaches
    <2>. QED BY <2>1, <2>2, <2>3, <2>4, <2>5 DEF Moves
  <1>6. CASE RecvRetry(r) /\ ~ImplicitNak(r)
    <2>1. /\ Known(r) /\ mpsn' = MpsnAt(r)
          /\ \E from, type : Retry(Unacked(r), from, type, TRUE)
      BY <1>6 DEF RecvRetry, Expected
    <2>2. Unacked(r) \in Ssn
      BY <1>1, <1>2, <2>1 DEF Unacked, Work
    <2>3. mssn' = Unacked(r) /\ ssn' = ssn
      BY <1>1, <2>1, <2>2, RetryMoves
    <2>4. CASE r.op = "READ_LAST"
      BY <2>1, <2>3, <2>4 DEF Unacked, MpsnAt, Moves
    <2>5. CASE r.op # "READ_LAST"
      <3>1. mssn' = s /\ mpsn' = r.psn
        BY <2>1, <2>3, <2>5 DEF Unacked, MpsnAt
      <3> HIDE DEF s
      <3>. QED BY <1>2, <2>1, <2>3, <3>1 DEF Moves
    <2>. QED BY <2>4, <2>5
  <1>7. CASE RecvError(r) \/ RecvCrash(r)
    BY <1>7 DEF RecvError, RecvCrash, GotoErrState, Working, Running
  <1>8. CASE RecvUnexpected(r)
    BY <1>8 DEF RecvUnexpected, Moves
  <1>. QED BY <1>3, <1>4, <1>5, <1>6, <1>7, <1>8 DEF RecvResponse

LEMMA TimeoutMoves ==
  ASSUME Work, CheckTimeout, Working'
  PROVE  UNCHANGED <<mssn, mpsn, ssn>> /\ Working
  <1>1. mssn \in Ssn /\ mpsn' = mpsn
    BY DEF Work, CheckTimeout
  <1>2. Retry(mssn, mpsn, "TIMEOUT", FALSE)
    BY DEF CheckTimeout, Working, Running
  <1>3. mssn' = mssn /\ UNCHANGED <<ssn, qps>>
    BY <1>1, <1>2, RetryMoves
  <1>. QED BY <1>1, <1>3 DEF CheckTimeout, Working, Running

-----------------------------------------------------------------------------
(***************************************************************************)
(* The pace of the two ends.  A request is sent while fewer than           *)
(* MAX_PENDING_REQ_NUM are outstanding, and the responder is past those    *)
(* before them: so the requester is never half of the PSNs ahead of ePSN.  *)
(***************************************************************************)
Short(N, b, start) == \A a \in 1 .. b : start[b] - start[a] <= (b - a) * N

\* min_unacked_psn is at the first PSN of the oldest WR or later; or an implicit
\* NAK left it at WR m, when the oldest WR became a read or an atomic.
Keeps(plan, start) ==
  \E m \in 1 .. mssn : /\ InitPsn + start[m] <= mpsn
                       /\ \/ m = mssn
                          \/ mssn - m < MAX_PENDING_REQ_NUM /\ ReadOrAtomic(plan[mssn])

Paced(N, n, plan, start) ==
  /\ Short(N, n + 1, start) /\ Near(n, start)
  /\ Working => /\ ssn - mssn <= MAX_PENDING_REQ_NUM
                /\ start[mssn] <= Offset(epsn) /\ Keeps(plan, start)

LEMMA SamePace ==
  ASSUME NEW N, NEW n, NEW plan, NEW start, Numbered(n, plan, start), Paced(N, n, plan, start),
         Working' => Working /\ UNCHANGED <<mssn, mpsn, ssn>> /\ mssn \in 1 .. (n + 1),
         NEW o \in Nat, Offset(epsn) = o, NEW p \in Nat, Offset(epsn)' = p, o <= p
  PROVE  Paced(N, n, plan, start)'
  <1>1. start[n + 1] \in Nat /\ \A a \in 1 .. (n + 1) : start[a] \in Nat
    BY PlanOrder
  <1>2. Near(n, start)'
    <2>1. start[n + 1] < o + HALF /\ HALF \in Nat
      BY InitPsnType, OldestCases DEF Paced, Near, Psn
    <2>2. start[n + 1] < p + HALF
      BY <1>1, <2>1
    <2>. QED BY <2>2 DEF Near
  <1>3. Short(N, n + 1, start)'
    BY DEF Paced, Short
  <1>4. ASSUME Working'
        PROVE  /\ ssn' - mssn' <= MAX_PENDING_REQ_NUM
               /\ start[mssn'] <= p /\ Keeps(plan, start)'
    <2>1. Working /\ UNCHANGED <<mssn, mpsn, ssn>> /\ start[mssn] \in Nat
      BY <1>1, <1>4
    <2>2. /\ ssn - mssn <= MAX_PENDING_REQ_NUM
          /\ start[mssn] <= o /\ Keeps(plan, start)
      BY <2>1 DEF Paced
    <2>3. start[mssn'] <= p
      BY <2>1, <2>2
    <2>. QED BY <2>1, <2>2, <2>3 DEF Keeps, ReadOrAtomic
  <1>5. Working' => start[mssn]' <= Offset(epsn)'
    BY <1>4
  <1>. QED BY <1>2, <1>3, <1>4, <1>5 DEF Paced

\* An answer is never about a PSN the responder has not reached.
LEMMA ReachedBehind ==
  ASSUME NEW n, NEW plan, NEW start, HasPlan(n, plan, start), NEW r, Told(r, n, start),
         NEW h \in 1 .. (n + 1), Reaches(r, h, start), NEW o \in Nat, o = Offset(epsn)
  PROVE  start[h] <= o
  <1>1. /\ r.psn \in Psn /\ Offset(r.psn) <= o /\ (r.aeth = "ACK" => Offset(r.psn) < o)
    BY DEF Told, Responses
  <1>2. Cur(r) \in 1 .. n /\ InitPsn + start[Cur(r)] <= r.psn
    BY AnswerOwned DEF Reaches
  <1>3. start[h] \in Nat /\ start[Cur(r)] \in Nat /\ r.psn \in Int
    BY <1>1, <1>2, PlanOrder, MaxPsnAssumption DEF HasPlan, Psn
  <1>4. InitPsn <= r.psn
    BY <1>2, <1>3, InitPsnType
  <1>5. Offset(r.psn) = r.psn - InitPsn
    BY <1>1, <1>4, OffsetCases, InitPsnType
  <1>. QED BY <1>1, <1>3, <1>4, <1>5, InitPsnType DEF Reaches

LEMMA AnswerPaced ==
  ASSUME NEW N, NEW n, NEW plan, NEW start, HasPlan(n, plan, start), Working,
         Paced(N, n, plan, start), NEW r, Told(r, n, start), Moves(r, n, start),
         UNCHANGED epsn, NEW o \in Nat, o = Offset(epsn)
  PROVE  Paced(N, n, plan, start)'
  <1>1. /\ Numbered(n, plan, start) /\ mssn \in 1 .. (n + 1) /\ Work /\ n \in Nat
        /\ mssn <= ssn /\ ssn = n + 1
    BY PlanOrder DEF HasPlan
  <1>2. Offset(epsn)' = o
    BY DEF Offset
  <1>3. CASE UNCHANGED <<mssn, mpsn, ssn>>
    BY <1>1, <1>2, <1>3, SamePace
  <1>4. ASSUME Working', ssn' = ssn, NEW h \in 1 .. (n + 1), mssn' = h, mssn <= h,
               Reaches(r, h, start),
               \/ InitPsn + start[h] <= mpsn'
               \/ mpsn' = mpsn /\ FirstToRetry(h, Cur(r))
        PROVE  Paced(N, n, plan, start)'
    <2>1. /\ Short(N, n + 1, start) /\ Near(n, start) /\ ssn - mssn <= MAX_PENDING_REQ_NUM
          /\ MAX_PENDING_REQ_NUM \in Int /\ Keeps(plan, start)
      BY RequesterAssumption DEF Paced
    <2>2. Short(N, n + 1, start)' /\ Near(n, start)'
      BY <1>2, <2>1 DEF Short, Near
    <2>3. start[h] <= o
      BY <1>4, ReachedBehind
    <2>4. ssn' - h <= MAX_PENDING_REQ_NUM
      BY <1>1, <1>4, <2>1
    <2>5. \E m \in 1 .. h : /\ InitPsn + start[m] <= mpsn'
                            /\ \/ m = h
                               \/ h - m < MAX_PENDING_REQ_NUM /\ ReadOrAtomic(plan[h])
      <3>1. CASE InitPsn + start[h] <= mpsn'
        BY <3>1
      <3>2. CASE mpsn' = mpsn /\ FirstToRetry(h, Cur(r))
        <4>1. /\ Cur(r) \in Ssn /\ mssn \in Ssn /\ ssn \in Ssn /\ mssn <= Cur(r) /\ Cur(r) < ssn
              /\ DOMAIN pend = ssn_range(mssn, ssn)
          BY <1>1, <1>4, AnswerOwned DEF Reaches, Work, HasPlan, Books
        <4>2. h \in ssn_range(mssn, Cur(r)) /\ h < Cur(r) /\ h \in Ssn
          BY <3>2, <4>1, SsnRangeCases DEF FirstToRetry
        <4>3. h \in DOMAIN pend /\ mssn \in DOMAIN pend
          BY <1>4, <4>1, <4>2, SsnRangeCases, RequesterAssumption DEF Ssn
        <4>4. pend[h].wr = plan[h] /\ pend[mssn].wr = plan[mssn]
          BY <4>3 DEF HasPlan, FromPlan
        <4>5. ReadOrAtomic(plan[h])
          BY <3>2, <4>4 DEF FirstToRetry
        <4>6. PICK m \in 1 .. mssn :
                /\ InitPsn + start[m] <= mpsn
                /\ m = mssn \/ (mssn - m < MAX_PENDING_REQ_NUM /\ ReadOrAtomic(plan[mssn]))
          BY <2>1 DEF Keeps
        <4>7. CASE m = mssn
          <5>1. h - m < MAX_PENDING_REQ_NUM /\ m \in 1 .. h
            BY <1>1, <1>4, <2>1, <4>1, <4>2, <4>7, RequesterAssumption DEF Ssn
          <5>. QED BY <3>2, <4>5, <4>6, <5>1
        <4>8. CASE mssn - m < MAX_PENDING_REQ_NUM /\ ReadOrAtomic(plan[mssn])
          <5>1. ~(mssn < h)
            <6>1. mssn < h => mssn \in ssn_range(mssn, h)
              BY <4>1, <4>2, SsnRangeCases, RequesterAssumption DEF Ssn
            <6>. QED BY <3>2, <4>4, <4>8, <6>1 DEF FirstToRetry
          <5>2. h = mssn
            BY <1>1, <1>4, <5>1
          <5>. QED BY <3>2, <4>6, <4>8, <5>2
        <4>. QED BY <4>6, <4>7, <4>8
      <3>. QED BY <1>4, <3>1, <3>2
    <2>6. Keeps(plan, start)'
      BY <1>4, <2>5 DEF Keeps, ReadOrAtomic
    <2>. QED BY <1>2, <1>4, <2>2, <2>3, <2>4, <2>6 DEF Paced
  <1>5. CASE ~Working'
    BY <1>1, <1>2, <1>5, SamePace
  <1>. QED BY <1>3, <1>4, <1>5 DEF Moves

\* One more WR keeps what is known of min_unacked_psn.
LEMMA KeepsLonger ==
  ASSUME NEW n, NEW plan, NEW start, HasPlan(n, plan, start), Keeps(plan, start),
         mssn = ssn => mpsn = sqPsn,
         NEW m \in Nat, NEW plan2, NEW start2, Extends(n, plan, start, m, plan2, start2),
         UNCHANGED <<mssn, mpsn>>
  PROVE  Keeps(plan2, start2)'
  <1>1. /\ n \in Nat /\ n <= m /\ mssn \in 1 .. (n + 1) /\ ssn = n + 1
        /\ sqPsn = InitPsn + start[n + 1] /\ sqPsn \in Int
        /\ \A s \in 1 .. n : plan2[s] = plan[s]
        /\ \A s \in 1 .. (n + 1) : start2[s] = start[s]
    BY PlanOrder, MaxPsnAssumption DEF HasPlan, Extends, Work, Psn
  <1>2. PICK h : h = mssn
    OBVIOUS
  <1>3. \E a \in 1 .. h : /\ InitPsn + start2[a] <= mpsn
                          /\ a = h \/ (h - a < MAX_PENDING_REQ_NUM /\ ReadOrAtomic(plan2[h]))
    <2>1. CASE h = n + 1
      BY <1>1, <1>2, <2>1
    <2>2. CASE h # n + 1
      <3>1. PICK a \in 1 .. h :
              /\ InitPsn + start[a] <= mpsn
              /\ a = h \/ (h - a < MAX_PENDING_REQ_NUM /\ ReadOrAtomic(plan[h]))
        BY <1>2 DEF Keeps
      <3>2. h \in 1 .. n /\ a \in 1 .. (n + 1)
        BY <1>1, <1>2, <2>2
      <3>. QED BY <1>1, <3>1, <3>2
    <2>. QED BY <2>1, <2>2
  <1>. QED BY <1>2, <1>3 DEF Keeps, ReadOrAtomic

\* The requester has room for the WR it takes.
LEMMA RoomForOne ==
  ASSUME NEW n, NEW plan, NEW start, HasPlan(n, plan, start), ProcessReq
  PROVE  ssn - mssn < MAX_PENDING_REQ_NUM
  <1>1. /\ mssn \in Ssn /\ ssn \in Ssn /\ mssn <= ssn /\ DOMAIN pend = ssn_range(mssn, ssn)
    BY DEF HasPlan, Work, Books
  <1>2. mssn \in Int /\ ssn \in Int /\ MAX_PENDING_REQ_NUM \in Int
    BY <1>1, RequesterAssumption DEF Ssn
  <1>3. DOMAIN pend = mssn .. (ssn - 1)
    <2>1. DOMAIN pend = {x \in Ssn : mssn <= x /\ x < ssn}
      BY <1>1, SsnRangeCases
    <2>2. 0 <= mssn /\ ssn <= MAX_SSN - 1 /\ MAX_SSN \in Int
      BY <1>1, RequesterAssumption DEF Ssn
    <2>3. ASSUME NEW x \in mssn .. (ssn - 1) PROVE x \in Ssn /\ mssn <= x /\ x < ssn
      BY <1>2, <2>2, <2>3 DEF Ssn
    <2>4. ASSUME NEW x \in Ssn, mssn <= x, x < ssn PROVE x \in mssn .. (ssn - 1)
      BY <1>2, <2>2, <2>4 DEF Ssn
    <2>. QED BY <2>1, <2>3, <2>4
  <1>4. Cardinality(DOMAIN pend) = ssn - mssn
    <2>1. Cardinality(mssn .. (ssn - 1)) = IF mssn > ssn - 1 THEN 0 ELSE (ssn - 1) - mssn + 1
      BY <1>2, FS_Interval
    <2>. QED BY <1>1, <1>2, <1>3, <2>1
  <1>5. ~(Cardinality(DOMAIN pend) >= MAX_PENDING_REQ_NUM)
    BY DEF ProcessReq, busy
  <1>. QED BY <1>2, <1>4, <1>5

LEMMA RequestPaced ==
  ASSUME NEW N \in Nat, FewPosts, FewPsns(N), WindowBelowHalf(N), ReqInv(N),
         NEW n, NEW plan, NEW start, Sends(n, plan, start), HasPlan(n, plan, start), ProcessReq,
         Paced(N, n, plan, start), UNCHANGED epsn, NEW o \in Nat, o = Offset(epsn),
         NEW m, NEW plan2, NEW start2, Extends(n, plan, start, m, plan2, start2),
         Sends(m, plan2, start2)'
  PROVE  Paced(N, m, plan2, start2)'
  <1>0. PICK z : z = n + 2
    OBVIOUS
  <1>1. Working /\ Working' /\ UNCHANGED <<mssn, mpsn>> /\ Offset(epsn)' = o
    BY DEF ProcessReq, Working, Running, Offset
  <1>2. /\ n \in Nat /\ Numbered(n, plan, start) /\ mssn \in 1 .. (n + 1) /\ ssn = n + 1
        /\ start[n + 1] \in Nat /\ \A a \in 1 .. (n + 1) : start[a] \in Nat
        /\ sqPsn = InitPsn + start[n + 1]
    BY PlanOrder DEF HasPlan
  <1>3. PICK w : w = Head(sq)
    OBVIOUS
  <1>4. /\ w.n \in Nat /\ w.n <= N /\ sqPsn' = InitPsn + (start[n + 1] + w.n) /\ ssn' = n + 2
    BY <1>3, ProcessReqPlan
  <1>5. /\ m = n + 1 /\ Numbered(m, plan2, start2) /\ start2[n + 2] = start[n + 1] + w.n
    <2>1. Numbered(m, plan2, start2) /\ ssn' = m + 1 /\ sqPsn' = InitPsn + start2[m + 1]
      BY <1>1 DEF Sends, Working
    <2>2. m \in Nat /\ start2[m + 1] \in Nat
      BY <2>1, PlanOrder
    <2>3. m = n + 1 /\ m + 1 = n + 2
      BY <1>2, <1>4, <2>1, <2>2
    <2>. QED BY <1>2, <1>4, <2>1, <2>2, <2>3, InitPsnType
  <1>6. \A a \in 1 .. (n + 1) : start2[a] = start[a]
    BY DEF Extends
  <1>7. /\ Short(N, n + 1, start) /\ start[mssn] <= o /\ Keeps(plan, start) /\ (mssn = ssn => mpsn = sqPsn)
    BY <1>1 DEF Paced, Sends
  <1>8. ASSUME NEW a \in 1 .. (n + 1)
        PROVE  /\ start2[z] - start2[a] <= (z - a) * N
               /\ \A P \in Nat : (n + 1) - a < P => start2[z] - start2[a] <= P * N
    <2> DEFINE k == (n + 1) - a
               kN == k * N
               k1N == (k + 1) * N
    <2>1. start[n + 1] - start[a] <= kN
      BY <1>7 DEF Short
    <2>2. k \in Nat /\ k + 1 \in Nat /\ k < k + 1 /\ k + 1 = z - a
      BY <1>2, <1>0
    <2>3. kN \in Int /\ k1N \in Int
      BY <2>2
    <2> HIDE DEF k
    <2>4. k1N = kN + N
      BY <2>2, OneMoreRequest
    <2> HIDE DEF kN, k1N
    <2>5. start2[z] - start2[a] <= k1N /\ start2[z] - start2[a] \in Int
      BY <1>2, <1>4, <1>5, <1>6, <1>0, <2>1, <2>3, <2>4
    <2>6. ASSUME NEW P \in Nat, k < P PROVE start2[z] - start2[a] <= P * N
      <3>1. k1N <= P * N
        BY <2>2, <2>6, OneMoreRequest DEF k1N
      <3>2. PICK PN : PN = P * N
        OBVIOUS
      <3>3. PN \in Int
        BY <3>2
      <3>. QED BY <2>3, <2>5, <3>1, <3>2, <3>3
    <2>. QED BY <2>2, <2>5, <2>6 DEF k, k1N
  <1>9. ssn - mssn < MAX_PENDING_REQ_NUM /\ MAX_PENDING_REQ_NUM \in Nat
    BY RoomForOne, RequesterAssumption
  <1>10. Near(m, start2)'
    <2>1. start2[z] - start2[mssn] <= MAX_PENDING_REQ_NUM * N
      BY <1>2, <1>8, <1>9
    <2>2. PICK W : W = MAX_PENDING_REQ_NUM * N
      OBVIOUS
    <2>3. W \in Int /\ W < HALF /\ HALF \in Int
      BY <1>9, <2>2, InitPsnType, OldestCases DEF WindowBelowHalf, Psn
    <2>4. start2[mssn] = start[mssn] /\ start[mssn] \in Nat
      BY <1>2, <1>6
    <2>5. start2[z] < o + HALF
      BY <1>2, <1>4, <1>5, <1>7, <1>0, <2>1, <2>2, <2>3, <2>4
    <2>6. m + 1 = z
      BY <1>2, <1>5, <1>0
    <2>. QED BY <1>1, <2>5, <2>6 DEF Near
  <1>11. Short(N, m + 1, start2)'
    <2>1. z \in Int /\ m + 1 = z /\ start2[z] \in Int
      BY <1>2, <1>4, <1>5, <1>0
    <2>2. ASSUME NEW a \in 1 .. z PROVE start2[z] - start2[a] <= (z - a) * N
      <3>1. PICK b, e : b = start2[z] - start2[a] /\ e = (z - a) * N
        OBVIOUS
      <3>2. ASSUME a = z PROVE b <= e
        <4>1. b = 0 /\ z - a = 0
          BY <2>1, <3>1, <3>2
        <4>2. e = 0
          BY <3>1, <4>1
        <4>. QED BY <4>1, <4>2
      <3>3. ASSUME a # z PROVE b <= e
        <4>1. a \in 1 .. (n + 1)
          BY <1>2, <1>0, <2>2, <3>3
        <4>2. start2[z] - start2[a] <= (z - a) * N
          BY <1>8, <4>1
        <4>. QED BY <3>1, <4>2, Zenon
      <3>4. b <= e
        BY <3>2, <3>3
      <3>. QED BY <3>1, <3>4, Zenon
    <2>3. Short(N, z, start2)
      BY <2>2 DEF Short
    <2>4. Short(N, m + 1, start2)
      BY <2>1, <2>3
    <2>. QED BY <2>4 DEF Short
  <1>12. Keeps(plan2, start2)'
    <2>1. m \in Nat
      BY <1>2, <1>5
    <2>. QED BY <1>1, <1>7, <2>1, KeepsLonger
  <1>13. ssn' - mssn' <= MAX_PENDING_REQ_NUM
    BY <1>1, <1>2, <1>4, <1>9
  <1>14. start2[mssn'] <= o
    BY <1>1, <1>2, <1>6, <1>7
  <1>. QED BY <1>1, <1>10, <1>11, <1>12, <1>13, <1>14 DEF Paced

-----------------------------------------------------------------------------
(***************************************************************************)
(* The invariant of the connection.  For some plan, the requester sends    *)
(* it, the network carries its packets and answers to what was executed,   *)
(* and the responder takes it; the requester is never ahead of the         *)
(* responder, neither with min_unacked_psn nor with a success.  The pace   *)
(* of the ends is part of it: a packet half of the PSNs ahead would pass   *)
(* for a duplicate, and be acknowledged.                                   *)
(***************************************************************************)
Linked(n, plan, start) ==
  /\ Sends(n, plan, start) /\ TakesPlan(n, plan, start)
  /\ reqCh \in Seq(Wire(n, plan, start)) /\ respCh \in Seq(Heard(n, start))
  /\ InitPsn <= mpsn /\ mpsn <= InitPsn + Offset(epsn)
  /\ \A i \in DOMAIN cq : cq[i].status = "SUCCESS" => cq[i].ssn <= Len(done)

LinkInv(N) ==
  ReqInv(N) /\ \E n, plan, start : Linked(n, plan, start) /\ Paced(N, n, plan, start)

LEMMA SendsSpace ==
  ASSUME NEW N, ReqInv(N), NEW n, NEW plan, NEW start, Sends(n, plan, start)
  PROVE  Numbered(n, plan, start) /\ InSpace(n, start) /\ n \in Nat
  <1>1. Numbered(n, plan, start) /\ sqPsn = InitPsn + start[n + 1]
    BY DEF Sends
  <1>2. sqPsn \in Psn
    BY InvSplit DEF ReqInv, Work
  <1>. QED BY <1>1, <1>2, PlanOrder, MaxPsnAssumption DEF InSpace, Psn

LEMMA TakesSpace ==
  ASSUME NEW n, NEW plan, NEW start, Numbered(n, plan, start), InSpace(n, start),
         TakesPlan(n, plan, start)
  PROVE  /\ Len(done) \in Nat /\ Len(done) <= n /\ epsn \in Psn /\ Offset(epsn) \in Nat
         /\ Offset(epsn) <= start[n + 1] /\ epsn = InitPsn + Offset(epsn)
         /\ \A s \in 1 .. n : start[s + 1] <= Offset(epsn) <=> s <= Len(done)
  <1>1. n \in Nat /\ PlanOf(n, start) /\ ExecInv(n, start) /\ start[n + 1] \in Nat
    BY NumberedPlan, PlanOrder DEF TakesPlan
  <1>2. /\ Len(done) \in Nat /\ Len(done) <= n /\ Offset(epsn) \in Nat
        /\ Offset(epsn) <= start[n + 1]
        /\ \A s \in 1 .. n : start[s + 1] <= Offset(epsn) <=> s <= Len(done)
    BY <1>1, EpsnInPlan
  <1>3. epsn \in Psn
    BY <1>1 DEF ExecInv, RespTypeOK
  <1>4. InitPsn + Offset(epsn) < MAX_PSN
    BY <1>1, <1>2, InitPsnType DEF InSpace
  <1>. QED BY <1>2, <1>3, <1>4, OffsetPsn

LEMMA LongerPlan ==
  ASSUME NEW n, NEW plan, NEW start, Numbered(n, plan, start), NEW m \in Nat, NEW plan2, NEW start2,
         Extends(n, plan, start, m, plan2, start2), Numbered(m, plan2, start2), InSpace(m, start2)
  PROVE  /\ Wire(n, plan, start) \subseteq Wire(m, plan2, start2)
         /\ Heard(n, start) \subseteq Heard(m, start2)
         /\ TakesPlan(n, plan, start) => TakesPlan(m, plan2, start2)
  <1>1. /\ n \in Nat /\ n <= m
        /\ \A s \in 1 .. n : plan2[s] = plan[s]
        /\ \A s \in 1 .. (n + 1) : start2[s] = start[s]
    BY DEF Numbered, Extends
  <1>2. Wire(n, plan, start) \subseteq Wire(m, plan2, start2)
    BY ExtendsWire DEF Wire
  <1>3. ASSUME NEW r, LastOfWr(r, n, start) PROVE LastOfWr(r, m, start2)
    <2> SUFFICES ASSUME r.op = "ATOMIC_ACK"
                 PROVE  \E t \in 1 .. m : r.psn + 1 = InitPsn + start2[t + 1]
      BY DEF LastOfWr
    <2>1. PICK t \in 1 .. n : r.psn + 1 = InitPsn + start[t + 1]
      BY <1>3 DEF LastOfWr
    <2>2. t \in 1 .. m /\ t + 1 \in 1 .. (n + 1)
      BY <1>1
    <2>. QED BY <1>1, <2>1, <2>2
  <1>4. Heard(n, start) \subseteq Heard(m, start2)
    BY <1>3 DEF Heard, Told
  <1>5. ASSUME TakesPlan(n, plan, start) PROVE TakesPlan(m, plan2, start2)
    <2> DEFINE d == Len(done)
    <2>1. /\ RespTypeOK /\ ExecutesInOrder /\ NextPacket(n, start)
          /\ openMsg # "NONE" => ~ReadOrAtomic(plan[d + 1])
      BY <1>5 DEF TakesPlan, ExecInv
    <2>2. d \in Nat
      BY <2>1, LenProperties DEF RespTypeOK
    <2>3. d <= n /\ (openMsg # "NONE" => d < n)
      BY <2>1 DEF NextPacket
    <2>4. /\ d <= m /\ start2[d + 1] = start[d + 1]
          /\ openMsg # "NONE" => /\ d < m /\ plan2[d + 1] = plan[d + 1]
                                 /\ start2[d + 2] = start[d + 2]
      <3> HIDE DEF d
      <3>. QED BY <1>1, <2>2, <2>3
    <2>5. NextPacket(m, start2)
      BY <2>1, <2>4 DEF NextPacket
    <2>. QED BY <2>1, <2>4, <2>5 DEF TakesPlan, ExecInv
  <1>. QED BY <1>2, <1>4, <1>5

LEMMA SamePlan ==
  ASSUME NEW n, NEW plan, NEW start, Numbered(n, plan, start)
  PROVE  Extends(n, plan, start, n, plan, start)
  BY DEF Numbered, Extends

\* A call of the requester, and what it sends.
LEMMA RequesterActs ==
  ASSUME NEW N, ReqInv(N), ReqInv(N)', NEW n, NEW plan, NEW start, Linked(n, plan, start),
         NEW m, NEW plan2, NEW start2, Extends(n, plan, start, m, plan2, start2),
         Sends(m, plan2, start2)', \A k \in tx' : OnWire(k, m, plan2, start2),
         NEW q \in InOrder(tx'), reqCh' = reqCh \o q, UNCHANGED rvars,
         respCh' \in Seq(Heard(n, start)),
         InitPsn <= mpsn', mpsn' <= InitPsn + Offset(epsn),
         \A i \in DOMAIN cq' : cq'[i].status = "SUCCESS" => cq'[i].ssn <= Len(done)
  PROVE  Linked(m, plan2, start2)'
  <1>1. Numbered(n, plan, start) /\ n \in Nat
    BY SendsSpace DEF Linked
  <1>2. Numbered(m, plan2, start2) /\ InSpace(m, start2) /\ m \in Nat
    <2>1. Numbered(m, plan2, start2) /\ sqPsn' = InitPsn + start2[m + 1]
      BY DEF Sends
    <2>2. sqPsn' \in Psn
      BY DEF ReqInv, Inv, TypeOK
    <2>. QED BY <2>1, <2>2, PlanOrder, MaxPsnAssumption DEF InSpace, Psn
  <1>3. /\ Wire(n, plan, start) \subseteq Wire(m, plan2, start2)
        /\ Heard(n, start) \subseteq Heard(m, start2) /\ TakesPlan(m, plan2, start2)
    BY <1>1, <1>2, LongerPlan DEF Linked
  <1>4. TakesPlan(m, plan2, start2)' /\ Offset(epsn)' = Offset(epsn) /\ Len(done)' = Len(done)
        /\ Heard(m, start2)' = Heard(m, start2)
    BY <1>3 DEF rvars, TakesPlan, ExecInv, RespTypeOK, ExecutesInOrder, NextPacket, Offset, Heard, Told
  <1>5. tx' \in SUBSET Wire(m, plan2, start2)
    BY <1>2, WireFits DEF Wire
  <1>6. q \in Seq(Wire(m, plan2, start2))
    BY <1>2, <1>5, FiniteWire, SentInOrder
  <1>7. reqCh \in Seq(Wire(m, plan2, start2))
    BY <1>3, SeqMonotonic DEF Linked
  <1>8. reqCh' \in Seq(Wire(m, plan2, start2))
    BY <1>6, <1>7, ConcatProperties
  <1>9. respCh' \in Seq(Heard(m, start2))
    BY <1>3, SeqMonotonic
  <1>. QED BY <1>4, <1>8, <1>9 DEF Linked, Wire

-----------------------------------------------------------------------------
(***************************************************************************)
(* Every step keeps it.                                                    *)
(***************************************************************************)
StillLinked(N) ==
  \E n, plan, start : Linked(n, plan, start)' /\ Paced(N, n, plan, start)'

LEMMA ReqInvSteps ==
  ASSUME NEW N \in Nat, FewPosts, FewPsns(N), ReqInv(N), [Acts]_vars
  PROVE  ReqInv(N)'
  BY StepInv, StepWindow, StepCompleted, StepIndex DEF ReqInv

LEMMA RequesterLinked ==
  ASSUME NEW N \in Nat, FewPosts, FewPsns(N), WindowBelowHalf(N), ReqInv(N),
         NEW n, NEW plan, NEW start, Linked(n, plan, start), Paced(N, n, plan, start),
         RequesterStep
  PROVE  StillLinked(N) /\ ReqInv(N)' /\ UNCHANGED <<cq, done>> /\ posted' \in {posted, posted + 1}
  <1>1. PICK q \in InOrder(tx') : reqCh' = reqCh \o q
    BY DEF RequesterStep
  <1>2. Acts /\ UNCHANGED <<rvars, respCh>>
    BY DEF RequesterStep, Acts
  <1>3. ReqInv(N)'
    BY <1>2, ReqInvSteps
  <1>4. Sends(n, plan, start) /\ posted \in Nat
    BY InvSplit DEF Linked, ReqInv, Work
  <1>5. UNCHANGED <<mpsn, cq, done>>
    BY DEF RequesterStep, PostSend, ProcessReq, rvars
  <1>6. TakesPlan(n, plan, start) /\ UNCHANGED epsn /\ Offset(epsn) \in Nat
    BY <1>2, <1>4, SendsSpace, TakesSpace DEF Linked, rvars
  <1>7. PICK o \in Nat : o = Offset(epsn)
    BY <1>6
  <1>8. /\ posted' \in {posted, posted + 1}
        /\ \E m, plan2, start2 :
             /\ Extends(n, plan, start, m, plan2, start2) /\ Sends(m, plan2, start2)'
             /\ \A k \in tx' : OnWire(k, m, plan2, start2)
             /\ Paced(N, m, plan2, start2)'
    <2>1. ASSUME NEW w \in WorkReqs, PostSend(w)
          PROVE  /\ posted' = posted + 1 /\ Extends(n, plan, start, n, plan, start)
                 /\ Sends(n, plan, start)' /\ \A k \in tx' : OnWire(k, n, plan, start)
                 /\ Paced(N, n, plan, start)'
      <3>1. Sends(n, plan, start)' /\ \A k \in tx' : OnWire(k, n, plan, start)
        BY <1>4, <2>1, PostSendSends DEF SendsSame
      <3>2. Numbered(n, plan, start) /\ Extends(n, plan, start, n, plan, start)
        BY SamePlan DEF Linked, Sends
      <3>3. posted' = posted + 1 /\ UNCHANGED <<mssn, mpsn, ssn, qps, fault>>
        BY <2>1 DEF PostSend
      <3>4. Working => mssn \in 1 .. (n + 1)
        BY <1>4, WorkingPlan DEF HasPlan
      <3>5. Paced(N, n, plan, start)'
        <4>1. Working' => Working /\ UNCHANGED <<mssn, mpsn, ssn>> /\ mssn \in 1 .. (n + 1)
          BY <3>3, <3>4 DEF Working, Running
        <4>2. Offset(epsn)' = o /\ o <= o
          BY <1>6, <1>7 DEF Offset
        <4>. QED BY <1>7, <3>2, <4>1, <4>2, SamePace
      <3>. QED BY <3>1, <3>2, <3>3, <3>5
    <2>2. CASE ProcessReq
      <3>1. Working /\ posted' = posted
        BY <2>2 DEF ProcessReq, Working
      <3>2. HasPlan(n, plan, start)
        BY <1>4, <3>1, WorkingPlan
      <3>3. PICK m, plan2, start2 :
              /\ Extends(n, plan, start, m, plan2, start2)
              /\ Sends(m, plan2, start2)'
              /\ \A k \in tx' : OnWire(k, m, plan2, start2)
        BY <1>4, <2>2, <3>2, ProcessReqSends DEF SendsNext
      <3>4. Paced(N, m, plan2, start2)'
        BY <1>4, <1>6, <1>7, <2>2, <3>2, <3>3, RequestPaced
      <3>. QED BY <3>1, <3>3, <3>4
    <2>. QED BY <2>1, <2>2 DEF RequesterStep
  <1>9. PICK m, plan2, start2 :
          /\ Extends(n, plan, start, m, plan2, start2)
          /\ Sends(m, plan2, start2)'
          /\ \A k \in tx' : OnWire(k, m, plan2, start2)
          /\ Paced(N, m, plan2, start2)'
    BY <1>8
  <1>10. /\ respCh' \in Seq(Heard(n, start)) /\ InitPsn <= mpsn' /\ mpsn' <= InitPsn + Offset(epsn)
         /\ \A i \in DOMAIN cq' : cq'[i].status = "SUCCESS" => cq'[i].ssn <= Len(done)
    BY <1>2, <1>5 DEF Linked
  <1>11. Linked(m, plan2, start2)'
    BY <1>1, <1>2, <1>3, <1>9, <1>10, RequesterActs
  <1>. QED BY <1>3, <1>5, <1>8, <1>9, <1>11 DEF StillLinked

\* What a completion says of the plan.
Completes(n) ==
  \/ UNCHANGED cq
  \/ Working /\ Fails(n)
  \/ /\ Working
     /\ \E s \in 1 .. n : /\ s <= Len(done)
                          /\ cq' = Append(cq, [ssn |-> s, status |-> "SUCCESS"])

LEMMA StillExecuted ==
  ASSUME NEW N, ReqInv(N), NEW n, Completes(n),
         \A i \in DOMAIN cq : cq[i].status = "SUCCESS" => cq[i].ssn <= Len(done)
  PROVE  \A i \in DOMAIN cq' : cq'[i].status = "SUCCESS" => cq'[i].ssn <= Len(done)
  <1>1. cq \in Seq([ssn : Ssn, status : Statuses])
    BY InvSplit DEF ReqInv, Work
  <1>2. CASE UNCHANGED cq
    BY <1>2
  <1>3. ASSUME NEW s, NEW status, cq' = Append(cq, [ssn |-> s, status |-> status]),
               status = "SUCCESS" => s <= Len(done)
        PROVE  \A i \in DOMAIN cq' : cq'[i].status = "SUCCESS" => cq'[i].ssn <= Len(done)
    BY <1>1, <1>3
  <1>4. CASE Fails(n)
    <2>1. PICK s \in 1 .. n : \E status \in Statuses \ {"SUCCESS"} :
            cq' = Append(cq, [ssn |-> s, status |-> status])
      BY <1>4 DEF Fails
    <2>2. PICK status \in Statuses \ {"SUCCESS"} : cq' = Append(cq, [ssn |-> s, status |-> status])
      BY <2>1
    <2>3. status # "SUCCESS"
      BY <2>2
    <2>. QED BY <1>3, <2>2, <2>3
  <1>5. ASSUME NEW s \in 1 .. n, s <= Len(done),
               cq' = Append(cq, [ssn |-> s, status |-> "SUCCESS"])
        PROVE  \A i \in DOMAIN cq' : cq'[i].status = "SUCCESS" => cq'[i].ssn <= Len(done)
    BY <1>3, <1>5
  <1>. QED BY <1>2, <1>4, <1>5 DEF Completes

LEMMA TimeoutLinked ==
  ASSUME NEW N \in Nat, FewPosts, FewPsns(N), ReqInv(N),
         NEW n, NEW plan, NEW start, Linked(n, plan, start), Paced(N, n, plan, start),
         TimeoutStep
  PROVE  /\ Linked(n, plan, start)' /\ Paced(N, n, plan, start)' /\ ReqInv(N)'
         /\ Completes(n) /\ UNCHANGED <<posted, done>>
  <1>1. PICK q \in InOrder(tx') : reqCh' = reqCh \o q
    BY DEF TimeoutStep
  <1>2. Acts /\ CheckTimeout /\ UNCHANGED <<rvars, respCh>>
    BY DEF TimeoutStep, Acts
  <1>3. ReqInv(N)'
    BY <1>2, ReqInvSteps
  <1>4. Sends(n, plan, start) /\ Extends(n, plan, start, n, plan, start)
    BY SamePlan DEF Linked, Sends
  <1>5. Sends(n, plan, start)' /\ \A k \in tx' : OnWire(k, n, plan, start)
    BY <1>2, <1>4, CheckTimeoutSends DEF SendsSame
  <1>6. UNCHANGED <<mpsn, posted>> /\ Completes(n)
    BY <1>2, <1>4, CheckTimeoutEffect DEF Completes
  <1>7. \A i \in DOMAIN cq' : cq'[i].status = "SUCCESS" => cq'[i].ssn <= Len(done)
    BY <1>6, StillExecuted DEF Linked
  <1>8. respCh' \in Seq(Heard(n, start)) /\ InitPsn <= mpsn' /\ mpsn' <= InitPsn + Offset(epsn)
    BY <1>2, <1>6 DEF Linked
  <1>9. Linked(n, plan, start)'
    BY <1>1, <1>2, <1>3, <1>4, <1>5, <1>7, <1>8, RequesterActs
  <1>10. UNCHANGED <<done, epsn>>
    BY <1>2 DEF rvars
  <1>11. PICK o : o = Offset(epsn)
    OBVIOUS
  <1>12. Paced(N, n, plan, start)'
    <2>1. Numbered(n, plan, start) /\ o \in Nat /\ Offset(epsn)' = o /\ o <= o
      BY <1>10, <1>11, SendsSpace, TakesSpace DEF Linked, Offset
    <2>2. Working' => Working /\ UNCHANGED <<mssn, mpsn, ssn>> /\ mssn \in 1 .. (n + 1)
      <3>1. Work
        BY InvSplit DEF ReqInv
      <3>2. Working => mssn \in 1 .. (n + 1)
        BY <1>4, WorkingPlan DEF HasPlan
      <3>. QED BY <1>2, <3>1, <3>2, TimeoutMoves
    <2>. QED BY <1>11, <2>1, <2>2, SamePace
  <1>. QED BY <1>3, <1>6, <1>9, <1>10, <1>12

\* min_unacked_psn never passes what the responder has reached.
LEMMA AdvancesBehind ==
  ASSUME NEW n, NEW plan, NEW start, HasPlan(n, plan, start), InSpace(n, start),
         TakesPlan(n, plan, start), NEW r, Told(r, n, start), Advances(r),
         InitPsn <= mpsn, mpsn <= InitPsn + Offset(epsn)
  PROVE  InitPsn <= mpsn' /\ mpsn' <= InitPsn + Offset(epsn)
  <1>1. CASE mpsn' = mpsn
    BY <1>1
  <1>2. CASE Known(r) /\ (mpsn' = r.psn \/ (r.aeth = "ACK" /\ mpsn' = next_psn(r.psn)))
    <2>1. /\ r.psn \in Psn /\ Offset(r.psn) <= Offset(epsn)
          /\ r.aeth = "ACK" => Offset(r.psn) < Offset(epsn)
      BY DEF Told, Responses
    <2>2. Cur(r) \in 1 .. n /\ InitPsn + start[Cur(r)] <= r.psn /\ next_psn(r.psn) = r.psn + 1
      BY <1>2, AnswerOwned, NextOfAnswer
    <2>3. start[Cur(r)] \in Nat /\ r.psn \in Int
      BY <2>1, <2>2, PlanOrder, MaxPsnAssumption DEF HasPlan, Psn
    <2>4. InitPsn <= r.psn
      BY <2>2, <2>3, InitPsnType
    <2>5. Offset(r.psn) = r.psn - InitPsn
      BY <2>1, <2>4, OffsetCases, InitPsnType
    <2>6. Offset(epsn) \in Nat
      BY TakesSpace DEF HasPlan
    <2>. QED BY <1>2, <2>1, <2>2, <2>3, <2>4, <2>5, <2>6, InitPsnType
  <1>. QED BY <1>1, <1>2 DEF Advances

\* A success is about a WR that the responder has done.
LEMMA SuccessBehind ==
  ASSUME NEW n, NEW plan, NEW start, Numbered(n, plan, start), InSpace(n, start),
         TakesPlan(n, plan, start), NEW r, Told(r, n, start), Succeeds(r, n, start)
  PROVE  \E s \in 1 .. n : /\ s <= Len(done)
                           /\ cq' = Append(cq, [ssn |-> s, status |-> "SUCCESS"])
  <1>1. PICK s \in 1 .. n : /\ cq' = Append(cq, [ssn |-> s, status |-> "SUCCESS"])
                            /\ r.aeth = "ACK" /\ r.psn + 1 = InitPsn + start[s + 1]
    BY DEF Succeeds
  <1>2. r.psn \in Psn /\ Offset(r.psn) < Offset(epsn)
    BY <1>1 DEF Told, Responses
  <1>3. start[s] \in Nat /\ start[s + 1] \in Nat /\ start[s] < start[s + 1] /\ r.psn \in Int
    BY <1>1, <1>2, PlanOrder, MaxPsnAssumption DEF Psn, Numbered
  <1>4. InitPsn <= r.psn /\ Offset(r.psn) = start[s + 1] - 1
    <2> DEFINE a == start[s]
               b == start[s + 1]
    <2>1. a \in Nat /\ b \in Nat /\ a < b /\ r.psn + 1 = InitPsn + b
      BY <1>1, <1>3
    <2> HIDE DEF a, b
    <2>2. InitPsn <= r.psn /\ r.psn - InitPsn = b - 1
      BY <1>3, <2>1, InitPsnType
    <2>3. Offset(r.psn) = r.psn - InitPsn
      BY <1>2, <2>2, OffsetCases, InitPsnType
    <2>. QED BY <2>2, <2>3 DEF b
  <1>5. start[s + 1] <= Offset(epsn)
    <2>1. Offset(epsn) \in Nat
      BY TakesSpace
    <2>. QED BY <1>2, <1>3, <1>4, <2>1
  <1>6. s <= Len(done)
    BY <1>5, TakesSpace
  <1>. QED BY <1>1, <1>6

LEMMA AnswerLinked ==
  ASSUME NEW N \in Nat, FewPosts, FewPsns(N), ReqInv(N),
         NEW n, NEW plan, NEW start, Linked(n, plan, start), Paced(N, n, plan, start),
         DeliverResponse
  PROVE  /\ Linked(n, plan, start)' /\ Paced(N, n, plan, start)' /\ ReqInv(N)'
         /\ Completes(n) /\ UNCHANGED <<posted, done>>
  <1>1. PICK q \in InOrder(tx') : reqCh' = reqCh \o q
    BY DEF DeliverResponse
  <1>2. PICK r : r = Head(respCh)
    OBVIOUS
  <1>3. r \in Heard(n, start) /\ Tail(respCh) \in Seq(Heard(n, start))
    BY <1>2, Tails DEF Linked, DeliverResponse
  <1>4. r \in Responses /\ Told(r, n, start) /\ LastOfWr(r, n, start)
    BY <1>2, <1>3, WrapsApart DEF DeliverResponse, Heard, Told
  <1>5. RecvResponse(r) /\ Acts /\ respCh' = Tail(respCh) /\ UNCHANGED rvars
    BY <1>2, <1>4 DEF DeliverResponse, Acts
  <1>6. ReqInv(N)'
    BY <1>5, ReqInvSteps
  <1>7. /\ Sends(n, plan, start) /\ Extends(n, plan, start, n, plan, start)
        /\ TakesPlan(n, plan, start) /\ Numbered(n, plan, start) /\ InSpace(n, start)
    BY SamePlan, SendsSpace DEF Linked
  <1>8. Sends(n, plan, start)' /\ \A k \in tx' : OnWire(k, n, plan, start)
    BY <1>4, <1>5, <1>7, AnswerSends DEF SendsSame
  <1>9. /\ InitPsn <= mpsn' /\ mpsn' <= InitPsn + Offset(epsn)
        /\ UNCHANGED posted /\ Completes(n)
    <2>1. CASE Working
      <3>1. HasPlan(n, plan, start)
        BY <1>7, <2>1, WorkingPlan
      <3>2. /\ Advances(r) /\ UNCHANGED posted
            /\ UNCHANGED cq \/ Fails(n) \/ Succeeds(r, n, start)
        BY <1>4, <1>5, <3>1, ResponseEffect
      <3>3. InitPsn <= mpsn' /\ mpsn' <= InitPsn + Offset(epsn)
        BY <1>4, <1>7, <3>1, <3>2, AdvancesBehind DEF Linked
      <3>4. Completes(n)
        BY <1>4, <1>7, <2>1, <3>2, SuccessBehind DEF Completes
      <3>. QED BY <3>2, <3>3, <3>4
    <2>2. CASE ~Working
      <3>1. UNCHANGED <<mpsn, cq, posted>>
        BY <1>5, <2>2, AnswerInError
      <3>. QED BY <3>1 DEF Completes, Linked
    <2>. QED BY <2>1, <2>2
  <1>10. \A i \in DOMAIN cq' : cq'[i].status = "SUCCESS" => cq'[i].ssn <= Len(done)
    BY <1>9, StillExecuted DEF Linked
  <1>11. respCh' \in Seq(Heard(n, start))
    BY <1>3, <1>5
  <1>12. Linked(n, plan, start)'
    BY <1>1, <1>5, <1>6, <1>7, <1>8, <1>9, <1>10, <1>11, RequesterActs
  <1>13. UNCHANGED <<done, epsn>>
    BY <1>5 DEF rvars
  <1>14. PICK o : o = Offset(epsn)
    OBVIOUS
  <1>15. o \in Nat /\ Offset(epsn)' = o /\ o <= o
    BY <1>7, <1>13, <1>14, TakesSpace DEF Offset
  <1>16. Paced(N, n, plan, start)'
    <2>1. CASE Working
      <3>1. HasPlan(n, plan, start)
        BY <1>7, <2>1, WorkingPlan
      <3>2. Moves(r, n, start)
        BY <1>4, <1>5, <3>1, ResponseMoves
      <3>. QED BY <1>4, <1>13, <1>14, <1>15, <2>1, <3>1, <3>2, AnswerPaced
    <2>2. CASE ~Working
      <3>1. ~Working'
        BY <1>5, <2>2, AnswerInError DEF RecvCrash, Working, Running
      <3>. QED BY <1>7, <1>14, <1>15, <3>1, SamePace
    <2>. QED BY <2>1, <2>2
  <1>. QED BY <1>6, <1>9, <1>12, <1>13, <1>16

LEMMA HeardGrows ==
  ASSUME NEW n, NEW start, Offset(epsn) \in Nat, Offset(epsn)' \in Nat, Offset(epsn) <= Offset(epsn)'
  PROVE  Heard(n, start) \subseteq Heard(n, start)'
  <1> SUFFICES ASSUME NEW r \in Heard(n, start), r \notin Wraps PROVE r \in Heard(n, start)'
    BY DEF Heard
  <1> DEFINE o == Offset(epsn)
  <1>1. PICK m : m = Offset(epsn)'
    OBVIOUS
  <1>2. /\ r \in Responses /\ LastOfWr(r, n, start) /\ Offset(r.psn) <= o
        /\ r.aeth \in {"ACK", "NONE"} => Offset(r.psn) < o
    BY DEF Heard, Told
  <1>3. Offset(r.psn) \in Nat /\ o \in Nat /\ m \in Nat /\ o <= m
    BY <1>1, <1>2, OffsetCases DEF Responses
  <1> HIDE DEF o
  <1>4. Offset(r.psn) <= m /\ (r.aeth \in {"ACK", "NONE"} => Offset(r.psn) < m)
    BY <1>2, <1>3
  <1>5. m = Offset(epsn')
    BY <1>1 DEF Offset
  <1>. QED BY <1>2, <1>4, <1>5 DEF Heard, Told, Offset, LastOfWr

\* A step of the other end leaves the requester where it was.
LEMMA RestPaced ==
  ASSUME NEW N, ReqInv(N), NEW n, NEW plan, NEW start, Sends(n, plan, start),
         Paced(N, n, plan, start), Aside \/ UNCHANGED vars,
         NEW o \in Nat, Offset(epsn) = o, NEW p \in Nat, Offset(epsn)' = p, o <= p
  PROVE  Paced(N, n, plan, start)'
  <1>1. Numbered(n, plan, start) /\ (Working => mssn \in 1 .. (n + 1))
    BY WorkingPlan DEF HasPlan, Sends
  <1>2. Working' => Working /\ UNCHANGED <<mssn, mpsn, ssn>> /\ mssn \in 1 .. (n + 1)
    BY <1>1 DEF Aside, vars, Working, Running
  <1>. QED BY <1>1, <1>2, SamePace

LEMMA RequestLinked ==
  ASSUME NEW N \in Nat, FewPosts, FewPsns(N), ReqInv(N),
         NEW n, NEW plan, NEW start, Linked(n, plan, start), Paced(N, n, plan, start),
         DeliverRequest
  PROVE  /\ Linked(n, plan, start)' /\ Paced(N, n, plan, start)' /\ ReqInv(N)'
         /\ UNCHANGED <<posted, cq>>
         /\ Len(done)' = Len(done) \/ Len(done)' = Len(done) + 1
         /\ Len(done)' \in Nat /\ Len(done)' <= n
  <1>1. PICK k : k = Head(reqCh)
    OBVIOUS
  <1>2. k \in Wire(n, plan, start) /\ Tail(reqCh) \in Seq(Wire(n, plan, start))
    BY <1>1, Tails DEF Linked, DeliverRequest
  <1>3. /\ RecvRequest(k) /\ reqCh' = Tail(reqCh) /\ UNCHANGED vars
        /\ OnWire(k, n, plan, start)
    BY <1>1, <1>2 DEF DeliverRequest, Wire
  <1>4. PICK q \in InPsnOrder(out', k.psn) : respCh' = respCh \o q
    BY <1>1 DEF DeliverRequest
  <1>5. /\ Numbered(n, plan, start) /\ InSpace(n, start) /\ TakesPlan(n, plan, start)
        /\ Sends(n, plan, start) /\ Near(n, start)
    BY SendsSpace DEF Linked, Paced
  <1>6. Sends(n, plan, start)' /\ ReqInv(N)'
    BY <1>3, <1>5, SameSends, ReqInvSteps
  <1>7. /\ TakesPlan(n, plan, start)' /\ Offset(epsn) <= Offset(epsn)'
        /\ \A r \in out' : r \in Wraps \/ Told(r, n, start)'
        /\ Len(done)' = Len(done) \/ Len(done)' = Len(done) + 1
    BY <1>3, <1>5, RequestTaken
  <1>8. Len(done) \in Nat /\ Offset(epsn) \in Nat
    BY <1>5, TakesSpace
  <1>9. Offset(epsn)' \in Nat /\ Len(done)' \in Nat /\ Len(done)' <= n
    <2>1. epsn' \in Psn /\ Len(done') <= n
      BY <1>7 DEF TakesPlan, ExecInv, RespTypeOK, NextPacket
    <2>2. Offset(epsn') \in Nat
      BY <2>1, OffsetCases
    <2>3. Offset(epsn)' = Offset(epsn')
      BY DEF Offset
    <2>. QED BY <1>7, <1>8, <2>1, <2>2, <2>3
  <1>10. PICK T : T = Heard(n, start)'
    OBVIOUS
  <1>11. Heard(n, start) \subseteq T
    BY <1>7, <1>8, <1>9, <1>10, HeardGrows
  <1>12. out' \in SUBSET T
    BY <1>7, <1>10 DEF Heard, Told
  <1>13. IsFiniteSet(T)
    <2>1. T \in SUBSET (Responses \cup Wraps)
      BY <1>10 DEF Heard
    <2>2. IsFiniteSet(Responses \cup Wraps)
      BY FiniteResponses, WrapsApart, FS_Union
    <2>. QED BY <2>1, <2>2, FS_Subset
  <1>14. q \in Seq(T)
    BY <1>4, <1>12, <1>13, SentInOrder
  <1>15. respCh' \in Seq(T)
    <2>1. respCh \in Seq(T)
      BY <1>11, SeqMonotonic DEF Linked
    <2>. QED BY <1>4, <1>14, <2>1, ConcatProperties
  <1>16. reqCh' \in Seq(Wire(n, plan, start))'
    BY <1>2, <1>3 DEF Wire
  <1>17. InitPsn <= mpsn' /\ mpsn' <= InitPsn + Offset(epsn)'
    <2>1. mpsn' = mpsn /\ InitPsn <= mpsn /\ mpsn <= InitPsn + Offset(epsn)
      BY <1>3 DEF vars, Linked
    <2>2. mpsn \in Int
      BY InvSplit, MaxPsnAssumption DEF ReqInv, Rest, Psn
    <2>. QED BY <1>7, <1>8, <1>9, <2>1, <2>2, InitPsnType
  <1>18. \A i \in DOMAIN cq' : cq'[i].status = "SUCCESS" => cq'[i].ssn <= Len(done)'
    <2> SUFFICES ASSUME NEW i \in DOMAIN cq', cq'[i].status = "SUCCESS"
                 PROVE  cq'[i].ssn <= Len(done)'
      OBVIOUS
    <2>1. cq' = cq
      BY <1>3 DEF vars
    <2>2. cq[i].ssn <= Len(done)
      BY <2>1 DEF Linked
    <2>3. cq[i].ssn \in Int
      <3>1. cq \in Seq([ssn : Ssn, status : Statuses])
        BY InvSplit DEF ReqInv, Work
      <3>2. i \in 1 .. Len(cq)
        BY <2>1, <3>1, LenProperties
      <3>3. cq[i] \in [ssn : Ssn, status : Statuses]
        BY <3>1, <3>2, ElementOfSeq
      <3>. QED BY <3>3, RequesterAssumption DEF Ssn
    <2>. QED BY <1>7, <1>8, <2>1, <2>2, <2>3
  <1>19. UNCHANGED <<posted, cq>>
    BY <1>3 DEF vars
  <1>20. Linked(n, plan, start)'
    BY <1>6, <1>7, <1>10, <1>15, <1>16, <1>17, <1>18 DEF Linked
  <1>21. Paced(N, n, plan, start)'
    <2>1. PICK o, o2 : o = Offset(epsn) /\ o2 = Offset(epsn)'
      OBVIOUS
    <2>2. o \in Nat /\ o2 \in Nat /\ o <= o2
      BY <1>7, <1>8, <1>9, <2>1
    <2>. QED BY <1>3, <1>5, <2>1, <2>2, RestPaced
  <1>. QED BY <1>6, <1>7, <1>9, <1>19, <1>20, <1>21

\* What the network, the clock and the responder do on their own, and the steps
\* of the requester's driver that leave its books alone.
LEMMA OthersLinked ==
  ASSUME NEW n, NEW plan, NEW start, Linked(n, plan, start), TakesPlan(n, plan, start)',
         Aside \/ UNCHANGED vars, UNCHANGED <<epsn, done>>,
         reqCh' \in Seq(Wire(n, plan, start)), respCh' \in Seq(Heard(n, start))
  PROVE  Linked(n, plan, start)'
  <1>1. Sends(n, plan, start)' /\ UNCHANGED <<mpsn, cq>>
    BY SameSends DEF Linked, Aside, vars
  <1>2. Heard(n, start)' = Heard(n, start) /\ Offset(epsn)' = Offset(epsn) /\ Len(done)' = Len(done)
    BY DEF Heard, Told, Offset, LastOfWr
  <1>3. InitPsn <= mpsn' /\ mpsn' <= InitPsn + Offset(epsn)'
    BY <1>1, <1>2 DEF Linked
  <1>. QED BY <1>1, <1>2, <1>3 DEF Linked, Wire

LEMMA NetworkLinked ==
  ASSUME NEW N \in Nat, FewPosts, FewPsns(N), ReqInv(N),
         NEW n, NEW plan, NEW start, Linked(n, plan, start), Paced(N, n, plan, start),
         \/ Elapse \/ EarlyStep \/ DeliverWrapped
         \/ ResponderStep \/ Mishap \/ Discard \/ UNCHANGED linkVars
  PROVE  /\ Linked(n, plan, start)' /\ Paced(N, n, plan, start)' /\ ReqInv(N)'
         /\ UNCHANGED <<posted, cq, done>>
  <1>1. Aside \/ UNCHANGED vars
    <2>1. CASE EarlyStep
      BY <2>1 DEF EarlyStep, CheckEarly, Aside
    <2>2. CASE DeliverWrapped
      <3>1. timerOn \in BOOLEAN /\ fault = "none"
        BY <2>2, InvSplit DEF DeliverWrapped, Running, ReqInv, Rest
      <3>. QED BY <2>2, <3>1 DEF DeliverWrapped, Aside
    <2>. QED BY <2>1, <2>2 DEF Elapse, ResponderStep, Mishap, Discard, linkVars
  <1>2. ReqInv(N)' /\ UNCHANGED <<posted, cq>>
    BY <1>1, ReqInvSteps DEF Aside, Acts, vars
  <1>3. /\ TakesPlan(n, plan, start) /\ RespTypeOK
        /\ reqCh \in Seq(Wire(n, plan, start)) /\ respCh \in Seq(Heard(n, start))
    BY DEF Linked, TakesPlan, ExecInv
  <1>4. UNCHANGED <<epsn, openMsg, done>> /\ [RespNext]_rvars
    <2>1. CASE ResponderStep
      BY <2>1 DEF ResponderStep, PostRecv, RnrTimeout, RespNext
    <2>2. CASE ~ResponderStep
      BY <2>2 DEF Elapse, EarlyStep, DeliverWrapped, Mishap, Discard, linkVars, rvars
    <2>. QED BY <2>1, <2>2
  <1>5. TakesPlan(n, plan, start)'
    BY <1>3, <1>4, NextTypes, StaysTaking
  <1>6. reqCh' \in Seq(Wire(n, plan, start)) /\ respCh' \in Seq(Heard(n, start))
    <2>1. CASE Elapse \/ EarlyStep \/ ResponderStep \/ UNCHANGED linkVars
      BY <1>3, <2>1 DEF Elapse, EarlyStep, ResponderStep, linkVars
    <2>2. CASE Mishap
      BY <1>3, <2>2, DisturbedSeq DEF Mishap
    <2>3. CASE Discard \/ DeliverWrapped
      BY <1>3, <2>3, Tails DEF Discard, DeliverWrapped
    <2>. QED BY <2>1, <2>2, <2>3
  <1>7. Linked(n, plan, start)'
    BY <1>1, <1>4, <1>5, <1>6, OthersLinked
  <1>8. Paced(N, n, plan, start)'
    <2>1. PICK o, p : o = Offset(epsn) /\ p = Offset(epsn)'
      OBVIOUS
    <2>2. Sends(n, plan, start) /\ o \in Nat /\ p = o
      BY <1>3, <1>4, <2>1, SendsSpace, TakesSpace DEF Linked, Offset
    <2>3. p \in Nat /\ o <= p
      BY <2>2
    <2>. QED BY <1>1, <2>1, <2>2, <2>3, RestPaced
  <1>. QED BY <1>2, <1>4, <1>7, <1>8

\* Nothing is sent yet.
LEMMA InitLinked ==
  ASSUME NEW N \in Nat, LinkInit
  PROVE  LinkInv(N)
  <1>1. Init /\ RespInit /\ reqCh = <<>> /\ respCh = <<>>
    BY DEF LinkInit
  <1>2. ReqInv(N)
    BY <1>1, InitInv, InitWindow, InitCompleted, InitIndex DEF ReqInv
  <1> DEFINE plan == [s \in 1 .. 0 |-> s]
             start == [s \in 1 .. 1 |-> 0]
  <1>3. HALF \in Nat /\ HALF >= 2 /\ 0 < MAX_PSN
    BY OldestCases, InitPsnType DEF Psn
  <1>4. Numbered(0, plan, start) /\ PlanOf(0, start) /\ start[1] = 0
    <2>1. plan \in [1 .. 0 -> WorkReqs] /\ 1 .. 0 = {} /\ 1 .. (0 + 1) = {1}
      OBVIOUS
    <2>2. start \in [1 .. (0 + 1) -> Nat] /\ start[1] = 0 /\ start[0 + 1] = 0
      OBVIOUS
    <2> HIDE DEF plan, start
    <2>. QED BY <1>3, <2>1, <2>2 DEF Numbered, PlanOf
  <1> HIDE DEF plan, start
  <1>5. /\ posted = 0 /\ sqPsn = InitPsn /\ mpsn = InitPsn /\ ssn = 1 /\ mssn = 1
        /\ DOMAIN pend = {} /\ DOMAIN readPsn = {} /\ cq = <<>>
    BY <1>1 DEF Init, EmptyFcn
  <1>6. Owned(reqSsn, 1, start)
    BY <1>4, <1>5, InitPsnType DEF Owned
  <1>7. Sends(0, plan, start)
    <2>1. FromPlan(pend, 0, plan, start)
      BY <1>5 DEF FromPlan
    <2>. QED BY <1>3, <1>4, <1>5, <1>6, <2>1, InitPsnType DEF Sends
  <1>8. TakesPlan(0, plan, start) /\ Offset(epsn) = 0
    <2>1. ExecInv(0, start) /\ Offset(epsn) = 0
      BY <1>1, <1>4, InitExec
    <2>2. openMsg = "NONE"
      BY <1>1 DEF RespInit
    <2>. QED BY <2>1, <2>2 DEF TakesPlan
  <1>9. reqCh \in Seq(Wire(0, plan, start)) /\ respCh \in Seq(Heard(0, start))
    BY <1>1, EmptySeq
  <1>10. Linked(0, plan, start)
    <2>1. DOMAIN cq = {}
      BY <1>5, EmptySeq
    <2>. QED BY <1>5, <1>7, <1>8, <1>9, <2>1, InitPsnType DEF Linked
  <1>11. Paced(N, 0, plan, start)
    <2>1. Near(0, start)
      BY <1>3, <1>4, <1>8 DEF Near
    <2>2. Short(N, 0 + 1, start)
      <3>1. ASSUME NEW a \in 1 .. 1 PROVE start[1] - start[a] <= (1 - a) * N
        <4>1. a = 1 /\ (1 - 1) * N = 0
          OBVIOUS
        <4>. QED BY <1>4, <4>1
      <3>. QED BY <3>1 DEF Short
    <2>3. Keeps(plan, start)
      BY <1>4, <1>5, InitPsnType DEF Keeps
    <2>. QED BY <1>4, <1>5, <1>8, <2>1, <2>2, <2>3, RequesterAssumption DEF Paced
  <1>. QED BY <1>2, <1>10, <1>11 DEF LinkInv

\* A step of the connection posts, completes, executes, or does none of these.
LEMMA LinkActs ==
  ASSUME NEW N \in Nat, FewPosts, FewPsns(N), WindowBelowHalf(N), ReqInv(N),
         NEW n, NEW plan, NEW start, Linked(n, plan, start), Paced(N, n, plan, start),
         [LinkNext]_linkVars
  PROVE  /\ StillLinked(N) /\ ReqInv(N)'
         /\ \/ UNCHANGED <<cq, done>> /\ posted' \in {posted, posted + 1}
            \/ Completes(n) /\ UNCHANGED <<posted, done>>
            \/ /\ UNCHANGED <<posted, cq>> /\ Len(done)' \in Nat /\ Len(done)' <= n
               /\ Len(done)' = Len(done) \/ Len(done)' = Len(done) + 1
  <1>1. CASE RequesterStep
    BY <1>1, RequesterLinked
  <1>2. CASE TimeoutStep
    BY <1>2, TimeoutLinked DEF StillLinked
  <1>3. CASE DeliverResponse
    BY <1>3, AnswerLinked DEF StillLinked
  <1>4. CASE DeliverRequest
    BY <1>4, RequestLinked DEF StillLinked
  <1>5. CASE \/ Elapse \/ EarlyStep \/ DeliverWrapped
             \/ ResponderStep \/ Mishap \/ Discard \/ UNCHANGED linkVars
    BY <1>5, NetworkLinked DEF StillLinked
  <1>. QED BY <1>1, <1>2, <1>3, <1>4, <1>5 DEF LinkNext

LEMMA LinkInvariant ==
  ASSUME NEW N \in Nat, FewPosts, FewPsns(N), WindowBelowHalf(N)
  PROVE  LinkSpec => []LinkInv(N)
  <1>1. LinkInit => LinkInv(N)
    BY InitLinked
  <1>2. LinkInv(N) /\ [LinkNext]_linkVars => LinkInv(N)'
    <2> SUFFICES ASSUME LinkInv(N), [LinkNext]_linkVars PROVE LinkInv(N)'
      OBVIOUS
    <2>1. PICK n, plan, start : Linked(n, plan, start) /\ Paced(N, n, plan, start)
      BY DEF LinkInv
    <2>2. StillLinked(N) /\ ReqInv(N)'
      BY <2>1, LinkActs DEF LinkInv
    <2>. QED BY <2>2 DEF LinkInv, StillLinked
  <1>. QED BY <1>1, <1>2, PTL DEF LinkSpec

-----------------------------------------------------------------------------
(***************************************************************************)
(* What follows, for connections that send fewer WRs than there are SSNs   *)
(* and whose outstanding requests take fewer than half of the PSNs, before *)
(* the PSNs wrap.                                                          *)
(***************************************************************************)
\* The responder executes every message, read and atomic exactly once and in
\* the order of posting, whatever is lost, overtaken, duplicated, answered late or
\* sent again.
THEOREM LinkExecutesInOrder ==
  ASSUME NEW N \in Nat, FewPosts, FewPsns(N), WindowBelowHalf(N)
  PROVE  LinkSpec => []ExecutedInOrder
  <1>1. LinkInv(N) => ExecutedInOrder
    BY DEF LinkInv, Linked, TakesPlan, ExecInv, ExecutesInOrder, ExecutedInOrder
  <1>. QED BY <1>1, LinkInvariant, PTL

\* A WR that completes with success was executed by the responder, and so was
\* every WR before it: an implicit acknowledgement never covers a lost request.
THEOREM SuccessIsExecuted ==
  ASSUME NEW N \in Nat, FewPosts, FewPsns(N), WindowBelowHalf(N)
  PROVE  LinkSpec => []SuccessMeansExecuted
  <1>1. LinkInv(N) => SuccessMeansExecuted
    BY DEF LinkInv, Linked, SuccessMeansExecuted
  <1>. QED BY <1>1, LinkInvariant, PTL

\* ePSN of the responder never leaves the requester's window between
\* min_unacked_psn and the next PSN.
THEOREM EndsAgree ==
  ASSUME NEW N \in Nat, FewPosts, FewPsns(N), WindowBelowHalf(N)
  PROVE  LinkSpec => []EpsnInWindow
  <1>1. LinkInv(N) => EpsnInWindow
    <2> SUFFICES ASSUME LinkInv(N) PROVE EpsnInWindow
      OBVIOUS
    <2>1. PICK n, plan, start : Linked(n, plan, start) /\ Paced(N, n, plan, start)
      BY DEF LinkInv
    <2>2. /\ Numbered(n, plan, start) /\ InSpace(n, start) /\ TakesPlan(n, plan, start)
          /\ sqPsn = InitPsn + start[n + 1] /\ mpsn <= InitPsn + Offset(epsn)
      BY <2>1, SendsSpace DEF LinkInv, Linked, Sends
    <2>3. epsn = InitPsn + Offset(epsn) /\ Offset(epsn) <= start[n + 1]
          /\ Offset(epsn) \in Nat /\ start[n + 1] \in Nat /\ epsn \in Psn
      BY <2>2, TakesSpace, PlanOrder
    <2>4. mpsn \in Psn /\ sqPsn \in Psn
      BY InvSplit DEF LinkInv, ReqInv, Work, Rest
    <2>5. mpsn <= epsn /\ epsn <= sqPsn
      BY <2>2, <2>3, InitPsnType
    <2>6. (epsn - mpsn) % MAX_PSN = epsn - mpsn /\ (sqPsn - mpsn) % MAX_PSN = sqPsn - mpsn
      BY <2>3, <2>4, <2>5, ModLow, MaxPsnAssumption DEF Psn
    <2>. QED BY <2>3, <2>4, <2>5, <2>6, MaxPsnAssumption DEF Psn, EpsnInWindow
  <1>. QED BY <1>1, LinkInvariant, PTL

\* The PSNs from min_unacked_psn on are at most those of two windows: the WRs that
\* are outstanding, and those an implicit NAK has acknowledged.
LEMMA WithinTwoWindows ==
  ASSUME NEW N \in Nat, TwoWindows(N), NEW n, NEW plan, NEW start, HasPlan(n, plan, start),
         Working, Paced(N, n, plan, start), mpsn \in Int
  PROVE  sqPsn <= mpsn + HALF
  <1>1. /\ n \in Nat /\ mssn \in 1 .. (n + 1) /\ ssn = n + 1 /\ sqPsn = InitPsn + start[n + 1]
        /\ \A a \in 1 .. (n + 1) : start[a] \in Nat /\ start[a] <= start[n + 1]
    BY PlanOrder DEF HasPlan
  <1>2. /\ Short(N, n + 1, start) /\ ssn - mssn <= MAX_PENDING_REQ_NUM /\ Keeps(plan, start)
        /\ MAX_PENDING_REQ_NUM \in Nat /\ HALF \in Nat
    BY RequesterAssumption, InitPsnType, OldestCases DEF Paced, Psn
  <1>3. PICK m \in 1 .. mssn : /\ InitPsn + start[m] <= mpsn
                               /\ m = mssn \/ mssn - m < MAX_PENDING_REQ_NUM
    BY <1>2 DEF Keeps
  <1>4. PICK P : P = MAX_PENDING_REQ_NUM
    OBVIOUS
  <1>5. PICK d : d = (n + 1) - m
    OBVIOUS
  <1>6. /\ d \in Nat /\ d <= 2 * P /\ P \in Nat /\ m \in 1 .. (n + 1)
        /\ start[m] \in Nat /\ start[n + 1] \in Nat
    BY <1>1, <1>2, <1>3, <1>4, <1>5
  <1>7. start[n + 1] - start[m] <= d * N
    BY <1>2, <1>5, <1>6 DEF Short
  <1> DEFINE dN == d * N
             PN == P * N
             QN == (2 * P) * N
  <1>8. dN \in Int /\ PN \in Int /\ QN \in Int /\ QN = 2 * PN
    BY <1>6
  <1>9. dN <= QN
    <2>1. CASE d = 2 * P
      BY <1>8, <2>1
    <2>2. CASE d # 2 * P
      <3>1. d < 2 * P /\ 2 * P \in Nat
        BY <1>6, <2>2
      <3>2. dN + N <= QN /\ (d + 1) * N = dN + N
        BY <1>6, <3>1, OneMoreRequest
      <3> HIDE DEF dN, QN
      <3>. QED BY <1>8, <3>2
    <2>. QED BY <2>1, <2>2
  <1>10. 2 * PN <= HALF
    BY <1>4 DEF TwoWindows
  <1> HIDE DEF dN, PN, QN
  <1>11. start[n + 1] - start[m] <= HALF
    BY <1>2, <1>6, <1>7, <1>8, <1>9, <1>10 DEF dN
  <1>. QED BY <1>1, <1>2, <1>3, <1>6, <1>11, InitPsnType

\* While the queue pair works, min_unacked_psn is at or below the next PSN, and at
\* most half of the PSNs below.
LEMMA WindowEnds ==
  ASSUME NEW N \in Nat, TwoWindows(N), LinkInv(N), Working
  PROVE  /\ mpsn \in Psn /\ sqPsn \in Psn /\ mpsn <= sqPsn /\ sqPsn <= mpsn + HALF
         /\ HALF \in Nat
         /\ oldest_psn(sqPsn) = IF HALF <= sqPsn THEN sqPsn - HALF ELSE sqPsn + HALF
  <1>1. PICK n, plan, start : Linked(n, plan, start) /\ Paced(N, n, plan, start)
    BY DEF LinkInv
  <1>2. /\ ReqInv(N) /\ HasPlan(n, plan, start) /\ mpsn \in Psn /\ sqPsn \in Psn
        /\ InitPsn + start[n + 1] = sqPsn /\ start[n + 1] \in Nat
    <2>1. ReqInv(N) /\ Sends(n, plan, start)
      BY <1>1 DEF LinkInv, Linked
    <2>2. HasPlan(n, plan, start)
      BY <2>1, WorkingPlan DEF Sends
    <2>3. mpsn \in Psn /\ sqPsn \in Psn
      BY <2>1, InvSplit DEF ReqInv, Work, Rest
    <2>. QED BY <2>1, <2>2, <2>3, PlanOrder DEF HasPlan
  <1>3. mpsn <= sqPsn
    <2>1. PICK o : o = Offset(epsn)
      OBVIOUS
    <2>2. o \in Nat /\ o <= start[n + 1] /\ mpsn <= InitPsn + o
      BY <1>1, <1>2, <2>1, SendsSpace, TakesSpace DEF Linked
    <2>. QED BY <1>2, <2>2, InitPsnType, MaxPsnAssumption DEF Psn
  <1>4. mpsn \in Int
    BY <1>2, MaxPsnAssumption DEF Psn
  <1>. QED BY <1>1, <1>2, <1>3, <1>4, WithinTwoWindows, OldestCases

\* The assertion of is_expected_resp, "min unacked PSN not < SQ PSN", never fails
\* on a working queue pair, however late answers arrive, lost, duplicated or
\* overtaken by others as they may be.
THEOREM WindowNeverOverruns ==
  ASSUME NEW N \in Nat, FewPosts, FewPsns(N), WindowBelowHalf(N), TwoWindows(N)
  PROVE  LinkSpec => [](fault = "none" /\ qps = "RTS" => ~WindowOverrun)
  <1>1. LinkInv(N) => (fault = "none" /\ qps = "RTS" => ~WindowOverrun)
    <2> SUFFICES ASSUME LinkInv(N), Working, mpsn # sqPsn
                 PROVE  psn_compare(mpsn, sqPsn, sqPsn) = -1
      BY DEF WindowOverrun, Working, Running
    <2>1. /\ mpsn \in Int /\ sqPsn \in Int /\ mpsn < sqPsn
          /\ oldest_psn(sqPsn) <= mpsn \/ sqPsn <= oldest_psn(sqPsn)
      BY WindowEnds, MaxPsnAssumption DEF Psn
    <2>. QED BY <2>1 DEF psn_compare
  <1>. QED BY <1>1, LinkInvariant, PTL

\* While the queue pair works, every PSN that is not acknowledged belongs to an
\* outstanding WR, but those an implicit NAK has acknowledged.
THEOREM WindowIsOwned ==
  ASSUME NEW N \in Nat, FewPosts, FewPsns(N), WindowBelowHalf(N), TwoWindows(N)
  PROVE  LinkSpec => []WindowHasOwners
  <1>1. LinkInv(N) => WindowHasOwners
    <2> SUFFICES ASSUME LinkInv(N), fault = "none", qps = "RTS",
                        NEW i \in 0 .. (RangeLen(mpsn, sqPsn, MAX_PSN) - 1)
                 PROVE  \/ (mpsn + i) % MAX_PSN \in DOMAIN reqSsn \cup DOMAIN respSsn
                        \/ /\ mssn \in DOMAIN pend
                           /\ psn_compare((mpsn + i) % MAX_PSN, pend[mssn].first, sqPsn) < 0
      BY DEF WindowHasOwners
    <2>1. PICK n, plan, start : Linked(n, plan, start) /\ Paced(N, n, plan, start)
      BY DEF LinkInv
    <2>2. Working /\ Sends(n, plan, start) /\ InitPsn <= mpsn /\ ReqInv(N)
      BY <2>1 DEF LinkInv, Linked, Working, Running
    <2>3. HasPlan(n, plan, start) /\ (mssn = ssn => mpsn = sqPsn)
      BY <2>2, WorkingPlan DEF Sends
    <2>4. mpsn \in Psn /\ sqPsn \in Psn /\ mssn \in Ssn /\ ssn \in Ssn
      BY <2>2, InvSplit DEF ReqInv, Work, Rest
    <2>5. /\ InitPsn + start[n + 1] = sqPsn /\ start[n + 1] \in Nat
          /\ mssn \in 1 .. (n + 1) /\ mssn <= ssn /\ start[mssn] \in Nat
      BY <2>3, PlanOrder DEF HasPlan
    <2>6. mpsn <= sqPsn
      BY <2>2, WindowEnds
    <2> DEFINE p == mpsn + i
               first == InitPsn + start[mssn]
    <2>7. p \in Int /\ InitPsn <= p /\ p < sqPsn /\ p % MAX_PSN = p /\ 0 <= p /\ mpsn < sqPsn
      <3>1. RangeLen(mpsn, sqPsn, MAX_PSN) = sqPsn - mpsn
        BY <2>4, <2>6, RangeLenCases
      <3>2. p \in Int /\ mpsn <= p /\ p < sqPsn
        BY <2>4, <3>1, MaxPsnAssumption DEF Psn
      <3> HIDE DEF p
      <3>3. 0 <= p /\ p < MAX_PSN
        BY <2>4, <3>2, MaxPsnAssumption DEF Psn
      <3>. QED BY <2>2, <2>4, <3>2, <3>3, ModLow, InitPsnType, MaxPsnAssumption DEF Psn
    <2> HIDE DEF p
    <2>8. CASE first <= p
      <3>1. p \in first .. (sqPsn - 1)
        BY <2>4, <2>5, <2>7, <2>8, InitPsnType, MaxPsnAssumption DEF Psn
      <3>2. p \in DOMAIN reqSsn \cup DOMAIN respSsn
        BY <2>3, <3>1 DEF HasPlan, Owned
      <3>. QED BY <2>7, <3>2 DEF p
    <2>9. CASE ~(first <= p)
      <3>1. mssn # ssn
        BY <2>3, <2>4, <2>7, MaxPsnAssumption DEF Psn
      <3>2. mssn \in DOMAIN pend
        BY <2>3, <2>4, <2>5, <3>1, SsnRangeCases, RequesterAssumption DEF HasPlan, Books, Ssn
      <3>3. pend[mssn].first = first
        BY <2>3, <3>2 DEF HasPlan, FromPlan
      <3>4. first \in Int /\ first <= sqPsn /\ p < first
        <4>1. start[mssn] <= start[n + 1]
          BY <2>3, <2>5, PlanOrder DEF HasPlan
        <4>. QED BY <2>5, <2>7, <2>9, <4>1, InitPsnType
      <3> HIDE DEF first
      <3>5. oldest_psn(sqPsn) <= p \/ first <= oldest_psn(sqPsn)
        <4>1. sqPsn <= mpsn + HALF
          BY <2>2, WindowEnds
        <4>2. /\ HALF \in Nat /\ sqPsn \in Int
              /\ oldest_psn(sqPsn) = IF HALF <= sqPsn THEN sqPsn - HALF ELSE sqPsn + HALF
          BY <2>2, <2>4, WindowEnds, MaxPsnAssumption DEF Psn
        <4>3. sqPsn - HALF <= p /\ first <= sqPsn + HALF
          BY <2>4, <2>7, <3>4, <4>1, <4>2, InitPsnType, MaxPsnAssumption DEF Psn, p
        <4>. QED BY <2>7, <4>2, <4>3
      <3>6. psn_compare(p, first, sqPsn) < 0
        BY <2>7, <3>4, <3>5 DEF psn_compare
      <3>. QED BY <2>7, <3>2, <3>3, <3>6 DEF p
    <2>. QED BY <2>8, <2>9
  <1>. QED BY <1>1, LinkInvariant, PTL

-----------------------------------------------------------------------------
(***************************************************************************)
(* The connection implements the service.                                  *)
(***************************************************************************)
LEMMA StillOpen ==
  ASSUME NEW N, ReqInv(N), Working
  PROVE  Service!Open
  <1>1. cq \in Seq([ssn : Ssn, status : Statuses])
    BY InvSplit DEF ReqInv, Work
  <1>2. \A i \in DOMAIN cq : cq[i].status = "SUCCESS"
    BY DEF ReqInv, Completed, Working
  <1>3. cq = <<>> \/ Len(cq) \in DOMAIN cq
    BY <1>1, LenProperties, EmptySeq
  <1>. QED BY <1>2, <1>3 DEF Service!Open

\* A completion is about a WR after those completed before.
LEMMA CompletesLater ==
  ASSUME NEW N, ReqInv(N), ReqInv(N)', NEW s \in Nat, s >= 1, NEW status,
         cq' = Append(cq, [ssn |-> s, status |-> status])
  PROVE  Service!LastCompleted \in Nat /\ Service!LastCompleted < s
  <1>1. cq \in Seq([ssn : Ssn, status : Statuses]) /\ Ascending(cq')
    BY InvSplit DEF ReqInv, Work, Completed
  <1>2. CASE cq = <<>>
    BY <1>2 DEF Service!LastCompleted
  <1>3. CASE cq # <<>>
    <2> DEFINE l == Len(cq)
    <2>1. /\ l \in Nat /\ l >= 1 /\ DOMAIN cq = 1 .. l /\ DOMAIN cq' = 1 .. (l + 1)
          /\ cq'[l + 1] = [ssn |-> s, status |-> status] /\ cq'[l] = cq[l]
      BY <1>1, <1>3, AppendProperties, LenProperties, EmptySeq
    <2> HIDE DEF l
    <2>2. cq[l].ssn \in Nat
      <3>0. l \in 1 .. Len(cq)
        BY <2>1 DEF l
      <3>1. cq[l] \in [ssn : Ssn, status : Statuses]
        BY <1>1, <3>0, ElementOfSeq
      <3>. QED BY <3>1, RequesterAssumption DEF Ssn
    <2>3. cq'[l].ssn < cq'[l + 1].ssn
      <3>1. l \in DOMAIN cq' /\ l + 1 \in DOMAIN cq' /\ l < l + 1
        BY <2>1
      <3>. QED BY <1>1, <3>1 DEF Ascending
    <2>. QED BY <1>3, <2>1, <2>2, <2>3 DEF Service!LastCompleted, l
  <1>. QED BY <1>2, <1>3

LEMMA ServiceSteps ==
  ASSUME NEW N \in Nat, FewPosts, FewPsns(N), WindowBelowHalf(N), LinkInv(N), [LinkNext]_linkVars
  PROVE  [Service!Next]_(Service!svars)
  <1>1. PICK n, plan, start : Linked(n, plan, start) /\ Paced(N, n, plan, start)
    BY DEF LinkInv
  <1>2. /\ ReqInv(N) /\ ReqInv(N)'
        /\ \/ UNCHANGED <<cq, done>> /\ posted' \in {posted, posted + 1}
           \/ Completes(n) /\ UNCHANGED <<posted, done>>
           \/ /\ UNCHANGED <<posted, cq>> /\ Len(done)' \in Nat /\ Len(done)' <= n
              /\ Len(done)' = Len(done) \/ Len(done)' = Len(done) + 1
    BY <1>1, LinkActs DEF LinkInv
  <1>3. n \in Nat /\ n <= posted /\ posted \in Nat /\ Len(done) \in Nat
    <2>1. n \in Nat /\ Len(done) \in Nat
      BY <1>1, <1>2, SendsSpace, TakesSpace DEF Linked
    <2>. QED BY <1>1, <1>2, <2>1, InvSplit DEF Linked, Sends, ReqInv, Work
  <1>4. CASE UNCHANGED <<cq, done>> /\ posted' \in {posted, posted + 1}
    BY <1>4 DEF Service!Next, Service!Post, Service!svars
  <1>5. CASE /\ UNCHANGED <<posted, cq>> /\ Len(done)' \in Nat /\ Len(done)' <= n
             /\ Len(done)' = Len(done) \/ Len(done)' = Len(done) + 1
    <2>1. CASE Len(done)' = Len(done)
      BY <1>5, <2>1 DEF Service!svars
    <2>2. CASE Len(done)' = Len(done) + 1
      <3>1. Len(done) < posted
        BY <1>3, <1>5, <2>2
      <3>. QED BY <1>5, <2>2, <3>1 DEF Service!Next, Service!Execute
    <2>. QED BY <1>5, <2>1, <2>2
  <1>6. CASE Completes(n) /\ UNCHANGED <<posted, done>>
    <2>1. CASE UNCHANGED cq
      BY <1>6, <2>1 DEF Service!svars
    <2>2. CASE Working /\ Fails(n)
      <3>1. PICK s \in 1 .. n, e \in Statuses \ {"SUCCESS"} :
              cq' = Append(cq, [ssn |-> s, status |-> e])
        BY <2>2 DEF Fails
      <3>2. s \in Nat /\ s >= 1 /\ s <= posted
        BY <1>3, <3>1
      <3>3. Service!LastCompleted \in Nat /\ Service!LastCompleted < s
        BY <1>2, <3>1, <3>2, CompletesLater
      <3>4. s \in (Service!LastCompleted + 1) .. posted
        BY <1>3, <3>2, <3>3
      <3>5. Service!Open
        BY <1>2, <2>2, StillOpen
      <3>. QED BY <1>6, <3>1, <3>4, <3>5 DEF Service!Next, Service!Fail
    <2>3. CASE Working /\ \E s \in 1 .. n : /\ s <= Len(done)
                                            /\ cq' = Append(cq, [ssn |-> s, status |-> "SUCCESS"])
      <3>1. PICK s \in 1 .. n : /\ s <= Len(done)
                                /\ cq' = Append(cq, [ssn |-> s, status |-> "SUCCESS"])
        BY <2>3
      <3>2. s \in Nat /\ s >= 1
        BY <1>3, <3>1
      <3>3. Service!LastCompleted \in Nat /\ Service!LastCompleted < s
        BY <1>2, <3>1, <3>2, CompletesLater
      <3>4. s \in (Service!LastCompleted + 1) .. Len(done)
        BY <1>3, <3>1, <3>2, <3>3
      <3>5. Service!Open
        BY <1>2, <2>3, StillOpen
      <3>. QED BY <1>6, <3>1, <3>4, <3>5 DEF Service!Next, Service!Complete
    <2>. QED BY <1>6, <2>1, <2>2, <2>3 DEF Completes
  <1>. QED BY <1>2, <1>4, <1>5, <1>6

\* The connection implements the service: posting, execution and completion
\* happen as RCService allows, through loss, reordering, duplication, retries,
\* late answers and errors.
THEOREM LinkImplementsService ==
  ASSUME NEW N \in Nat, FewPosts, FewPsns(N), WindowBelowHalf(N)
  PROVE  LinkSpec => ImplementsService
  <1>1. LinkInit => Service!Init
    BY DEF LinkInit, Init, RespInit, Service!Init
  <1>2. LinkInv(N) /\ [LinkNext]_linkVars => [Service!Next]_(Service!svars)
    BY ServiceSteps
  <1>. QED BY <1>1, <1>2, LinkInvariant, PTL DEF LinkSpec, ImplementsService, Service!Spec
=============================================================================
