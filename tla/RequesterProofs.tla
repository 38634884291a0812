-------------------------- MODULE RequesterProofs --------------------------
(***************************************************************************)
(* What is proved of the requester for every value of the constants: its   *)
(* types, the budget of retries, and that min_unacked_psn moves forward;   *)
(* that the outstanding requests are a window of SSNs, that the two        *)
(* indexes and the counter of reads and atomics agree with them, that the  *)
(* timer covers them, and that they complete in order.                     *)
(***************************************************************************)
EXTENDS Requester, PsnMathProofs, FiniteSetTheorems, SequenceTheorems

-----------------------------------------------------------------------------
(***************************************************************************)
(* The inductive invariant: the types and the budget together, with what   *)
(* both say of the contexts in one operator.                               *)
(***************************************************************************)
GoodCtx(c) == IsCtx(c) /\ WithinBudget(c)

GoodPend(P) == DOMAIN P \subseteq Ssn /\ \A s \in DOMAIN P : GoodCtx(P[s])

GoodIndex(R) == R \in [DOMAIN R -> Ssn]

Inv == TypeOK /\ RetryBudget

\* The part of the invariant that a retry or an error has to establish.
Work ==
  /\ qps \in {"RTS", "ERR"} /\ sq \in Seq(WorkReqs)
  /\ ssn \in Ssn /\ mssn \in Ssn /\ sqPsn \in Psn
  /\ GoodPend(pend) /\ GoodIndex(reqSsn)
  /\ rdAtomic \in Int
  /\ respSsn \in [DOMAIN respSsn -> Ssn] /\ DOMAIN respSsn \subseteq Psn
  /\ readPsn \in [DOMAIN readPsn -> Psn] /\ DOMAIN readPsn \subseteq Ssn
  /\ cq \in Seq([ssn : Ssn, status : Statuses])
  /\ posted \in 0 .. MaxPosts
  /\ fault \in Faults

\* The rest of it.
Rest == mpsn \in Psn /\ preOp \in RespOps \cup {"NONE"} /\ timerOn \in BOOLEAN

LEMMA InvSplit == Inv <=> Work /\ Rest
  BY DEF Inv, Work, Rest, TypeOK, RetryBudget, GoodPend, GoodCtx, GoodIndex

LEMMA InvJoin ==
  ASSUME Work', Rest'
  PROVE  Inv'
  BY DEF Inv, Work, Rest, TypeOK, RetryBudget, GoodPend, GoodCtx, GoodIndex

-----------------------------------------------------------------------------
(***************************************************************************)
(* Sequence numbers stay reduced.                                          *)
(***************************************************************************)
LEMMA ReducedPsn ==
  ASSUME NEW x \in Int
  PROVE  x % MAX_PSN \in Psn
  BY MaxPsnAssumption DEF Psn

LEMMA NextSsnType ==
  ASSUME NEW s \in Ssn
  PROVE  next_ssn(s) \in Ssn
  BY RequesterAssumption DEF next_ssn, Ssn

-----------------------------------------------------------------------------
(***************************************************************************)
(* The dictionaries keep what is good about their values.                  *)
(***************************************************************************)
LEMMA OnlyGood ==
  ASSUME NEW P, GoodPend(P), NEW S, S \subseteq DOMAIN P
  PROVE  GoodPend(Only(P, S))
  BY DEF GoodPend, Only

LEMMA WithoutGood ==
  ASSUME NEW P, GoodPend(P), NEW S
  PROVE  GoodPend(Without(P, S))
  BY OnlyGood DEF Without

LEMMA PutGood ==
  ASSUME NEW P, GoodPend(P), NEW s \in Ssn, NEW c, GoodCtx(c)
  PROVE  GoodPend(Put(P, s, c))
  BY DEF GoodPend, Put

LEMMA OnlyIndex ==
  ASSUME NEW R, GoodIndex(R), NEW S, S \subseteq DOMAIN R
  PROVE  GoodIndex(Only(R, S))
  BY DEF GoodIndex, Only

LEMMA PutIndex ==
  ASSUME NEW R, GoodIndex(R), NEW x, NEW s \in Ssn
  PROVE  GoodIndex(Put(R, x, s))
  BY DEF GoodIndex, Put

\* The context of a request that was just registered.
LEMMA FreshCtxGood ==
  ASSUME NEW w \in WorkReqs, NEW first \in Psn \cup {NoPsn}, NEW psns
  PROVE  GoodCtx(WrCtx(w, first, psns))
  <1>1. 1 \in Nat \ {0} /\ 1 <= rnr_retry /\ 1 <= retry_cnt
    BY RequesterAssumption
  <1>. QED BY <1>1 DEF GoodCtx, IsCtx, WithinBudget, WrCtx, Fresh

\* What the implicit acknowledgements leave.
LEMMA PendFromGood ==
  ASSUME Work, NEW h
  PROVE  GoodPend(PendFrom(h)) /\ GoodIndex(ReqFrom(h))
  BY WithoutGood, OnlyIndex DEF Work, PendFrom, ReqFrom

LEMMA EmptyGood ==
  /\ EmptyFcn \in [DOMAIN EmptyFcn -> Ssn] /\ DOMAIN EmptyFcn \subseteq Psn
  /\ EmptyFcn \in [DOMAIN EmptyFcn -> Psn] /\ DOMAIN EmptyFcn \subseteq Ssn
  /\ GoodPend(EmptyFcn) /\ GoodIndex(EmptyFcn)
  BY DEF EmptyFcn, GoodPend, GoodIndex

-----------------------------------------------------------------------------
(***************************************************************************)
(* goto_err_state keeps the invariant, wherever the flush stops.           *)
(***************************************************************************)
LEMMA GotoErrGood ==
  ASSUME Work, NEW P, GoodPend(P), NEW R, GoodIndex(R), NEW h \in Ssn,
         NEW p, NEW status \in Statuses, GotoErrState(P, R, h, p, status)
  PROVE  Work'
  <1>0. /\ qps' \in {"RTS", "ERR"} /\ sqPsn' \in Psn /\ posted' \in 0 .. MaxPosts
    BY DEF GotoErrState, Work
  <1>1. CASE p \notin DOMAIN R
    BY <1>0, <1>1 DEF GotoErrState, Work, Faults
  <1>2. CASE p \in DOMAIN R
    <2> DEFINE s    == R[p]
               rest == Without(P, {s})
               left == IF ReadOrAtomic(P[s].wr) THEN rdAtomic - 1 ELSE rdAtomic
    <2>1. s \in Ssn
      BY <1>2 DEF GoodIndex
    <2>2. GoodPend(rest)
      BY WithoutGood
    <2>3. left \in Int
      BY DEF Work
    <2>4. /\ cq' = Append(cq, [ssn |-> s, status |-> status])
          /\ reqSsn' = Only(R, {q \in DOMAIN R : R[q] # s})
      BY <1>2 DEF GotoErrState
    <2>5. \/ /\ fault' = "AssertionError"
             /\ pend' = rest /\ mssn' = h /\ rdAtomic' = left
             /\ UNCHANGED <<sq, ssn, respSsn, readPsn>>
          \/ /\ mssn' = next_ssn(s)
             /\ respSsn' = EmptyFcn /\ readPsn' = EmptyFcn
             /\ \/ /\ fault' = "TypeError"
                   /\ pend' = rest /\ rdAtomic' = left
                   /\ UNCHANGED <<sq, ssn>>
                \/ /\ sq # <<>>
                   /\ fault' = "AttributeError"
                   /\ sq' = Tail(sq) /\ ssn' = next_ssn(ssn)
                   /\ pend' = Put(rest, ssn, WrCtx(Head(sq), NoPsn, {}))
                   /\ rdAtomic' = IF ReadOrAtomic(Head(sq)) THEN left + 1 ELSE left
                \/ /\ pend' = EmptyFcn /\ rdAtomic' = left
                   /\ UNCHANGED <<sq, ssn, fault>>
      BY <1>2 DEF GotoErrState
    <2> HIDE DEF s, rest, left
    <2>6. cq' \in Seq([ssn : Ssn, status : Statuses]) /\ GoodIndex(reqSsn')
      BY <2>1, <2>4, OnlyIndex DEF Work
    <2>7. GoodPend(pend')
      <3>1. sq # <<>> => Head(sq) \in WorkReqs /\ ssn \in Ssn
        BY DEF Work
      <3>2. sq # <<>> => GoodCtx(WrCtx(Head(sq), NoPsn, {}))
        BY <3>1, FreshCtxGood
      <3>3. sq # <<>> => GoodPend(Put(rest, ssn, WrCtx(Head(sq), NoPsn, {})))
        BY <2>2, <3>1, <3>2, PutGood
      <3>. QED BY <2>2, <2>5, <3>3, EmptyGood
    <2>8. /\ sq' \in Seq(WorkReqs) /\ ssn' \in Ssn /\ mssn' \in Ssn
          /\ rdAtomic' \in Int /\ fault' \in Faults
      <3>1. sq' \in Seq(WorkReqs)
        <4>1. sq # <<>> => Tail(sq) \in Seq(WorkReqs)
          BY HeadTailProperties DEF Work
        <4>. QED BY <2>5, <4>1 DEF Work
      <3>2. ssn' \in Ssn /\ mssn' \in Ssn
        BY <2>1, <2>5, NextSsnType DEF Work
      <3>3. rdAtomic' \in Int
        BY <2>3, <2>5
      <3>4. fault' \in Faults
        BY <2>5 DEF Work, Faults
      <3>. QED BY <3>1, <3>2, <3>3, <3>4
    <2>9. /\ respSsn' \in [DOMAIN respSsn' -> Ssn] /\ DOMAIN respSsn' \subseteq Psn
          /\ readPsn' \in [DOMAIN readPsn' -> Psn] /\ DOMAIN readPsn' \subseteq Ssn
      BY <2>5, EmptyGood DEF Work
    <2>. QED BY <1>0, <2>6, <2>7, <2>8, <2>9 DEF Work, GoodPend, GoodIndex
  <1>. QED BY <1>1, <1>2

-----------------------------------------------------------------------------
(***************************************************************************)
(* Retries.  A packet goes out again only below its limit, so one more     *)
(* time stays within the budget.                                           *)
(***************************************************************************)
LEMMA RetryIncGood ==
  ASSUME NEW C, GoodPend(C), NEW sent, NEW type,
         \A s \in DOMAIN C : \A p \in DOMAIN C[s].pkts :
           <<s, p>> \in sent => C[s].pkts[p][counter(type)] < limit(type)
  PROVE  GoodPend(RetryInc(C, sent, counter(type)))
  <1> DEFINE D == RetryInc(C, sent, counter(type))
             K(s) == [p \in DOMAIN C[s].pkts |->
                        IF <<s, p>> \in sent THEN Inc(C[s].pkts[p], counter(type))
                                              ELSE C[s].pkts[p]]
  <1>1. DOMAIN D = DOMAIN C /\ \A s \in DOMAIN C : D[s] = [C[s] EXCEPT !.pkts = K(s)]
    BY DEF RetryInc
  <1>2. ASSUME NEW s \in DOMAIN C
        PROVE  GoodCtx(D[s])
    <2>1. GoodCtx(C[s])
      BY DEF GoodPend
    <2>2. D[s] = [wr |-> C[s].wr, first |-> C[s].first, pkts |-> K(s)]
      BY <1>1, <2>1 DEF GoodCtx, IsCtx
    <2>3. ASSUME NEW p \in DOMAIN C[s].pkts
          PROVE  /\ K(s)[p] \in [rnr : Nat \ {0}, other : Nat \ {0}]
                 /\ K(s)[p].rnr <= rnr_retry /\ K(s)[p].other <= retry_cnt
      <3>1. /\ C[s].pkts[p] \in [rnr : Nat \ {0}, other : Nat \ {0}]
            /\ C[s].pkts[p].rnr <= rnr_retry /\ C[s].pkts[p].other <= retry_cnt
        BY <2>1 DEF GoodCtx, IsCtx, WithinBudget
      <3>2. CASE <<s, p>> \notin sent
        BY <3>1, <3>2
      <3>3. CASE <<s, p>> \in sent
        <4>1. C[s].pkts[p][counter(type)] < limit(type)
          BY <3>3
        <4>2. CASE type = "RNR"
          BY <3>1, <3>3, <4>1, <4>2, RequesterAssumption DEF counter, limit, Inc
        <4>3. CASE type # "RNR"
          BY <3>1, <3>3, <4>1, <4>3, RequesterAssumption DEF counter, limit, Inc
        <4>. QED BY <4>2, <4>3
      <3>. QED BY <3>2, <3>3
    <2> HIDE DEF D, K
    <2>4. DOMAIN K(s) = DOMAIN C[s].pkts /\ K(s) = [p \in DOMAIN K(s) |-> K(s)[p]]
      BY DEF K
    <2>. QED BY <2>1, <2>2, <2>3, <2>4 DEF GoodCtx, IsCtx, WithinBudget
  <1>. QED BY <1>1, <1>2 DEF GoodPend

\* A partial retry of a read records one more request packet.
LEMMA AddPktGood ==
  ASSUME NEW C, GoodPend(C), NEW s, NEW p
  PROVE  GoodPend([C EXCEPT ![s].pkts = Put(@, p, Fresh)])
  <1> DEFINE D == [C EXCEPT ![s].pkts = Put(@, p, Fresh)]
  <1>1. DOMAIN D = DOMAIN C /\ \A t \in DOMAIN C : t # s => D[t] = C[t]
    OBVIOUS
  <1>2. ASSUME s \in DOMAIN C
        PROVE  GoodCtx(D[s])
    <2>1. GoodCtx(C[s])
      BY <1>2 DEF GoodPend
    <2>2. D[s] = [wr |-> C[s].wr, first |-> C[s].first, pkts |-> Put(C[s].pkts, p, Fresh)]
      BY <1>2, <2>1 DEF GoodCtx, IsCtx
    <2>3. /\ Fresh \in [rnr : Nat \ {0}, other : Nat \ {0}]
          /\ Fresh.rnr <= rnr_retry /\ Fresh.other <= retry_cnt
      BY RequesterAssumption DEF Fresh
    <2> DEFINE K == Put(C[s].pkts, p, Fresh)
    <2>4. /\ K = [q \in DOMAIN K |-> K[q]] /\ DOMAIN K = DOMAIN C[s].pkts \cup {p}
          /\ \A q \in DOMAIN K : K[q] = IF q = p THEN Fresh ELSE C[s].pkts[q]
      BY DEF Put
    <2> HIDE DEF D, K
    <2>5. \A q \in DOMAIN K : /\ K[q] \in [rnr : Nat \ {0}, other : Nat \ {0}]
                              /\ K[q].rnr <= rnr_retry /\ K[q].other <= retry_cnt
      BY <2>1, <2>3, <2>4 DEF GoodCtx, IsCtx, WithinBudget
    <2>6. D[s] = [wr |-> C[s].wr, first |-> C[s].first, pkts |-> K]
      BY <2>2 DEF K
    <2>. QED BY <2>1, <2>4, <2>5, <2>6 DEF GoodCtx, IsCtx, WithinBudget
  <1>. QED BY <1>1, <1>2 DEF GoodPend

(***************************************************************************)
(* What a retry after the deletion of the WRs before h leaves of the       *)
(* contexts and of the PSN index: the same WRs with other counters, and    *)
(* for the retry from the middle of a read's answer one more packet.       *)
(***************************************************************************)
OneMorePacket(h, from, C, R) ==
  /\ from \in DOMAIN respSsn /\ from \notin DOMAIN reqSsn
  /\ R = Put(ReqFrom(h), from, respSsn[from])
  /\ \A s \in DOMAIN C : DOMAIN C[s].pkts =
       DOMAIN PendFrom(h)[s].pkts \cup (IF s = respSsn[from] THEN {from} ELSE {})

SamePackets(h, C, R) ==
  /\ R = ReqFrom(h)
  /\ \A s \in DOMAIN C : DOMAIN C[s].pkts = DOMAIN PendFrom(h)[s].pkts

Resent(h, from, C, R) ==
  /\ GoodPend(C) /\ GoodIndex(R)
  /\ DOMAIN C = DOMAIN PendFrom(h)
  /\ \A s \in DOMAIN C : C[s].wr = PendFrom(h)[s].wr /\ C[s].first = PendFrom(h)[s].first
  /\ SamePackets(h, C, R) \/ OneMorePacket(h, from, C, R)

\* The packets sent again are those of the WR that owns the PSN from, and of
\* later ones.
Owner(p) == IF p \notin DOMAIN reqSsn THEN respSsn[p] ELSE reqSsn[p]

Resends(C, from) ==
  \A k \in tx' :
    \E s \in {Owner(from)} \cup ssn_range(next_ssn(Owner(from)), ssn) :
      s \in DOMAIN C => \E p \in DOMAIN C[s].pkts : k = Packet(s, C[s], p)

AddPkt(C, s, p) == [C EXCEPT ![s].pkts = Put(@, p, Fresh)]

LEMMA AddPktSame ==
  ASSUME NEW C, GoodPend(C), NEW s, NEW p
  PROVE  /\ DOMAIN AddPkt(C, s, p) = DOMAIN C
         /\ \A t \in DOMAIN C :
              /\ AddPkt(C, s, p)[t].wr = C[t].wr /\ AddPkt(C, s, p)[t].first = C[t].first
              /\ DOMAIN AddPkt(C, s, p)[t].pkts
                   = DOMAIN C[t].pkts \cup (IF t = s THEN {p} ELSE {})
  <1> DEFINE D == AddPkt(C, s, p)
  <1>1. DOMAIN D = DOMAIN C /\ \A t \in DOMAIN C : t # s => D[t] = C[t]
    BY DEF AddPkt
  <1>2. ASSUME s \in DOMAIN C
        PROVE  /\ D[s].wr = C[s].wr /\ D[s].first = C[s].first
               /\ DOMAIN D[s].pkts = DOMAIN C[s].pkts \cup {p}
    <2>1. C[s] = [wr |-> C[s].wr, first |-> C[s].first, pkts |-> C[s].pkts]
      BY <1>2 DEF GoodPend, GoodCtx, IsCtx
    <2>2. D[s] = [wr |-> C[s].wr, first |-> C[s].first, pkts |-> Put(C[s].pkts, p, Fresh)]
      BY <1>2, <2>1 DEF AddPkt
    <2>3. DOMAIN Put(C[s].pkts, p, Fresh) = DOMAIN C[s].pkts \cup {p}
      BY DEF Put
    <2>. QED BY <2>2, <2>3
  <1> HIDE DEF D
  <1>3. ASSUME NEW t \in DOMAIN C
        PROVE  /\ D[t].wr = C[t].wr /\ D[t].first = C[t].first
               /\ DOMAIN D[t].pkts = DOMAIN C[t].pkts \cup (IF t = s THEN {p} ELSE {})
    <2>1. CASE t = s
      BY <1>2, <2>1
    <2>2. CASE t # s
      BY <1>1, <2>2
    <2>. QED BY <2>1, <2>2
  <1>. QED BY <1>1, <1>3 DEF D

LEMMA RetryIncSame ==
  ASSUME NEW C, GoodPend(C), NEW sent, NEW field
  PROVE  LET D == RetryInc(C, sent, field) IN
         /\ DOMAIN D = DOMAIN C
         /\ \A t \in DOMAIN C : /\ D[t].wr = C[t].wr /\ D[t].first = C[t].first
                                /\ DOMAIN D[t].pkts = DOMAIN C[t].pkts
  <1> DEFINE K(s) == [p \in DOMAIN C[s].pkts |->
                        IF <<s, p>> \in sent THEN Inc(C[s].pkts[p], field)
                                              ELSE C[s].pkts[p]]
             D == RetryInc(C, sent, field)
  <1>1. DOMAIN D = DOMAIN C /\ \A s \in DOMAIN C : D[s] = [C[s] EXCEPT !.pkts = K(s)]
    BY DEF RetryInc
  <1>2. \A s : DOMAIN K(s) = DOMAIN C[s].pkts
    OBVIOUS
  <1> HIDE DEF D, K
  <1>3. ASSUME NEW s \in DOMAIN C
        PROVE  D[s] = [wr |-> C[s].wr, first |-> C[s].first, pkts |-> K(s)]
    <2>1. C[s] = [wr |-> C[s].wr, first |-> C[s].first, pkts |-> C[s].pkts]
      BY <1>3 DEF GoodPend, GoodCtx, IsCtx
    <2>. QED BY <1>1, <1>3, <2>1
  <1>. QED BY <1>1, <1>2, <1>3 DEF D

LEMMA RetryResult ==
  ASSUME Work, NEW h \in Ssn, NEW from, NEW type, NEW all,
         Retry(h, from, type, all)
  PROVE  \/ /\ fault' = "AssertionError" /\ tx' = {}
            /\ pend' = PendFrom(h) /\ reqSsn' = ReqFrom(h) /\ mssn' = h
            /\ UNCHANGED <<qps, sq, ssn, sqPsn, rdAtomic, respSsn, readPsn, cq, posted>>
         \/ /\ from \in DOMAIN reqSsn \cup DOMAIN respSsn
            /\ \E C, R :
              /\ Resent(h, from, C, R) /\ Resends(C, from)
              /\ \/ /\ fault' \in {"none", "KeyError"}
                    /\ pend' = C /\ reqSsn' = R /\ mssn' = h
                    /\ UNCHANGED <<qps, sq, ssn, sqPsn, rdAtomic, respSsn, readPsn, cq, posted>>
                 \/ \E p : \E status \in Statuses \ {"SUCCESS"} : GotoErrState(C, R, h, p, status)
  <1> DEFINE
      partial == from \notin DOMAIN reqSsn
      cur     == IF partial THEN respSsn[from] ELSE reqSsn[from]
      ctxs    == IF partial THEN [PendFrom(h) EXCEPT ![cur].pkts = Put(@, from, Fresh)]
                            ELSE PendFrom(h)
      reqs    == IF partial THEN Put(ReqFrom(h), from, cur) ELSE ReqFrom(h)
      begin   == IF partial THEN {from} ELSE psn_range(from, PsnEnd(pend[cur]))
      later   == IF all THEN ssn_range(next_ssn(cur), ssn) ELSE {}
      plan    == ({cur} \X begin) \cup
                   UNION {{s} \X psn_range(pend[s].first, PsnEnd(pend[s])) : s \in later}
      lost(x) == x[2] \notin DOMAIN ctxs[x[1]].pkts
      done(x) == ~lost(x) /\ ctxs[x[1]].pkts[x[2]][counter(type)] >= limit(type)
      bad     == {x \in plan : lost(x) \/ done(x)}
      stops   == {x \in bad : \A y \in bad \ {x} : ResendOrder(x, y, cur)}
      sent    == {x \in plan \ bad : \A y \in bad : ResendOrder(x, y, cur)}
      bumped  == RetryInc(ctxs, sent, counter(type))
      packets == {Packet(x[1], ctxs[x[1]], x[2]) : x \in sent}
      inOrder == /\ psn_compare(pend[cur].first, from, sqPsn) <= 0
                 /\ psn_compare(from, PsnEnd(pend[cur]), sqPsn) <= 0
      known   == partial => from \in DOMAIN respSsn
      status  == IF type = "RNR" THEN "RNR_RETRY_EXC_ERR" ELSE "RETRY_EXC_ERR"
  <1>0. \/ /\ ~known \/ (~partial /\ ~inOrder)
           /\ fault' = "AssertionError"
           /\ pend' = PendFrom(h) /\ reqSsn' = ReqFrom(h) /\ mssn' = h /\ tx' = {}
           /\ UNCHANGED <<qps, sq, ssn, sqPsn, rdAtomic, respSsn, readPsn, cq, posted>>
        \/ /\ known /\ (partial \/ inOrder)
           /\ tx' = packets
           /\ \/ /\ \A x \in stops : lost(x)
                 /\ fault' = IF stops = {} THEN "none" ELSE "KeyError"
                 /\ pend' = bumped /\ reqSsn' = reqs /\ mssn' = h
                 /\ UNCHANGED <<qps, sq, ssn, sqPsn, rdAtomic, respSsn, readPsn, cq, posted>>
              \/ \E x \in stops :
                   /\ done(x)
                   /\ GotoErrState(bumped, reqs, h, x[2], status)
    BY Zenon DEF Retry
  <1>1. \/ /\ fault' = "AssertionError" /\ tx' = {}
           /\ pend' = PendFrom(h) /\ reqSsn' = ReqFrom(h) /\ mssn' = h
           /\ UNCHANGED <<qps, sq, ssn, sqPsn, rdAtomic, respSsn, readPsn, cq, posted>>
        \/ /\ known /\ tx' = packets
           /\ fault' \in {"none", "KeyError"}
           /\ pend' = bumped /\ reqSsn' = reqs /\ mssn' = h
           /\ UNCHANGED <<qps, sq, ssn, sqPsn, rdAtomic, respSsn, readPsn, cq, posted>>
        \/ /\ known /\ tx' = packets
           /\ \E x \in stops : GotoErrState(bumped, reqs, h, x[2], status)
    <2> HIDE DEF partial, cur, ctxs, reqs, begin, later, plan, lost, done, bad, stops, sent,
                 bumped, packets, inOrder, known, status
    <2>. QED BY <1>0
  <1>2. GoodPend(PendFrom(h)) /\ GoodIndex(ReqFrom(h))
    BY PendFromGood
  <1>3. GoodPend(ctxs)
    BY <1>2, AddPktGood
  <1>4. ASSUME known PROVE GoodIndex(reqs)
    <2>1. cur \in Ssn
      BY <1>4 DEF Work, GoodIndex
    <2>. QED BY <1>2, <2>1, PutIndex
  <1>5. GoodPend(bumped)
    <2>1. \A s \in DOMAIN ctxs : \A p \in DOMAIN ctxs[s].pkts :
            <<s, p>> \in sent => ctxs[s].pkts[p][counter(type)] < limit(type)
      <3> SUFFICES ASSUME NEW s \in DOMAIN ctxs, NEW p \in DOMAIN ctxs[s].pkts,
                          <<s, p>> \in sent
                   PROVE  ctxs[s].pkts[p][counter(type)] < limit(type)
        OBVIOUS
      <3>1. ~(ctxs[s].pkts[p][counter(type)] >= limit(type))
        OBVIOUS
      <3> HIDE DEF ctxs, sent
      <3>2. ctxs[s].pkts[p] \in [rnr : Nat \ {0}, other : Nat \ {0}]
        BY <1>3 DEF GoodPend, GoodCtx, IsCtx
      <3>3. ctxs[s].pkts[p][counter(type)] \in Nat /\ limit(type) \in Nat
        BY <3>2, RequesterAssumption DEF counter, limit
      <3>. QED BY <3>1, <3>3
    <2> HIDE DEF ctxs, sent
    <2>. QED BY <1>3, <2>1, RetryIncGood
  <1>6. status \in Statuses \ {"SUCCESS"}
    BY DEF Statuses
  <1>7. ASSUME known PROVE Resent(h, from, bumped, reqs)
    <2>1. DOMAIN ctxs = DOMAIN PendFrom(h) /\ \A t \in DOMAIN ctxs :
            /\ ctxs[t].wr = PendFrom(h)[t].wr /\ ctxs[t].first = PendFrom(h)[t].first
            /\ DOMAIN ctxs[t].pkts = DOMAIN PendFrom(h)[t].pkts
                 \cup (IF partial /\ t = cur THEN {from} ELSE {})
      <3>1. CASE partial
        <4>1. ctxs = AddPkt(PendFrom(h), cur, from)
          BY <3>1 DEF AddPkt
        <4> HIDE DEF ctxs, cur, partial
        <4>2. DOMAIN ctxs = DOMAIN PendFrom(h) /\ \A t \in DOMAIN PendFrom(h) :
                /\ ctxs[t].wr = PendFrom(h)[t].wr /\ ctxs[t].first = PendFrom(h)[t].first
                /\ DOMAIN ctxs[t].pkts
                     = DOMAIN PendFrom(h)[t].pkts \cup (IF t = cur THEN {from} ELSE {})
          BY <1>2, <4>1, AddPktSame
        <4>. QED BY <3>1, <4>2
      <3>2. CASE ~partial
        BY <3>2
      <3>. QED BY <3>1, <3>2
    <2> HIDE DEF ctxs, sent
    <2>2. DOMAIN bumped = DOMAIN ctxs /\ \A t \in DOMAIN ctxs :
            /\ bumped[t].wr = ctxs[t].wr /\ bumped[t].first = ctxs[t].first
            /\ DOMAIN bumped[t].pkts = DOMAIN ctxs[t].pkts
      BY <1>3, RetryIncSame
    <2> HIDE DEF bumped
    <2>3. CASE partial
      <3>1. cur = respSsn[from] /\ from \in DOMAIN respSsn /\ from \notin DOMAIN reqSsn
        BY <1>7, <2>3
      <3>2. reqs = Put(ReqFrom(h), from, cur)
        BY <2>3
      <3> HIDE DEF cur, reqs, partial
      <3>3. OneMorePacket(h, from, bumped, reqs)
        BY <2>1, <2>2, <2>3, <3>1, <3>2 DEF OneMorePacket
      <3>. QED BY <1>4, <1>5, <1>7, <2>1, <2>2, <3>3 DEF Resent
    <2>4. CASE ~partial
      <3>1. reqs = ReqFrom(h)
        BY <2>4
      <3> HIDE DEF cur, reqs, partial
      <3>2. SamePackets(h, bumped, reqs)
        BY <2>1, <2>2, <2>4, <3>1 DEF SamePackets
      <3>. QED BY <1>4, <1>5, <1>7, <2>1, <2>2, <3>2 DEF Resent
    <2>. QED BY <2>3, <2>4
  <1>8. ASSUME tx' = packets PROVE Resends(bumped, from)
    <2> DEFINE reach == {cur} \cup ssn_range(next_ssn(cur), ssn)
    <2>1. DOMAIN bumped = DOMAIN ctxs /\ \A t \in DOMAIN ctxs :
            /\ bumped[t].wr = ctxs[t].wr /\ bumped[t].first = ctxs[t].first
            /\ DOMAIN bumped[t].pkts = DOMAIN ctxs[t].pkts
      <3> HIDE DEF ctxs, sent
      <3>. QED BY <1>3, RetryIncSame
    <2>2. ASSUME NEW x \in sent
          PROVE  x[1] \in reach /\ x[2] \in DOMAIN ctxs[x[1]].pkts
      <3>1. x \in plan /\ ~lost(x)
        <4> HIDE DEF plan, lost, done
        <4>. QED OBVIOUS
      <3>2. x[2] \in DOMAIN ctxs[x[1]].pkts
        <4> HIDE DEF ctxs, plan, sent
        <4>. QED BY <3>1
      <3> DEFINE rest(s) == {s} \X psn_range(pend[s].first, PsnEnd(pend[s]))
      <3>3. x \in {cur} \X begin \/ x \in UNION {rest(s) : s \in later}
        <4> HIDE DEF cur, begin, later, sent, lost
        <4>. QED BY <3>1, Zenon
      <3>4. x[1] \in {cur} \cup later
        <4> HIDE DEF cur, begin, later, plan, sent
        <4>1. CASE x \in {cur} \X begin
          BY <4>1
        <4>2. CASE x \in UNION {rest(s) : s \in later}
          <5>1. PICK s \in later : x \in rest(s)
            BY <4>2
          <5>. QED BY <5>1
        <4>. QED BY <3>3, <4>1, <4>2
      <3>5. later \subseteq ssn_range(next_ssn(cur), ssn)
        <4> HIDE DEF cur, sent, lost
        <4>. QED BY Zenon
      <3> HIDE DEF plan, sent, ctxs, cur, later, lost
      <3>. QED BY <3>2, <3>4, <3>5
    <2> HIDE DEF sent, bumped, ctxs
    <2>3. ASSUME NEW x \in sent, x[1] \in DOMAIN bumped
          PROVE  /\ x[2] \in DOMAIN bumped[x[1]].pkts
                 /\ Packet(x[1], ctxs[x[1]], x[2]) = Packet(x[1], bumped[x[1]], x[2])
      BY <2>1, <2>2, <2>3 DEF Packet, Place
    <2>4. \A k \in tx' : \E s \in reach : s \in DOMAIN bumped =>
            \E p \in DOMAIN bumped[s].pkts : k = Packet(s, bumped[s], p)
      <3> SUFFICES ASSUME NEW k \in tx'
                   PROVE  \E s \in reach : s \in DOMAIN bumped =>
                            \E p \in DOMAIN bumped[s].pkts : k = Packet(s, bumped[s], p)
        OBVIOUS
      <3>1. PICK x \in sent : k = Packet(x[1], ctxs[x[1]], x[2])
        BY <1>8
      <3> HIDE DEF reach, packets
      <3>2. x[1] \in reach
        BY <2>2
      <3>. QED BY <2>3, <3>1, <3>2
    <2> HIDE DEF cur
    <2>5. cur = Owner(from)
      BY DEF Owner, cur
    <2>. QED BY <2>4, <2>5 DEF Resends
  <1>9. known => from \in DOMAIN reqSsn \cup DOMAIN respSsn
    OBVIOUS
  <1> HIDE DEF partial, cur, ctxs, reqs, begin, later, plan, lost, done, bad, stops, sent,
               bumped, packets, inOrder, known, status
  <1>. QED BY <1>1, <1>6, <1>7, <1>8, <1>9

\* Without what goes out.
LEMMA RetryOutcome ==
  ASSUME Work, NEW h \in Ssn, NEW from, NEW type, NEW all,
         Retry(h, from, type, all)
  PROVE  \/ /\ fault' = "AssertionError"
            /\ pend' = PendFrom(h) /\ reqSsn' = ReqFrom(h) /\ mssn' = h
            /\ UNCHANGED <<qps, sq, ssn, sqPsn, rdAtomic, respSsn, readPsn, cq, posted>>
         \/ \E C, R :
              /\ Resent(h, from, C, R)
              /\ \/ /\ fault' \in {"none", "KeyError"}
                    /\ pend' = C /\ reqSsn' = R /\ mssn' = h
                    /\ UNCHANGED <<qps, sq, ssn, sqPsn, rdAtomic, respSsn, readPsn, cq, posted>>
                 \/ \E p : \E status \in Statuses : GotoErrState(C, R, h, p, status)
  BY RetryResult

LEMMA RetryGood ==
  ASSUME Work, NEW h \in Ssn, NEW from, NEW type, NEW all,
         Retry(h, from, type, all)
  PROVE  Work'
  <1>1. GoodPend(PendFrom(h)) /\ GoodIndex(ReqFrom(h))
    BY PendFromGood
  <1>2. CASE \E C, R : /\ GoodPend(C) /\ GoodIndex(R)
                       /\ \E p : \E status \in Statuses : GotoErrState(C, R, h, p, status)
    BY <1>2, GotoErrGood
  <1>3. CASE /\ fault' \in {"AssertionError", "none", "KeyError"}
             /\ GoodPend(pend') /\ GoodIndex(reqSsn') /\ mssn' = h
             /\ UNCHANGED <<qps, sq, ssn, sqPsn, rdAtomic, respSsn, readPsn, cq, posted>>
    BY <1>3 DEF Work, GoodPend, GoodIndex, Faults
  <1>. QED BY <1>1, <1>2, <1>3, RetryOutcome DEF Resent

-----------------------------------------------------------------------------
(***************************************************************************)
(* One lemma per action.                                                   *)
(***************************************************************************)
LEMMA RespType ==
  ASSUME NEW r \in Responses
  PROVE  r.psn \in Psn /\ r.op \in RespOps
  BY RequesterAssumption DEF Responses, RespOps, ReadOps

LEMMA CurType ==
  ASSUME Work, NEW r, Known(r)
  PROVE  Cur(r) \in Ssn
  BY DEF Work, GoodIndex, Known, Cur

LEMMA TimerType ==
  ASSUME Rest, TimerAfterRecv
  PROVE  timerOn' \in BOOLEAN
  BY DEF Rest, TimerAfterRecv

LEMMA InitInv == Init => Inv
  <1> SUFFICES ASSUME Init PROVE Work /\ Rest
    BY InvSplit
  <1>1. 1 \in Ssn
    BY RequesterAssumption DEF Ssn
  <1>2. Work
    BY <1>1, EmptyGood, RequesterAssumption DEF Init, Work, Faults
  <1>3. Rest
    BY RequesterAssumption DEF Init, Rest
  <1>. QED BY <1>2, <1>3

LEMMA PostSendInv ==
  ASSUME Inv, NEW w \in WorkReqs, PostSend(w)
  PROVE  Inv'
  <1>1. Work /\ Rest
    BY InvSplit
  <1>2. sq' \in Seq(WorkReqs) /\ posted' \in 0 .. MaxPosts
    BY <1>1, RequesterAssumption DEF PostSend, Work
  <1>3. Work'
    BY <1>1, <1>2 DEF PostSend, Work, GoodPend, GoodIndex, GoodCtx, IsCtx, WithinBudget
  <1>4. Rest'
    BY <1>1 DEF PostSend, Rest
  <1>. QED BY <1>3, <1>4, InvJoin

LEMMA RangeType ==
  ASSUME NEW a \in Psn, NEW b \in Psn
  PROVE  psn_range(a, b) \subseteq Psn
  <1>1. a \in Int /\ RangeLen(a, b, MAX_PSN) \in Int
    BY MaxPsnAssumption DEF Psn, RangeLen
  <1>2. \A i \in 0 .. (RangeLen(a, b, MAX_PSN) - 1) : (a + i) % MAX_PSN \in Psn
    BY <1>1, ReducedPsn
  <1>. QED BY <1>2 DEF psn_range, RangeSet

LEMMA ProcessReqInv ==
  ASSUME Inv, ProcessReq
  PROVE  Inv'
  <1> DEFINE w   == Head(sq)
             c   == WrCtx(w, sqPsn, ReqPsns(w))
             end == (sqPsn + w.n) % MAX_PSN
             R   == psn_range(sqPsn, end)
  <1>1. Work /\ Rest
    BY InvSplit
  <1>2. w \in WorkReqs /\ sq' \in Seq(WorkReqs)
    BY <1>1, HeadTailProperties DEF Work, ProcessReq
  <1>3. sqPsn \in Psn /\ ssn \in Ssn /\ end \in Psn
    <2>1. w.n \in Nat
      BY <1>2, WorkReqsAssumption DEF WorkReq
    <2> HIDE DEF w
    <2>2. sqPsn \in Psn /\ ssn \in Ssn
      BY <1>1 DEF Work
    <2>3. sqPsn + w.n \in Int
      BY <2>1, <2>2, MaxPsnAssumption DEF Psn
    <2>. QED BY <2>2, <2>3, ReducedPsn
  <1>4. /\ pend' = Put(pend, ssn, c)
        /\ ssn' = next_ssn(ssn) /\ sqPsn' = end
        /\ reqSsn' = [p \in DOMAIN reqSsn \cup ReqPsns(w) |->
                         IF p \in ReqPsns(w) THEN ssn ELSE reqSsn[p]]
        /\ rdAtomic' = IF ReadOrAtomic(w) THEN rdAtomic + 1 ELSE rdAtomic
        /\ timerOn' \in BOOLEAN
        /\ \/ /\ respSsn' = [p \in DOMAIN respSsn \cup R |->
                                 IF p \in R THEN ssn ELSE respSsn[p]]
              /\ readPsn' = Put(readPsn, ssn, sqPsn)
           \/ UNCHANGED <<respSsn, readPsn>>
        /\ UNCHANGED <<qps, mpsn, mssn, preOp, cq, posted, fault>>
    BY DEF ProcessReq
  <1>5. R \subseteq Psn
    BY <1>3, RangeType
  <1>6. GoodCtx(c)
    BY <1>2, <1>3, FreshCtxGood
  <1> HIDE DEF w, c, end, R
  <1>7. GoodPend(pend')
    BY <1>1, <1>3, <1>4, <1>6, PutGood DEF Work
  <1>8. GoodIndex(reqSsn')
    BY <1>1, <1>3, <1>4 DEF Work, GoodIndex
  <1>9. /\ respSsn' \in [DOMAIN respSsn' -> Ssn] /\ DOMAIN respSsn' \subseteq Psn
        /\ readPsn' \in [DOMAIN readPsn' -> Psn] /\ DOMAIN readPsn' \subseteq Ssn
    BY <1>1, <1>3, <1>4, <1>5 DEF Work, Put
  <1>10. ssn' \in Ssn /\ sqPsn' \in Psn /\ rdAtomic' \in Int
    BY <1>1, <1>3, <1>4, NextSsnType DEF Work
  <1>11. Work'
    BY <1>1, <1>2, <1>4, <1>7, <1>8, <1>9, <1>10 DEF Work, GoodPend, GoodIndex
  <1>12. Rest'
    BY <1>1, <1>4 DEF Rest
  <1>. QED BY <1>11, <1>12, InvJoin

LEMMA RecvPartialInv ==
  ASSUME Inv, NEW r \in Responses, RecvPartial(r)
  PROVE  Inv'
  <1>1. Work /\ Rest
    BY InvSplit
  <1>2. r.psn \in Psn /\ r.op \in RespOps /\ Cur(r) \in Ssn
    BY <1>1, RespType, CurType DEF RecvPartial, Expected
  <1>3. /\ pend' = PendFrom(Cur(r)) /\ reqSsn' = ReqFrom(Cur(r)) /\ mssn' = Cur(r)
        /\ preOp' = r.op
        /\ mpsn' \in {r.psn, next_psn(r.psn)}
        /\ UNCHANGED <<qps, sq, ssn, sqPsn, rdAtomic, respSsn, cq, posted, fault>>
        /\ TimerAfterRecv
    BY DEF RecvPartial
  <1>4. readPsn' \in [DOMAIN readPsn' -> Psn] /\ DOMAIN readPsn' \subseteq Ssn
    <2>1. CASE UNCHANGED readPsn
      BY <1>1, <2>1 DEF Work
    <2>2. CASE /\ Cur(r) \in DOMAIN readPsn
               /\ readPsn' = [readPsn EXCEPT ![Cur(r)] = next_psn(@)]
      <3>1. next_psn(readPsn[Cur(r)]) \in Psn
        BY <1>1, <2>2, NextPsnType DEF Work
      <3>. QED BY <1>1, <2>2, <3>1 DEF Work
    <2>. QED BY <2>1, <2>2 DEF RecvPartial, ReadData
  <1>5. GoodPend(pend') /\ GoodIndex(reqSsn')
    BY <1>1, <1>3, PendFromGood
  <1>6. Work'
    BY <1>1, <1>2, <1>3, <1>4, <1>5 DEF Work, GoodPend, GoodIndex
  <1>7. Rest'
    BY <1>1, <1>2, <1>3, NextPsnType, TimerType DEF Rest
  <1>. QED BY <1>6, <1>7, InvJoin

LEMMA UnackedType ==
  ASSUME Work, NEW r, Known(r)
  PROVE  Unacked(r) \in Ssn
  BY CurType DEF Unacked, Work

LEMMA RecvCompleteInv ==
  ASSUME Inv, NEW r \in Responses, RecvComplete(r)
  PROVE  Inv'
  <1> DEFINE s == Cur(r)
             h == Unacked(r)
  <1>1. Work /\ Rest
    BY InvSplit
  <1>2. r.psn \in Psn /\ r.op \in RespOps /\ s \in Ssn /\ h \in Ssn
    BY <1>1, RespType, CurType, UnackedType DEF RecvComplete, Expected
  <1>3. /\ mpsn' = next_psn(r.psn)
        /\ cq' = Append(cq, [ssn |-> s, status |-> "SUCCESS"])
        /\ pend' = DeleteWr(h, s)
        /\ reqSsn' = Only(ReqFrom(h), {p \in DOMAIN ReqFrom(h) : reqSsn[p] # s})
        /\ rdAtomic' = IF ReadOrAtomic(pend[s].wr) THEN rdAtomic - 1 ELSE rdAtomic
        /\ \/ /\ mssn' = next_ssn(s)
              /\ respSsn' = Only(respSsn, {p \in DOMAIN respSsn : respSsn[p] # s})
              /\ readPsn' = Without(readPsn, {s})
              /\ UNCHANGED fault
           \/ /\ mssn' = h /\ fault' = "AssertionError"
              /\ UNCHANGED <<respSsn, readPsn>>
        /\ preOp' = r.op
        /\ UNCHANGED <<qps, sq, ssn, sqPsn, posted>>
        /\ TimerAfterRecv
    BY DEF RecvComplete
  <1> HIDE DEF s, h
  <1>4. GoodPend(pend') /\ GoodIndex(reqSsn')
    BY <1>1, <1>3, PendFromGood, WithoutGood, OnlyIndex DEF DeleteWr
  <1>5. /\ respSsn' \in [DOMAIN respSsn' -> Ssn] /\ DOMAIN respSsn' \subseteq Psn
        /\ readPsn' \in [DOMAIN readPsn' -> Psn] /\ DOMAIN readPsn' \subseteq Ssn
    BY <1>1, <1>3 DEF Work, Only, Without
  <1>6. cq' \in Seq([ssn : Ssn, status : Statuses])
    <2>1. [ssn |-> s, status |-> "SUCCESS"] \in [ssn : Ssn, status : Statuses]
      BY <1>2 DEF Statuses
    <2>. QED BY <1>1, <1>3, <2>1 DEF Work
  <1>7. mssn' \in Ssn /\ rdAtomic' \in Int /\ fault' \in Faults
    BY <1>1, <1>2, <1>3, NextSsnType DEF Work, Faults
  <1>8. Work'
    BY <1>1, <1>3, <1>4, <1>5, <1>6, <1>7 DEF Work, GoodPend, GoodIndex
  <1>9. Rest'
    BY <1>1, <1>2, <1>3, NextPsnType, TimerType DEF Rest
  <1>. QED BY <1>8, <1>9, InvJoin

LEMMA MpsnAtType ==
  ASSUME Rest, NEW r \in Responses
  PROVE  MpsnAt(r) \in Psn
  BY RespType DEF MpsnAt, Rest

LEMMA RecvRetryInv ==
  ASSUME Inv, NEW r \in Responses, RecvRetry(r)
  PROVE  Inv'
  <1>1. Work /\ Rest
    BY InvSplit
  <1>2. r.op \in RespOps /\ Unacked(r) \in Ssn
    BY <1>1, RespType, UnackedType DEF RecvRetry, Expected
  <1>3. \E k \in Ssn : \E from, type : Retry(k, from, type, TRUE)
    BY <1>2 DEF RecvRetry
  <1>4. Work'
    BY <1>1, <1>3, RetryGood
  <1>5. mpsn' \in Psn
    BY <1>1, MpsnAtType DEF RecvRetry, Rest
  <1>6. Rest'
    BY <1>1, <1>2, <1>5, TimerType DEF RecvRetry, Rest
  <1>. QED BY <1>4, <1>6, InvJoin

LEMMA RecvErrorInv ==
  ASSUME Inv, NEW r \in Responses, RecvError(r)
  PROVE  Inv'
  <1>1. Work /\ Rest
    BY InvSplit
  <1>2. r.op \in RespOps /\ Unacked(r) \in Ssn
    BY <1>1, RespType, UnackedType DEF RecvError, Expected
  <1>3. PICK status \in Statuses :
          GotoErrState(PendFrom(Unacked(r)), ReqFrom(Unacked(r)), Unacked(r), r.psn, status)
    BY DEF RecvError, Statuses
  <1>4. Work'
    BY <1>1, <1>2, <1>3, PendFromGood, GotoErrGood
  <1>5. Rest'
    BY <1>1, <1>2, MpsnAtType, TimerType DEF RecvError, Rest
  <1>. QED BY <1>4, <1>5, InvJoin

LEMMA RecvUnexpectedInv ==
  ASSUME Inv, NEW r \in Responses, RecvUnexpected(r)
  PROVE  Inv'
  <1>1. Work /\ Rest
    BY InvSplit
  <1>2. /\ fault' \in Faults
        /\ UNCHANGED <<qps, sq, ssn, sqPsn, mpsn, mssn, preOp, pend, reqSsn, rdAtomic,
                       respSsn, readPsn, cq, posted>>
        /\ TimerAfterRecv
    BY DEF RecvUnexpected, Faults
  <1>3. Work'
    BY <1>1, <1>2 DEF Work, GoodPend, GoodIndex, GoodCtx, IsCtx, WithinBudget
  <1>4. Rest'
    BY <1>1, <1>2, TimerType DEF Rest
  <1>. QED BY <1>3, <1>4, InvJoin

LEMMA RecvCrashInv ==
  ASSUME Inv, NEW r \in Responses, RecvCrash(r)
  PROVE  Inv'
  <1>1. Work /\ Rest
    BY InvSplit
  <1>2. r.op \in RespOps /\ (Known(r) => Unacked(r) \in Ssn)
    BY <1>1, RespType, UnackedType
  <1>3. fault' \in Faults /\ preOp' \in {preOp, r.op} /\ mpsn' \in {mpsn, MpsnAt(r)}
    BY DEF RecvCrash, Faults
  <1>4. \/ UNCHANGED <<mssn, pend, reqSsn>>
        \/ /\ Known(r) /\ mssn' = Unacked(r)
           /\ pend' = PendFrom(Unacked(r)) /\ reqSsn' = ReqFrom(Unacked(r))
    BY DEF RecvCrash, Expected
  <1>5. UNCHANGED <<qps, sq, ssn, sqPsn, rdAtomic, timerOn, respSsn, readPsn, cq, posted>>
    BY DEF RecvCrash
  <1>6. GoodPend(pend') /\ GoodIndex(reqSsn') /\ mssn' \in Ssn
    <2>1. GoodPend(pend) /\ GoodIndex(reqSsn) /\ mssn \in Ssn
      BY <1>1 DEF Work
    <2>2. CASE UNCHANGED <<mssn, pend, reqSsn>>
      BY <2>1, <2>2 DEF GoodPend, GoodIndex
    <2>. QED BY <1>1, <1>2, <1>4, <2>2, PendFromGood
  <1>7. Work'
    BY <1>1, <1>3, <1>5, <1>6 DEF Work, GoodPend, GoodIndex
  <1>8. Rest'
    BY <1>1, <1>2, <1>3, <1>5, MpsnAtType DEF Rest
  <1>. QED BY <1>7, <1>8, InvJoin

LEMMA CheckTimeoutInv ==
  ASSUME Inv, CheckTimeout
  PROVE  Inv'
  <1>1. Work /\ Rest
    BY InvSplit
  <1>2. Rest'
    BY <1>1 DEF CheckTimeout, Rest
  <1>3. CASE Retry(mssn, mpsn, "TIMEOUT", FALSE)
    <2>1. mssn \in Ssn
      BY <1>1 DEF Work
    <2>2. Work'
      BY <1>1, <1>3, <2>1, RetryGood
    <2>. QED BY <1>2, <2>2, InvJoin
  <1>4. CASE /\ fault' \in Faults
             /\ UNCHANGED <<qps, sq, ssn, sqPsn, mssn, pend, reqSsn, rdAtomic,
                            respSsn, readPsn, cq, posted>>
    <2>1. Work'
      BY <1>1, <1>4 DEF Work, GoodPend, GoodIndex, GoodCtx, IsCtx, WithinBudget
    <2>. QED BY <1>2, <2>1, InvJoin
  <1>. QED BY <1>3, <1>4 DEF CheckTimeout, Faults

\* A step that changes nothing.
LEMMA StutterInv ==
  ASSUME Inv, UNCHANGED vars
  PROVE  Inv'
  <1>1. Work /\ Rest
    BY InvSplit
  <1>2. Work' /\ Rest'
    BY <1>1 DEF vars, Work, Rest, GoodPend, GoodIndex, GoodCtx, IsCtx, WithinBudget
  <1>. QED BY <1>2, InvJoin

\* A step that leaves the books alone: a check restarts the timer and finds
\* nothing overdue, or the program ends for another reason than a response.
Aside ==
  /\ UNCHANGED <<qps, sq, ssn, sqPsn, mpsn, mssn, preOp, pend, reqSsn, rdAtomic,
                 respSsn, readPsn, cq, posted>>
  /\ timerOn' \in BOOLEAN /\ fault' \in {fault, "AssertionError"}

LEMMA AsideInv ==
  ASSUME Inv, Aside
  PROVE  Inv'
  <1>1. Work /\ Rest
    BY InvSplit
  <1>2. fault' \in Faults
    BY <1>1 DEF Aside, Work, Faults
  <1>3. Work' /\ Rest'
    BY <1>1, <1>2 DEF Aside, Work, Rest, GoodPend, GoodIndex, GoodCtx, IsCtx, WithinBudget
  <1>. QED BY <1>3, InvJoin

\* Every call of the requester, with any response.
Acts ==
  \/ \E w \in WorkReqs : PostSend(w)
  \/ ProcessReq
  \/ \E r \in Responses : RecvResponse(r)
  \/ CheckTimeout
  \/ Aside

LEMMA NextActs == Next => Acts
  BY DEF Next, Acts, CheckEarly, Aside

LEMMA StepInv ==
  ASSUME Inv, [Acts]_vars
  PROVE  Inv'
  <1>1. CASE \E r \in Responses : RecvResponse(r)
    BY <1>1, RecvPartialInv, RecvCompleteInv, RecvRetryInv, RecvErrorInv,
       RecvUnexpectedInv, RecvCrashInv DEF RecvResponse
  <1>. QED BY <1>1, PostSendInv, ProcessReqInv, CheckTimeoutInv, AsideInv, StutterInv DEF Acts

-----------------------------------------------------------------------------
(***************************************************************************)
(* The theorems.                                                           *)
(***************************************************************************)
LEMMA Invariant == Spec => []Inv
  <1>. QED BY InitInv, StepInv, NextActs, PTL DEF Spec

\* Whatever responses arrive, in whatever order, every reachable state of the
\* requester has the types of the code's classes.
THEOREM TypeCorrect == Spec => []TypeOK
  <1>1. Inv => TypeOK
    BY DEF Inv
  <1>. QED BY <1>1, Invariant, PTL

\* send_retry_pkt never lets a packet be sent more often than retry_cnt or
\* rnr_retry allow, for every size of the spaces and of the queue.
THEOREM RetryBudgetHolds == Spec => []RetryBudget
  <1>1. Inv => RetryBudget
    BY DEF Inv
  <1>. QED BY <1>1, Invariant, PTL

-----------------------------------------------------------------------------
(***************************************************************************)
(* min_unacked_psn.  A response that is_expected_resp accepts lies in the  *)
(* window, so the PSN after it is at most the next PSN of the queue.       *)
(***************************************************************************)
LEMMA AcceptedAdvances ==
  ASSUME NEW a \in Psn, NEW b \in Psn, NEW x \in Psn,
         RangeLen(a, x, MAX_PSN) < RangeLen(a, b, MAX_PSN)
  PROVE  /\ RangeLen(a, x, MAX_PSN) <= RangeLen(a, b, MAX_PSN)
         /\ RangeLen(a, next_psn(x), MAX_PSN) <= RangeLen(a, b, MAX_PSN)
         /\ RangeLen(a, a, MAX_PSN) <= RangeLen(a, b, MAX_PSN)
  <1>1. /\ a \in Int /\ b \in Int /\ x \in Int
        /\ 0 <= a /\ a < MAX_PSN /\ 0 <= b /\ b < MAX_PSN /\ 0 <= x /\ x < MAX_PSN
        /\ MAX_PSN \in Nat /\ MAX_PSN >= 4
    BY MaxPsnAssumption DEF Psn
  <1>2. next_psn(x) \in Psn /\ next_psn(x) = IF x = MAX_PSN - 1 THEN 0 ELSE x + 1
    BY NextPsnCases, NextPsnType
  <1>3. /\ RangeLen(a, x, MAX_PSN) = IF a <= x THEN x - a ELSE x - a + MAX_PSN
        /\ RangeLen(a, b, MAX_PSN) = IF a <= b THEN b - a ELSE b - a + MAX_PSN
        /\ RangeLen(a, a, MAX_PSN) = IF a <= a THEN a - a ELSE a - a + MAX_PSN
        /\ RangeLen(a, next_psn(x), MAX_PSN) =
             IF a <= next_psn(x) THEN next_psn(x) - a ELSE next_psn(x) - a + MAX_PSN
    BY <1>2, RangeLenCases
  <1>. QED BY <1>1, <1>2, <1>3

\* Every step leaves min_unacked_psn alone, or moves it to or behind an accepted
\* response while the next PSN stays.
LEMMA MpsnSteps ==
  ASSUME Inv, [Next]_vars
  PROVE  \/ mpsn' = mpsn
         \/ \E r \in Responses : /\ ~WindowOverrun /\ is_expected_resp(r.psn)
                                 /\ mpsn' \in {r.psn, next_psn(r.psn)}
                                 /\ sqPsn' = sqPsn
  <1>1. CASE UNCHANGED mpsn
    BY <1>1
  <1>2. ASSUME NEW r \in Responses, RecvPartial(r) \/ RecvComplete(r)
        PROVE  /\ ~WindowOverrun /\ is_expected_resp(r.psn)
               /\ mpsn' \in {r.psn, next_psn(r.psn)} /\ sqPsn' = sqPsn
    BY <1>2 DEF RecvPartial, RecvComplete, Expected
  <1>3. ASSUME NEW P, NEW R, NEW h, NEW p, NEW status, GotoErrState(P, R, h, p, status)
        PROVE  sqPsn' = sqPsn
    BY <1>3 DEF GotoErrState
  <1>4. ASSUME NEW h, NEW from, NEW type, NEW all, Retry(h, from, type, all)
        PROVE  sqPsn' = sqPsn
    BY <1>3, <1>4 DEF Retry
  <1>5. ASSUME NEW r \in Responses, RecvRetry(r) \/ RecvError(r) \/ RecvCrash(r)
        PROVE  /\ mpsn' \in {mpsn, r.psn} /\ sqPsn' = sqPsn
               /\ mpsn' # mpsn => ~WindowOverrun /\ is_expected_resp(r.psn)
    <2>1. CASE RecvRetry(r)
      BY <1>4, <2>1 DEF RecvRetry, Expected, MpsnAt
    <2>2. CASE RecvError(r)
      BY <1>3, <2>2 DEF RecvError, Expected, MpsnAt
    <2>3. CASE RecvCrash(r)
      BY <2>3 DEF RecvCrash, Expected, MpsnAt
    <2>. QED BY <1>5, <2>1, <2>2, <2>3
  <1>6. CASE ProcessReq \/ CheckEarly \/ CheckTimeout \/ \E w \in WorkReqs : PostSend(w)
    BY <1>6 DEF ProcessReq, CheckEarly, CheckTimeout, PostSend
  <1>7. CASE \E r \in Responses : RecvResponse(r)
    <2>1. PICK r \in Responses : RecvResponse(r)
      BY <1>7
    <2>2. CASE RecvUnexpected(r)
      BY <2>2 DEF RecvUnexpected
    <2>. QED BY <1>2, <1>5, <2>1, <2>2 DEF RecvResponse
  <1>. QED BY <1>1, <1>6, <1>7 DEF Next, vars

\* No sequence of responses, retries and timeouts makes min_unacked_psn go back
\* or pass the next PSN, for every size of the PSN space.
THEOREM MpsnMovesForward == Spec => MpsnAdvances
  <1> DEFINE Fwd == (mpsn' - mpsn) % MAX_PSN <= (sqPsn' - mpsn) % MAX_PSN
  <1>1. ASSUME Inv, Inv', [Next]_vars PROVE Fwd
    <2>1. mpsn \in Psn /\ sqPsn \in Psn /\ mpsn' \in Psn /\ sqPsn' \in Psn
      BY <1>1 DEF Inv, TypeOK
    <2>2. CASE mpsn' = mpsn
      <3>1. mpsn \in Int /\ sqPsn' - mpsn \in Int /\ mpsn - mpsn = 0
        BY <2>1, MaxPsnAssumption DEF Psn
      <3>2. 0 % MAX_PSN = 0
        BY ModLow, MaxPsnAssumption
      <3>3. (sqPsn' - mpsn) % MAX_PSN >= 0
        BY <3>1, MaxPsnAssumption
      <3>. QED BY <2>2, <3>1, <3>2, <3>3
    <2>3. CASE \E r \in Responses : /\ ~WindowOverrun /\ is_expected_resp(r.psn)
                                    /\ mpsn' \in {r.psn, next_psn(r.psn)}
                                    /\ sqPsn' = sqPsn
      <3>1. PICK r \in Responses : /\ ~WindowOverrun /\ is_expected_resp(r.psn)
                                   /\ mpsn' \in {r.psn, next_psn(r.psn)}
                                   /\ sqPsn' = sqPsn
        BY <2>3
      <3>2. r.psn \in Psn
        BY RespType
      <3>3. RangeLen(mpsn, r.psn, MAX_PSN) < RangeLen(mpsn, sqPsn, MAX_PSN)
        BY <2>1, <3>1, <3>2, ExpectedInWindow DEF is_expected_resp, WindowOverrun
      <3>4. RangeLen(mpsn, mpsn', MAX_PSN) <= RangeLen(mpsn, sqPsn, MAX_PSN)
        BY <2>1, <3>1, <3>2, <3>3, AcceptedAdvances
      <3>. QED BY <3>1, <3>4 DEF RangeLen
    <2>. QED BY <1>1, <2>2, <2>3, MpsnSteps
  <1>2. Inv /\ Inv' /\ [Next]_vars => [Fwd]_vars
    BY <1>1
  <1>. QED BY <1>2, Invariant, PTL DEF Spec, MpsnAdvances

-----------------------------------------------------------------------------
(***************************************************************************)
(* Ranges of SSNs.                                                         *)
(***************************************************************************)
LEMMA NextSsnCases ==
  ASSUME NEW s \in Ssn
  PROVE  next_ssn(s) = IF s = MAX_SSN - 1 THEN 0 ELSE s + 1
  <1>1. MAX_SSN \in Nat /\ MAX_SSN > 1
    BY RequesterAssumption
  <1>2. CASE s = MAX_SSN - 1
    BY <1>1, <1>2, ModHigh DEF Ssn, next_ssn
  <1>3. CASE s # MAX_SSN - 1
    BY <1>1, <1>3, ModLow DEF Ssn, next_ssn
  <1>. QED BY <1>2, <1>3

\* The SSNs from a up to and without c: they wrap when c is below a.
LEMMA SsnRangeCases ==
  ASSUME NEW a \in Ssn, NEW c \in Ssn
  PROVE  ssn_range(a, c) = {x \in Ssn : IF a <= c THEN a <= x /\ x < c ELSE a <= x \/ x < c}
  BY RangeSetCases, RequesterAssumption DEF Ssn, ssn_range

LEMMA SsnRangeType ==
  ASSUME NEW a \in Ssn, NEW c \in Ssn
  PROVE  ssn_range(a, c) \subseteq Ssn /\ c \notin ssn_range(a, c)
  BY SsnRangeCases, RequesterAssumption DEF Ssn

\* Nothing lies between a number and itself.
LEMMA SsnRangeEmpty ==
  ASSUME NEW a \in Ssn
  PROVE  ssn_range(a, a) = {}
  BY SsnRangeCases, RequesterAssumption DEF Ssn

\* A window cut at one of its members, ...
LEMMA SsnRangeCut ==
  ASSUME NEW a \in Ssn, NEW c \in Ssn, NEW h \in Ssn, h = a \/ h \in ssn_range(a, c)
  PROVE  /\ ssn_range(a, c) \ ssn_range(a, h) = ssn_range(h, c)
         /\ ssn_range(a, h) \subseteq ssn_range(a, c)
         /\ \A k \in ssn_range(h, c) : k \in ssn_range(a, c) /\ k \notin ssn_range(a, h)
  BY SsnRangeCases, RequesterAssumption DEF Ssn

\* ... without its first member, ...
LEMMA SsnRangeDrop ==
  ASSUME NEW a \in Ssn, NEW c \in Ssn, a \in ssn_range(a, c)
  PROVE  ssn_range(a, c) \ {a} = ssn_range(next_ssn(a), c)
  <1>1. next_ssn(a) \in Ssn /\ next_ssn(a) = IF a = MAX_SSN - 1 THEN 0 ELSE a + 1
    BY NextSsnCases, NextSsnType
  <1>2. ssn_range(next_ssn(a), c) =
          {x \in Ssn : IF next_ssn(a) <= c THEN next_ssn(a) <= x /\ x < c
                                           ELSE next_ssn(a) <= x \/ x < c}
    BY <1>1, SsnRangeCases
  <1>3. ssn_range(a, c) = {x \in Ssn : IF a <= c THEN a <= x /\ x < c ELSE a <= x \/ x < c}
    BY SsnRangeCases
  <1>. QED BY <1>1, <1>2, <1>3, RequesterAssumption DEF Ssn

LEMMA SsnFinite ==
  /\ IsFiniteSet(Ssn) /\ Cardinality(Ssn) = MAX_SSN
  /\ \A S : S \subseteq Ssn => IsFiniteSet(S) /\ Cardinality(S) \in Nat
  <1>1. 0 \in Int /\ MAX_SSN - 1 \in Int /\ MAX_SSN > 1 /\ MAX_SSN \in Nat
    BY RequesterAssumption
  <1>2. IsFiniteSet(Ssn) /\ Cardinality(Ssn) = MAX_SSN
    BY <1>1, FS_Interval DEF Ssn
  <1>. QED BY <1>2, FS_Subset, FS_CardinalityType

\* ... and with one more, which needs room in the space of SSNs.
LEMMA SsnRangeGrow ==
  ASSUME NEW a \in Ssn, NEW c \in Ssn,
         Cardinality(ssn_range(a, c)) < MAX_PENDING_REQ_NUM
  PROVE  ssn_range(a, next_ssn(c)) = ssn_range(a, c) \cup {c}
  <1>0. MAX_SSN \in Nat /\ MAX_SSN > MAX_PENDING_REQ_NUM + 1 /\ MAX_PENDING_REQ_NUM \in Nat
    BY RequesterAssumption
  <1>1. next_ssn(c) \in Ssn /\ next_ssn(c) = IF c = MAX_SSN - 1 THEN 0 ELSE c + 1
    BY NextSsnCases, NextSsnType
  <1>2. ssn_range(a, next_ssn(c)) =
          {x \in Ssn : IF a <= next_ssn(c) THEN a <= x /\ x < next_ssn(c)
                                           ELSE a <= x \/ x < next_ssn(c)}
    BY <1>1, SsnRangeCases
  <1>3. ssn_range(a, c) = {x \in Ssn : IF a <= c THEN a <= x /\ x < c ELSE a <= x \/ x < c}
    BY SsnRangeCases
  <1>4. next_ssn(c) # a
    <2> SUFFICES ASSUME next_ssn(c) = a PROVE FALSE
      OBVIOUS
    <2>1. ssn_range(a, c) = Ssn \ {c}
      BY <1>0, <1>1, <1>3 DEF Ssn
    <2>2. Cardinality(Ssn \ {c}) = MAX_SSN - 1
      BY SsnFinite, FS_RemoveElement
    <2>. QED BY <1>0, <2>1, <2>2
  <1>. QED BY <1>0, <1>1, <1>2, <1>3, <1>4 DEF Ssn

-----------------------------------------------------------------------------
(***************************************************************************)
(* The requester keeps its books right: while the queue pair works, the    *)
(* contexts P are those of the SSNs from m up to the next one, and the PSN *)
(* index R, the response PSNs, the response contexts and the counter of    *)
(* reads and atomics are about these contexts and no others.  After an     *)
(* error that ended no program nothing is left of any of them.             *)
(***************************************************************************)
Unanswered(P) == {s \in DOMAIN P : ReadOrAtomic(P[s].wr)}

Reads(P) == {s \in DOMAIN P : P[s].wr.op = "READ"}

Books(P, R, m) ==
  /\ DOMAIN P = ssn_range(m, ssn)
  /\ \A p \in DOMAIN R : R[p] \in DOMAIN P
  /\ \A p \in DOMAIN respSsn : respSsn[p] \in Reads(P)
  /\ DOMAIN readPsn = Reads(P)
  /\ rdAtomic = Cardinality(Unanswered(P))

NothingLeft ==
  /\ DOMAIN pend = {} /\ DOMAIN reqSsn = {} /\ DOMAIN respSsn = {} /\ DOMAIN readPsn = {}
  /\ rdAtomic = 0

WindowInv ==
  Running => /\ IF qps = "RTS" THEN Books(pend, reqSsn, mssn) ELSE NothingLeft
             /\ rdAtomic <= max_dest_rd_atomic

\* The implicit acknowledgements of the code stop at h.
Reached(h) ==
  /\ h = mssn \/ h \in ssn_range(mssn, ssn)
  /\ \A k \in ssn_range(mssn, h) : ~ReadOrAtomic(pend[k].wr)

LEMMA UnansweredFinite ==
  ASSUME NEW P, GoodPend(P)
  PROVE  IsFiniteSet(Unanswered(P)) /\ Cardinality(Unanswered(P)) \in Nat
  BY SsnFinite DEF GoodPend, Unanswered

LEMMA UnansweredPut ==
  ASSUME NEW P, GoodPend(P), NEW s, s \notin DOMAIN P, NEW c
  PROVE  Cardinality(Unanswered(Put(P, s, c)))
           = Cardinality(Unanswered(P)) + IF ReadOrAtomic(c.wr) THEN 1 ELSE 0
  <1>1. IsFiniteSet(Unanswered(P)) /\ Cardinality(Unanswered(P)) \in Nat
    BY UnansweredFinite
  <1>2. /\ DOMAIN Put(P, s, c) = DOMAIN P \cup {s}
        /\ Put(P, s, c)[s] = c /\ \A t \in DOMAIN P : Put(P, s, c)[t] = P[t]
    BY DEF Put
  <1>3. CASE ReadOrAtomic(c.wr)
    <2>1. Unanswered(Put(P, s, c)) = Unanswered(P) \cup {s} /\ s \notin Unanswered(P)
      BY <1>2, <1>3 DEF Unanswered
    <2>. QED BY <1>1, <1>3, <2>1, FS_AddElement
  <1>4. CASE ~ReadOrAtomic(c.wr)
    <2>1. Unanswered(Put(P, s, c)) = Unanswered(P)
      BY <1>2, <1>4 DEF Unanswered
    <2>. QED BY <1>1, <1>4, <2>1
  <1>. QED BY <1>3, <1>4

LEMMA UnansweredWithout ==
  ASSUME NEW P, GoodPend(P), NEW s \in DOMAIN P
  PROVE  Cardinality(Unanswered(Without(P, {s})))
           = Cardinality(Unanswered(P)) - IF ReadOrAtomic(P[s].wr) THEN 1 ELSE 0
  <1>1. IsFiniteSet(Unanswered(P)) /\ Cardinality(Unanswered(P)) \in Nat
    BY UnansweredFinite
  <1>2. /\ DOMAIN Without(P, {s}) = DOMAIN P \ {s}
        /\ \A t \in DOMAIN P \ {s} : Without(P, {s})[t] = P[t]
    BY DEF Without, Only
  <1>3. CASE ReadOrAtomic(P[s].wr)
    <2>1. Unanswered(Without(P, {s})) = Unanswered(P) \ {s} /\ s \in Unanswered(P)
      BY <1>2, <1>3 DEF Unanswered
    <2>. QED BY <1>1, <1>3, <2>1, FS_RemoveElement
  <1>4. CASE ~ReadOrAtomic(P[s].wr)
    <2>1. Unanswered(Without(P, {s})) = Unanswered(P)
      BY <1>2, <1>4 DEF Unanswered
    <2>. QED BY <1>1, <1>4, <2>1
  <1>. QED BY <1>3, <1>4

\* What the implicit acknowledgements up to h leave is again a window.
LEMMA AcksKeepBooks ==
  ASSUME Work, Books(pend, reqSsn, mssn), NEW h \in Ssn, Reached(h)
  PROVE  Books(PendFrom(h), ReqFrom(h), h)
  <1> DEFINE Q == PendFrom(h)
  <1>1. mssn \in Ssn /\ ssn \in Ssn
    BY DEF Work
  <1>2. /\ DOMAIN Q = DOMAIN pend \ ssn_range(mssn, h)
        /\ \A s \in DOMAIN Q : Q[s] = pend[s]
    BY DEF PendFrom, Without, Only
  <1> HIDE DEF Q
  <1>3. DOMAIN Q = ssn_range(h, ssn)
    BY <1>1, <1>2, SsnRangeCut DEF Reached, Books
  <1>4. \A s \in DOMAIN pend : ReadOrAtomic(pend[s].wr) => s \in DOMAIN Q
    BY <1>2 DEF Reached
  <1>5. Reads(Q) = Reads(pend) /\ Unanswered(Q) = Unanswered(pend)
    BY <1>2, <1>4 DEF Reads, Unanswered, ReadOrAtomic
  <1>6. \A p \in DOMAIN ReqFrom(h) : ReqFrom(h)[p] \in DOMAIN Q
    BY <1>2 DEF ReqFrom, Only, Books
  <1>. QED BY <1>3, <1>5, <1>6 DEF Books, Q

\* The oldest WR is taken off the window, with all that refers to it.
LEMMA DropKeepsBooks ==
  ASSUME NEW P, GoodPend(P), NEW R, NEW m \in Ssn, ssn \in Ssn, Books(P, R, m), m \in DOMAIN P
  PROVE  LET Q == Without(P, {m}) IN
         /\ DOMAIN Q = ssn_range(next_ssn(m), ssn)
         /\ \A p \in DOMAIN R : R[p] # m => R[p] \in DOMAIN Q
         /\ \A p \in DOMAIN respSsn : respSsn[p] # m => respSsn[p] \in Reads(Q)
         /\ DOMAIN readPsn \ {m} = Reads(Q)
         /\ Cardinality(Unanswered(Q)) = rdAtomic - IF ReadOrAtomic(P[m].wr) THEN 1 ELSE 0
  <1> DEFINE Q == Without(P, {m})
  <1>1. DOMAIN Q = DOMAIN P \ {m} /\ \A t \in DOMAIN P \ {m} : Q[t] = P[t]
    BY DEF Without, Only
  <1>2. Cardinality(Unanswered(Q)) = Cardinality(Unanswered(P))
                                       - IF ReadOrAtomic(P[m].wr) THEN 1 ELSE 0
    BY UnansweredWithout
  <1> HIDE DEF Q
  <1>3. DOMAIN Q = ssn_range(next_ssn(m), ssn)
    BY <1>1, SsnRangeDrop DEF Books
  <1>4. Reads(Q) = Reads(P) \ {m}
    BY <1>1 DEF Reads
  <1>5. /\ \A p \in DOMAIN R : R[p] # m => R[p] \in DOMAIN Q
        /\ \A p \in DOMAIN respSsn : respSsn[p] # m => respSsn[p] \in Reads(Q)
        /\ DOMAIN readPsn \ {m} = Reads(Q)
        /\ Cardinality(Unanswered(Q)) = rdAtomic - IF ReadOrAtomic(P[m].wr) THEN 1 ELSE 0
    BY <1>1, <1>2, <1>4 DEF Books
  <1>. QED BY <1>3, <1>5 DEF Q

-----------------------------------------------------------------------------
(***************************************************************************)
(* The error state: only the flush of an empty queue lets the program run, *)
(* and then nothing was left.                                              *)
(***************************************************************************)
LEMMA GotoErrBooks ==
  ASSUME Work, NEW P, GoodPend(P), NEW R, NEW h \in Ssn, Books(P, R, h), Running,
         NEW p, NEW status, GotoErrState(P, R, h, p, status)
  PROVE  Running' => /\ qps' = "ERR" /\ NothingLeft'
                     /\ p \in DOMAIN R /\ R[p] = h
                     /\ cq' = Append(cq, [ssn |-> h, status |-> status])
  <1> SUFFICES ASSUME Running'
               PROVE  /\ qps' = "ERR" /\ NothingLeft'
                      /\ p \in DOMAIN R /\ R[p] = h
                      /\ cq' = Append(cq, [ssn |-> h, status |-> status])
    OBVIOUS
  <1> DEFINE rest == Without(P, {h})
             left == IF ReadOrAtomic(P[h].wr) THEN rdAtomic - 1 ELSE rdAtomic
  <1>1. /\ p \in DOMAIN R /\ R[p] = h
        /\ cq' = Append(cq, [ssn |-> h, status |-> status])
        /\ reqSsn' = Only(R, {q \in DOMAIN R : R[q] # h})
        /\ respSsn' = EmptyFcn /\ readPsn' = EmptyFcn /\ pend' = EmptyFcn
        /\ DOMAIN rest = {} /\ rdAtomic' = left /\ qps' = "ERR"
    BY DEF GotoErrState, Running
  <1>2. h \in DOMAIN P /\ ssn \in Ssn /\ rdAtomic \in Int
    BY <1>1 DEF Books, Work
  <1>3. /\ \A q \in DOMAIN R : R[q] # h => R[q] \in DOMAIN rest
        /\ Cardinality(Unanswered(rest)) = rdAtomic - IF ReadOrAtomic(P[h].wr) THEN 1 ELSE 0
    BY <1>2, DropKeepsBooks
  <1> HIDE DEF rest
  <1>4. Unanswered(rest) = {}
    BY <1>1 DEF Unanswered
  <1>5. rdAtomic - (IF ReadOrAtomic(P[h].wr) THEN 1 ELSE 0) = 0
    BY <1>3, <1>4, FS_EmptySet
  <1>6. left = 0
    BY <1>2, <1>5
  <1>7. DOMAIN reqSsn' = {}
    BY <1>1, <1>3 DEF Only
  <1>8. /\ DOMAIN pend' = {} /\ DOMAIN respSsn' = {} /\ DOMAIN readPsn' = {}
    BY <1>1 DEF EmptyFcn
  <1>. QED BY <1>1, <1>6, <1>7, <1>8 DEF NothingLeft

\* A retry changes no WR that is outstanding.
LEMMA ResentBooks ==
  ASSUME NEW h, Books(PendFrom(h), ReqFrom(h), h), NEW from, NEW C, NEW R,
         Resent(h, from, C, R)
  PROVE  Books(C, R, h)
  <1>1. /\ DOMAIN C = DOMAIN PendFrom(h)
        /\ \A s \in DOMAIN C : C[s].wr = PendFrom(h)[s].wr
    BY DEF Resent
  <1>2. Reads(C) = Reads(PendFrom(h)) /\ Unanswered(C) = Unanswered(PendFrom(h))
    BY <1>1 DEF Reads, Unanswered
  <1>3. \A p \in DOMAIN R : R[p] \in DOMAIN C
    <2>1. CASE SamePackets(h, C, R)
      BY <1>1, <2>1 DEF SamePackets, Books
    <2>2. CASE OneMorePacket(h, from, C, R)
      BY <1>1, <2>2 DEF OneMorePacket, Put, Books, Reads
    <2>. QED BY <2>1, <2>2 DEF Resent
  <1>. QED BY <1>1, <1>2, <1>3 DEF Books

\* The retry, and the error when a packet was sent often enough.
LEMMA RetryBooks ==
  ASSUME Work, Running, qps = "RTS", Books(pend, reqSsn, mssn), rdAtomic <= max_dest_rd_atomic,
         NEW h \in Ssn, Reached(h), NEW from, NEW type, NEW all, Retry(h, from, type, all)
  PROVE  WindowInv'
  <1>1. Books(PendFrom(h), ReqFrom(h), h)
    BY AcksKeepBooks
  <1>2. CASE fault' = "AssertionError"
    BY <1>2 DEF WindowInv, Running
  <1>3. ASSUME NEW C, NEW R, Resent(h, from, C, R),
               fault' \in {"none", "KeyError"}, pend' = C, reqSsn' = R, mssn' = h,
               UNCHANGED <<qps, sq, ssn, sqPsn, rdAtomic, respSsn, readPsn, cq, posted>>
        PROVE  WindowInv'
    <2>1. Books(C, R, h)
      BY <1>1, <1>3, ResentBooks
    <2>2. Books(pend, reqSsn, mssn)'
      BY <1>3, <2>1 DEF Books, Reads, Unanswered
    <2>. QED BY <1>3, <2>2 DEF WindowInv
  <1>4. ASSUME NEW C, NEW R, Resent(h, from, C, R), NEW p, NEW status,
               GotoErrState(C, R, h, p, status)
        PROVE  WindowInv'
    <2>1. Books(C, R, h) /\ GoodPend(C)
      BY <1>1, <1>4, ResentBooks DEF Resent
    <2>2. Running' => qps' = "ERR" /\ NothingLeft'
      BY <1>4, <2>1, GotoErrBooks
    <2>3. NothingLeft' => rdAtomic' <= max_dest_rd_atomic
      BY RequesterAssumption DEF NothingLeft
    <2>. QED BY <2>2, <2>3 DEF WindowInv
  <1>. QED BY <1>2, <1>3, <1>4, RetryOutcome

-----------------------------------------------------------------------------
(***************************************************************************)
(* How far the implicit acknowledgements of each response go.              *)
(***************************************************************************)
LEMMA CurOutstanding ==
  ASSUME Work, Books(pend, reqSsn, mssn), NEW r, Known(r)
  PROVE  Cur(r) \in DOMAIN pend
  BY DEF Books, Reads, Known, Cur

LEMMA CurReached ==
  ASSUME Work, Books(pend, reqSsn, mssn), NEW r, Known(r), ~ImplicitNak(r),
         r.op # "READ_LAST"
  PROVE  Reached(Cur(r))
  BY CurOutstanding DEF Books, ImplicitNak, Reached

LEMMA UnackedReached ==
  ASSUME Work, Books(pend, reqSsn, mssn), NEW r, Known(r), ~ImplicitNak(r)
  PROVE  Reached(Unacked(r)) /\ Unacked(r) \in Ssn
  <1>1. CASE r.op = "READ_LAST"
    BY <1>1, SsnRangeEmpty DEF Unacked, Reached, Work
  <1>2. CASE r.op # "READ_LAST"
    BY <1>2, CurReached, CurType DEF Unacked
  <1>. QED BY <1>1, <1>2

LEMMA RetryReached ==
  ASSUME Work, Books(pend, reqSsn, mssn), NEW r, Known(r), NEW k \in Ssn,
         FirstToRetry(k, Cur(r))
  PROVE  Reached(k)
  <1>1. mssn \in Ssn /\ ssn \in Ssn /\ Cur(r) \in Ssn /\ Cur(r) \in ssn_range(mssn, ssn)
    BY CurType, CurOutstanding DEF Work, Books
  <1>2. k \in ssn_range(mssn, ssn)
    BY <1>1, SsnRangeCut DEF FirstToRetry
  <1>. QED BY <1>2 DEF FirstToRetry, Reached

-----------------------------------------------------------------------------
(***************************************************************************)
(* One lemma per action.                                                   *)
(***************************************************************************)
LEMMA InitWindow == Init => WindowInv
  <1> SUFFICES ASSUME Init PROVE WindowInv
    OBVIOUS
  <1>1. 1 \in Ssn /\ 0 <= max_dest_rd_atomic
    BY RequesterAssumption DEF Ssn
  <1>2. /\ DOMAIN pend = {} /\ DOMAIN reqSsn = {} /\ DOMAIN respSsn = {} /\ DOMAIN readPsn = {}
        /\ mssn = 1 /\ ssn = 1 /\ rdAtomic = 0 /\ qps = "RTS"
    BY DEF Init, EmptyFcn
  <1>3. Unanswered(pend) = {} /\ Reads(pend) = {} /\ ssn_range(mssn, ssn) = {}
    BY <1>1, <1>2, SsnRangeEmpty DEF Unanswered, Reads
  <1>. QED BY <1>1, <1>2, <1>3, FS_EmptySet DEF WindowInv, Books

\* Steps that leave the books and the queue pair alone, or end the program.
LEMMA UnchangedWindow ==
  ASSUME WindowInv,
         Running' => Running /\ UNCHANGED <<qps, ssn, mssn, pend, reqSsn, rdAtomic, respSsn, readPsn>>
  PROVE  WindowInv'
  BY DEF WindowInv, Books, NothingLeft, Reads, Unanswered

LEMMA ProcessReqWindow ==
  ASSUME Inv, WindowInv, ProcessReq
  PROVE  WindowInv'
  <1> DEFINE w == Head(sq)
             c == WrCtx(w, sqPsn, ReqPsns(w))
             range == psn_range(sqPsn, (sqPsn + w.n) % MAX_PSN)
  <1>1. Work /\ Books(pend, reqSsn, mssn) /\ rdAtomic <= max_dest_rd_atomic
    BY InvSplit DEF WindowInv, ProcessReq
  <1>2. /\ qps = "RTS" /\ qps' = "RTS" /\ mssn' = mssn
        /\ Cardinality(DOMAIN pend) < MAX_PENDING_REQ_NUM /\ rdAtomic < max_dest_rd_atomic
        /\ ssn' = next_ssn(ssn)
        /\ pend' = Put(pend, ssn, c)
        /\ reqSsn' = [p \in DOMAIN reqSsn \cup ReqPsns(w) |->
                        IF p \in ReqPsns(w) THEN ssn ELSE reqSsn[p]]
        /\ rdAtomic' = IF ReadOrAtomic(w) THEN rdAtomic + 1 ELSE rdAtomic
        /\ IF w.op = "READ"
             THEN /\ respSsn' = [p \in DOMAIN respSsn \cup range |->
                                   IF p \in range THEN ssn ELSE respSsn[p]]
                  /\ readPsn' = Put(readPsn, ssn, sqPsn)
             ELSE UNCHANGED <<respSsn, readPsn>>
    <2>1. /\ Cardinality(DOMAIN pend) \in Nat /\ rdAtomic \in Int
          /\ MAX_PENDING_REQ_NUM \in Nat /\ max_dest_rd_atomic \in Nat
      BY <1>1, SsnFinite, RequesterAssumption DEF Work, GoodPend
    <2>. QED BY <2>1 DEF ProcessReq, busy
  <1>3. mssn \in Ssn /\ ssn \in Ssn /\ GoodPend(pend) /\ rdAtomic \in Int
    BY <1>1 DEF Work
  <1>4. c.wr = w
    BY DEF WrCtx
  <1> HIDE DEF w, c, range
  <1>5. DOMAIN pend' = DOMAIN pend \cup {ssn} /\ ssn \notin DOMAIN pend
        /\ pend'[ssn] = c /\ \A s \in DOMAIN pend : pend'[s] = pend[s]
    <2>1. ssn \notin DOMAIN pend
      BY <1>1, <1>3, SsnRangeType DEF Books
    <2>. QED BY <1>2, <2>1 DEF Put
  <1>6. DOMAIN pend' = ssn_range(mssn', ssn')
    BY <1>1, <1>2, <1>3, <1>5, SsnRangeGrow DEF Books
  <1>7. \A p \in DOMAIN reqSsn' : reqSsn'[p] \in DOMAIN pend'
    BY <1>1, <1>2, <1>5 DEF Books
  <1>8. Reads(pend)' = Reads(pend) \cup (IF w.op = "READ" THEN {ssn} ELSE {})
    <2>1. CASE w.op = "READ"
      BY <1>4, <1>5, <2>1 DEF Reads
    <2>2. CASE w.op # "READ"
      BY <1>4, <1>5, <2>2 DEF Reads
    <2>. QED BY <2>1, <2>2
  <1>9. /\ \A p \in DOMAIN respSsn' : respSsn'[p] \in Reads(pend)'
        /\ DOMAIN readPsn' = Reads(pend)'
    <2>1. CASE w.op = "READ"
      BY <1>1, <1>2, <1>8, <2>1 DEF Books, Put
    <2>2. CASE w.op # "READ"
      BY <1>1, <1>2, <1>8, <2>2 DEF Books
    <2>. QED BY <2>1, <2>2
  <1>10. rdAtomic' = Cardinality(Unanswered(pend'))
    <2>1. Cardinality(Unanswered(pend'))
            = Cardinality(Unanswered(pend)) + IF ReadOrAtomic(w) THEN 1 ELSE 0
      BY <1>2, <1>3, <1>4, <1>5, UnansweredPut
    <2>2. CASE ReadOrAtomic(w)
      BY <1>1, <1>2, <2>1, <2>2 DEF Books
    <2>3. CASE ~ReadOrAtomic(w)
      BY <1>1, <1>2, <1>3, <2>1, <2>3 DEF Books
    <2>. QED BY <2>2, <2>3
  <1>11. rdAtomic' <= max_dest_rd_atomic
    BY <1>2, <1>3, RequesterAssumption
  <1>12. Cardinality(Unanswered(pend))' = Cardinality(Unanswered(pend'))
    BY DEF Unanswered
  <1>13. Books(pend, reqSsn, mssn)'
    BY <1>6, <1>7, <1>9, <1>10, <1>12 DEF Books
  <1>. QED BY <1>2, <1>11, <1>13 DEF WindowInv

LEMMA RecvPartialWindow ==
  ASSUME Inv, WindowInv, NEW r \in Responses, RecvPartial(r)
  PROVE  WindowInv'
  <1>1. /\ Work /\ Running /\ qps = "RTS" /\ Known(r) /\ ~ImplicitNak(r)
        /\ r.op # "READ_LAST"
        /\ pend' = PendFrom(Cur(r)) /\ reqSsn' = ReqFrom(Cur(r)) /\ mssn' = Cur(r)
        /\ UNCHANGED <<qps, sq, ssn, sqPsn, rdAtomic, respSsn, cq, posted, fault>>
        /\ DOMAIN readPsn' = DOMAIN readPsn
    BY InvSplit DEF RecvPartial, Expected, ReadData, ReadOps
  <1>2. Books(pend, reqSsn, mssn) /\ rdAtomic <= max_dest_rd_atomic
    BY <1>1 DEF WindowInv
  <1>3. Reached(Cur(r)) /\ Cur(r) \in Ssn
    BY <1>1, <1>2, CurReached, CurType
  <1>4. Books(PendFrom(Cur(r)), ReqFrom(Cur(r)), Cur(r))
    BY <1>1, <1>2, <1>3, AcksKeepBooks
  <1>5. Books(pend, reqSsn, mssn)'
    BY <1>1, <1>4 DEF Books, Reads, Unanswered
  <1>. QED BY <1>1, <1>2, <1>5 DEF WindowInv

LEMMA RecvCompleteWindow ==
  ASSUME Inv, WindowInv, NEW r \in Responses, RecvComplete(r)
  PROVE  WindowInv'
  <1> DEFINE s == Cur(r)
             P == PendFrom(s)
  <1>1. CASE s # Unacked(r)
    BY <1>1 DEF RecvComplete, WindowInv, Running
  <1>2. CASE s = Unacked(r)
    <2>1. /\ Work /\ Running /\ qps = "RTS" /\ Known(r) /\ ~ImplicitNak(r)
      BY InvSplit DEF RecvComplete, Expected
    <2>2. Books(pend, reqSsn, mssn) /\ rdAtomic <= max_dest_rd_atomic
      BY <2>1 DEF WindowInv
    <2>3. Reached(s) /\ s \in Ssn /\ ssn \in Ssn /\ rdAtomic \in Int
      BY <1>2, <2>1, <2>2, UnackedReached DEF Work
    <2>4. Books(P, ReqFrom(s), s) /\ GoodPend(P)
      BY <2>1, <2>2, <2>3, AcksKeepBooks, PendFromGood
    <2>5. /\ pend' = Without(P, {s})
          /\ reqSsn' = Only(ReqFrom(s), {p \in DOMAIN ReqFrom(s) : reqSsn[p] # s})
          /\ rdAtomic' = IF ReadOrAtomic(pend[s].wr) THEN rdAtomic - 1 ELSE rdAtomic
          /\ mssn' = next_ssn(s)
          /\ respSsn' = Only(respSsn, {p \in DOMAIN respSsn : respSsn[p] # s})
          /\ readPsn' = Without(readPsn, {s})
          /\ UNCHANGED <<qps, ssn, fault>>
      BY <1>2 DEF RecvComplete, DeleteWr
    <2>6. s \in DOMAIN P /\ P[s] = pend[s]
      <3>1. s \in DOMAIN pend /\ s \notin ssn_range(mssn, s)
        BY <2>1, <2>2, <2>3, CurOutstanding, SsnRangeType DEF Work
      <3>. QED BY <3>1 DEF PendFrom, Without, Only
    <2> HIDE DEF s, P
    <2>7. /\ DOMAIN pend' = ssn_range(next_ssn(s), ssn)
          /\ \A p \in DOMAIN ReqFrom(s) : ReqFrom(s)[p] # s => ReqFrom(s)[p] \in DOMAIN pend'
          /\ \A p \in DOMAIN respSsn : respSsn[p] # s => respSsn[p] \in Reads(pend')
          /\ DOMAIN readPsn \ {s} = Reads(pend')
          /\ Cardinality(Unanswered(pend')) = rdAtomic - IF ReadOrAtomic(P[s].wr) THEN 1 ELSE 0
      BY <2>3, <2>4, <2>5, <2>6, DropKeepsBooks
    <2>8. /\ Reads(pend)' = Reads(pend')
          /\ Cardinality(Unanswered(pend))' = Cardinality(Unanswered(pend'))
      BY DEF Reads, Unanswered
    <2>9. \A p \in DOMAIN reqSsn' : reqSsn'[p] \in DOMAIN pend'
      <3>1. \A p \in DOMAIN ReqFrom(s) : ReqFrom(s)[p] = reqSsn[p]
        BY DEF ReqFrom, Only
      <3>. QED BY <2>5, <2>7, <3>1 DEF Only
    <2>10. /\ \A p \in DOMAIN respSsn' : respSsn'[p] \in Reads(pend')
           /\ DOMAIN readPsn' = Reads(pend')
      BY <2>5, <2>7 DEF Only, Without
    <2>11. rdAtomic' = Cardinality(Unanswered(pend')) /\ rdAtomic' <= max_dest_rd_atomic
      <3>1. max_dest_rd_atomic \in Nat
        BY RequesterAssumption
      <3>. QED BY <2>2, <2>3, <2>5, <2>6, <2>7, <3>1
    <2>12. Books(pend, reqSsn, mssn)'
      BY <2>5, <2>7, <2>8, <2>9, <2>10, <2>11 DEF Books
    <2>. QED BY <2>1, <2>5, <2>11, <2>12 DEF WindowInv
  <1>. QED BY <1>1, <1>2

LEMMA RetryAt ==
  ASSUME Work, Books(pend, reqSsn, mssn), NEW r, Known(r), RecvRetry(r)
  PROVE  \E h \in Ssn : Reached(h) /\ \E from, type : Retry(h, from, type, TRUE)
  <1>1. CASE ImplicitNak(r)
    <2>1. PICK k \in Ssn : /\ FirstToRetry(k, Cur(r))
                           /\ Retry(k, pend[k].first, "IMPLICIT", TRUE)
      BY <1>1 DEF RecvRetry
    <2>. QED BY <2>1, RetryReached
  <1>2. CASE ~ImplicitNak(r)
    <2>1. Reached(Unacked(r)) /\ Unacked(r) \in Ssn
      BY <1>2, UnackedReached
    <2>2. \E from, type : Retry(Unacked(r), from, type, TRUE)
      BY <1>2 DEF RecvRetry
    <2>. QED BY <2>1, <2>2
  <1>. QED BY <1>1, <1>2

LEMMA RecvRetryWindow ==
  ASSUME Inv, WindowInv, NEW r \in Responses, RecvRetry(r)
  PROVE  WindowInv'
  <1>1. /\ Work /\ Running /\ qps = "RTS" /\ Known(r)
    BY InvSplit DEF RecvRetry, Expected
  <1>2. Books(pend, reqSsn, mssn) /\ rdAtomic <= max_dest_rd_atomic
    BY <1>1 DEF WindowInv
  <1>3. \E h \in Ssn : Reached(h) /\ \E from, type : Retry(h, from, type, TRUE)
    BY <1>1, <1>2, RetryAt
  <1>. QED BY <1>1, <1>2, <1>3, RetryBooks

LEMMA RecvErrorWindow ==
  ASSUME Inv, WindowInv, NEW r \in Responses, RecvError(r)
  PROVE  WindowInv'
  <1> DEFINE h == Unacked(r)
  <1>1. /\ Work /\ Running /\ qps = "RTS" /\ Known(r) /\ ~ImplicitNak(r)
    BY InvSplit DEF RecvError, Expected
  <1>2. Books(pend, reqSsn, mssn) /\ rdAtomic <= max_dest_rd_atomic
    BY <1>1 DEF WindowInv
  <1>3. Reached(h) /\ h \in Ssn
    BY <1>1, <1>2, UnackedReached
  <1>4. Books(PendFrom(h), ReqFrom(h), h) /\ GoodPend(PendFrom(h))
    BY <1>1, <1>2, <1>3, AcksKeepBooks, PendFromGood
  <1>5. PICK status : GotoErrState(PendFrom(h), ReqFrom(h), h, r.psn, status)
    BY DEF RecvError
  <1>6. Running' => qps' = "ERR" /\ NothingLeft'
    BY <1>1, <1>3, <1>4, <1>5, GotoErrBooks
  <1>7. NothingLeft' => rdAtomic' <= max_dest_rd_atomic
    BY RequesterAssumption DEF NothingLeft
  <1>. QED BY <1>6, <1>7 DEF WindowInv

LEMMA CheckTimeoutWindow ==
  ASSUME Inv, WindowInv, CheckTimeout
  PROVE  WindowInv'
  <1>1. Work /\ Running /\ mssn \in Ssn
    BY InvSplit DEF CheckTimeout, Work
  <1>2. CASE mpsn \in DOMAIN reqSsn /\ Retry(mssn, mpsn, "TIMEOUT", FALSE)
    <2>1. qps = "RTS"
      BY <1>1, <1>2 DEF WindowInv, NothingLeft
    <2>2. Books(pend, reqSsn, mssn) /\ rdAtomic <= max_dest_rd_atomic
      BY <1>1, <2>1 DEF WindowInv
    <2>3. Reached(mssn)
      BY <1>1, SsnRangeEmpty DEF Reached
    <2>. QED BY <1>1, <1>2, <2>1, <2>2, <2>3, RetryBooks
  <1>3. CASE fault' \in {"KeyError", "AssertionError"}
    BY <1>3 DEF WindowInv, Running
  <1>. QED BY <1>2, <1>3 DEF CheckTimeout

LEMMA StepWindow ==
  ASSUME Inv, WindowInv, [Acts]_vars
  PROVE  WindowInv'
  <1>1. ASSUME NEW w \in WorkReqs, PostSend(w)
        PROVE  WindowInv'
    BY <1>1, UnchangedWindow DEF PostSend, Running
  <1>2. ASSUME NEW r \in Responses, RecvUnexpected(r) \/ RecvCrash(r)
        PROVE  WindowInv'
    <2>1. CASE RecvUnexpected(r)
      BY <2>1, UnchangedWindow DEF RecvUnexpected, Running
    <2>2. CASE RecvCrash(r)
      BY <2>2, UnchangedWindow DEF RecvCrash, Running
    <2>. QED BY <1>2, <2>1, <2>2
  <1>3. CASE Aside \/ UNCHANGED vars
    BY <1>3, UnchangedWindow DEF Aside, vars, Running
  <1>. QED BY <1>1, <1>2, <1>3, ProcessReqWindow, RecvPartialWindow, RecvCompleteWindow,
           RecvRetryWindow, RecvErrorWindow, CheckTimeoutWindow DEF Acts, RecvResponse

-----------------------------------------------------------------------------
(***************************************************************************)
(* The timer.  After a response it runs as long as anything is             *)
(* outstanding, a check restarts it so, and a timeout leaves it on.        *)
(***************************************************************************)
LEMMA InitTimer == Init => TimerCoversPending
  BY DEF Init, TimerCoversPending, EmptyFcn

LEMMA ProcessReqTimer ==
  ASSUME TimerCoversPending, ProcessReq
  PROVE  TimerCoversPending'
  <1>1. /\ Running /\ pend' = Put(pend, ssn, WrCtx(Head(sq), sqPsn, ReqPsns(Head(sq))))
        /\ timerOn' = (timerOn \/ NeedsAnswer(Head(sq)))
    BY DEF ProcessReq, NeedsAnswer
  <1>2. \A s \in DOMAIN pend' : \/ s \in DOMAIN pend /\ pend'[s] = pend[s]
                                \/ pend'[s].wr = Head(sq)
    BY <1>1 DEF Put, WrCtx
  <1>. QED BY <1>1, <1>2 DEF TimerCoversPending, NeedsAnswer

LEMMA RecvTimer ==
  ASSUME NEW r, RecvResponse(r)
  PROVE  TimerCoversPending'
  <1>1. TimerAfterRecv \/ RecvCrash(r)
    BY DEF RecvResponse, RecvPartial, RecvComplete, RecvRetry, RecvError, RecvUnexpected
  <1>2. CASE TimerAfterRecv
    BY <1>2 DEF TimerAfterRecv, TimerCoversPending, Running
  <1>3. CASE RecvCrash(r)
    BY <1>3 DEF RecvCrash, TimerCoversPending, Running
  <1>. QED BY <1>1, <1>2, <1>3

LEMMA StepTimer ==
  ASSUME TimerCoversPending, [Next]_vars
  PROVE  TimerCoversPending'
  <1>1. ASSUME NEW w \in WorkReqs, PostSend(w)
        PROVE  TimerCoversPending'
    BY <1>1 DEF PostSend, TimerCoversPending, Running, NeedsAnswer
  <1>2. ASSUME CheckTimeout
        PROVE  TimerCoversPending'
    <2>1. timerOn /\ timerOn' = timerOn
      BY <1>2 DEF CheckTimeout
    <2>. QED BY <2>1 DEF TimerCoversPending
  <1>3. CASE CheckEarly
    BY <1>3 DEF CheckEarly, TimerCoversPending
  <1>4. CASE UNCHANGED vars
    BY <1>4 DEF vars, TimerCoversPending, Running, NeedsAnswer
  <1>. QED BY <1>1, <1>2, <1>3, <1>4, ProcessReqTimer, RecvTimer DEF Next

-----------------------------------------------------------------------------
(***************************************************************************)
(* The theorems that need no bound.                                        *)
(***************************************************************************)
LEMMA WindowInvariant == Spec => [](Inv /\ WindowInv)
  <1>1. Init => Inv /\ WindowInv
    BY InitInv, InitWindow
  <1>2. Inv /\ WindowInv /\ [Next]_vars => (Inv /\ WindowInv)'
    BY NextActs, StepInv, StepWindow
  <1>. QED BY <1>1, <1>2, PTL DEF Spec

\* The outstanding WRs are exactly those from min_unakced_wr_ssn up to the next
\* SSN, with no hole, whatever responses arrive in whatever order.
THEOREM OutstandingIsWindow == Spec => []PendingIsWindow
  <1>1. WindowInv => PendingIsWindow
    BY DEF WindowInv, Books, PendingIsWindow
  <1>. QED BY <1>1, WindowInvariant, PTL

\* pending_rd_atomic_wr_num is the number of outstanding reads and atomics and
\* never above max_dest_rd_atomic.
THEOREM RdAtomicIsCount == Spec => []RdAtomicCount
  <1>1. WindowInv => RdAtomicCount
    <2>1. Unanswered(pend) = {s \in DOMAIN pend : ReadOrAtomic(pend[s].wr)}
      BY DEF Unanswered
    <2>2. NothingLeft => rdAtomic = 0 /\ Unanswered(pend) = {}
      BY DEF NothingLeft, Unanswered
    <2>. QED BY <2>1, <2>2, FS_EmptySet DEF WindowInv, Books, RdAtomicCount
  <1>. QED BY <1>1, WindowInvariant, PTL

\* No WR that needs an answer is outstanding with the timer off.
THEOREM TimerIsOn == Spec => []TimerCoversPending
  <1>. QED BY InitTimer, StepTimer, PTL DEF Spec

-----------------------------------------------------------------------------
(***************************************************************************)
(* Completions.  Their order is that of the SSNs as long as the SSNs do    *)
(* not wrap, so the theorem is about a queue pair that is posted fewer WRs *)
(* than there are SSNs: then every SSN given out is one more than the      *)
(* number of WRs taken from the send queue, and what is completed lies     *)
(* below min_unakced_wr_ssn.                                               *)
(***************************************************************************)
Ascending(q) == \A i, j \in DOMAIN q : i < j => q[i].ssn < q[j].ssn

Completed ==
  /\ Ascending(cq)
  /\ Running =>
       /\ ssn + Len(sq) <= posted + 1
       /\ IF qps = "RTS"
            THEN /\ mssn <= ssn
                 /\ \A i \in DOMAIN cq : cq[i].ssn < mssn /\ cq[i].status = "SUCCESS"
            ELSE \A i, j \in DOMAIN cq : i < j => cq[i].status = "SUCCESS"

LEMMA AppendCompletion ==
  ASSUME cq \in Seq([ssn : Ssn, status : Statuses]), Ascending(cq),
         NEW s \in Ssn, \A i \in DOMAIN cq : cq[i].ssn < s /\ cq[i].status = "SUCCESS",
         NEW status, cq' = Append(cq, [ssn |-> s, status |-> status])
  PROVE  /\ Ascending(cq')
         /\ \A i, j \in DOMAIN cq' : i < j => cq'[i].status = "SUCCESS"
         /\ \A i \in DOMAIN cq' : /\ cq'[i].ssn <= s
                                  /\ status = "SUCCESS" => cq'[i].status = "SUCCESS"
  <1> DEFINE e == [ssn |-> s, status |-> status]
  <1>1. /\ Len(cq) \in Nat /\ DOMAIN cq = 1 .. Len(cq) /\ DOMAIN cq' = 1 .. (Len(cq) + 1)
        /\ cq'[Len(cq) + 1] = e /\ \A i \in 1 .. Len(cq) : cq'[i] = cq[i]
    BY AppendProperties, LenProperties
  <1>2. e.ssn = s /\ e.status = status
    OBVIOUS
  <1>3. s \in Int /\ \A i \in DOMAIN cq : cq[i].ssn \in Int
    <2>1. \A i \in DOMAIN cq : cq[i] \in [ssn : Ssn, status : Statuses]
      BY <1>1, ElementOfSeq
    <2>. QED BY <2>1, RequesterAssumption DEF Ssn
  <1> HIDE DEF e
  <1>4. Ascending(cq')
    BY <1>1, <1>2, <1>3 DEF Ascending
  <1>5. \A i, j \in DOMAIN cq' : i < j => cq'[i].status = "SUCCESS"
    BY <1>1, <1>2
  <1>6. \A i \in DOMAIN cq' : cq'[i].ssn <= s /\ (status = "SUCCESS" => cq'[i].status = "SUCCESS")
    BY <1>1, <1>2, <1>3
  <1>. QED BY <1>4, <1>5, <1>6

\* The window without a wrap.
LEMMA ReachedAbove ==
  ASSUME Work, mssn <= ssn, NEW h \in Ssn, Reached(h)
  PROVE  /\ mssn <= h /\ h <= ssn
         /\ \A s \in ssn_range(h, ssn) : h <= s /\ s < ssn
  <1>1. mssn \in Ssn /\ ssn \in Ssn
    BY DEF Work
  <1>2. mssn <= h /\ h <= ssn
    BY <1>1, SsnRangeCases, RequesterAssumption DEF Reached, Ssn
  <1>. QED BY <1>1, <1>2, SsnRangeCases, RequesterAssumption DEF Ssn

\* Steps that complete nothing.
LEMMA SameCompleted ==
  ASSUME Work, Completed, Running, qps = "RTS", NEW h \in Ssn, mssn <= h, h <= ssn,
         Running' => mssn' = h, UNCHANGED <<qps, ssn, sq, posted, cq>>
  PROVE  Completed'
  <1>1. \A i \in DOMAIN cq : cq[i].ssn < mssn /\ cq[i].status = "SUCCESS"
    BY DEF Completed
  <1>2. /\ Ascending(cq) /\ ssn + Len(sq) <= posted + 1
        /\ mssn \in Int /\ h \in Int /\ \A i \in DOMAIN cq : cq[i].ssn \in Int
    <2>1. \A i \in DOMAIN cq : cq[i] \in [ssn : Ssn, status : Statuses]
      BY ElementOfSeq, LenProperties DEF Work
    <2>. QED BY <2>1, RequesterAssumption DEF Completed, Ssn, Work
  <1>3. \A i \in DOMAIN cq : cq[i].ssn < h
    BY <1>1, <1>2
  <1>. QED BY <1>1, <1>2, <1>3 DEF Completed, Ascending

\* A completion of a WR that is outstanding.
LEMMA OneCompletion ==
  ASSUME Work, Completed, Running, qps = "RTS", NEW s \in Ssn, mssn <= s, NEW status,
         cq' = Append(cq, [ssn |-> s, status |-> status])
  PROVE  /\ Ascending(cq')
         /\ \A i, j \in DOMAIN cq' : i < j => cq'[i].status = "SUCCESS"
         /\ \A i \in DOMAIN cq' : /\ cq'[i].ssn \in Ssn /\ cq'[i].ssn <= s
                                  /\ status = "SUCCESS" => cq'[i].status = "SUCCESS"
  <1>1. cq \in Seq([ssn : Ssn, status : Statuses]) /\ mssn \in Ssn
    BY DEF Work
  <1>2. \A i \in DOMAIN cq : cq[i] \in [ssn : Ssn, status : Statuses]
    BY <1>1, ElementOfSeq, LenProperties
  <1>3. \A i \in DOMAIN cq : cq[i].ssn < s /\ cq[i].status = "SUCCESS"
    <2>1. \A i \in DOMAIN cq : cq[i].ssn < mssn /\ cq[i].status = "SUCCESS"
      BY DEF Completed
    <2>. QED BY <1>1, <1>2, <2>1, RequesterAssumption DEF Ssn
  <1>4. \A i \in DOMAIN cq' : cq'[i].ssn \in Ssn
    <2>1. /\ Len(cq) \in Nat /\ DOMAIN cq = 1 .. Len(cq) /\ DOMAIN cq' = 1 .. (Len(cq) + 1)
          /\ cq'[Len(cq) + 1] = [ssn |-> s, status |-> status]
          /\ \A i \in 1 .. Len(cq) : cq'[i] = cq[i]
      BY <1>1, AppendProperties, LenProperties
    <2>. QED BY <1>2, <2>1
  <1>. QED BY <1>1, <1>3, <1>4, AppendCompletion DEF Completed

LEMMA GotoErrCompleted ==
  ASSUME Work, Completed, Running, qps = "RTS", NEW P, GoodPend(P), NEW R, NEW h \in Ssn,
         Books(P, R, h), mssn <= h, \A s \in ssn_range(h, ssn) : h <= s /\ s < ssn,
         NEW p, NEW status, GotoErrState(P, R, h, p, status)
  PROVE  Completed'
  <1>1. CASE p \notin DOMAIN R
    BY <1>1 DEF GotoErrState, Completed, Running, Ascending
  <1>2. CASE p \in DOMAIN R
    <2>1. R[p] \in Ssn /\ h <= R[p]
      BY <1>2, SsnRangeType DEF Books, Work
    <2>2. mssn <= R[p]
      BY <2>1, RequesterAssumption DEF Work, Ssn
    <2>3. cq' = Append(cq, [ssn |-> R[p], status |-> status])
      BY <1>2 DEF GotoErrState
    <2>4. Ascending(cq') /\ \A i, j \in DOMAIN cq' : i < j => cq'[i].status = "SUCCESS"
      BY <2>1, <2>2, <2>3, OneCompletion
    <2>5. Running' => qps' = "ERR" /\ UNCHANGED <<ssn, sq, posted>>
      BY <1>2 DEF GotoErrState, Running
    <2>. QED BY <2>4, <2>5 DEF Completed, Ascending
  <1>. QED BY <1>1, <1>2

LEMMA RetryCompleted ==
  ASSUME Work, Completed, Running, qps = "RTS", Books(pend, reqSsn, mssn),
         NEW h \in Ssn, Reached(h), NEW from, NEW type, NEW all, Retry(h, from, type, all)
  PROVE  Completed'
  <1>1. Books(PendFrom(h), ReqFrom(h), h)
    BY AcksKeepBooks
  <1>2. /\ mssn <= h /\ h <= ssn
        /\ \A s \in ssn_range(h, ssn) : h <= s /\ s < ssn
    BY ReachedAbove DEF Completed
  <1>3. ASSUME NEW C, NEW R, Resent(h, from, C, R), NEW p, NEW status,
               GotoErrState(C, R, h, p, status)
        PROVE  Completed'
    <2>1. Books(C, R, h) /\ GoodPend(C)
      BY <1>1, <1>3, ResentBooks DEF Resent
    <2>. QED BY <1>2, <1>3, <2>1, GotoErrCompleted
  <1>4. CASE mssn' = h /\ UNCHANGED <<qps, ssn, sq, posted, cq>>
    BY <1>2, <1>4, SameCompleted
  <1>. QED BY <1>3, <1>4, RetryOutcome

LEMMA InitCompleted == Init => Completed
  <1> SUFFICES ASSUME Init PROVE Completed
    OBVIOUS
  <1>1. cq = <<>> /\ sq = <<>> /\ ssn = 1 /\ mssn = 1 /\ posted = 0 /\ qps = "RTS"
    BY DEF Init
  <1>2. DOMAIN cq = {} /\ Len(sq) = 0
    BY <1>1
  <1>. QED BY <1>1, <1>2 DEF Completed, Ascending

\* Steps that leave all of it alone, or end the program with no completion.
LEMMA UnchangedCompleted ==
  ASSUME Completed, UNCHANGED cq,
         Running' => Running /\ UNCHANGED <<qps, ssn, sq, posted, mssn>>
  PROVE  Completed'
  BY DEF Completed, Ascending

LEMMA PostSendCompleted ==
  ASSUME Inv, Completed, NEW w \in WorkReqs, PostSend(w)
  PROVE  Completed'
  <1>1. Work /\ sq' = Append(sq, w) /\ posted' = posted + 1
        /\ Running /\ UNCHANGED <<qps, ssn, mssn, cq, fault>>
    BY InvSplit DEF PostSend
  <1>2. /\ Len(sq') = Len(sq) + 1
        /\ Len(sq) \in Nat /\ ssn \in Int /\ posted \in Int
    BY <1>1, AppendProperties, LenProperties, RequesterAssumption DEF Work, Ssn
  <1>3. ssn + Len(sq') <= posted' + 1
    BY <1>1, <1>2 DEF Completed
  <1>. QED BY <1>1, <1>3 DEF Completed, Ascending, Running

LEMMA ProcessReqCompleted ==
  ASSUME FewPosts, Inv, Completed, ProcessReq
  PROVE  Completed'
  <1>1. /\ Work /\ Running /\ qps = "RTS" /\ sq # <<>> /\ sq' = Tail(sq)
        /\ ssn' = next_ssn(ssn)
        /\ UNCHANGED <<qps, mssn, cq, posted, fault>>
    BY InvSplit DEF ProcessReq
  <1>2. /\ Len(sq') = Len(sq) - 1 /\ Len(sq) \in Nat /\ Len(sq) >= 1
        /\ ssn \in Ssn /\ mssn \in Ssn /\ posted \in Int /\ posted <= MaxPosts
    <2>1. sq \in Seq(WorkReqs)
      BY <1>1 DEF Work
    <2>2. Len(sq') = Len(sq) - 1 /\ Len(sq) \in Nat /\ Len(sq) >= 1
      BY <1>1, <2>1, HeadTailProperties, LenProperties, EmptySeq
    <2>. QED BY <1>1, <2>2, RequesterAssumption DEF Work
  <1>3. ssn + Len(sq) <= posted + 1 /\ mssn <= ssn
    BY <1>1 DEF Completed
  <1>4. ssn' = ssn + 1
    BY <1>1, <1>2, <1>3, NextSsnCases, RequesterAssumption DEF FewPosts, Ssn
  <1>5. mssn' <= ssn' /\ ssn' + Len(sq') <= posted' + 1
    BY <1>1, <1>2, <1>3, <1>4, RequesterAssumption DEF Ssn
  <1>. QED BY <1>1, <1>5 DEF Completed, Ascending, Running

LEMMA RecvPartialCompleted ==
  ASSUME Inv, WindowInv, Completed, NEW r \in Responses, RecvPartial(r)
  PROVE  Completed'
  <1>1. /\ Work /\ Running /\ qps = "RTS" /\ Known(r) /\ ~ImplicitNak(r)
        /\ r.op # "READ_LAST"
        /\ mssn' = Cur(r) /\ UNCHANGED <<qps, sq, ssn, cq, posted, fault>>
    BY InvSplit DEF RecvPartial, Expected, ReadData, ReadOps
  <1>2. Reached(Cur(r)) /\ Cur(r) \in Ssn
    BY <1>1, CurReached, CurType DEF WindowInv
  <1>3. mssn <= Cur(r) /\ Cur(r) <= ssn
    BY <1>1, <1>2, ReachedAbove DEF Completed
  <1>. QED BY <1>1, <1>2, <1>3, SameCompleted

LEMMA RecvCompleteCompleted ==
  ASSUME Inv, WindowInv, Completed, NEW r \in Responses, RecvComplete(r)
  PROVE  Completed'
  <1> DEFINE s == Cur(r)
  <1>1. /\ Work /\ Running /\ qps = "RTS" /\ Known(r) /\ ~ImplicitNak(r)
        /\ cq' = Append(cq, [ssn |-> s, status |-> "SUCCESS"])
        /\ Running' => mssn' = next_ssn(s)
        /\ UNCHANGED <<qps, sq, ssn, posted>>
    BY InvSplit DEF RecvComplete, Expected, Running
  <1>2. Books(pend, reqSsn, mssn) /\ mssn \in Ssn /\ ssn \in Ssn
    BY <1>1 DEF WindowInv, Work
  <1>3. s \in ssn_range(mssn, ssn) /\ s \in Ssn
    BY <1>1, <1>2, CurOutstanding, CurType DEF Books
  <1> HIDE DEF s
  <1>4. mssn <= s /\ s < ssn
    <2>1. mssn <= ssn
      BY <1>1 DEF Completed
    <2>. QED BY <1>2, <1>3, <2>1, SsnRangeCases
  <1>5. next_ssn(s) = s + 1 /\ s + 1 <= ssn
    BY <1>2, <1>3, <1>4, NextSsnCases, RequesterAssumption DEF Ssn
  <1>6. /\ Ascending(cq')
        /\ \A i \in DOMAIN cq' : /\ cq'[i].ssn \in Ssn /\ cq'[i].ssn <= s
                                 /\ cq'[i].status = "SUCCESS"
    BY <1>1, <1>3, <1>4, OneCompletion
  <1>7. \A i \in DOMAIN cq' : cq'[i].ssn < s + 1
    BY <1>3, <1>6, RequesterAssumption DEF Ssn
  <1>. QED BY <1>1, <1>5, <1>6, <1>7 DEF Completed, Ascending

LEMMA RecvRetryCompleted ==
  ASSUME Inv, WindowInv, Completed, NEW r \in Responses, RecvRetry(r)
  PROVE  Completed'
  <1>1. /\ Work /\ Running /\ qps = "RTS" /\ Known(r)
    BY InvSplit DEF RecvRetry, Expected
  <1>2. Books(pend, reqSsn, mssn)
    BY <1>1 DEF WindowInv
  <1>3. \E h \in Ssn : Reached(h) /\ \E from, type : Retry(h, from, type, TRUE)
    BY <1>1, <1>2, RetryAt
  <1>. QED BY <1>1, <1>2, <1>3, RetryCompleted

LEMMA RecvErrorCompleted ==
  ASSUME Inv, WindowInv, Completed, NEW r \in Responses, RecvError(r)
  PROVE  Completed'
  <1> DEFINE h == Unacked(r)
  <1>1. /\ Work /\ Running /\ qps = "RTS" /\ Known(r) /\ ~ImplicitNak(r)
    BY InvSplit DEF RecvError, Expected
  <1>2. Books(pend, reqSsn, mssn)
    BY <1>1 DEF WindowInv
  <1>3. Reached(h) /\ h \in Ssn
    BY <1>1, <1>2, UnackedReached
  <1>4. Books(PendFrom(h), ReqFrom(h), h) /\ GoodPend(PendFrom(h))
    BY <1>1, <1>2, <1>3, AcksKeepBooks, PendFromGood
  <1>5. mssn <= h /\ \A s \in ssn_range(h, ssn) : h <= s /\ s < ssn
    BY <1>1, <1>3, ReachedAbove DEF Completed
  <1>6. PICK status : GotoErrState(PendFrom(h), ReqFrom(h), h, r.psn, status)
    BY DEF RecvError
  <1>. QED BY <1>1, <1>3, <1>4, <1>5, <1>6, GotoErrCompleted

LEMMA CheckTimeoutCompleted ==
  ASSUME Inv, WindowInv, Completed, CheckTimeout
  PROVE  Completed'
  <1>1. Work /\ Running /\ mssn \in Ssn
    BY InvSplit DEF CheckTimeout, Work
  <1>2. CASE mpsn \in DOMAIN reqSsn /\ Retry(mssn, mpsn, "TIMEOUT", FALSE)
    <2>1. qps = "RTS"
      BY <1>1, <1>2 DEF WindowInv, NothingLeft
    <2>2. Books(pend, reqSsn, mssn)
      BY <1>1, <2>1 DEF WindowInv
    <2>3. Reached(mssn)
      BY <1>1, SsnRangeEmpty DEF Reached
    <2>. QED BY <1>1, <1>2, <2>1, <2>2, <2>3, RetryCompleted
  <1>3. CASE fault' \in {"KeyError", "AssertionError"} /\ UNCHANGED cq
    BY <1>3, UnchangedCompleted DEF Running
  <1>. QED BY <1>2, <1>3 DEF CheckTimeout

LEMMA StepCompleted ==
  ASSUME FewPosts, Inv, WindowInv, Completed, [Acts]_vars
  PROVE  Completed'
  <1>1. ASSUME NEW r \in Responses, RecvUnexpected(r) \/ RecvCrash(r)
        PROVE  Completed'
    <2>1. CASE RecvUnexpected(r)
      BY <2>1, UnchangedCompleted DEF RecvUnexpected, Running
    <2>2. CASE RecvCrash(r)
      BY <2>2, UnchangedCompleted DEF RecvCrash, Running
    <2>. QED BY <1>1, <2>1, <2>2
  <1>2. CASE Aside \/ UNCHANGED vars
    BY <1>2, UnchangedCompleted DEF Aside, vars, Running
  <1>. QED BY <1>1, <1>2, PostSendCompleted, ProcessReqCompleted, RecvPartialCompleted,
           RecvCompleteCompleted, RecvRetryCompleted, RecvErrorCompleted,
           CheckTimeoutCompleted DEF Acts, RecvResponse

\* Work requests complete once each and in the order of posting, never while
\* they are outstanding, and after an error nothing completes any more, on a
\* queue pair that is posted fewer WRs than there are SSNs.
THEOREM CompleteInOrder ==
  ASSUME FewPosts
  PROVE  Spec => []CompletionsInOrder
  <1>1. Init => Inv /\ WindowInv /\ Completed
    BY InitInv, InitWindow, InitCompleted
  <1>2. Inv /\ WindowInv /\ Completed /\ [Next]_vars => (Inv /\ WindowInv /\ Completed)'
    BY NextActs, StepInv, StepWindow, StepCompleted
  <1>3. Inv /\ WindowInv /\ Completed => CompletionsInOrder
    <2> SUFFICES ASSUME Inv, WindowInv, Completed PROVE CompletionsInOrder
      OBVIOUS
    <2>1. Work
      BY InvSplit
    <2>2. ASSUME NEW i \in DOMAIN cq, NEW j \in DOMAIN cq, i < j
          PROVE  cq[i].ssn < cq[j].ssn /\ (Running => cq[i].status = "SUCCESS")
      BY <2>2 DEF Completed, Ascending
    <2>3. ASSUME Running, NEW i \in DOMAIN cq
          PROVE  cq[i].ssn \notin DOMAIN pend
      <3>1. CASE qps = "RTS"
        <4>1. mssn <= ssn /\ mssn \in Ssn /\ ssn \in Ssn /\ cq[i].ssn < mssn
          BY <2>1, <2>3, <3>1 DEF Completed, Work
        <4>2. DOMAIN pend = {x \in Ssn : mssn <= x /\ x < ssn}
          BY <2>3, <3>1, <4>1, SsnRangeCases DEF WindowInv, Books
        <4>. QED BY <4>1, <4>2, RequesterAssumption DEF Ssn
      <3>2. CASE qps # "RTS"
        BY <2>3, <3>2 DEF WindowInv, NothingLeft
      <3>. QED BY <3>1, <3>2
    <2>. QED BY <2>2, <2>3 DEF CompletionsInOrder
  <1>. QED BY <1>1, <1>2, <1>3, PTL DEF Spec

-----------------------------------------------------------------------------
(***************************************************************************)
(* The two PSN indexes.  The code records a message under PSNs it does not *)
(* reduce modulo MAX_PSN, so they agree with the contexts only on a        *)
(* connection that ends before its PSNs wrap (FewPsns).                    *)
(***************************************************************************)
Indexed(P, R) ==
  /\ \A s \in DOMAIN P : \A p \in DOMAIN P[s].pkts : p \in DOMAIN R /\ R[p] = s
  /\ \A p \in DOMAIN R : R[p] \in DOMAIN P /\ p \in DOMAIN P[R[p]].pkts

Answers(P) ==
  \A s \in Reads(P) : {p \in DOMAIN respSsn : respSsn[p] = s} =
                        psn_range(P[s].first, (P[s].first + P[s].wr.n) % MAX_PSN)

PsnsGivenOut(N) ==
  /\ \A p \in DOMAIN reqSsn \cup DOMAIN respSsn : p \in Int /\ p < sqPsn
  /\ sqPsn <= InitPsn + (posted - Len(sq)) * N

IndexInv(N) ==
  Running => Indexed(pend, reqSsn) /\ Answers(pend) /\ PsnsGivenOut(N)

LEMMA AcksKeepIndex ==
  ASSUME Indexed(pend, reqSsn), Answers(pend), NEW h
  PROVE  Indexed(PendFrom(h), ReqFrom(h)) /\ Answers(PendFrom(h))
  <1> DEFINE Q == PendFrom(h)
             R == ReqFrom(h)
  <1>1. /\ DOMAIN Q = DOMAIN pend \ ssn_range(mssn, h) /\ \A s \in DOMAIN Q : Q[s] = pend[s]
        /\ DOMAIN R = {p \in DOMAIN reqSsn : reqSsn[p] \notin ssn_range(mssn, h)}
        /\ \A p \in DOMAIN R : R[p] = reqSsn[p]
    BY DEF PendFrom, ReqFrom, Without, Only
  <1> HIDE DEF Q, R
  <1>2. Indexed(Q, R)
    BY <1>1 DEF Indexed
  <1>3. Answers(Q)
    BY <1>1 DEF Answers, Reads
  <1>. QED BY <1>2, <1>3 DEF Q, R

LEMMA ResentIndex ==
  ASSUME NEW h, Indexed(PendFrom(h), ReqFrom(h)), Answers(PendFrom(h)),
         Books(PendFrom(h), ReqFrom(h), h),
         NEW from, NEW C, NEW R, Resent(h, from, C, R)
  PROVE  /\ Indexed(C, R) /\ Answers(C)
         /\ DOMAIN R \subseteq DOMAIN reqSsn \cup DOMAIN respSsn
  <1> DEFINE Q == PendFrom(h)
             S == ReqFrom(h)
  <1>1. /\ DOMAIN C = DOMAIN Q
        /\ \A s \in DOMAIN C : C[s].wr = Q[s].wr /\ C[s].first = Q[s].first
    BY DEF Resent
  <1>2. Indexed(Q, S) /\ Answers(Q) /\ \A p \in DOMAIN respSsn : respSsn[p] \in DOMAIN Q
    BY DEF Books, Reads
  <1>3. DOMAIN S \subseteq DOMAIN reqSsn
    BY DEF ReqFrom, Only
  <1>4. Answers(C)
    <2> HIDE DEF Q
    <2>1. Reads(C) = Reads(Q)
      BY <1>1 DEF Reads
    <2>2. \A s \in Reads(C) : C[s].wr = Q[s].wr /\ C[s].first = Q[s].first
      BY <1>1 DEF Reads
    <2>. QED BY <1>2, <2>1, <2>2 DEF Answers
  <1>5. CASE SamePackets(h, C, R)
    <2>1. R = S /\ \A s \in DOMAIN C : DOMAIN C[s].pkts = DOMAIN Q[s].pkts
      BY <1>5 DEF SamePackets
    <2> HIDE DEF Q, S
    <2>2. Indexed(C, R)
      BY <1>1, <1>2, <2>1 DEF Indexed
    <2>. QED BY <1>3, <1>4, <2>1, <2>2
  <1>6. CASE OneMorePacket(h, from, C, R)
    <2>1. /\ from \in DOMAIN respSsn /\ from \notin DOMAIN reqSsn
          /\ R = Put(S, from, respSsn[from])
          /\ \A s \in DOMAIN C : DOMAIN C[s].pkts =
               DOMAIN Q[s].pkts \cup (IF s = respSsn[from] THEN {from} ELSE {})
      BY <1>6 DEF OneMorePacket
    <2> HIDE DEF Q, S
    <2>2. /\ DOMAIN R = DOMAIN S \cup {from} /\ R[from] = respSsn[from]
          /\ from \notin DOMAIN S /\ \A p \in DOMAIN S : R[p] = S[p]
      BY <1>3, <2>1 DEF Put
    <2>3. ASSUME NEW s \in DOMAIN C, NEW p \in DOMAIN C[s].pkts
          PROVE  p \in DOMAIN R /\ R[p] = s
      <3>1. CASE p \in DOMAIN Q[s].pkts
        BY <1>1, <1>2, <2>2, <3>1 DEF Indexed
      <3>2. CASE p \notin DOMAIN Q[s].pkts
        <4>1. s = respSsn[from] /\ p = from
          BY <2>1, <2>3, <3>2
        <4>. QED BY <2>2, <4>1
      <3>. QED BY <3>1, <3>2
    <2>4. ASSUME NEW p \in DOMAIN R
          PROVE  R[p] \in DOMAIN C /\ p \in DOMAIN C[R[p]].pkts
      <3>1. CASE p = from
        BY <1>1, <1>2, <2>1, <2>2, <3>1
      <3>2. CASE p # from
        <4>1. p \in DOMAIN S /\ R[p] = S[p]
          BY <2>2, <3>2
        <4>2. S[p] \in DOMAIN Q /\ p \in DOMAIN Q[S[p]].pkts
          BY <1>2, <4>1 DEF Indexed
        <4>. QED BY <1>1, <2>1, <4>1, <4>2
      <3>. QED BY <3>1, <3>2
    <2>. QED BY <1>3, <1>4, <2>1, <2>2, <2>3, <2>4 DEF Indexed
  <1>. QED BY <1>5, <1>6 DEF Resent

LEMMA GotoErrIndex ==
  ASSUME NEW N, Work, NEW P, GoodPend(P), NEW R, NEW h \in Ssn, Books(P, R, h), Running,
         PsnsGivenOut(N), NEW p, NEW status, GotoErrState(P, R, h, p, status)
  PROVE  IndexInv(N)'
  <1> SUFFICES ASSUME Running'
               PROVE  Indexed(pend, reqSsn)' /\ Answers(pend)' /\ PsnsGivenOut(N)'
    BY DEF IndexInv
  <1>1. NothingLeft'
    BY GotoErrBooks
  <1>2. UNCHANGED <<sqPsn, posted, sq>>
    BY DEF GotoErrState, Running
  <1>3. Indexed(pend, reqSsn)' /\ Answers(pend)'
    BY <1>1 DEF NothingLeft, Indexed, Answers, Reads
  <1>4. PsnsGivenOut(N)'
    BY <1>1, <1>2 DEF NothingLeft, PsnsGivenOut
  <1>. QED BY <1>3, <1>4

LEMMA RetryIndex ==
  ASSUME NEW N, Work, Running, qps = "RTS", Books(pend, reqSsn, mssn), IndexInv(N),
         NEW h \in Ssn, Reached(h), NEW from, NEW type, NEW all, Retry(h, from, type, all)
  PROVE  IndexInv(N)'
  <1>1. Books(PendFrom(h), ReqFrom(h), h)
    BY AcksKeepBooks
  <1>2. /\ Indexed(PendFrom(h), ReqFrom(h)) /\ Answers(PendFrom(h)) /\ PsnsGivenOut(N)
    BY AcksKeepIndex DEF IndexInv
  <1>3. CASE fault' = "AssertionError"
    BY <1>3 DEF IndexInv, Running
  <1>4. ASSUME NEW C, NEW R, Resent(h, from, C, R), pend' = C, reqSsn' = R,
               UNCHANGED <<qps, sq, ssn, sqPsn, rdAtomic, respSsn, readPsn, cq, posted>>
        PROVE  IndexInv(N)'
    <2>1. Indexed(C, R) /\ Answers(C) /\ DOMAIN R \subseteq DOMAIN reqSsn \cup DOMAIN respSsn
      BY <1>1, <1>2, <1>4, ResentIndex
    <2>. QED BY <1>2, <1>4, <2>1 DEF IndexInv, Indexed, Answers, Reads, PsnsGivenOut
  <1>5. ASSUME NEW C, NEW R, Resent(h, from, C, R), NEW p, NEW status,
               GotoErrState(C, R, h, p, status)
        PROVE  IndexInv(N)'
    <2>1. Books(C, R, h) /\ GoodPend(C)
      BY <1>1, <1>5, ResentBooks DEF Resent
    <2>. QED BY <1>2, <1>5, <2>1, GotoErrIndex
  <1>. QED BY <1>3, <1>4, <1>5, RetryOutcome

LEMMA UnchangedIndex ==
  ASSUME NEW N, IndexInv(N),
         Running' => Running /\ UNCHANGED <<sqPsn, posted, sq, pend, reqSsn, respSsn>>
  PROVE  IndexInv(N)'
  BY DEF IndexInv, Indexed, Answers, Reads, PsnsGivenOut

LEMMA InitIndex ==
  ASSUME NEW N \in Nat, Init
  PROVE  IndexInv(N)
  <1>1. /\ DOMAIN pend = {} /\ DOMAIN reqSsn = {} /\ DOMAIN respSsn = {}
        /\ sqPsn = InitPsn /\ posted = 0 /\ sq = <<>>
    BY DEF Init, EmptyFcn
  <1> DEFINE length == Len(sq)
  <1>2. InitPsn \in Int /\ (posted - Len(sq)) * N = 0
    <2>1. length = 0
      BY <1>1, EmptySeq
    <2> HIDE DEF length
    <2>2. posted - length = 0
      BY <1>1, <2>1
    <2>3. posted - Len(sq) = 0
      BY <2>2 DEF length
    <2>. QED BY <2>3, RequesterAssumption, MaxPsnAssumption DEF Psn
  <1>3. sqPsn <= InitPsn + (posted - Len(sq)) * N
    BY <1>1, <1>2
  <1>. QED BY <1>1, <1>3 DEF IndexInv, Indexed, Answers, Reads, PsnsGivenOut

LEMMA PostSendIndex ==
  ASSUME NEW N, Inv, IndexInv(N), NEW w \in WorkReqs, PostSend(w)
  PROVE  IndexInv(N)'
  <1>1. Work /\ sq' = Append(sq, w) /\ posted' = posted + 1
        /\ Running /\ UNCHANGED <<sqPsn, pend, reqSsn, respSsn, fault>>
    BY InvSplit DEF PostSend
  <1>2. posted' - Len(sq') = posted - Len(sq)
    <2>1. Len(sq') = Len(sq) + 1 /\ Len(sq) \in Nat /\ posted \in Int
      BY <1>1, AppendProperties, LenProperties DEF Work
    <2>. QED BY <1>1, <2>1
  <1>3. PsnsGivenOut(N)'
    BY <1>1, <1>2 DEF IndexInv, PsnsGivenOut
  <1>. QED BY <1>1, <1>3 DEF IndexInv, Indexed, Answers, Reads, Running

\* One request more, of at most N packets.
LEMMA OneMoreRequest ==
  ASSUME NEW N \in Nat, NEW k \in Int, NEW m \in Nat, k < m
  PROVE  (k + 1) * N = k * N + N /\ (k + 1) * N <= m * N
  <1>1. (k + 1) * N = k * N + N
    OBVIOUS
  <1>2. m * N = (k + 1) * N + (m - (k + 1)) * N
    OBVIOUS
  <1>3. m - (k + 1) \in Nat
    OBVIOUS
  <1>4. (m - (k + 1)) * N >= 0
    BY <1>3
  <1>5. m * N \in Int /\ (k + 1) * N \in Int /\ (m - (k + 1)) * N \in Int
    BY <1>3
  <1>. QED BY <1>1, <1>2, <1>4, <1>5

LEMMA ProcessReqIndex ==
  ASSUME NEW N \in Nat, FewPsns(N), Inv, WindowInv, IndexInv(N), ProcessReq
  PROVE  IndexInv(N)'
  <1> DEFINE w == Head(sq)
             c == WrCtx(w, sqPsn, ReqPsns(w))
             k == posted - Len(sq)
             end == (sqPsn + w.n) % MAX_PSN
             range == psn_range(sqPsn, end)
  <1>1. /\ Work /\ Running /\ qps = "RTS" /\ sq # <<>> /\ sq' = Tail(sq)
        /\ sqPsn' = end
        /\ pend' = Put(pend, ssn, c)
        /\ reqSsn' = [p \in DOMAIN reqSsn \cup ReqPsns(w) |->
                        IF p \in ReqPsns(w) THEN ssn ELSE reqSsn[p]]
        /\ IF w.op = "READ"
             THEN respSsn' = [p \in DOMAIN respSsn \cup range |->
                                IF p \in range THEN ssn ELSE respSsn[p]]
             ELSE UNCHANGED respSsn
        /\ UNCHANGED <<posted, fault>>
    BY InvSplit DEF ProcessReq
  <1>2. Indexed(pend, reqSsn) /\ Answers(pend) /\ PsnsGivenOut(N) /\ Books(pend, reqSsn, mssn)
    BY <1>1 DEF IndexInv, WindowInv
  <1>3. /\ w \in WorkReqs /\ w.n \in Nat /\ w.n >= 1 /\ w.n <= N
        /\ k < MaxPosts /\ k \in Int /\ posted' - Len(sq') = k + 1
        /\ sqPsn \in Psn /\ MaxPosts \in Nat
    <2>1. sq \in Seq(WorkReqs) /\ posted \in 0 .. MaxPosts /\ sqPsn \in Psn
      BY <1>1 DEF Work
    <2>2. w \in WorkReqs /\ Len(sq') = Len(sq) - 1 /\ Len(sq) \in Nat /\ Len(sq) >= 1
      BY <1>1, <2>1, HeadTailProperties, LenProperties, EmptySeq
    <2>3. w.n \in Nat \ {0}
      BY <2>2, WorkReqsAssumption DEF WorkReq
    <2>4. w.n <= N
      BY <2>2 DEF FewPsns
    <2>5. MaxPosts \in Nat /\ posted' = posted
      BY <1>1, RequesterAssumption
    <2> HIDE DEF w
    <2>. QED BY <2>1, <2>2, <2>3, <2>4, <2>5
  <1>4. /\ sqPsn + w.n < MAX_PSN /\ end = sqPsn + w.n
        /\ end <= InitPsn + (k + 1) * N
    <2>1. InitPsn \in Psn /\ MAX_PSN \in Nat /\ sqPsn \in Nat /\ MaxPosts * N \in Int
      BY <1>3, RequesterAssumption, MaxPsnAssumption DEF Psn
    <2>2. sqPsn <= InitPsn + k * N /\ k * N \in Int
      BY <1>2, <1>3 DEF PsnsGivenOut
    <2>3. InitPsn + MaxPosts * N < MAX_PSN
      BY DEF FewPsns
    <2> HIDE DEF end, k, w
    <2>4. (k + 1) * N = k * N + N /\ (k + 1) * N <= MaxPosts * N
      BY <1>3, OneMoreRequest
    <2>5. sqPsn + w.n < MAX_PSN /\ sqPsn + w.n <= InitPsn + (k + 1) * N
      BY <1>3, <2>1, <2>2, <2>3, <2>4 DEF Psn
    <2>6. sqPsn + w.n \in Int /\ 0 <= sqPsn + w.n /\ MAX_PSN > 0
      BY <1>3, <2>1, MaxPsnAssumption
    <2>7. (sqPsn + w.n) % MAX_PSN = sqPsn + w.n
      BY <2>1, <2>5, <2>6, ModLow
    <2>8. end = sqPsn + w.n
      BY <2>7 DEF end
    <2>. QED BY <2>5, <2>8
  <1>5. \A p \in ReqPsns(w) : p \in Int /\ sqPsn <= p /\ p < end
    BY <1>3, <1>4, MaxPsnAssumption DEF ReqPsns, Psn
  <1>6. \A p \in range : p \in Int /\ sqPsn <= p /\ p < end
    <2> HIDE DEF end, w
    <2>1. end \in Psn /\ MAX_PSN \in Nat /\ MAX_PSN > 1 /\ sqPsn <= end
      BY <1>3, <1>4, MaxPsnAssumption DEF Psn
    <2>2. range = {x \in 0 .. (MAX_PSN - 1) : sqPsn <= x /\ x < end}
      BY <1>3, <2>1, RangeSetCases DEF psn_range, Psn
    <2>. QED BY <2>1, <2>2 DEF Psn
  <1>7. c.wr = w /\ c.first = sqPsn /\ DOMAIN c.pkts = ReqPsns(w)
    BY DEF WrCtx
  <1>8. ssn \notin DOMAIN pend
    BY <1>1, <1>2, SsnRangeType DEF Work, Books
  <1>9. /\ \A p \in DOMAIN reqSsn : p \notin ReqPsns(w)
        /\ \A p \in DOMAIN respSsn : p \notin range
    BY <1>2, <1>3, <1>5, <1>6, MaxPsnAssumption DEF PsnsGivenOut, Psn
  <1>10. /\ DOMAIN pend' = DOMAIN pend \cup {ssn} /\ pend'[ssn] = c
         /\ \A s \in DOMAIN pend : pend'[s] = pend[s]
    BY <1>1, <1>8 DEF Put
  <1>11. PsnsGivenOut(N)'
    <2>1. /\ DOMAIN reqSsn' = DOMAIN reqSsn \cup ReqPsns(w)
          /\ DOMAIN respSsn' \subseteq DOMAIN respSsn \cup range
      BY <1>1
    <2> HIDE DEF end, range, k, w
    <2>2. end \in Int /\ sqPsn \in Int /\ sqPsn < end
      BY <1>3, <1>4, MaxPsnAssumption DEF Psn
    <2>3. \A p \in DOMAIN reqSsn \cup DOMAIN respSsn : p \in Int /\ p < sqPsn
      BY <1>2 DEF PsnsGivenOut
    <2>. QED BY <1>1, <1>3, <1>4, <1>5, <1>6, <2>1, <2>2, <2>3 DEF PsnsGivenOut
  <1> HIDE DEF w, c, k, end
  <1>12. Indexed(pend, reqSsn)'
    <2>1. ASSUME NEW s \in DOMAIN pend', NEW p \in DOMAIN pend'[s].pkts
          PROVE  p \in DOMAIN reqSsn' /\ reqSsn'[p] = s
      <3>1. CASE s = ssn
        BY <1>1, <1>7, <1>10, <2>1, <3>1
      <3>2. CASE s # ssn
        <4>1. s \in DOMAIN pend /\ p \in DOMAIN pend[s].pkts
          BY <1>10, <2>1, <3>2
        <4>2. p \in DOMAIN reqSsn /\ reqSsn[p] = s
          BY <1>2, <4>1 DEF Indexed
        <4>. QED BY <1>1, <1>9, <4>2
      <3>. QED BY <3>1, <3>2
    <2>2. ASSUME NEW p \in DOMAIN reqSsn'
          PROVE  reqSsn'[p] \in DOMAIN pend' /\ p \in DOMAIN pend'[reqSsn'[p]].pkts
      <3>1. CASE p \in ReqPsns(w)
        BY <1>1, <1>7, <1>10, <3>1
      <3>2. CASE p \notin ReqPsns(w)
        <4>1. p \in DOMAIN reqSsn /\ reqSsn'[p] = reqSsn[p]
          BY <1>1, <2>2, <3>2
        <4>2. reqSsn[p] \in DOMAIN pend /\ p \in DOMAIN pend[reqSsn[p]].pkts
          BY <1>2, <4>1 DEF Indexed
        <4>. QED BY <1>10, <4>1, <4>2
      <3>. QED BY <3>1, <3>2
    <2>. QED BY <2>1, <2>2 DEF Indexed
  <1>13. Answers(pend)'
    <2> SUFFICES ASSUME NEW s \in Reads(pend)'
                 PROVE  {p \in DOMAIN respSsn' : respSsn'[p] = s} =
                          psn_range(pend'[s].first, (pend'[s].first + pend'[s].wr.n) % MAX_PSN)
      BY DEF Answers
    <2>1. \A p \in DOMAIN respSsn : respSsn[p] # ssn
      BY <1>2, <1>8 DEF Books, Reads
    <2>2. CASE s = ssn
      <3>1. w.op = "READ"
        BY <1>7, <1>10, <2>2 DEF Reads
      <3>2. {p \in DOMAIN respSsn' : respSsn'[p] = s} = range
        BY <1>1, <2>1, <2>2, <3>1
      <3>. QED BY <1>7, <1>10, <2>2, <3>2 DEF end
    <2>3. CASE s # ssn
      <3>1. s \in Reads(pend) /\ pend'[s] = pend[s]
        BY <1>10, <2>3 DEF Reads
      <3>2. {p \in DOMAIN respSsn' : respSsn'[p] = s} = {p \in DOMAIN respSsn : respSsn[p] = s}
        <4>1. CASE w.op = "READ"
          BY <1>1, <1>9, <2>3, <4>1
        <4>2. CASE w.op # "READ"
          BY <1>1, <4>2
        <4>. QED BY <4>1, <4>2
      <3>. QED BY <1>2, <3>1, <3>2 DEF Answers
    <2>. QED BY <2>2, <2>3
  <1>. QED BY <1>11, <1>12, <1>13 DEF IndexInv

LEMMA RecvPartialIndex ==
  ASSUME NEW N, Inv, IndexInv(N), NEW r, RecvPartial(r)
  PROVE  IndexInv(N)'
  <1>1. /\ Running
        /\ pend' = PendFrom(Cur(r)) /\ reqSsn' = ReqFrom(Cur(r))
        /\ UNCHANGED <<sqPsn, sq, posted, respSsn>>
    BY DEF RecvPartial, Expected
  <1>2. Indexed(PendFrom(Cur(r)), ReqFrom(Cur(r))) /\ Answers(PendFrom(Cur(r)))
    BY <1>1, AcksKeepIndex DEF IndexInv
  <1>3. DOMAIN reqSsn' \subseteq DOMAIN reqSsn
    BY <1>1 DEF ReqFrom, Only
  <1>4. PsnsGivenOut(N)'
    BY <1>1, <1>3 DEF IndexInv, PsnsGivenOut
  <1>. QED BY <1>1, <1>2, <1>4 DEF IndexInv, Indexed, Answers, Reads

LEMMA RecvCompleteIndex ==
  ASSUME NEW N, Inv, IndexInv(N), NEW r, RecvComplete(r)
  PROVE  IndexInv(N)'
  <1> DEFINE s == Cur(r)
             P == PendFrom(s)
             R == ReqFrom(s)
  <1>1. CASE s # Unacked(r)
    BY <1>1 DEF RecvComplete, IndexInv, Running
  <1>2. CASE s = Unacked(r)
    <2>1. /\ Running
          /\ pend' = Without(P, {s})
          /\ reqSsn' = Only(R, {p \in DOMAIN R : reqSsn[p] # s})
          /\ respSsn' = Only(respSsn, {p \in DOMAIN respSsn : respSsn[p] # s})
          /\ UNCHANGED <<sqPsn, sq, posted>>
      BY <1>2 DEF RecvComplete, Expected, DeleteWr
    <2>2. Indexed(P, R) /\ Answers(P)
      BY <2>1, AcksKeepIndex DEF IndexInv
    <2>3. /\ DOMAIN R \subseteq DOMAIN reqSsn /\ \A p \in DOMAIN R : R[p] = reqSsn[p]
      BY DEF ReqFrom, Only
    <2> HIDE DEF s, P, R
    <2>4. /\ DOMAIN pend' = DOMAIN P \ {s} /\ \A t \in DOMAIN pend' : pend'[t] = P[t]
          /\ DOMAIN reqSsn' = {p \in DOMAIN R : R[p] # s}
          /\ \A p \in DOMAIN reqSsn' : reqSsn'[p] = R[p]
          /\ DOMAIN respSsn' = {p \in DOMAIN respSsn : respSsn[p] # s}
          /\ \A p \in DOMAIN respSsn' : respSsn'[p] = respSsn[p]
      BY <2>1, <2>3 DEF Without, Only
    <2>5. Indexed(pend, reqSsn)'
      BY <2>2, <2>4 DEF Indexed
    <2>6. Answers(pend)'
      <3> SUFFICES ASSUME NEW t \in Reads(pend)'
                   PROVE  {p \in DOMAIN respSsn' : respSsn'[p] = t} =
                            psn_range(pend'[t].first, (pend'[t].first + pend'[t].wr.n) % MAX_PSN)
        BY DEF Answers
      <3>1. t # s /\ t \in Reads(P) /\ pend'[t] = P[t]
        BY <2>4 DEF Reads
      <3>2. {p \in DOMAIN respSsn' : respSsn'[p] = t} = {p \in DOMAIN respSsn : respSsn[p] = t}
        BY <2>4, <3>1
      <3>. QED BY <2>2, <3>1, <3>2 DEF Answers
    <2>7. PsnsGivenOut(N)'
      BY <2>1, <2>3, <2>4 DEF IndexInv, PsnsGivenOut
    <2>. QED BY <2>5, <2>6, <2>7 DEF IndexInv
  <1>. QED BY <1>1, <1>2

LEMMA RecvRetryIndex ==
  ASSUME NEW N, Inv, WindowInv, IndexInv(N), NEW r \in Responses, RecvRetry(r)
  PROVE  IndexInv(N)'
  <1>1. /\ Work /\ Running /\ qps = "RTS" /\ Known(r)
    BY InvSplit DEF RecvRetry, Expected
  <1>2. Books(pend, reqSsn, mssn)
    BY <1>1 DEF WindowInv
  <1>3. \E h \in Ssn : Reached(h) /\ \E from, type : Retry(h, from, type, TRUE)
    BY <1>1, <1>2, RetryAt
  <1>. QED BY <1>1, <1>2, <1>3, RetryIndex

LEMMA RecvErrorIndex ==
  ASSUME NEW N, Inv, WindowInv, IndexInv(N), NEW r \in Responses, RecvError(r)
  PROVE  IndexInv(N)'
  <1> DEFINE h == Unacked(r)
  <1>1. /\ Work /\ Running /\ qps = "RTS" /\ Known(r) /\ ~ImplicitNak(r)
    BY InvSplit DEF RecvError, Expected
  <1>2. Books(pend, reqSsn, mssn)
    BY <1>1 DEF WindowInv
  <1>3. Reached(h) /\ h \in Ssn
    BY <1>1, <1>2, UnackedReached
  <1>4. Books(PendFrom(h), ReqFrom(h), h) /\ GoodPend(PendFrom(h))
    BY <1>1, <1>2, <1>3, AcksKeepBooks, PendFromGood
  <1>5. PICK status : GotoErrState(PendFrom(h), ReqFrom(h), h, r.psn, status)
    BY DEF RecvError
  <1>. QED BY <1>1, <1>3, <1>4, <1>5, GotoErrIndex DEF IndexInv

LEMMA CheckTimeoutIndex ==
  ASSUME NEW N, Inv, WindowInv, IndexInv(N), CheckTimeout
  PROVE  IndexInv(N)'
  <1>1. Work /\ Running /\ mssn \in Ssn
    BY InvSplit DEF CheckTimeout, Work
  <1>2. CASE mpsn \in DOMAIN reqSsn /\ Retry(mssn, mpsn, "TIMEOUT", FALSE)
    <2>1. qps = "RTS"
      BY <1>1, <1>2 DEF WindowInv, NothingLeft
    <2>2. Books(pend, reqSsn, mssn)
      BY <1>1, <2>1 DEF WindowInv
    <2>3. Reached(mssn)
      BY <1>1, SsnRangeEmpty DEF Reached
    <2>. QED BY <1>1, <1>2, <2>1, <2>2, <2>3, RetryIndex
  <1>3. CASE fault' \in {"KeyError", "AssertionError"}
    BY <1>3 DEF IndexInv, Running
  <1>. QED BY <1>2, <1>3 DEF CheckTimeout

LEMMA StepIndex ==
  ASSUME NEW N \in Nat, FewPsns(N), Inv, WindowInv, IndexInv(N), [Acts]_vars
  PROVE  IndexInv(N)'
  <1>1. ASSUME NEW r \in Responses, RecvUnexpected(r) \/ RecvCrash(r)
        PROVE  IndexInv(N)'
    <2>1. CASE RecvUnexpected(r)
      BY <2>1, UnchangedIndex DEF RecvUnexpected, Running
    <2>2. CASE RecvCrash(r)
      BY <2>2, UnchangedIndex DEF RecvCrash, Running
    <2>. QED BY <1>1, <2>1, <2>2
  <1>2. CASE Aside \/ UNCHANGED vars
    BY <1>2, UnchangedIndex DEF Aside, vars, Running
  <1>. QED BY <1>1, <1>2, PostSendIndex, ProcessReqIndex, RecvPartialIndex,
           RecvCompleteIndex, RecvRetryIndex, RecvErrorIndex, CheckTimeoutIndex
           DEF Acts, RecvResponse

LEMMA IndexInvariant ==
  ASSUME NEW N \in Nat, FewPsns(N)
  PROVE  Spec => [](Inv /\ WindowInv /\ IndexInv(N))
  <1>1. Init => Inv /\ WindowInv /\ IndexInv(N)
    BY InitInv, InitWindow, InitIndex
  <1>2. Inv /\ WindowInv /\ IndexInv(N) /\ [Next]_vars => (Inv /\ WindowInv /\ IndexInv(N))'
    BY NextActs, StepInv, StepWindow, StepIndex
  <1>. QED BY <1>1, <1>2, PTL DEF Spec

\* Every packet of an outstanding WR is found under its PSN and belongs to the
\* WR found there, also after partial retries, until the PSNs wrap.
THEOREM PsnIndexAgrees ==
  ASSUME NEW N \in Nat, FewPsns(N)
  PROVE  Spec => []PsnIndexConsistent
  <1>1. IndexInv(N) => PsnIndexConsistent
    BY DEF IndexInv, Indexed, PsnIndexConsistent
  <1>. QED BY <1>1, IndexInvariant, PTL

\* The response PSNs are exactly those of the outstanding reads, each under the
\* read it answers, until the PSNs wrap.
THEOREM ReadIndexAgrees ==
  ASSUME NEW N \in Nat, FewPsns(N)
  PROVE  Spec => []ReadIndexConsistent
  <1>1. Inv /\ WindowInv /\ IndexInv(N) => ReadIndexConsistent
    <2> SUFFICES ASSUME Running, WindowInv, IndexInv(N) PROVE ReadIndexConsistent
      BY DEF ReadIndexConsistent
    <2>1. /\ DOMAIN readPsn = Reads(pend)
          /\ \A p \in DOMAIN respSsn : respSsn[p] \in Reads(pend)
      BY DEF WindowInv, Books, NothingLeft, Reads
    <2>2. Answers(pend)
      BY DEF IndexInv
    <2>3. Reads(pend) = {s \in DOMAIN pend : pend[s].wr.op = "READ"}
      BY DEF Reads
    <2>. QED BY <2>1, <2>2, <2>3 DEF ReadIndexConsistent, Answers
  <1>. QED BY <1>1, IndexInvariant, PTL
=============================================================================
