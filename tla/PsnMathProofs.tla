--------------------------- MODULE PsnMathProofs ---------------------------
(***************************************************************************)
(* Lemmas about the arithmetic of PsnMath, for every size of the PSN space *)
(* that MaxPsnAssumption allows: the modulo operations as case splits.     *)
(***************************************************************************)
EXTENDS PsnMath, TLAPS

\* A number is its own remainder within the first multiple of the modulus, ...
LEMMA ModLow ==
  ASSUME NEW x \in Int, NEW k \in Nat, k > 0, 0 <= x, x < k
  PROVE  x % k = x
  OBVIOUS

\* ... one modulus less within the second, ...
LEMMA ModHigh ==
  ASSUME NEW x \in Int, NEW k \in Nat, k > 0, k <= x, x < 2 * k
  PROVE  x % k = x - k
  OBVIOUS

\* ... and one more just below zero.
LEMMA ModNeg ==
  ASSUME NEW x \in Int, NEW k \in Nat, k > 0, x < 0, -k <= x
  PROVE  x % k = x + k
  OBVIOUS

\* psn_range from s to e has e - s PSNs, or that and MAX_PSN when it wraps.
LEMMA RangeLenCases ==
  ASSUME NEW s \in Psn, NEW e \in Psn
  PROVE  RangeLen(s, e, MAX_PSN) = IF s <= e THEN e - s ELSE e - s + MAX_PSN
  <1> USE MaxPsnAssumption DEF Psn, RangeLen
  <1>1. CASE s <= e
    BY <1>1, ModLow
  <1>2. CASE ~(s <= e)
    <2>1. e - s \in Int /\ e - s < 0 /\ -MAX_PSN <= e - s
      BY <1>2
    <2>. QED BY <1>2, <2>1, ModNeg
  <1>. QED BY <1>1, <1>2

\* The numbers from a up to and without c below M: they wrap when c is below a.
LEMMA RangeSetCases ==
  ASSUME NEW M \in Nat, M > 1, NEW a \in 0 .. (M - 1), NEW c \in 0 .. (M - 1)
  PROVE  RangeSet(a, c, M) =
           {x \in 0 .. (M - 1) : IF a <= c THEN a <= x /\ x < c ELSE a <= x \/ x < c}
  <1> DEFINE len == RangeLen(a, c, M)
             W == {x \in 0 .. (M - 1) : IF a <= c THEN a <= x /\ x < c ELSE a <= x \/ x < c}
  <1>0. a \in Nat /\ c \in Nat /\ a < M /\ c < M
    OBVIOUS
  <1>1. len = IF a <= c THEN c - a ELSE c - a + M
    <2>1. CASE a <= c
      BY <1>0, <2>1, ModLow DEF RangeLen
    <2>2. CASE ~(a <= c)
      <3>1. c - a \in Int /\ c - a < 0 /\ -M <= c - a
        BY <1>0, <2>2
      <3>. QED BY <1>0, <2>2, <3>1, ModNeg DEF RangeLen
    <2>. QED BY <2>1, <2>2
  <1>2. RangeSet(a, c, M) = {(a + i) % M : i \in 0 .. (len - 1)}
    BY DEF RangeSet
  <1> HIDE DEF len
  <1>3. ASSUME NEW i \in 0 .. (len - 1)
        PROVE  (a + i) % M \in W
    <2>1. i \in Int /\ 0 <= i /\ i < len /\ i < M
      BY <1>0, <1>1, <1>3
    <2>2. CASE a + i < M
      <3>1. (a + i) % M = a + i
        BY <1>0, <2>1, <2>2, ModLow
      <3>. QED BY <1>0, <1>1, <2>1, <2>2, <3>1
    <2>3. CASE ~(a + i < M)
      <3>1. (a + i) % M = a + i - M
        BY <1>0, <2>1, <2>3, ModHigh
      <3>. QED BY <1>0, <1>1, <2>1, <2>3, <3>1
    <2>. QED BY <2>2, <2>3
  <1>4. ASSUME NEW x \in W
        PROVE  \E i \in 0 .. (len - 1) : x = (a + i) % M
    <2>1. x \in Int /\ 0 <= x /\ x < M
      BY <1>0
    <2>2. CASE a <= x
      <3>1. (a + (x - a)) % M = x
        BY <1>0, <2>1, ModLow
      <3>2. x - a \in 0 .. (len - 1)
        BY <1>0, <1>1, <2>1, <2>2
      <3>. QED BY <3>1, <3>2
    <2>3. CASE ~(a <= x)
      <3>1. x + M - a \in 0 .. (len - 1)
        BY <1>0, <1>1, <2>1, <2>3
      <3>2. (a + (x + M - a)) % M = x
        <4>1. a + (x + M - a) = x + M
          BY <1>0, <2>1
        <4>2. (x + M) % M = x
          BY <1>0, <2>1, ModHigh
        <4>. QED BY <4>1, <4>2
      <3>. QED BY <3>1, <3>2
    <2>. QED BY <2>2, <2>3
  <1> HIDE DEF W
  <1>5. RangeSet(a, c, M) = W
    BY <1>2, <1>3, <1>4
  <1>. QED BY <1>5 DEF W

\* next_psn is the next number, and 0 after the last one.
LEMMA NextPsnCases ==
  ASSUME NEW x \in Psn
  PROVE  next_psn(x) = IF x = MAX_PSN - 1 THEN 0 ELSE x + 1
  <1> USE MaxPsnAssumption DEF Psn, next_psn
  <1>1. CASE x = MAX_PSN - 1
    BY <1>1, ModHigh
  <1>2. CASE x # MAX_PSN - 1
    BY <1>2, ModLow
  <1>. QED BY <1>1, <1>2

LEMMA NextPsnType ==
  ASSUME NEW x \in Psn
  PROVE  next_psn(x) \in Psn
  BY NextPsnCases, MaxPsnAssumption DEF Psn

\* The oldest PSN is half of the space behind, with the sign of the difference.
LEMMA OldestCases ==
  ASSUME NEW x \in Psn
  PROVE  /\ HALF \in Nat /\ MAX_PSN = HALF + HALF /\ HALF >= 2
         /\ oldest_psn(x) = IF HALF <= x THEN x - HALF ELSE x + HALF
  <1>1. HALF \in Nat /\ MAX_PSN = HALF + HALF /\ HALF >= 2
    BY MaxPsnAssumption DEF HALF
  <1>2. CASE HALF <= x
    BY <1>1, <1>2, ModLow, MaxPsnAssumption DEF Psn, oldest_psn
  <1>3. CASE ~(HALF <= x)
    <2>1. x - HALF \in Int /\ x - HALF < 0 /\ -MAX_PSN <= x - HALF
      BY <1>1, <1>3 DEF Psn
    <2>. QED BY <1>1, <1>3, <2>1, ModNeg, MaxPsnAssumption DEF Psn, oldest_psn
  <1>. QED BY <1>1, <1>2, <1>3

\* What is_expected_resp accepts lies in the window from a up to b, when that
\* window passes the assertion of is_expected_resp.
LEMMA ExpectedInWindow ==
  ASSUME NEW a \in Psn, NEW b \in Psn, NEW x \in Psn,
         a # b, psn_compare(a, b, b) < 0,
         psn_compare(a, x, b) <= 0, psn_compare(b, x, b) > 0
  PROVE  RangeLen(a, x, MAX_PSN) < RangeLen(a, b, MAX_PSN)
  <1>1. /\ a \in Int /\ b \in Int /\ x \in Int
        /\ 0 <= a /\ a < MAX_PSN /\ 0 <= b /\ b < MAX_PSN /\ 0 <= x /\ x < MAX_PSN
    BY MaxPsnAssumption DEF Psn
  <1>2. /\ HALF \in Nat /\ MAX_PSN = HALF + HALF /\ HALF >= 2
        /\ oldest_psn(b) = IF HALF <= b THEN b - HALF ELSE b + HALF
    BY OldestCases
  <1>3. /\ RangeLen(a, x, MAX_PSN) = IF a <= x THEN x - a ELSE x - a + MAX_PSN
        /\ RangeLen(a, b, MAX_PSN) = IF a <= b THEN b - a ELSE b - a + MAX_PSN
    BY RangeLenCases
  <1>. QED BY <1>1, <1>2, <1>3 DEF psn_compare
=============================================================================
