-------------------------- MODULE PsnWindowProofs --------------------------
(***************************************************************************)
(* The PSN window holds for every size of the PSN space.                   *)
(***************************************************************************)
EXTENDS PsnWindow, PsnMathProofs

\* The window stays below half of the PSN space: TypeOK and the bound of Send.
THEOREM WindowInv == Spec => []WindowOK
  <1>1. Init => WindowOK
    <2> SUFFICES ASSUME Init PROVE WindowOK
      OBVIOUS
    <2>1. Window = 0
      BY RangeLenCases, MaxPsnAssumption DEF Init, Window, Psn
    <2>. QED BY <2>1, OldestCases DEF Init, WindowOK
  <1>2. WindowOK /\ [Next]_vars => WindowOK'
    <2> SUFFICES ASSUME WindowOK, [Next]_vars PROVE WindowOK'
      OBVIOUS
    <2>0. /\ HALF \in Nat /\ MAX_PSN = HALF + HALF /\ HALF >= 2
          /\ Window = IF m <= n THEN n - m ELSE n - m + MAX_PSN
      BY OldestCases, RangeLenCases DEF WindowOK, Window
    <2>1. CASE Send
      <3>1. n' \in Psn /\ m' \in Psn /\ p' \in Psn
        BY <2>1, NextPsnCases, MaxPsnAssumption DEF Send, WindowOK, Psn
      <3>2. Window' = IF m' <= n' THEN n' - m' ELSE n' - m' + MAX_PSN
        BY <3>1, RangeLenCases DEF Window
      <3>3. Window' < HALF
        BY <2>0, <2>1, <3>2, NextPsnCases, MaxPsnAssumption DEF Send, WindowOK, Psn
      <3>. QED BY <3>1, <3>3 DEF WindowOK
    <2>2. CASE Acknowledge
      <3>1. n' \in Psn /\ m' \in Psn /\ p' \in Psn
        BY <2>2, NextPsnCases, MaxPsnAssumption DEF Acknowledge, WindowOK, Psn
      <3>2. Window' = IF m' <= n' THEN n' - m' ELSE n' - m' + MAX_PSN
        BY <3>1, RangeLenCases DEF Window
      <3>3. Window' < HALF
        BY <2>0, <2>2, <3>2, NextPsnCases, MaxPsnAssumption DEF Acknowledge, WindowOK, Psn
      <3>. QED BY <3>1, <3>3 DEF WindowOK
    <2>3. CASE Arrive
      BY <2>3 DEF Arrive, WindowOK, Window
    <2>4. CASE UNCHANGED vars
      BY <2>4 DEF vars, WindowOK, Window
    <2>. QED BY <2>1, <2>2, <2>3, <2>4 DEF Next
  <1>. QED BY <1>1, <1>2, PTL DEF Spec

\* In the window, psn_compare decides whether a response is expected.
LEMMA ExpectedLemma == WindowOK => ExpectedIsOutstanding
  <1> SUFFICES ASSUME WindowOK PROVE ExpectedIsOutstanding
    OBVIOUS
  <1>1. /\ m \in Int /\ n \in Int /\ p \in Int
        /\ 0 <= m /\ m < MAX_PSN /\ 0 <= n /\ n < MAX_PSN /\ 0 <= p /\ p < MAX_PSN
    BY MaxPsnAssumption DEF WindowOK, Psn
  <1>2. /\ HALF \in Nat /\ MAX_PSN = HALF + HALF /\ HALF >= 2
        /\ oldest_psn(n) = IF HALF <= n THEN n - HALF ELSE n + HALF
    BY OldestCases DEF WindowOK
  <1>3. /\ Window = IF m <= n THEN n - m ELSE n - m + MAX_PSN
        /\ RangeLen(m, p, MAX_PSN) = IF m <= p THEN p - m ELSE p - m + MAX_PSN
        /\ Window < HALF
    BY RangeLenCases DEF WindowOK, Window
  <1>. QED BY <1>1, <1>2, <1>3 DEF ExpectedIsOutstanding, Expected, psn_compare

\* Outside the window the assertions of the code hold.
LEMMA UnexpectedLemma == WindowOK => UnexpectedIsOutside
  <1> SUFFICES ASSUME WindowOK PROVE UnexpectedIsOutside
    OBVIOUS
  <1>1. /\ m \in Int /\ n \in Int /\ p \in Int
        /\ 0 <= m /\ m < MAX_PSN /\ 0 <= n /\ n < MAX_PSN /\ 0 <= p /\ p < MAX_PSN
    BY MaxPsnAssumption DEF WindowOK, Psn
  <1>2. /\ HALF \in Nat /\ MAX_PSN = HALF + HALF /\ HALF >= 2
        /\ oldest_psn(n) = IF HALF <= n THEN n - HALF ELSE n + HALF
    BY OldestCases DEF WindowOK
  <1>3. /\ Window = IF m <= n THEN n - m ELSE n - m + MAX_PSN
        /\ Window < HALF
    BY RangeLenCases DEF WindowOK, Window
  <1>. QED BY <1>1, <1>2, <1>3 DEF UnexpectedIsOutside, Expected, psn_compare

\* A response is expected exactly when its PSN is outstanding.
THEOREM ExpectedTheorem == Spec => []ExpectedIsOutstanding
  BY WindowInv, ExpectedLemma, PTL

\* The assertions on an unexpected response never fail.
THEOREM UnexpectedTheorem == Spec => []UnexpectedIsOutside
  BY WindowInv, UnexpectedLemma, PTL
=============================================================================
