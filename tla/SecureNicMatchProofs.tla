------------------------ MODULE SecureNicMatchProofs ------------------------
(***************************************************************************)
(* TLAPS proofs about SecureNic: an answer finds a request at the head of  *)
(* the queue of those that wait for one, and where MACs are checked its    *)
(* own, though the code matches them by order alone; without security its  *)
(* own until an answer could not be posted.  From the same invariant, the  *)
(* types.  The sets of numbers come first, then queues, then the steps of  *)
(* Match, then the actions.                                                *)
(***************************************************************************)
EXTENDS SecureNicProofs

-----------------------------------------------------------------------------
(***************************************************************************)
(* The requests of one NIC that wait for an answer of one kind, by their   *)
(* numbers: Q those that wait, A those whose answer is under way, D those  *)
(* in the DMA link of the other NIC, W those on their way to it.  They are *)
(* served in order, so A is before D and D before W.  What g names still   *)
(* works: the posts of the other NIC, its DMA link, its worker, the posts  *)
(* of this one; and the order of the answers, which a failed post of the   *)
(* other NIC disturbs only where MACs are not checked.  A part that failed *)
(* may have lost requests behind those that have got past it, and, while   *)
(* the order holds, never before them.                                     *)
(***************************************************************************)
Below(X, Y) == \A x \in X, y \in Y : x < y

\* What Q holds before an element of X is in Y.
Down(X, Y, Q) == \A x \in X, y \in Q : y < x => y \in Y

Working == {"server", "dma", "worker"}

\* Where the posts of the other NIC work, its answers come in order.
Orderly(g) == "server" \in g => "order" \in g

Aligned(A, D, W, Q, g) ==
  /\ A \cup D \cup W \subseteq Q /\ Q \subseteq Nat
  /\ Below(A, D) /\ Below(A, W) /\ Below(D, W)
  /\ "order" \in g => Down(A, A, Q)
  /\ "server" \in g => Down(D, A \cup D, Q)
  /\ Working \subseteq g => Down(W, A \cup D \cup W, Q)
  /\ Working \cup {"asker"} \subseteq g => Q \subseteq A \cup D \cup W

LEMMA AlignedLess ==
  ASSUME NEW A, NEW D, NEW W, NEW Q, NEW g, NEW h \in SUBSET g, Aligned(A, D, W, Q, g)
  PROVE  Aligned(A, D, W, Q, h)
  BY DEF Aligned

\* A request is posted, and sent unless a post failed before.
LEMMA AlignedAsked ==
  ASSUME NEW A, NEW D, NEW W, NEW Q, NEW g, Aligned(A, D, W, Q, g),
         NEW x \in Nat, Below(Q, {x})
  PROVE  /\ Aligned(A, D, W \cup {x}, Q \cup {x}, g)
            \/ ~("asker" \in g)
         /\ "asker" \notin g => Aligned(A, D, W, Q \cup {x}, g)
  <1>1. /\ A \cup D \cup W \subseteq Q /\ Q \subseteq Nat
        /\ Below(A, D) /\ Below(A, W) /\ Below(D, W)
        /\ "order" \in g => Down(A, A, Q)
        /\ "server" \in g => Down(D, A \cup D, Q)
        /\ Working \subseteq g => Down(W, A \cup D \cup W, Q)
        /\ Working \cup {"asker"} \subseteq g => Q \subseteq A \cup D \cup W
    BY DEF Aligned
  <1>2. \A y \in Q : y < x /\ y \in Nat /\ ~(x < y)
    BY <1>1 DEF Below
  <1>3. /\ Below(A, W \cup {x}) /\ Below(D, W \cup {x})
    BY <1>1, <1>2 DEF Below
  <1>4. /\ "order" \in g => Down(A, A, Q \cup {x})
        /\ "server" \in g => Down(D, A \cup D, Q \cup {x})
        /\ Working \subseteq g => Down(W, A \cup D \cup W, Q \cup {x})
    BY <1>1, <1>2 DEF Down
  <1>5. CASE "asker" \in g
    <2>1. Working \subseteq g => Down(W \cup {x}, A \cup D \cup (W \cup {x}), Q \cup {x})
      <3>1. Working \subseteq g => Working \cup {"asker"} \subseteq g
        BY <1>5
      <3>. QED BY <1>1, <1>2, <3>1 DEF Down
    <2>2. Working \cup {"asker"} \subseteq g => Q \cup {x} \subseteq A \cup D \cup (W \cup {x})
      BY <1>1
    <2>3. A \cup D \cup (W \cup {x}) \subseteq Q \cup {x} /\ Q \cup {x} \subseteq Nat
      BY <1>1
    <2>. QED BY <1>1, <1>3, <1>4, <1>5, <2>1, <2>2, <2>3 DEF Aligned
  <1>6. CASE "asker" \notin g
    <2>1. A \cup D \cup W \subseteq Q \cup {x} /\ Q \cup {x} \subseteq Nat
      BY <1>1
    <2>2. ~(Working \cup {"asker"} \subseteq g)
      BY <1>6
    <2>. QED BY <1>1, <1>4, <1>6, <2>1, <2>2 DEF Aligned
  <1>. QED BY <1>5, <1>6

\* The oldest request under way reaches the other NIC, and its DMA link if
\* that and the worker work.
LEMMA AlignedArrived ==
  ASSUME NEW A, NEW D, NEW W, NEW Q, NEW g, Aligned(A, D, W, Q, g),
         NEW x \in W, Below({x}, W \ {x})
  PROVE  /\ {"dma", "worker"} \subseteq g => Aligned(A, D \cup {x}, W \ {x}, Q, g)
         /\ \A h \in SUBSET g : ~(Working \subseteq h) => Aligned(A, D, W \ {x}, Q, h)
  <1>1. /\ A \cup D \cup W \subseteq Q /\ Q \subseteq Nat
        /\ Below(A, D) /\ Below(A, W) /\ Below(D, W)
        /\ "order" \in g => Down(A, A, Q)
        /\ "server" \in g => Down(D, A \cup D, Q)
        /\ Working \subseteq g => Down(W, A \cup D \cup W, Q)
        /\ Working \cup {"asker"} \subseteq g => Q \subseteq A \cup D \cup W
    BY DEF Aligned
  <1>2. Below(A, W \ {x}) /\ Below(D, W \ {x}) /\ Below(A, D \cup {x}) /\ Below(D \cup {x}, W \ {x})
    BY <1>1 DEF Below
  <1>3. A \cup (D \cup {x}) \cup (W \ {x}) = A \cup D \cup W
    OBVIOUS
  <1>4. ASSUME {"dma", "worker"} \subseteq g PROVE Aligned(A, D \cup {x}, W \ {x}, Q, g)
    <2>1. ASSUME "server" \in g PROVE Down(D \cup {x}, A \cup (D \cup {x}), Q)
      <3>1. Working \subseteq g
        BY <1>4, <2>1 DEF Working
      <3>2. \A y \in W : ~(y < x)
        <4>1. \A y \in W : y \in Nat /\ (y = x \/ x < y)
          BY <1>1 DEF Below
        <4>2. x \in Nat
          BY <4>1
        <4>. QED BY <4>1, <4>2
      <3>3. \A y \in Q : y < x => y \in A \cup D
        BY <1>1, <3>1, <3>2 DEF Down
      <3>. QED BY <1>1, <2>1, <3>3 DEF Down
    <2>2. Working \subseteq g => Down(W \ {x}, A \cup (D \cup {x}) \cup (W \ {x}), Q)
      BY <1>1, <1>3 DEF Down
    <2>. QED BY <1>1, <1>2, <1>3, <2>1, <2>2 DEF Aligned
  <1>5. ASSUME NEW h \in SUBSET g, ~(Working \subseteq h) PROVE Aligned(A, D, W \ {x}, Q, h)
    BY <1>1, <1>2, <1>5 DEF Aligned
  <1>. QED BY <1>4, <1>5

\* The oldest request in the DMA link is done, and answered if posts work, or
\* also when a post has failed before and no MAC is checked.
LEMMA AlignedDone ==
  ASSUME NEW A, NEW D, NEW W, NEW Q, NEW g, Aligned(A, D, W, Q, g),
         NEW x \in D, Below({x}, D \ {x})
  PROVE  /\ "server" \in g \/ "order" \notin g => Aligned(A \cup {x}, D \ {x}, W, Q, g)
         /\ \A h \in SUBSET g : "server" \notin h => Aligned(A, D \ {x}, W, Q, h)
  <1>1. /\ A \cup D \cup W \subseteq Q /\ Q \subseteq Nat
        /\ Below(A, D) /\ Below(A, W) /\ Below(D, W)
        /\ "order" \in g => Down(A, A, Q)
        /\ "server" \in g => Down(D, A \cup D, Q)
        /\ Working \subseteq g => Down(W, A \cup D \cup W, Q)
        /\ Working \cup {"asker"} \subseteq g => Q \subseteq A \cup D \cup W
    BY DEF Aligned
  <1>2. Below(A, D \ {x}) /\ Below(D \ {x}, W) /\ Below(A \cup {x}, D \ {x}) /\ Below(A \cup {x}, W)
    BY <1>1 DEF Below
  <1>3. (A \cup {x}) \cup (D \ {x}) \cup W = A \cup D \cup W /\ (A \cup {x}) \cup (D \ {x}) = A \cup D
    OBVIOUS
  <1>4. ASSUME "server" \in g PROVE Aligned(A \cup {x}, D \ {x}, W, Q, g)
    <2>1. Down(D, A \cup D, Q)
      BY <1>1, <1>4
    <2>2. \A y \in D : ~(y < x)
      <3>1. \A y \in D : y \in Nat /\ (y = x \/ x < y)
        BY <1>1 DEF Below
      <3>2. x \in Nat
        BY <3>1
      <3>. QED BY <3>1, <3>2
    <2>3. \A y \in Q : y < x => y \in A
      BY <2>1, <2>2 DEF Down
    <2>4. "order" \in g => Down(A \cup {x}, A \cup {x}, Q)
      BY <1>1, <2>3 DEF Down
    <2>5. Down(D \ {x}, (A \cup {x}) \cup (D \ {x}), Q)
      BY <1>3, <2>1 DEF Down
    <2>. QED BY <1>1, <1>2, <1>3, <2>4, <2>5 DEF Aligned
  <1>5. ASSUME NEW h \in SUBSET g, "server" \notin h PROVE Aligned(A, D \ {x}, W, Q, h)
    <2>1. ~(Working \subseteq h) /\ ~(Working \cup {"asker"} \subseteq h)
      BY <1>5 DEF Working
    <2>. QED BY <1>1, <1>2, <1>5, <2>1 DEF Aligned
  <1>6. ASSUME "server" \notin g, "order" \notin g
        PROVE  Aligned(A \cup {x}, D \ {x}, W, Q, g)
    <2>1. ~(Working \subseteq g) /\ ~(Working \cup {"asker"} \subseteq g)
      BY <1>6 DEF Working
    <2>. QED BY <1>1, <1>2, <1>3, <1>6, <2>1 DEF Aligned
  <1>. QED BY <1>4, <1>5, <1>6

\* The DMA link fails, and loses what it has not yet done.
LEMMA AlignedFailed ==
  ASSUME NEW A, NEW D, NEW W, NEW Q, NEW g, Aligned(A, D, W, Q, g),
         NEW E \in SUBSET D, Down(E, E, D), NEW h \in SUBSET g, "dma" \notin h
  PROVE  Aligned(A, E, W, Q, h)
  <1>1. /\ A \cup D \cup W \subseteq Q /\ Q \subseteq Nat
        /\ Below(A, D) /\ Below(A, W) /\ Below(D, W)
        /\ "order" \in g => Down(A, A, Q)
        /\ "server" \in g => Down(D, A \cup D, Q)
    BY DEF Aligned
  <1>2. Below(A, E) /\ Below(E, W)
    BY <1>1 DEF Below
  <1>3. "server" \in h => Down(E, A \cup E, Q)
    BY <1>1 DEF Down
  <1>4. ~(Working \subseteq h) /\ ~(Working \cup {"asker"} \subseteq h)
    BY DEF Working
  <1>. QED BY <1>1, <1>2, <1>3, <1>4 DEF Aligned

\* The oldest answer, that to x, arrives and is taken for that to y, the oldest
\* request that waits: they are the same while the order holds.
Least(x, X) == x \in X /\ Below({x}, X \ {x})

LEMMA AlignedAnswered ==
  ASSUME NEW A, NEW D, NEW W, NEW Q, NEW g, Aligned(A, D, W, Q, g), Orderly(g),
         NEW x, Least(x, A), NEW y, Least(y, Q)
  PROVE  /\ Aligned(A \ {x}, D, W, Q \ {y}, g)
         /\ "order" \in g => x = y
  <1>1. /\ A \cup D \cup W \subseteq Q /\ Q \subseteq Nat
        /\ Below(A, D) /\ Below(A, W) /\ Below(D, W)
        /\ "order" \in g => Down(A, A, Q)
        /\ "server" \in g => Down(D, A \cup D, Q)
        /\ Working \subseteq g => Down(W, A \cup D \cup W, Q)
        /\ Working \cup {"asker"} \subseteq g => Q \subseteq A \cup D \cup W
    BY DEF Aligned
  <1>0. x \in A /\ Below({x}, A \ {x}) /\ y \in Q /\ Below({y}, Q \ {y})
    BY DEF Least
  <1>2. x \in Nat /\ y \in Nat /\ x \in Q /\ (y = x \/ y < x)
    BY <1>0, <1>1 DEF Below
  <1>3. \A z \in (A \ {x}) \cup D \cup W : z \in Nat /\ x < z /\ z # y /\ z \in Q
    <2>1. \A z \in (A \ {x}) \cup D \cup W : x < z /\ z \in Q
      BY <1>0, <1>1 DEF Below
    <2>2. \A z \in (A \ {x}) \cup D \cup W : z \in Nat
      BY <1>1
    <2>. QED BY <1>2, <2>1, <2>2
  <1>4. (A \ {x}) \cup D \cup W \subseteq Q \ {y} /\ Q \ {y} \subseteq Nat
    BY <1>1, <1>3
  <1>5. Below(A \ {x}, D) /\ Below(A \ {x}, W)
    BY <1>1 DEF Below
  <1>6. ASSUME "order" \in g PROVE x = y
    <2>1. \A z \in A : z \in Nat /\ (z = x \/ x < z)
      BY <1>0, <1>1 DEF Below
    <2>2. \A z \in A : ~(z < x)
      BY <1>2, <2>1
    <2>3. \A z \in Q : ~(z < x)
      BY <1>0, <1>1, <1>6, <2>2 DEF Down
    <2>. QED BY <1>0, <1>2, <2>3
  <1>7. ASSUME "order" \in g PROVE Aligned(A \ {x}, D, W, Q \ {y}, g)
    <2>1. x = y
      BY <1>6, <1>7
    <2>2. /\ Down(A \ {x}, A \ {x}, Q \ {x})
          /\ "server" \in g => Down(D, (A \ {x}) \cup D, Q \ {x})
          /\ Working \subseteq g => Down(W, (A \ {x}) \cup D \cup W, Q \ {x})
      BY <1>1, <1>7 DEF Down
    <2>3. Working \cup {"asker"} \subseteq g => Q \ {x} \subseteq (A \ {x}) \cup D \cup W
      BY <1>1
    <2>. QED BY <1>1, <1>4, <1>5, <2>1, <2>2, <2>3 DEF Aligned
  <1>8. ASSUME "order" \notin g PROVE Aligned(A \ {x}, D, W, Q \ {y}, g)
    <2>1. "server" \notin g
      BY <1>8 DEF Orderly
    <2>2. ~(Working \subseteq g) /\ ~(Working \cup {"asker"} \subseteq g)
      BY <2>1 DEF Working
    <2>. QED BY <1>1, <1>4, <1>5, <1>8, <2>1, <2>2 DEF Aligned
  <1>. QED BY <1>6, <1>7, <1>8

-----------------------------------------------------------------------------
(***************************************************************************)
(* The numbers f[i] at the places P of a queue of length l, oldest first.  *)
(***************************************************************************)
Vals(f, P) == {f[i] : i \in P}

Rises(f, P) == \A i, j \in P : i < j => f[i] < f[j]

\* e has one number more than f, at the place behind the l of f.
Extended(P, l, f, e, x) ==
  /\ l \in Nat /\ P \in SUBSET (1 .. l)
  /\ (\A i \in 1 .. l : e[i] = f[i]) /\ e[l + 1] = x

LEMMA ValsAppended ==
  ASSUME NEW P, NEW l, NEW f, NEW e, NEW x, Extended(P, l, f, e, x)
  PROVE  /\ Vals(e, P) = Vals(f, P) /\ Vals(e, P \cup {l + 1}) = Vals(f, P) \cup {x}
         /\ Rises(f, P) => Rises(e, P)
         /\ Rises(f, P) /\ Below(Vals(f, P), {x}) => Rises(e, P \cup {l + 1})
  <1> USE DEF Extended
  <1>1. \A i \in P : i \in 1 .. l /\ e[i] = f[i] /\ ~(l + 1 < i)
    OBVIOUS
  <1>2. Vals(e, P) = Vals(f, P)
    BY <1>1 DEF Vals
  <1>3. Vals(e, P \cup {l + 1}) = Vals(f, P) \cup {x}
    BY <1>1 DEF Vals
  <1>4. Rises(f, P) => Rises(e, P)
    BY <1>1 DEF Rises
  <1>5. ASSUME Rises(f, P), Below(Vals(f, P), {x}) PROVE Rises(e, P \cup {l + 1})
    <2>1. \A i \in P : e[i] < e[l + 1]
      BY <1>1, <1>5 DEF Below, Vals
    <2>2. ~(l + 1 < l + 1)
      OBVIOUS
    <2>. QED BY <1>1, <1>4, <1>5, <2>1, <2>2 DEF Rises
  <1>. QED BY <1>2, <1>3, <1>4, <1>5

\* e has the numbers of f behind place k.
Behind(P, R, l, k, m, f, e) ==
  /\ Shifted(P, R, l, k, m) /\ \A j \in 1 .. m : e[j] = f[j + k]
  /\ Rises(f, P) /\ Vals(f, P) \subseteq Nat

\* What has become of them: f[k] was the least of them, if it was one.
Lost(P, R, k, f, e) ==
  /\ Rises(e, R)
  /\ k \notin P => Vals(e, R) = Vals(f, P)
  /\ k \in P => /\ f[k] \in Vals(f, P) /\ Below({f[k]}, Vals(f, P) \ {f[k]})
                /\ Vals(e, R) = Vals(f, P) \ {f[k]}

LEMMA ValsShifted ==
  ASSUME NEW P, NEW R, NEW l, NEW k, NEW m, NEW f, NEW e, Behind(P, R, l, k, m, f, e)
  PROVE  Lost(P, R, k, f, e)
  <1>0. /\ Shifted(P, R, l, k, m) /\ \A j \in 1 .. m : e[j] = f[j + k]
        /\ Rises(f, P) /\ Vals(f, P) \subseteq Nat
    BY DEF Behind
  <1>1. /\ l \in Nat /\ k \in 1 .. l /\ m = l - k /\ P \subseteq 1 .. l /\ R \subseteq 1 .. m
        /\ \A j \in 1 .. m : j \in R <=> j + k \in P
        /\ \A j \in 1 .. (k - 1) : j \notin P
    BY <1>0 DEF Shifted
  <1>2. ASSUME NEW j \in R PROVE j \in 1 .. m /\ j + k \in P /\ e[j] = f[j + k] /\ k < j + k
    <2>1. j \in 1 .. m
      BY <1>1
    <2>2. j + k \in P /\ e[j] = f[j + k]
      BY <1>0, <1>1, <2>1
    <2>. QED BY <1>1, <2>1, <2>2
  <1>3. \A i \in P : i = k \/ (i - k \in R /\ (i - k) + k = i /\ e[i - k] = f[i] /\ k < i)
    <2>1. \A i \in P : i \in 1 .. l /\ i \notin 1 .. (k - 1)
      BY <1>1
    <2>2. \A i \in P : i = k \/ (i - k \in 1 .. m /\ (i - k) + k = i /\ k < i)
      BY <1>1, <2>1
    <2>. QED BY <1>0, <1>1, <2>2
  <1>4. Rises(e, R)
    <2>1. \A i, j \in R : i < j => i + k < j + k
      BY <1>1
    <2>. QED BY <1>0, <1>2, <2>1 DEF Rises
  <1>5. \A x \in Vals(e, R) : \E i \in P : k < i /\ f[i] = x
    BY <1>2 DEF Vals
  <1>6. CASE k \notin P
    <2>1. Vals(f, P) \subseteq Vals(e, R)
      BY <1>3, <1>6 DEF Vals
    <2>2. Vals(e, R) \subseteq Vals(f, P)
      BY <1>5 DEF Vals
    <2>. QED BY <1>4, <1>6, <2>1, <2>2 DEF Lost
  <1>7. CASE k \in P
    <2>1. f[k] \in Vals(f, P) /\ f[k] \in Nat
      BY <1>0, <1>7 DEF Vals
    <2>2. \A i \in P : i # k => f[k] < f[i]
      BY <1>0, <1>3, <1>7 DEF Rises
    <2>3. Below({f[k]}, Vals(f, P) \ {f[k]})
      BY <2>2 DEF Below, Vals
    <2>4. \A i \in P : k < i => f[i] # f[k]
      BY <1>1, <2>1, <2>2
    <2>5. Vals(e, R) \subseteq Vals(f, P) \ {f[k]}
      BY <1>5, <2>4 DEF Vals
    <2>6. Vals(f, P) \ {f[k]} \subseteq Vals(e, R)
      BY <1>3 DEF Vals
    <2>. QED BY <1>4, <1>7, <2>1, <2>3, <2>5, <2>6 DEF Lost
  <1>. QED BY <1>6, <1>7

-----------------------------------------------------------------------------
(***************************************************************************)
(* The places that matter for the answers of kind K: the answers that will *)
(* verify, the requests that will and ask for an answer, and their works   *)
(* that are done or will be while the DMA link works.                      *)
(***************************************************************************)
Asks(r, K) == r.kind = K /\ (K = "WRITE" => r.signaled)

Verifies(p) == p.mac => p.gap = 0

LiveAnswer(p, K) == ~p.eth /\ p.kind = K /\ Verifies(p)

LiveRequest(p, K) == p.eth /\ Asks(p, K) /\ Verifies(p)

LiveWork(w, g, K) ==
  /\ w.op \in {"read", "write"} /\ Asks(w.req, K)
  /\ w.status = "ok" \/ (w.status = "pending" /\ "dma" \in g)

AnswerPos(s, K) == {i \in 1 .. Len(s) : LiveAnswer(s[i], K)}

RequestPos(s, K) == {i \in 1 .. Len(s) : LiveRequest(s[i], K)}

WorkPos(s, g, K) == {i \in 1 .. Len(s) : LiveWork(s[i], g, K)}

NumOf(s) == [i \in 1 .. Len(s) |-> s[i].id[2]]

ReqOf(s) == [i \in 1 .. Len(s) |-> s[i].req.id[2]]

ANums(s, K) == Vals(NumOf(s), AnswerPos(s, K))

WNums(s, K) == Vals(NumOf(s), RequestPos(s, K))

DNums(s, g, K) == Vals(ReqOf(s), WorkPos(s, g, K))

QNums(s) == Vals(NumOf(s), 1 .. Len(s))

ARise(s, K) == Rises(NumOf(s), AnswerPos(s, K))

WRise(s, K) == Rises(NumOf(s), RequestPos(s, K))

DRise(s, g, K) == Rises(ReqOf(s), WorkPos(s, g, K))

QRise(s) == Rises(NumOf(s), 1 .. Len(s))

\* t is s with p behind it.
Longer(s, p, t) ==
  /\ Len(s) \in Nat /\ Len(t) = Len(s) + 1 /\ t[Len(s) + 1] = p
  /\ \A i \in 1 .. Len(s) : t[i] = s[i]
  /\ \A i : i \in 1 .. Len(t) <=> i \in 1 .. Len(s) \/ i = Len(s) + 1

LEMMA AppendIsLonger ==
  ASSUME NEW S, NEW s \in Seq(S), NEW p
  PROVE  Longer(s, p, Append(s, p))
  <1>1. /\ Len(s) \in Nat /\ Len(Append(s, p)) = Len(s) + 1
        /\ \A i \in 1 .. Len(s) : Append(s, p)[i] = s[i]
        /\ Append(s, p)[Len(s) + 1] = p
    BY Appended
  <1>2. \A i : i \in 1 .. (Len(s) + 1) <=> i \in 1 .. Len(s) \/ i = Len(s) + 1
    BY <1>1
  <1>. QED BY <1>1, <1>2 DEF Longer

\* t is s without its first k.
Shorter(s, k, t) ==
  /\ Len(s) \in Nat /\ k \in 1 .. Len(s) /\ Len(t) = Len(s) - k
  /\ \A j \in 1 .. Len(t) : j + k \in 1 .. Len(s) /\ t[j] = s[j + k]

LEMMA SuffixIsShorter ==
  ASSUME NEW S, NEW s \in Seq(S), NEW k \in 1 .. Len(s)
  PROVE  Shorter(s, k, SubSeq(s, k + 1, Len(s)))
  <1> DEFINE t == SubSeq(s, k + 1, Len(s))
  <1>1. /\ Len(s) \in Nat /\ Len(t) = Len(s) - k
        /\ \A i \in 1 .. (Len(s) - k) : t[i] = s[i + k]
    BY Suffix
  <1> HIDE DEF t
  <1>2. \A j \in 1 .. (Len(s) - k) : j + k \in 1 .. Len(s)
    BY <1>1
  <1>. QED BY <1>1, <1>2 DEF Shorter, t

LEMMA TailIsShorter ==
  ASSUME NEW S, NEW s \in Seq(S), s # <<>>
  PROVE  Shorter(s, 1, Tail(s)) /\ Head(s) = s[1]
  <1>1. /\ Len(s) \in Nat \ {0} /\ Len(Tail(s)) = Len(s) - 1
        /\ \A i \in 1 .. Len(Tail(s)) : Tail(s)[i] = s[i + 1]
    BY Taken
  <1>2. Head(s) = s[1]
    OBVIOUS
  <1>3. \A j \in 1 .. (Len(s) - 1) : j + 1 \in 1 .. Len(s)
    BY <1>1
  <1>. QED BY <1>1, <1>2, <1>3 DEF Shorter

LEMMA AnswersAppended ==
  ASSUME NEW s, NEW p, NEW t, Longer(s, p, t), NEW K
  PROVE  /\ LiveAnswer(p, K) =>
              /\ ANums(t, K) = ANums(s, K) \cup {p.id[2]}
              /\ ARise(s, K) /\ Below(ANums(s, K), {p.id[2]}) => ARise(t, K)
         /\ ~LiveAnswer(p, K) =>
              /\ ANums(t, K) = ANums(s, K)
              /\ ARise(s, K) => ARise(t, K)
  <1> DEFINE P == AnswerPos(s, K)
             R == AnswerPos(t, K)
             l == Len(s)
             f == NumOf(s)
             e == NumOf(t)
             x == p.id[2]
  <1>1. /\ l \in Nat /\ t[l + 1] = p /\ \A i \in 1 .. l : t[i] = s[i]
        /\ \A i : i \in 1 .. Len(t) <=> i \in 1 .. l \/ i = l + 1
    BY DEF Longer
  <1>2. Extended(P, l, f, e, x)
    <2>1. e[l + 1] = x /\ \A i \in 1 .. l : e[i] = f[i]
      BY <1>1 DEF NumOf
    <2>2. P \in SUBSET (1 .. l)
      BY DEF AnswerPos
    <2>. QED BY <1>1, <2>1, <2>2 DEF Extended
  <1>3. LiveAnswer(p, K) => R = P \cup {l + 1}
    BY <1>1 DEF AnswerPos
  <1>4. ~LiveAnswer(p, K) => R = P
    BY <1>1 DEF AnswerPos
  <1> HIDE DEF P, R, l, f, e, x
  <1>5. /\ Vals(e, P) = Vals(f, P) /\ Vals(e, P \cup {l + 1}) = Vals(f, P) \cup {x}
        /\ Rises(f, P) => Rises(e, P)
        /\ Rises(f, P) /\ Below(Vals(f, P), {x}) => Rises(e, P \cup {l + 1})
    BY <1>2, ValsAppended, Zenon
  <1>6. /\ LiveAnswer(p, K) => /\ Vals(e, R) = Vals(f, P) \cup {x}
                               /\ Rises(f, P) /\ Below(Vals(f, P), {x}) => Rises(e, R)
        /\ ~LiveAnswer(p, K) => Vals(e, R) = Vals(f, P) /\ (Rises(f, P) => Rises(e, R))
    BY <1>3, <1>4, <1>5, Zenon
  <1>. QED BY <1>6, Zenon DEF ANums, ARise, P, R, f, e, x

LEMMA AnswersShortened ==
  ASSUME NEW s, NEW k, NEW t, Shorter(s, k, t), NEW K,
         \A j \in 1 .. (k - 1) : ~LiveAnswer(s[j], K), ARise(s, K), ANums(s, K) \subseteq Nat
  PROVE  /\ ARise(t, K)
         /\ LiveAnswer(s[k], K) =>
              /\ s[k].id[2] \in ANums(s, K) /\ Below({s[k].id[2]}, ANums(s, K) \ {s[k].id[2]})
              /\ ANums(t, K) = ANums(s, K) \ {s[k].id[2]}
         /\ ~LiveAnswer(s[k], K) => ANums(t, K) = ANums(s, K)
  <1> DEFINE P == AnswerPos(s, K)
             R == AnswerPos(t, K)
             l == Len(s)
             m == Len(t)
             f == NumOf(s)
             e == NumOf(t)
  <1>1. /\ l \in Nat /\ k \in 1 .. l /\ m = l - k
        /\ \A j \in 1 .. m : j + k \in 1 .. l /\ t[j] = s[j + k]
    BY DEF Shorter
  <1>2. f[k] = s[k].id[2] /\ (k \in P <=> LiveAnswer(s[k], K))
    BY <1>1 DEF NumOf, AnswerPos
  <1>3. \A j \in 1 .. m : e[j] = f[j + k]
    BY <1>1 DEF NumOf
  <1>4. Shifted(P, R, l, k, m)
    <2>1. \A j \in 1 .. m : j \in R <=> j + k \in P
      BY <1>1 DEF AnswerPos
    <2>2. \A j \in 1 .. (k - 1) : j \notin P
      BY DEF AnswerPos
    <2>3. P \subseteq 1 .. l /\ R \subseteq 1 .. m
      BY DEF AnswerPos
    <2>. QED BY <1>1, <2>1, <2>2, <2>3 DEF Shifted
  <1>5. Rises(f, P) /\ Vals(f, P) \subseteq Nat
    BY DEF ANums, ARise
  <1> HIDE DEF P, R, l, m, f, e
  <1>6. Behind(P, R, l, k, m, f, e)
    BY <1>3, <1>4, <1>5 DEF Behind
  <1>7. /\ Rises(e, R)
        /\ k \notin P => Vals(e, R) = Vals(f, P)
        /\ k \in P => /\ f[k] \in Vals(f, P) /\ Below({f[k]}, Vals(f, P) \ {f[k]})
                      /\ Vals(e, R) = Vals(f, P) \ {f[k]}
    <2>1. Lost(P, R, k, f, e)
      BY <1>6, ValsShifted
    <2>. QED BY <2>1 DEF Lost
  <1>8. ASSUME LiveAnswer(s[k], K)
        PROVE  /\ s[k].id[2] \in Vals(f, P) /\ Below({s[k].id[2]}, Vals(f, P) \ {s[k].id[2]})
               /\ Vals(e, R) = Vals(f, P) \ {s[k].id[2]}
    BY <1>2, <1>7, <1>8, Zenon
  <1>9. ASSUME ~LiveAnswer(s[k], K) PROVE Vals(e, R) = Vals(f, P)
    BY <1>2, <1>7, <1>9, Zenon
  <1>. QED BY <1>7, <1>8, <1>9, Zenon DEF ANums, ARise, P, R, f, e

LEMMA RequestsAppended ==
  ASSUME NEW s, NEW p, NEW t, Longer(s, p, t), NEW K
  PROVE  /\ LiveRequest(p, K) =>
              /\ WNums(t, K) = WNums(s, K) \cup {p.id[2]}
              /\ WRise(s, K) /\ Below(WNums(s, K), {p.id[2]}) => WRise(t, K)
         /\ ~LiveRequest(p, K) =>
              /\ WNums(t, K) = WNums(s, K)
              /\ WRise(s, K) => WRise(t, K)
  <1> DEFINE P == RequestPos(s, K)
             R == RequestPos(t, K)
             l == Len(s)
             f == NumOf(s)
             e == NumOf(t)
             x == p.id[2]
  <1>1. /\ l \in Nat /\ t[l + 1] = p /\ \A i \in 1 .. l : t[i] = s[i]
        /\ \A i : i \in 1 .. Len(t) <=> i \in 1 .. l \/ i = l + 1
    BY DEF Longer
  <1>2. Extended(P, l, f, e, x)
    <2>1. e[l + 1] = x /\ \A i \in 1 .. l : e[i] = f[i]
      BY <1>1 DEF NumOf
    <2>2. P \in SUBSET (1 .. l)
      BY DEF RequestPos
    <2>. QED BY <1>1, <2>1, <2>2 DEF Extended
  <1>3. LiveRequest(p, K) => R = P \cup {l + 1}
    BY <1>1 DEF RequestPos
  <1>4. ~LiveRequest(p, K) => R = P
    BY <1>1 DEF RequestPos
  <1> HIDE DEF P, R, l, f, e, x
  <1>5. /\ Vals(e, P) = Vals(f, P) /\ Vals(e, P \cup {l + 1}) = Vals(f, P) \cup {x}
        /\ Rises(f, P) => Rises(e, P)
        /\ Rises(f, P) /\ Below(Vals(f, P), {x}) => Rises(e, P \cup {l + 1})
    BY <1>2, ValsAppended, Zenon
  <1>6. /\ LiveRequest(p, K) => /\ Vals(e, R) = Vals(f, P) \cup {x}
                                /\ Rises(f, P) /\ Below(Vals(f, P), {x}) => Rises(e, R)
        /\ ~LiveRequest(p, K) => Vals(e, R) = Vals(f, P) /\ (Rises(f, P) => Rises(e, R))
    BY <1>3, <1>4, <1>5, Zenon
  <1>. QED BY <1>6, Zenon DEF WNums, WRise, P, R, f, e, x

LEMMA RequestsShortened ==
  ASSUME NEW s, NEW k, NEW t, Shorter(s, k, t), NEW K,
         \A j \in 1 .. (k - 1) : ~LiveRequest(s[j], K), WRise(s, K), WNums(s, K) \subseteq Nat
  PROVE  /\ WRise(t, K)
         /\ LiveRequest(s[k], K) =>
              /\ s[k].id[2] \in WNums(s, K) /\ Below({s[k].id[2]}, WNums(s, K) \ {s[k].id[2]})
              /\ WNums(t, K) = WNums(s, K) \ {s[k].id[2]}
         /\ ~LiveRequest(s[k], K) => WNums(t, K) = WNums(s, K)
  <1> DEFINE P == RequestPos(s, K)
             R == RequestPos(t, K)
             l == Len(s)
             m == Len(t)
             f == NumOf(s)
             e == NumOf(t)
  <1>1. /\ l \in Nat /\ k \in 1 .. l /\ m = l - k
        /\ \A j \in 1 .. m : j + k \in 1 .. l /\ t[j] = s[j + k]
    BY DEF Shorter
  <1>2. f[k] = s[k].id[2] /\ (k \in P <=> LiveRequest(s[k], K))
    BY <1>1 DEF NumOf, RequestPos
  <1>3. \A j \in 1 .. m : e[j] = f[j + k]
    BY <1>1 DEF NumOf
  <1>4. Shifted(P, R, l, k, m)
    <2>1. \A j \in 1 .. m : j \in R <=> j + k \in P
      BY <1>1 DEF RequestPos
    <2>2. \A j \in 1 .. (k - 1) : j \notin P
      BY DEF RequestPos
    <2>3. P \subseteq 1 .. l /\ R \subseteq 1 .. m
      BY DEF RequestPos
    <2>. QED BY <1>1, <2>1, <2>2, <2>3 DEF Shifted
  <1>5. Rises(f, P) /\ Vals(f, P) \subseteq Nat
    BY DEF WNums, WRise
  <1> HIDE DEF P, R, l, m, f, e
  <1>6. Behind(P, R, l, k, m, f, e)
    BY <1>3, <1>4, <1>5 DEF Behind
  <1>7. /\ Rises(e, R)
        /\ k \notin P => Vals(e, R) = Vals(f, P)
        /\ k \in P => /\ f[k] \in Vals(f, P) /\ Below({f[k]}, Vals(f, P) \ {f[k]})
                      /\ Vals(e, R) = Vals(f, P) \ {f[k]}
    <2>1. Lost(P, R, k, f, e)
      BY <1>6, ValsShifted
    <2>. QED BY <2>1 DEF Lost
  <1>8. ASSUME LiveRequest(s[k], K)
        PROVE  /\ s[k].id[2] \in Vals(f, P) /\ Below({s[k].id[2]}, Vals(f, P) \ {s[k].id[2]})
               /\ Vals(e, R) = Vals(f, P) \ {s[k].id[2]}
    BY <1>2, <1>7, <1>8, Zenon
  <1>9. ASSUME ~LiveRequest(s[k], K) PROVE Vals(e, R) = Vals(f, P)
    BY <1>2, <1>7, <1>9, Zenon
  <1>. QED BY <1>7, <1>8, <1>9, Zenon DEF WNums, WRise, P, R, f, e

LEMMA WorksAppended ==
  ASSUME NEW s, NEW p, NEW t, Longer(s, p, t), NEW g, NEW K
  PROVE  /\ LiveWork(p, g, K) =>
              /\ DNums(t, g, K) = DNums(s, g, K) \cup {p.req.id[2]}
              /\ DRise(s, g, K) /\ Below(DNums(s, g, K), {p.req.id[2]}) => DRise(t, g, K)
         /\ ~LiveWork(p, g, K) =>
              /\ DNums(t, g, K) = DNums(s, g, K)
              /\ DRise(s, g, K) => DRise(t, g, K)
  <1> DEFINE P == WorkPos(s, g, K)
             R == WorkPos(t, g, K)
             l == Len(s)
             f == ReqOf(s)
             e == ReqOf(t)
             x == p.req.id[2]
  <1>1. /\ l \in Nat /\ t[l + 1] = p /\ \A i \in 1 .. l : t[i] = s[i]
        /\ \A i : i \in 1 .. Len(t) <=> i \in 1 .. l \/ i = l + 1
    BY DEF Longer
  <1>2. Extended(P, l, f, e, x)
    <2>1. e[l + 1] = x /\ \A i \in 1 .. l : e[i] = f[i]
      BY <1>1 DEF ReqOf
    <2>2. P \in SUBSET (1 .. l)
      BY DEF WorkPos
    <2>. QED BY <1>1, <2>1, <2>2 DEF Extended
  <1>3. LiveWork(p, g, K) => R = P \cup {l + 1}
    BY <1>1 DEF WorkPos
  <1>4. ~LiveWork(p, g, K) => R = P
    BY <1>1 DEF WorkPos
  <1> HIDE DEF P, R, l, f, e, x
  <1>5. /\ Vals(e, P) = Vals(f, P) /\ Vals(e, P \cup {l + 1}) = Vals(f, P) \cup {x}
        /\ Rises(f, P) => Rises(e, P)
        /\ Rises(f, P) /\ Below(Vals(f, P), {x}) => Rises(e, P \cup {l + 1})
    BY <1>2, ValsAppended, Zenon
  <1>6. /\ LiveWork(p, g, K) => /\ Vals(e, R) = Vals(f, P) \cup {x}
                                /\ Rises(f, P) /\ Below(Vals(f, P), {x}) => Rises(e, R)
        /\ ~LiveWork(p, g, K) => Vals(e, R) = Vals(f, P) /\ (Rises(f, P) => Rises(e, R))
    BY <1>3, <1>4, <1>5, Zenon
  <1>. QED BY <1>6, Zenon DEF DNums, DRise, P, R, f, e, x

\* t is s without its first k works, of which only the last may matter.
DoneAt(s, k, t, g, K) ==
  /\ Shorter(s, k, t) /\ \A j \in 1 .. (k - 1) : ~LiveWork(s[j], g, K)
  /\ DRise(s, g, K) /\ DNums(s, g, K) \subseteq Nat

WorksLeft(s, k, t, g, K) ==
  /\ DRise(t, g, K)
  /\ LiveWork(s[k], g, K) =>
       /\ s[k].req.id[2] \in DNums(s, g, K) /\ Below({s[k].req.id[2]}, DNums(s, g, K) \ {s[k].req.id[2]})
       /\ DNums(t, g, K) = DNums(s, g, K) \ {s[k].req.id[2]}
  /\ ~LiveWork(s[k], g, K) => DNums(t, g, K) = DNums(s, g, K)

LEMMA WorksShortened ==
  ASSUME NEW s, NEW k, NEW t, NEW g, NEW K, DoneAt(s, k, t, g, K)
  PROVE  WorksLeft(s, k, t, g, K)
  <1> DEFINE P == WorkPos(s, g, K)
             R == WorkPos(t, g, K)
             l == Len(s)
             m == Len(t)
             f == ReqOf(s)
             e == ReqOf(t)
  <1>0. /\ Shorter(s, k, t) /\ \A j \in 1 .. (k - 1) : ~LiveWork(s[j], g, K)
        /\ DRise(s, g, K) /\ DNums(s, g, K) \subseteq Nat
    BY DEF DoneAt
  <1>1. /\ l \in Nat /\ k \in 1 .. l /\ m = l - k
        /\ \A j \in 1 .. m : j + k \in 1 .. l /\ t[j] = s[j + k]
    BY <1>0 DEF Shorter
  <1>2. f[k] = s[k].req.id[2] /\ (k \in P <=> LiveWork(s[k], g, K))
    BY <1>1 DEF ReqOf, WorkPos
  <1>3. \A j \in 1 .. m : e[j] = f[j + k]
    BY <1>1 DEF ReqOf
  <1>4. Shifted(P, R, l, k, m)
    <2>1. \A j \in 1 .. m : j \in R <=> j + k \in P
      BY <1>1 DEF WorkPos
    <2>2. \A j \in 1 .. (k - 1) : j \notin P
      BY <1>0 DEF WorkPos
    <2>3. P \subseteq 1 .. l /\ R \subseteq 1 .. m
      BY DEF WorkPos
    <2>. QED BY <1>1, <2>1, <2>2, <2>3 DEF Shifted
  <1>5. Rises(f, P) /\ Vals(f, P) \subseteq Nat
    BY <1>0 DEF DNums, DRise
  <1> HIDE DEF P, R, l, m, f, e
  <1>6. Behind(P, R, l, k, m, f, e)
    BY <1>3, <1>4, <1>5 DEF Behind
  <1>7. /\ Rises(e, R)
        /\ k \notin P => Vals(e, R) = Vals(f, P)
        /\ k \in P => /\ f[k] \in Vals(f, P) /\ Below({f[k]}, Vals(f, P) \ {f[k]})
                      /\ Vals(e, R) = Vals(f, P) \ {f[k]}
    <2>1. Lost(P, R, k, f, e)
      BY <1>6, ValsShifted
    <2>. QED BY <2>1 DEF Lost
  <1>8. ASSUME LiveWork(s[k], g, K)
        PROVE  /\ s[k].req.id[2] \in Vals(f, P) /\ Below({s[k].req.id[2]}, Vals(f, P) \ {s[k].req.id[2]})
               /\ Vals(e, R) = Vals(f, P) \ {s[k].req.id[2]}
    BY <1>2, <1>7, <1>8, Zenon
  <1>9. ASSUME ~LiveWork(s[k], g, K) PROVE Vals(e, R) = Vals(f, P)
    BY <1>2, <1>7, <1>9, Zenon
  <1>. QED BY <1>7, <1>8, <1>9, Zenon DEF WorksLeft, DNums, DRise, P, R, f, e


LEMMA QueueAppended ==
  ASSUME NEW s, NEW p, NEW t, Longer(s, p, t)
  PROVE  /\ QNums(t) = QNums(s) \cup {p.id[2]}
         /\ QRise(s) /\ Below(QNums(s), {p.id[2]}) => QRise(t)
  <1> DEFINE l == Len(s)
             P == 1 .. l
             R == 1 .. Len(t)
             f == NumOf(s)
             e == NumOf(t)
             x == p.id[2]
  <1>1. /\ l \in Nat /\ t[l + 1] = p /\ \A i \in 1 .. l : t[i] = s[i]
        /\ \A i : i \in 1 .. Len(t) <=> i \in 1 .. l \/ i = l + 1
    BY DEF Longer
  <1>2. Extended(P, l, f, e, x)
    <2>1. e[l + 1] = x /\ \A i \in 1 .. l : e[i] = f[i]
      BY <1>1 DEF NumOf
    <2>. QED BY <1>1, <2>1 DEF Extended
  <1>3. R = P \cup {l + 1}
    BY <1>1
  <1> HIDE DEF P, R, l, f, e, x
  <1>4. /\ Vals(e, P) = Vals(f, P) /\ Vals(e, P \cup {l + 1}) = Vals(f, P) \cup {x}
        /\ Rises(f, P) => Rises(e, P)
        /\ Rises(f, P) /\ Below(Vals(f, P), {x}) => Rises(e, P \cup {l + 1})
    BY <1>2, ValsAppended, Zenon
  <1>5. /\ Vals(e, R) = Vals(f, P) \cup {x}
        /\ Rises(f, P) /\ Below(Vals(f, P), {x}) => Rises(e, R)
    BY <1>3, <1>4, Zenon
  <1>. QED BY <1>5, Zenon DEF QNums, QRise, P, R, f, e, x, l

LEMMA QueueShortened ==
  ASSUME NEW s, NEW t, Shorter(s, 1, t), QRise(s), QNums(s) \subseteq Nat
  PROVE  /\ QRise(t) /\ s[1].id[2] \in QNums(s)
         /\ QNums(t) = QNums(s) \ {s[1].id[2]}
  <1> DEFINE l == Len(s)
             m == Len(t)
             P == 1 .. l
             R == 1 .. m
             f == NumOf(s)
             e == NumOf(t)
             x == s[1].id[2]
  <1>1. /\ l \in Nat /\ 1 \in 1 .. l /\ m = l - 1
        /\ \A j \in 1 .. m : j + 1 \in 1 .. l /\ t[j] = s[j + 1]
    BY DEF Shorter
  <1>2. f[1] = x /\ 1 \in P
    BY <1>1 DEF NumOf
  <1>3. \A j \in 1 .. m : e[j] = f[j + 1]
    BY <1>1 DEF NumOf
  <1>4. Shifted(P, R, l, 1, m)
    <2>1. \A j \in 1 .. (1 - 1) : j \notin P
      OBVIOUS
    <2>. QED BY <1>1, <2>1 DEF Shifted
  <1>5. Rises(f, P) /\ Vals(f, P) \subseteq Nat
    BY DEF QNums, QRise
  <1> HIDE DEF P, R, l, m, f, e, x
  <1>6. Behind(P, R, l, 1, m, f, e)
    BY <1>3, <1>4, <1>5 DEF Behind
  <1>7. Lost(P, R, 1, f, e)
    BY <1>6, ValsShifted
  <1>8. Rises(e, R) /\ x \in Vals(f, P) /\ Vals(e, R) = Vals(f, P) \ {x}
    BY <1>2, <1>7 DEF Lost
  <1>. QED BY <1>8, Zenon DEF QNums, QRise, P, R, f, e, x, l, m

\* The least number of a queue is the one at its head.
LEMMA QueueHead ==
  ASSUME NEW S, NEW s \in Seq(S), QRise(s), QNums(s) \subseteq Nat, NEW x \in QNums(s)
  PROVE  /\ s # <<>> /\ s[1].id[2] \in QNums(s)
         /\ Below({s[1].id[2]}, QNums(s) \ {s[1].id[2]})
  <1>1. PICK i \in 1 .. Len(s) : NumOf(s)[i] = x
    BY DEF QNums, Vals
  <1>2. Len(s) \in Nat /\ 1 \in 1 .. Len(s)
    BY <1>1, LenProperties
  <1>3. s # <<>>
    <2>1. Len(<<>>) = 0
      OBVIOUS
    <2>. QED BY <1>2, <2>1
  <1>4. NumOf(s)[1] = s[1].id[2] /\ NumOf(s)[1] \in QNums(s)
    BY <1>2 DEF NumOf, QNums, Vals
  <1>5. \A j \in 1 .. Len(s) : j = 1 \/ NumOf(s)[1] < NumOf(s)[j]
    <2>1. \A j \in 1 .. Len(s) : j = 1 \/ 1 < j
      BY <1>2
    <2>. QED BY <1>2, <2>1 DEF QRise, Rises
  <1>6. Below({NumOf(s)[1]}, QNums(s) \ {NumOf(s)[1]})
    BY <1>5 DEF Below, QNums, Vals
  <1>. QED BY <1>3, <1>4, <1>6

-----------------------------------------------------------------------------
(***************************************************************************)
(* The DMA link carries out the first work of s that is pending; t is what *)
(* it leaves.                                                              *)
(***************************************************************************)
Executed(s, i, st, t) ==
  /\ Len(t) = Len(s) /\ i \in 1 .. Len(s) /\ s[i].status = "pending"
  /\ \A j \in 1 .. Len(s) : t[j].op = s[j].op /\ t[j].req = s[j].req
  /\ \A j \in 1 .. Len(s) : t[j].status = IF j = i THEN st ELSE s[j].status

LEMMA WorkSucceeded ==
  ASSUME NEW s, NEW i, NEW t, Executed(s, i, "ok", t), NEW g, "dma" \in g, NEW K
  PROVE  /\ DNums(t, g, K) = DNums(s, g, K)
         /\ DRise(s, g, K) => DRise(t, g, K)
  <1>1. \A j \in 1 .. Len(s) : LiveWork(t[j], g, K) <=> LiveWork(s[j], g, K)
    BY DEF Executed, LiveWork
  <1>2. WorkPos(t, g, K) = WorkPos(s, g, K)
    BY <1>1 DEF WorkPos, Executed
  <1>3. \A j \in WorkPos(s, g, K) : ReqOf(t)[j] = ReqOf(s)[j]
    BY DEF WorkPos, ReqOf, Executed
  <1>4. DNums(t, g, K) = DNums(s, g, K)
    BY <1>2, <1>3 DEF DNums, Vals
  <1>5. DRise(s, g, K) => DRise(t, g, K)
    BY <1>2, <1>3 DEF DRise, Rises
  <1>. QED BY <1>4, <1>5

\* What is pending is behind what is not.
PendingBehind(s) ==
  \A i, j \in 1 .. Len(s) : i < j /\ s[i].status = "pending" => s[j].status = "pending"

LEMMA WorkFailed ==
  ASSUME NEW s, NEW i, NEW t, Executed(s, i, "error", t), PendingBehind(s), Len(s) \in Nat,
         NEW g, NEW h, "dma" \notin h, NEW K, DRise(s, g, K), DNums(s, g, K) \subseteq Nat
  PROVE  /\ DNums(t, h, K) \subseteq DNums(s, g, K) /\ DRise(t, h, K)
         /\ Down(DNums(t, h, K), DNums(t, h, K), DNums(s, g, K))
  <1> DEFINE P == WorkPos(s, g, K)
             R == WorkPos(t, h, K)
             f == ReqOf(s)
             e == ReqOf(t)
  <1>1. \A j \in 1 .. Len(s) : LiveWork(t[j], h, K) => LiveWork(s[j], g, K) /\ s[j].status = "ok"
    BY DEF Executed, LiveWork
  <1>2. \A j \in R : j \in P /\ j \in 1 .. Len(s) /\ e[j] = f[j] /\ s[j].status = "ok"
    BY <1>1 DEF WorkPos, ReqOf, Executed
  <1>3. \A j \in P : s[j].status = "ok" => j \in R
    BY DEF WorkPos, LiveWork, Executed
  <1>4. \A j \in P : j \in 1 .. Len(s) /\ (s[j].status = "ok" \/ s[j].status = "pending")
    BY DEF WorkPos, LiveWork
  <1>5. \A j \in P, k \in R : j < k => j \in R
    BY <1>2, <1>3, <1>4 DEF PendingBehind
  <1> HIDE DEF P, R, f, e
  <1>6. Rises(f, P) /\ Vals(f, P) \subseteq Nat
    BY DEF P, f, DRise, DNums
  <1>7. Rises(e, R)
    BY <1>2, <1>6 DEF Rises
  <1>8. Vals(e, R) \subseteq Vals(f, P)
    BY <1>2 DEF Vals
  <1>9. \A x \in Vals(e, R), y \in Vals(f, P) : y < x => y \in Vals(e, R)
    <2> SUFFICES ASSUME NEW k \in R, NEW j \in P, f[j] < e[k] PROVE j \in R
      BY <1>2 DEF Vals
    <2>1. k \in P /\ e[k] = f[k] /\ j \in Int /\ k \in Int /\ f[j] \in Nat /\ f[k] \in Nat
      BY <1>2, <1>4, <1>6 DEF Vals
    <2>2. ~(k < j)
      BY <1>6, <2>1 DEF Rises
    <2>3. j = k \/ j < k
      BY <2>1, <2>2
    <2>. QED BY <1>5, <2>3
  <1>. QED BY <1>7, <1>8, <1>9 DEF DNums, DRise, Down, P, R, f, e

-----------------------------------------------------------------------------
(***************************************************************************)
(* The requests of kind K that wait in q for an answer, with the wire a    *)
(* their answers come on, the DMA link d that carries them out, the wire w *)
(* they leave on, the parts g that work, and the b requests made so far.   *)
(***************************************************************************)
MatchOf(q, a, d, w, K, g, b) ==
  /\ Aligned(ANums(a, K), DNums(d, g, K), WNums(w, K), QNums(q), g)
  /\ b \in Nat /\ QNums(q) \subseteq 1 .. b
  /\ QRise(q) /\ ARise(a, K) /\ WRise(w, K) /\ DRise(d, g, K)

\* What of these does not change.
SameAnswers(a, s, K) == ANums(s, K) = ANums(a, K) /\ (ARise(a, K) => ARise(s, K))

SameRequests(w, s, K) == WNums(s, K) = WNums(w, K) /\ (WRise(w, K) => WRise(s, K))

SameWorks(d, g, s, h, K) == DNums(s, h, K) = DNums(d, g, K) /\ (DRise(d, g, K) => DRise(s, h, K))

LEMMA MatchNumbers ==
  ASSUME NEW q, NEW a, NEW d, NEW w, NEW K, NEW g, NEW b, MatchOf(q, a, d, w, K, g, b)
  PROVE  /\ QNums(q) \subseteq Nat /\ ANums(a, K) \subseteq Nat
         /\ WNums(w, K) \subseteq Nat /\ DNums(d, g, K) \subseteq Nat
  BY DEF MatchOf, Aligned

LEMMA MatchSame ==
  ASSUME NEW q, NEW a, NEW d, NEW w, NEW K, NEW g, NEW b, MatchOf(q, a, d, w, K, g, b),
         NEW a2, SameAnswers(a, a2, K), NEW w2, SameRequests(w, w2, K),
         NEW h, h \subseteq g, NEW d2, SameWorks(d, g, d2, h, K),
         NEW c \in Nat, b <= c
  PROVE  MatchOf(q, a2, d2, w2, K, h, c)
  <1> DEFINE A == ANums(a, K)
             D == DNums(d, g, K)
             W == WNums(w, K)
             Q == QNums(q)
  <1>1. /\ Aligned(A, D, W, Q, g) /\ b \in Nat /\ Q \subseteq 1 .. b
        /\ QRise(q) /\ ARise(a, K) /\ WRise(w, K) /\ DRise(d, g, K)
    BY DEF MatchOf
  <1>2. /\ ANums(a2, K) = A /\ WNums(w2, K) = W /\ DNums(d2, h, K) = D
        /\ ARise(a2, K) /\ WRise(w2, K) /\ DRise(d2, h, K)
    BY <1>1 DEF SameAnswers, SameRequests, SameWorks
  <1> HIDE DEF A, D, W, Q
  <1>3. Aligned(A, D, W, Q, h)
    BY <1>1, AlignedLess
  <1>4. Q \subseteq 1 .. c
    BY <1>1
  <1>5. QNums(q) = Q
    BY DEF Q
  <1>. QED BY <1>1, <1>2, <1>3, <1>4, <1>5, Zenon DEF MatchOf

\* One more request is posted and awaited.
LEMMA MatchAsked ==
  ASSUME NEW q, NEW a, NEW d, NEW w, NEW K, NEW g, NEW b, MatchOf(q, a, d, w, K, g, b),
         NEW r, r.id[2] = b + 1, NEW q2, Longer(q, r, q2),
         NEW p, p.id[2] = b + 1, NEW w2, Longer(w, p, w2),
         LiveRequest(p, K) <=> "asker" \in g
  PROVE  MatchOf(q2, a, d, w2, K, g, b + 1)
  <1> DEFINE A == ANums(a, K)
             D == DNums(d, g, K)
             W == WNums(w, K)
             Q == QNums(q)
             x == b + 1
  <1>1. /\ Aligned(A, D, W, Q, g) /\ b \in Nat /\ Q \subseteq 1 .. b
        /\ QRise(q) /\ ARise(a, K) /\ WRise(w, K) /\ DRise(d, g, K)
    BY DEF MatchOf
  <1>2. x \in Nat /\ Below(Q, {x}) /\ Q \cup {x} \subseteq 1 .. (b + 1)
    BY <1>1 DEF Below
  <1>3. Below(W, {x})
    BY <1>1, <1>2 DEF Aligned, Below
  <1>4. QNums(q2) = Q \cup {x} /\ QRise(q2)
    <2>1. QNums(q2) = QNums(q) \cup {r.id[2]} /\ (QRise(q) /\ Below(QNums(q), {r.id[2]}) => QRise(q2))
      BY QueueAppended
    <2>2. r.id[2] = x
      OBVIOUS
    <2>. QED BY <1>1, <1>2, <2>1, <2>2, Zenon DEF Q
  <1>5. p.id[2] = x
    OBVIOUS
  <1>6. CASE "asker" \in g
    <2>1. LiveRequest(p, K)
      BY <1>6
    <2>0. /\ WNums(w2, K) = WNums(w, K) \cup {p.id[2]}
          /\ WRise(w, K) /\ Below(WNums(w, K), {p.id[2]}) => WRise(w2, K)
      BY <2>1, RequestsAppended
    <2>2. WNums(w2, K) = W \cup {x} /\ WRise(w2, K)
      BY <1>1, <1>3, <1>5, <2>0, Zenon DEF W
    <2> HIDE DEF A, D, W, Q, x
    <2>3. Aligned(A, D, W \cup {x}, Q \cup {x}, g)
      BY <1>1, <1>2, <1>6, AlignedAsked
    <2> USE DEF A, D
    <2>. QED BY <1>1, <1>2, <1>4, <2>2, <2>3 DEF MatchOf, x
  <1>7. CASE "asker" \notin g
    <2>1. ~LiveRequest(p, K)
      BY <1>7
    <2>0. WNums(w2, K) = WNums(w, K) /\ (WRise(w, K) => WRise(w2, K))
      BY <2>1, RequestsAppended
    <2>2. WNums(w2, K) = W /\ WRise(w2, K)
      BY <1>1, <2>0, Zenon DEF W
    <2> HIDE DEF A, D, W, Q, x
    <2>3. Aligned(A, D, W, Q \cup {x}, g)
      BY <1>1, <1>2, <1>7, AlignedAsked
    <2> USE DEF A, D
    <2>. QED BY <1>1, <1>2, <1>4, <2>2, <2>3 DEF MatchOf, x
  <1>. QED BY <1>6, <1>7

\* The oldest request under way is received, by a worker that works.
LEMMA MatchArrived ==
  ASSUME NEW q, NEW a, NEW d, NEW w, NEW K, NEW g, NEW b, MatchOf(q, a, d, w, K, g, b),
         NEW w2, Shorter(w, 1, w2), LiveRequest(w[1], K), "worker" \in g,
         NEW p, p.req.id[2] = w[1].id[2], LiveWork(p, g, K) <=> "dma" \in g,
         NEW d2, Longer(d, p, d2)
  PROVE  MatchOf(q, a, d2, w2, K, g, b)
  <1> DEFINE A == ANums(a, K)
             D == DNums(d, g, K)
             W == WNums(w, K)
             Q == QNums(q)
             x == w[1].id[2]
  <1>1. /\ Aligned(A, D, W, Q, g) /\ b \in Nat /\ Q \subseteq 1 .. b
        /\ QRise(q) /\ ARise(a, K) /\ WRise(w, K) /\ DRise(d, g, K)
    BY DEF MatchOf
  <1>2. /\ WRise(w2, K) /\ x \in W /\ Below({x}, W \ {x}) /\ WNums(w2, K) = W \ {x}
    <2>1. WNums(w, K) \subseteq Nat
      BY MatchNumbers
    <2>2. \A j \in 1 .. (1 - 1) : ~LiveRequest(w[j], K)
      OBVIOUS
    <2>3. /\ WRise(w2, K)
          /\ LiveRequest(w[1], K) =>
               /\ w[1].id[2] \in WNums(w, K) /\ Below({w[1].id[2]}, WNums(w, K) \ {w[1].id[2]})
               /\ WNums(w2, K) = WNums(w, K) \ {w[1].id[2]}
          /\ ~LiveRequest(w[1], K) => WNums(w2, K) = WNums(w, K)
      BY <1>1, <2>1, <2>2, RequestsShortened
    <2>. QED BY <2>3, Zenon DEF W, x
  <1>3. p.req.id[2] = x
    OBVIOUS
  <1>4. Below(D, {x})
    BY <1>1, <1>2 DEF Aligned, Below
  <1>5. CASE "dma" \in g
    <2>1. LiveWork(p, g, K)
      BY <1>5
    <2>2. /\ DNums(d2, g, K) = DNums(d, g, K) \cup {p.req.id[2]}
          /\ DRise(d, g, K) /\ Below(DNums(d, g, K), {p.req.id[2]}) => DRise(d2, g, K)
      BY <2>1, WorksAppended
    <2>3. DNums(d2, g, K) = D \cup {x} /\ DRise(d2, g, K)
      BY <1>1, <1>3, <1>4, <2>2, Zenon DEF D
    <2> HIDE DEF A, D, W, Q, x
    <2>4. Aligned(A, D \cup {x}, W \ {x}, Q, g)
      BY <1>1, <1>2, <1>5, AlignedArrived
    <2> USE DEF A, Q
    <2>. QED BY <1>1, <1>2, <2>3, <2>4 DEF MatchOf
  <1>6. CASE "dma" \notin g
    <2>1. ~LiveWork(p, g, K)
      BY <1>6
    <2>2. DNums(d2, g, K) = DNums(d, g, K) /\ (DRise(d, g, K) => DRise(d2, g, K))
      BY <2>1, WorksAppended
    <2>3. ~(Working \subseteq g)
      BY <1>6 DEF Working
    <2> HIDE DEF A, D, W, Q, x
    <2>4. Aligned(A, D, W \ {x}, Q, g)
      BY <1>1, <1>2, <2>3, AlignedArrived
    <2> USE DEF A, D, Q
    <2>. QED BY <1>1, <1>2, <2>2, <2>4 DEF MatchOf
  <1>. QED BY <1>5, <1>6

\* ... and by one that cannot post it.
LEMMA MatchStuck ==
  ASSUME NEW q, NEW a, NEW d, NEW w, NEW K, NEW g, NEW b, MatchOf(q, a, d, w, K, g, b),
         NEW w2, Shorter(w, 1, w2), LiveRequest(w[1], K),
         NEW h, h \subseteq g, "worker" \notin h, "dma" \in h <=> "dma" \in g
  PROVE  MatchOf(q, a, d, w2, K, h, b)
  <1> DEFINE A == ANums(a, K)
             D == DNums(d, g, K)
             W == WNums(w, K)
             Q == QNums(q)
             x == w[1].id[2]
  <1>1. /\ Aligned(A, D, W, Q, g) /\ b \in Nat /\ Q \subseteq 1 .. b
        /\ QRise(q) /\ ARise(a, K) /\ WRise(w, K) /\ DRise(d, g, K)
    BY DEF MatchOf
  <1>2. /\ WRise(w2, K) /\ x \in W /\ Below({x}, W \ {x}) /\ WNums(w2, K) = W \ {x}
    <2>1. WNums(w, K) \subseteq Nat
      BY MatchNumbers
    <2>2. \A j \in 1 .. (1 - 1) : ~LiveRequest(w[j], K)
      OBVIOUS
    <2>3. /\ WRise(w2, K)
          /\ LiveRequest(w[1], K) =>
               /\ w[1].id[2] \in WNums(w, K) /\ Below({w[1].id[2]}, WNums(w, K) \ {w[1].id[2]})
               /\ WNums(w2, K) = WNums(w, K) \ {w[1].id[2]}
          /\ ~LiveRequest(w[1], K) => WNums(w2, K) = WNums(w, K)
      BY <1>1, <2>1, <2>2, RequestsShortened
    <2>. QED BY <2>3, Zenon DEF W, x
  <1>3. WorkPos(d, h, K) = WorkPos(d, g, K)
    BY DEF WorkPos, LiveWork
  <1>4. DNums(d, h, K) = D /\ DRise(d, h, K)
    BY <1>1, <1>3 DEF DNums, DRise
  <1>5. ~(Working \subseteq h)
    BY DEF Working
  <1> HIDE DEF A, D, W, Q, x
  <1>6. Aligned(A, D, W \ {x}, Q, h)
    BY <1>1, <1>2, <1>5, AlignedArrived
  <1> USE DEF A, Q
  <1>. QED BY <1>1, <1>2, <1>4, <1>6 DEF MatchOf

\* The DMA link is done with the oldest request, and the answer is sent.
LEMMA MatchDone ==
  ASSUME NEW q, NEW a, NEW d, NEW w, NEW K, NEW g, NEW b, MatchOf(q, a, d, w, K, g, b),
         NEW k, NEW d2, Shorter(d, k, d2), LiveWork(d[k], g, K),
         \A j \in 1 .. (k - 1) : ~LiveWork(d[j], g, K),
         NEW p, p.id[2] = d[k].req.id[2], LiveAnswer(p, K) <=> "server" \in g \/ "order" \notin g,
         NEW a2, Longer(a, p, a2)
  PROVE  MatchOf(q, a2, d2, w, K, g, b)
  <1> DEFINE A == ANums(a, K)
             D == DNums(d, g, K)
             W == WNums(w, K)
             Q == QNums(q)
             x == d[k].req.id[2]
  <1>1. /\ Aligned(A, D, W, Q, g) /\ b \in Nat /\ Q \subseteq 1 .. b
        /\ QRise(q) /\ ARise(a, K) /\ WRise(w, K) /\ DRise(d, g, K)
    BY DEF MatchOf
  <1>2. /\ DRise(d2, g, K) /\ x \in D /\ Below({x}, D \ {x}) /\ DNums(d2, g, K) = D \ {x}
    <2>1. DNums(d, g, K) \subseteq Nat
      BY MatchNumbers
    <2>2. DoneAt(d, k, d2, g, K)
      BY <1>1, <2>1 DEF DoneAt
    <2>3. WorksLeft(d, k, d2, g, K)
      BY <2>2, WorksShortened
    <2>. QED BY <2>3, Zenon DEF WorksLeft, D, x
  <1>3. p.id[2] = x
    OBVIOUS
  <1>4. Below(A, {x})
    BY <1>1, <1>2 DEF Aligned, Below
  <1>5. CASE "server" \in g \/ "order" \notin g
    <2>1. LiveAnswer(p, K)
      BY <1>5
    <2>2. /\ ANums(a2, K) = ANums(a, K) \cup {p.id[2]}
          /\ ARise(a, K) /\ Below(ANums(a, K), {p.id[2]}) => ARise(a2, K)
      BY <2>1, AnswersAppended
    <2>3. ANums(a2, K) = A \cup {x} /\ ARise(a2, K)
      BY <1>1, <1>3, <1>4, <2>2, Zenon DEF A
    <2> HIDE DEF A, D, W, Q, x
    <2>4. Aligned(A \cup {x}, D \ {x}, W, Q, g)
      BY <1>1, <1>2, <1>5, AlignedDone
    <2> USE DEF W, Q
    <2>. QED BY <1>1, <1>2, <2>3, <2>4 DEF MatchOf
  <1>6. CASE "server" \notin g /\ "order" \in g
    <2>1. ~LiveAnswer(p, K)
      BY <1>6
    <2>2. ANums(a2, K) = ANums(a, K) /\ (ARise(a, K) => ARise(a2, K))
      BY <2>1, AnswersAppended
    <2> HIDE DEF A, D, W, Q, x
    <2>3. Aligned(A, D \ {x}, W, Q, g)
      BY <1>1, <1>2, <1>6, AlignedDone
    <2> USE DEF A, W, Q
    <2>. QED BY <1>1, <1>2, <2>2, <2>3 DEF MatchOf
  <1>. QED BY <1>5, <1>6

\* ... and the answer cannot be posted.
LEMMA MatchUnanswered ==
  ASSUME NEW q, NEW a, NEW d, NEW w, NEW K, NEW g, NEW b, MatchOf(q, a, d, w, K, g, b),
         NEW k, NEW d2, Shorter(d, k, d2), LiveWork(d[k], g, K),
         \A j \in 1 .. (k - 1) : ~LiveWork(d[j], g, K),
         NEW h, h \subseteq g, "server" \notin h, "dma" \in h <=> "dma" \in g
  PROVE  MatchOf(q, a, d2, w, K, h, b)
  <1> DEFINE A == ANums(a, K)
             D == DNums(d, g, K)
             W == WNums(w, K)
             Q == QNums(q)
             x == d[k].req.id[2]
  <1>1. /\ Aligned(A, D, W, Q, g) /\ b \in Nat /\ Q \subseteq 1 .. b
        /\ QRise(q) /\ ARise(a, K) /\ WRise(w, K) /\ DRise(d, g, K)
    BY DEF MatchOf
  <1>2. /\ DRise(d2, g, K) /\ x \in D /\ Below({x}, D \ {x}) /\ DNums(d2, g, K) = D \ {x}
    <2>1. DNums(d, g, K) \subseteq Nat
      BY MatchNumbers
    <2>2. DoneAt(d, k, d2, g, K)
      BY <1>1, <2>1 DEF DoneAt
    <2>3. WorksLeft(d, k, d2, g, K)
      BY <2>2, WorksShortened
    <2>. QED BY <2>3, Zenon DEF WorksLeft, D, x
  <1>3. WorkPos(d2, h, K) = WorkPos(d2, g, K)
    BY DEF WorkPos, LiveWork
  <1>4. DNums(d2, h, K) = D \ {x} /\ DRise(d2, h, K)
    BY <1>2, <1>3 DEF DNums, DRise
  <1> HIDE DEF A, D, W, Q, x
  <1>5. Aligned(A, D \ {x}, W, Q, h)
    BY <1>1, <1>2, AlignedDone
  <1> USE DEF A, W, Q
  <1>. QED BY <1>1, <1>4, <1>5 DEF MatchOf

\* The oldest answer is received: there is a request at the head of the queue, its
\* own while the order holds.
LEMMA MatchAnswered ==
  ASSUME NEW S, NEW q \in Seq(S), NEW a, NEW d, NEW w, NEW K, NEW g, NEW b,
         MatchOf(q, a, d, w, K, g, b), NEW a2, Shorter(a, 1, a2), LiveAnswer(a[1], K), Orderly(g)
  PROVE  /\ q # <<>> /\ ("order" \in g => q[1].id[2] = a[1].id[2])
         /\ \A q2 : Shorter(q, 1, q2) => MatchOf(q2, a2, d, w, K, g, b)
  <1> DEFINE A == ANums(a, K)
             D == DNums(d, g, K)
             W == WNums(w, K)
             Q == QNums(q)
             x == a[1].id[2]
             y == q[1].id[2]
  <1>1. /\ Aligned(A, D, W, Q, g) /\ b \in Nat /\ Q \subseteq 1 .. b
        /\ QRise(q) /\ ARise(a, K) /\ WRise(w, K) /\ DRise(d, g, K)
    BY DEF MatchOf
  <1>0. A \subseteq Nat /\ Q \subseteq Nat
    BY MatchNumbers
  <1>2. /\ ARise(a2, K) /\ x \in A /\ Below({x}, A \ {x}) /\ ANums(a2, K) = A \ {x}
    <2>2. \A j \in 1 .. (1 - 1) : ~LiveAnswer(a[j], K)
      OBVIOUS
    <2>3. /\ ARise(a2, K)
          /\ LiveAnswer(a[1], K) =>
               /\ a[1].id[2] \in ANums(a, K) /\ Below({a[1].id[2]}, ANums(a, K) \ {a[1].id[2]})
               /\ ANums(a2, K) = ANums(a, K) \ {a[1].id[2]}
          /\ ~LiveAnswer(a[1], K) => ANums(a2, K) = ANums(a, K)
      BY <1>0, <1>1, <2>2, AnswersShortened
    <2>. QED BY <2>3, Zenon DEF A, x
  <1> HIDE DEF A, D, W, Q, x, y
  <1>3. x \in Q
    BY <1>1, <1>2 DEF Aligned
  <1>4. q # <<>> /\ y \in Q /\ Below({y}, Q \ {y})
    BY <1>0, <1>1, <1>3, QueueHead DEF Q, y
  <1>6. Aligned(A \ {x}, D, W, Q \ {y}, g) /\ ("order" \in g => x = y)
    <2>1. Aligned(A, D, W, Q, g) /\ Least(x, A) /\ Least(y, Q)
      BY <1>1, <1>2, <1>4 DEF Least
    <2>. QED BY <2>1, AlignedAnswered
  <1>5. ASSUME NEW q2, Shorter(q, 1, q2) PROVE MatchOf(q2, a2, d, w, K, g, b)
    <2>1. QRise(q2) /\ QNums(q2) = QNums(q) \ {q[1].id[2]}
      BY <1>0, <1>1, <1>5, QueueShortened DEF Q
    <2>2. QNums(q2) = Q \ {y}
      BY <2>1, Zenon DEF Q, y
    <2>3. Q \ {y} \subseteq 1 .. b
      BY <1>1
    <2> USE DEF D, W
    <2>. QED BY <1>1, <1>2, <1>6, <2>1, <2>2, <2>3 DEF MatchOf
  <1>. QED BY <1>4, <1>5, <1>6 DEF x, y

\* The DMA link fails.
LEMMA MatchFailed ==
  ASSUME NEW q, NEW a, NEW d, NEW w, NEW K, NEW g, NEW b, MatchOf(q, a, d, w, K, g, b),
         NEW i, NEW d2, Executed(d, i, "error", d2), PendingBehind(d), Len(d) \in Nat,
         NEW h, h \subseteq g, "dma" \notin h
  PROVE  MatchOf(q, a, d2, w, K, h, b)
  <1> DEFINE A == ANums(a, K)
             D == DNums(d, g, K)
             E == DNums(d2, h, K)
             W == WNums(w, K)
             Q == QNums(q)
  <1>1. /\ Aligned(A, D, W, Q, g) /\ b \in Nat /\ Q \subseteq 1 .. b
        /\ QRise(q) /\ ARise(a, K) /\ WRise(w, K) /\ DRise(d, g, K)
    BY DEF MatchOf
  <1>2. D \subseteq Nat
    BY MatchNumbers
  <1>3. E \subseteq D /\ DRise(d2, h, K) /\ Down(E, E, D)
    BY <1>1, <1>2, WorkFailed
  <1> HIDE DEF A, D, E, W, Q
  <1>4. Aligned(A, E, W, Q, h)
    BY <1>1, <1>3, AlignedFailed
  <1> USE DEF A, E, W, Q
  <1>. QED BY <1>1, <1>3, <1>4 DEF MatchOf

-----------------------------------------------------------------------------
(***************************************************************************)
(* The inductive invariant, part by part.                                  *)
(***************************************************************************)
Elems(s) == {s[i] : i \in 1 .. Len(s)}

\* What a host has posted and its NIC has not yet taken is numbered in order.
\* Once the DMA link has failed, the last of it may be lost.
Served(n) == IF host[n] = <<>> THEN posted[n] ELSE host[n][1].id[2] - 1

HostOf(n) ==
  /\ posted[n] <= MaxPosts[n] /\ Served(n) \in Nat
  /\ \A i \in 1 .. Len(host[n]) : host[n][i].id = <<n, Served(n) + i>>
  /\ Served(n) + Len(host[n]) <= posted[n]
  /\ ~dmaErr[n] => Served(n) + Len(host[n]) = posted[n]

HostInv ==
  /\ posted \in [Nics -> Nat] /\ host \in [Nics -> Seq(Request)] /\ dmaErr \in [Nics -> BOOLEAN]
  /\ \A n \in Nics : HostOf(n)

\* A packet from n is a request of its own, or answers one of the other NIC that
\* was carried out; X is what was carried out at n.
IsRequest(p) == p.eth \/ p.kind = "SEND"

PacketFrom(n, p, X) ==
  IF IsRequest(p) THEN p.id[1] = n ELSE p.id[1] = Other(n) /\ p.id \in X

WireInv ==
  /\ wire \in [Nics -> Seq(Packet)] /\ secured \in BOOLEAN
  /\ \A n \in Nics : \A p \in Elems(wire[n]) : PacketFrom(n, p, executed[n]) /\ p.mac = secured

\* A work of n carries out a request of the other NIC, or tells the host of one
\* of its own; Y is what it may tell it done, and by which answer.
Access == {"read", "write"}

WorkOf(n, w, X, Y) ==
  /\ w.op \in {"send", "read", "write"} => w.req.id[1] = Other(n)
  /\ w.op = "read" => w.req.kind = "READ"
  /\ w.op = "write" => w.req.kind = "WRITE"
  /\ w.op \in Access /\ w.status = "ok" => w.req.id \in X
  /\ w.op = "notice" => w.req.id = w.by
  /\ w.op \in {"answer", "ack"} => <<w.req.id, w.by>> \in Y

ReadPlaces(s) == {i \in 1 .. Len(s) : s[i].op = "read"}

DmaOf(n, s, X, Y, c) ==
  /\ \A w \in Elems(s) : WorkOf(n, w, X, Y)
  /\ PendingBehind(s)
  /\ Cardinality(ReadPlaces(s)) <= c

\* The answers of the other NIC were sent after it carried out a request, and
\* are for their own requests unless one was not sent and no MAC is checked.
InOrder(n) == secured \/ refused[Other(n)] = 0

Credited(n) == {x \in Ids \X executed[Other(n)] : InOrder(n) => x[1] = x[2]}

DmaInv ==
  /\ dma \in [Nics -> Seq(Work)] /\ dmaErr \in [Nics -> BOOLEAN] /\ spinning \in [Nics -> BOOLEAN]
  /\ pending_dma_req \in [Nics -> 0 .. ReadLimit]
  /\ \A n \in Nics :
       DmaOf(n, dma[n], executed[n], Credited(n), pending_dma_req[n])

Awaited(n, K) == IF K = "READ" THEN read_queue[n] ELSE write_queue[n]

Answered == {"READ", "WRITE"}

QueueInv ==
  /\ read_queue \in [Nics -> Seq(Request)] /\ write_queue \in [Nics -> Seq(Request)]
  /\ \A n \in Nics, K \in Answered : \A r \in Elems(Awaited(n, K)) : r.id[1] = n

\* What works for the requests of n.
Parts(n) ==
  {x \in Working \cup {"asker", "order"} :
     /\ x = "server" => refused[Other(n)] = 0
     /\ x = "dma" => ~dmaErr[Other(n)]
     /\ x = "worker" => ~spinning[Other(n)]
     /\ x = "asker" => ~secured \/ refused[n] = 0
     /\ x = "order" => InOrder(n)}

Match(n, K) ==
  MatchOf(Awaited(n, K), wire[Other(n)], dma[Other(n)], wire[n], K, Parts(n),
          Served(n))

MatchInv == \A n \in Nics, K \in Answered : Match(n, K)

HistoryInv ==
  /\ executed \in [Nics -> SUBSET Ids]
  /\ told \in [Nics -> SUBSET [id : Ids, by : Ids, outcome : {"done", "failed"}]]
  /\ dropped \in [Nics -> Nat]
  /\ AnswersMatch

NicInv == HostInv /\ WireInv /\ DmaInv /\ QueueInv /\ MatchInv /\ HistoryInv

\* Proved before: the numbers, and that the nonces are in step.
Numbers == NonceInv /\ HeaderTypes /\ FreeTypes

-----------------------------------------------------------------------------
(***************************************************************************)
(* Sequences whose elements have a type.                                   *)
(***************************************************************************)
LEMMA AppendedIn ==
  ASSUME NEW S, NEW s \in Seq(S), NEW x \in S
  PROVE  /\ Append(s, x) \in Seq(S) /\ Longer(s, x, Append(s, x))
         /\ Elems(Append(s, x)) = Elems(s) \cup {x}
  <1> DEFINE t == Append(s, x)
  <1>1. t \in Seq(S)
    BY AppendProperties
  <1>2. Longer(s, x, t)
    BY AppendIsLonger
  <1> HIDE DEF t
  <1>3. Elems(t) = Elems(s) \cup {x}
    BY <1>2 DEF Longer, Elems
  <1>. QED BY <1>1, <1>2, <1>3 DEF t

LEMMA TailIn ==
  ASSUME NEW S, NEW s \in Seq(S), s # <<>>
  PROVE  /\ Tail(s) \in Seq(S) /\ Shorter(s, 1, Tail(s))
         /\ Head(s) = s[1] /\ Head(s) \in S /\ Head(s) \in Elems(s)
         /\ Elems(Tail(s)) \subseteq Elems(s)
  <1> DEFINE t == Tail(s)
  <1>1. t \in Seq(S) /\ Head(s) \in S
    BY HeadTailProperties
  <1>2. Shorter(s, 1, t) /\ Head(s) = s[1]
    BY TailIsShorter
  <1> HIDE DEF t
  <1>3. Elems(t) \subseteq Elems(s)
    BY <1>2 DEF Shorter, Elems
  <1>4. Head(s) \in Elems(s)
    BY <1>2 DEF Shorter, Elems
  <1>. QED BY <1>1, <1>2, <1>3, <1>4 DEF t

LEMMA SuffixIn ==
  ASSUME NEW S, NEW s \in Seq(S), NEW k \in 1 .. Len(s)
  PROVE  /\ SubSeq(s, k + 1, Len(s)) \in Seq(S) /\ Shorter(s, k, SubSeq(s, k + 1, Len(s)))
         /\ Elems(SubSeq(s, k + 1, Len(s))) \subseteq Elems(s)
  <1> DEFINE t == SubSeq(s, k + 1, Len(s))
  <1>1. t \in Seq(S)
    <2>1. Len(s) \in Nat /\ \A i \in (k + 1) .. Len(s) : s[i] \in S
      BY ElementOfSeq, LenProperties
    <2>. QED BY <2>1, SubSeqProperties
  <1>2. Shorter(s, k, t)
    BY SuffixIsShorter
  <1> HIDE DEF t
  <1>3. Elems(t) \subseteq Elems(s)
    BY <1>2 DEF Shorter, Elems
  <1>. QED BY <1>1, <1>2, <1>3 DEF t

LEMMA ElemsIn ==
  ASSUME NEW S, NEW s \in Seq(S)
  PROVE  /\ Len(s) \in Nat /\ Elems(s) \subseteq S
         /\ \A i \in 1 .. Len(s) : s[i] \in S /\ s[i] \in Elems(s)
  BY ElementOfSeq, LenProperties DEF Elems

-----------------------------------------------------------------------------
(***************************************************************************)
(* The hosts.                                                              *)
(***************************************************************************)
LEMMA IdsAre ==
  ASSUME NEW n \in Nics, NEW i \in 1 .. MaxPosts[n]
  PROVE  <<n, i>> \in Ids
  <1>1. MaxPosts[1] \in Nat /\ MaxPosts[2] \in Nat
    BY SecureAssumption DEF Nics
  <1>2. i \in 1 .. (MaxPosts[1] + MaxPosts[2])
    BY <1>1 DEF Nics
  <1>. QED BY <1>2 DEF Ids

\* The request a host posts.
Posted(n, r) ==
  /\ posted' = Add(posted, n, 1) /\ posted[n] < MaxPosts[n]
  /\ host' = Put(host, n, r) /\ r \in Request /\ r.id = <<n, posted[n] + 1>>

LEMMA HostPostEffect ==
  ASSUME NEW n \in Nics, HostInv, HostPost(n)
  PROVE  \E r : Posted(n, r)
  <1>1. /\ posted \in [Nics -> Nat] /\ posted[n] < MaxPosts[n] /\ posted' = Add(posted, n, 1)
    BY DEF HostInv, HostPost
  <1>2. posted'[n] = posted[n] + 1 /\ posted[n] \in Nat /\ MaxPosts[n] \in Nat
    BY <1>1, SecureAssumption DEF Add
  <1>3. PICK q \in Offers[n] :
          host' = Put(host, n, [kind |-> q.kind, signaled |-> q.signaled, id |-> <<n, posted'[n]>>])
    BY DEF HostPost
  <1>4. q.kind \in Kinds /\ q.signaled \in BOOLEAN
    BY SecureAssumption
  <1> DEFINE r == [kind |-> q.kind, signaled |-> q.signaled, id |-> <<n, posted[n] + 1>>]
  <1>5. <<n, posted[n] + 1>> \in Ids
    <2>1. posted[n] + 1 \in 1 .. MaxPosts[n]
      BY <1>1, <1>2
    <2>. QED BY <2>1, IdsAre
  <1>6. r \in Request /\ r.id = <<n, posted[n] + 1>>
    BY <1>4, <1>5 DEF Request
  <1>7. host' = Put(host, n, r)
    BY <1>2, <1>3
  <1>. QED BY <1>1, <1>6, <1>7 DEF Posted

\* What is served stays so.
Serving == \A m \in Nics : Served(m) \in Nat /\ Served(m)' \in Nat /\ Served(m) <= Served(m)'

\* Only the host of n is concerned.
LEMMA OneHost ==
  ASSUME NEW n \in Nics, HostInv, posted' \in [Nics -> Nat], host' \in [Nics -> Seq(Request)],
         dmaErr' \in [Nics -> BOOLEAN],
         \A m \in Nics : m # n => /\ posted'[m] = posted[m] /\ host'[m] = host[m]
                                  /\ dmaErr'[m] = dmaErr[m],
         HostOf(n)', Served(n) <= Served(n)'
  PROVE  HostInv' /\ Serving
  <1>1. ASSUME NEW m \in Nics, m # n PROVE HostOf(m)' /\ Served(m)' = Served(m)
    <2>1. /\ posted'[m] = posted[m] /\ host'[m] = host[m] /\ dmaErr'[m] = dmaErr[m]
          /\ HostOf(m)
      BY <1>1 DEF HostInv
    <2>2. Served(m)' = Served(m)
      BY <2>1 DEF Served
    <2>. QED BY <2>1, <2>2 DEF HostOf
  <1>2. \A m \in Nics : HostOf(m)'
    BY <1>1
  <1>3. \A m \in Nics : Served(m) \in Nat /\ Served(m)' \in Nat
    BY <1>2 DEF HostInv, HostOf
  <1>4. \A m \in Nics : Served(m) <= Served(m)'
    <2> TAKE m \in Nics
    <2>1. CASE m = n
      BY <2>1
    <2>2. CASE m # n
      BY <1>1, <1>3, <2>2
    <2>. QED BY <2>1, <2>2
  <1>. QED BY <1>2, <1>3, <1>4 DEF HostInv, Serving

LEMMA PostKeepsHost ==
  ASSUME NEW n \in Nics, HostInv, NEW r, Posted(n, r), ~dmaErr[n], dmaErr' = dmaErr
  PROVE  HostInv' /\ Serving
  <1> DEFINE s == host[n]
             t == host'[n]
             c == Served(n)
  <1>1. /\ posted \in [Nics -> Nat] /\ host \in [Nics -> Seq(Request)] /\ posted[n] < MaxPosts[n]
        /\ MaxPosts[n] \in Nat /\ posted[n] \in Nat /\ r \in Request /\ c \in Nat
        /\ c + Len(s) = posted[n] /\ \A i \in 1 .. Len(s) : s[i].id = <<n, c + i>>
    BY SecureAssumption DEF HostInv, HostOf, Posted
  <1>2. posted' \in [Nics -> Nat] /\ posted'[n] = posted[n] + 1
        /\ \A m \in Nics : m # n => posted'[m] = posted[m]
    BY <1>1 DEF Posted, Add
  <1>3. Append(s, r) \in Seq(Request) /\ Longer(s, r, Append(s, r))
    BY <1>1, AppendedIn
  <1>4. /\ t = Append(s, r) /\ host' \in [Nics -> Seq(Request)]
        /\ \A m \in Nics : m # n => host'[m] = host[m]
    BY <1>1, <1>3 DEF Posted, Put
  <1>5. Longer(s, r, t) /\ Len(s) \in Nat /\ t \in Seq(Request) /\ s \in Seq(Request)
    BY <1>1, <1>3, <1>4 DEF Longer
  <1>6. r.id = <<n, posted[n] + 1>>
    BY DEF Posted
  <1>7. Served(n)' = c
    <2>1. Served(n)' = t[1].id[2] - 1
      <3>1. t # <<>>
        BY <1>5, EmptySeq DEF Longer
      <3>. QED BY <3>1 DEF Served
    <2>2. CASE s = <<>>
      <3>1. Len(s) = 0 /\ c = posted[n]
        BY <2>2 DEF Served
      <3>2. t[1] = r
        BY <1>5, <3>1 DEF Longer
      <3>3. t[1].id[2] = posted[n] + 1
        BY <1>6, <3>2
      <3>. QED BY <1>1, <2>1, <3>1, <3>3
    <2>3. CASE s # <<>>
      <3>1. 1 \in 1 .. Len(s)
        BY <1>5, <2>3, EmptySeq
      <3>2. t[1] = s[1] /\ s[1].id[2] = c + 1
        BY <1>1, <1>5, <3>1 DEF Longer
      <3>. QED BY <1>1, <2>1, <3>2
    <2>. QED BY <2>2, <2>3
  <1> HIDE DEF s, t, c
  <1>8. \A i \in 1 .. Len(t) : t[i].id = <<n, c + i>>
    <2> TAKE i \in 1 .. Len(t)
    <2>2. CASE i \in 1 .. Len(s)
      BY <1>1, <1>5, <2>2 DEF Longer
    <2>3. CASE i = Len(s) + 1
      <3>1. t[i] = r
        BY <1>5, <2>3 DEF Longer
      <3>2. c + i = posted[n] + 1
        BY <1>1, <1>5, <2>3
      <3>. QED BY <1>6, <3>1, <3>2
    <2>. QED BY <1>5, <2>2, <2>3 DEF Longer
  <1>9. c + Len(t) = posted'[n] /\ posted'[n] <= MaxPosts[n]
    <2>1. Len(t) = Len(s) + 1
      BY <1>5 DEF Longer
    <2>2. \A a, l, e, k \in Nat : a + l = e /\ e < k => a + (l + 1) = e + 1 /\ e + 1 <= k
      OBVIOUS
    <2>. QED BY <1>1, <1>2, <1>5, <2>1, <2>2
  <1>10. HostOf(n)'
    <2>1. posted'[n] <= posted'[n]
      BY <1>2
    <2>. QED BY <1>1, <1>7, <1>8, <1>9, <2>1 DEF HostOf, t
  <1>11. Served(n) <= Served(n)'
    BY <1>1, <1>7 DEF c
  <1>12. dmaErr' \in [Nics -> BOOLEAN]
    BY DEF HostInv
  <1>. QED BY <1>2, <1>4, <1>10, <1>11, <1>12, OneHost

\* The NIC takes the oldest request of its host.
LEMMA TakeKeepsHost ==
  ASSUME NEW n \in Nics, HostInv, ProcessSendRequest(n)
  PROVE  /\ HostInv' /\ Serving
         /\ Head(host[n]) \in Request /\ Head(host[n]).id = <<n, Served(n) + 1>>
         /\ Served(n) \in Nat /\ Served(n) + 1 <= Served(n)'
  <1> DEFINE s == host[n]
             t == host'[n]
             c == Served(n)
             b == posted[n]
  <1>1. /\ posted \in [Nics -> Nat] /\ host \in [Nics -> Seq(Request)] /\ s # <<>>
        /\ dmaErr \in [Nics -> BOOLEAN]
        /\ posted' = posted /\ host' = Drop(host, n) /\ dmaErr' = dmaErr
        /\ b <= MaxPosts[n] /\ c \in Nat /\ b \in Nat
        /\ \A i \in 1 .. Len(s) : s[i].id = <<n, c + i>>
        /\ c + Len(s) <= b /\ (~dmaErr[n] => c + Len(s) = b)
    BY DEF HostInv, HostOf, ProcessSendRequest
  <1>2. /\ Tail(s) \in Seq(Request) /\ Shorter(s, 1, Tail(s)) /\ Head(s) = s[1] /\ Head(s) \in Request
    <2>1. s \in Seq(Request)
      BY <1>1
    <2>. QED BY <1>1, <2>1, TailIn
  <1>3. /\ t = Tail(s) /\ host' \in [Nics -> Seq(Request)]
        /\ \A m \in Nics : m # n => host'[m] = host[m]
    BY <1>1, <1>2 DEF Drop
  <1>4. /\ Len(s) \in Nat /\ 1 \in 1 .. Len(s) /\ Len(t) = Len(s) - 1 /\ t \in Seq(Request)
        /\ \A j \in 1 .. Len(t) : j + 1 \in 1 .. Len(s) /\ t[j] = s[j + 1]
    BY <1>2, <1>3 DEF Shorter
  <1>5. Head(s) \in Request /\ Head(s).id = <<n, c + 1>>
    BY <1>1, <1>2, <1>4
  <1>6. CASE t = <<>>
    <2>1. Served(n)' = b /\ Len(t) = 0 /\ Len(s) = 1
      BY <1>1, <1>4, <1>6 DEF Served
    <2> HIDE DEF s, t, c, b
    <2>2. c + 1 <= b /\ b + Len(t) = b /\ b <= b
      BY <1>1, <2>1
    <2>3. \A i \in 1 .. Len(t) : t[i].id = <<n, b + i>>
      BY <2>1
    <2>4. HostOf(n)' /\ c + 1 <= Served(n)'
      BY <1>1, <2>1, <2>2, <2>3 DEF HostOf, t, b
    <2>5. Served(n) <= Served(n)'
      BY <1>1, <2>1, <2>2 DEF c
    <2>. QED BY <1>1, <1>3, <1>5, <2>4, <2>5, OneHost DEF c, s
  <1>7. CASE t # <<>>
    <2>1. 1 \in 1 .. Len(t)
      BY <1>4, <1>7, EmptySeq
    <2>2. t[1] = s[2] /\ s[2].id[2] = c + 2
      BY <1>1, <1>4, <2>1
    <2>3. Served(n)' = c + 1
      BY <1>1, <1>7, <2>2 DEF Served
    <2> HIDE DEF s, t, c, b
    <2>4. \A i \in 1 .. Len(t) : t[i].id = <<n, (c + 1) + i>>
      <3> TAKE i \in 1 .. Len(t)
      <3>1. t[i] = s[i + 1] /\ s[i + 1].id = <<n, c + (i + 1)>> /\ i \in Nat
        BY <1>1, <1>4
      <3>2. c + (i + 1) = (c + 1) + i
        BY <1>1, <3>1
      <3>. QED BY <3>1, <3>2
    <2>5. (c + 1) + Len(t) = c + Len(s) /\ c + 1 <= c + 1 /\ c <= c + 1 /\ c + 1 \in Nat
      BY <1>1, <1>4
    <2>6. HostOf(n)' /\ c + 1 <= Served(n)'
      BY <1>1, <2>3, <2>4, <2>5 DEF HostOf, t, b
    <2>7. Served(n) <= Served(n)'
      BY <2>3, <2>5 DEF c
    <2>. QED BY <1>1, <1>3, <1>5, <2>6, <2>7, OneHost DEF c, s
  <1>. QED BY <1>6, <1>7

\* The failing link loses what has not arrived.
LEMMA CutKeepsHost ==
  ASSUME NEW n \in Nics, HostInv, CutOff(n), posted' = posted, dmaErr' = [dmaErr EXCEPT ![n] = TRUE]
  PROVE  HostInv' /\ Serving
  <1> DEFINE s == host[n]
             t == host'[n]
             c == Served(n)
             b == posted[n]
  <1>1. /\ posted \in [Nics -> Nat] /\ host \in [Nics -> Seq(Request)] /\ s \in Seq(Request)
        /\ dmaErr \in [Nics -> BOOLEAN]
        /\ b <= MaxPosts[n] /\ c \in Nat /\ b \in Nat
        /\ \A i \in 1 .. Len(s) : s[i].id = <<n, c + i>>
        /\ c + Len(s) <= b
    BY DEF HostInv, HostOf
  <1>2. PICK k \in 0 .. Len(s) : host' = [host EXCEPT ![n] = SubSeq(s, 1, k)]
    BY DEF CutOff
  <1>3. Len(s) \in Nat
    BY <1>1, LenProperties
  <1>4. /\ SubSeq(s, 1, k) \in Seq(Request) /\ Len(SubSeq(s, 1, k)) = k
        /\ \A i \in 1 .. k : SubSeq(s, 1, k)[i] = s[i]
    <2>1. \A i \in 1 .. k : i \in 1 .. Len(s)
      BY <1>3
    <2>2. \A i \in 1 .. k : s[i] \in Request
      BY <1>1, <2>1, ElementOfSeq
    <2>3. 1 \in Nat /\ k \in Nat /\ (IF 1 <= k THEN k - 1 + 1 ELSE 0) = k
      BY <1>3
    <2>. QED BY <1>3, <2>2, <2>3, SubSeqProperties
  <1>5. /\ t = SubSeq(s, 1, k) /\ host' \in [Nics -> Seq(Request)]
        /\ \A m \in Nics : m # n => host'[m] = host[m]
    BY <1>1, <1>2, <1>4
  <1>6. Len(t) = k /\ k \in Nat /\ k <= Len(s) /\ t \in Seq(Request) /\ \A i \in 1 .. k : t[i] = s[i] /\ i \in 1 .. Len(s)
    BY <1>3, <1>4, <1>5
  <1>7. dmaErr'[n] /\ dmaErr' \in [Nics -> BOOLEAN] /\ \A m \in Nics : m # n => dmaErr'[m] = dmaErr[m]
    BY <1>1
  <1>8. CASE t = <<>>
    <2>1. Served(n)' = b /\ Len(t) = 0
      BY <1>8 DEF Served
    <2> HIDE DEF s, t, c, b
    <2>2. c <= b /\ b + Len(t) <= b
      BY <1>1, <1>3, <2>1
    <2>3. \A i \in 1 .. Len(t) : t[i].id = <<n, b + i>>
      BY <2>1
    <2>4. HostOf(n)'
      BY <1>1, <1>7, <2>1, <2>2, <2>3 DEF HostOf, t, b
    <2>5. Served(n) <= Served(n)'
      BY <2>1, <2>2 DEF c
    <2>. QED BY <1>1, <1>5, <1>7, <2>4, <2>5, OneHost
  <1>9. CASE t # <<>>
    <2>1. 1 \in 1 .. k
      BY <1>6, <1>9, EmptySeq
    <2>2. t[1] = s[1] /\ s[1].id[2] = c + 1
      BY <1>1, <1>6, <2>1
    <2>3. Served(n)' = c
      BY <1>1, <1>9, <2>2 DEF Served
    <2> HIDE DEF s, t, c, b
    <2>4. \A i \in 1 .. Len(t) : t[i].id = <<n, c + i>>
      BY <1>1, <1>6
    <2>5. c + Len(t) <= b /\ c <= c
      BY <1>1, <1>3, <1>6
    <2>6. HostOf(n)'
      BY <1>1, <1>7, <2>3, <2>4, <2>5 DEF HostOf, t, b
    <2>7. Served(n) <= Served(n)'
      BY <2>3, <2>5 DEF c
    <2>. QED BY <1>1, <1>5, <1>7, <2>6, <2>7, OneHost
  <1>. QED BY <1>8, <1>9

LEMMA NextHost == HostInv /\ [Next]_vars => HostInv' /\ Serving
  <1> SUFFICES ASSUME HostInv, [Next]_vars PROVE HostInv' /\ Serving
    OBVIOUS
  <1>1. ASSUME UNCHANGED <<posted, host, dmaErr>> PROVE HostInv' /\ Serving
    <2>1. \A m \in Nics : Served(m)' = Served(m) /\ Served(m) \in Nat /\ Served(m) <= Served(m)
      BY <1>1 DEF HostInv, HostOf, Served
    <2>2. \A m \in Nics : HostOf(m)'
      BY <1>1, <2>1 DEF HostInv, HostOf
    <2>. QED BY <1>1, <2>1, <2>2 DEF HostInv, Serving
  <1>2. ASSUME NEW n \in Nics, Nic(n) PROVE HostInv' /\ Serving
    <2>1. CASE HostPost(n)
      <3>1. ~dmaErr[n] /\ dmaErr' = dmaErr
        BY <2>1 DEF HostPost
      <3>. QED BY <2>1, <3>1, HostPostEffect, PostKeepsHost
    <2>2. CASE ProcessSendRequest(n)
      BY <2>2, TakeKeepsHost
    <2>3. CASE RejectPacket(n) \/ ReceiveRequest(n) \/ ReceiveReadAnswer(n) \/ ReceiveWriteAnswer(n)
      BY <1>1, <2>3 DEF RejectPacket, ReceiveRequest, ReceiveReadAnswer, ReceiveWriteAnswer, Polled
    <2>4. CASE DmaRecvFlushed(n) \/ PollClientSendCompletion(n)
      BY <1>1, <2>4 DEF DmaRecvFlushed, PollClientSendCompletion
    <2>5. CASE DmaDone(n) \/ DmaReadDone(n) \/ DmaWriteDone(n)
      BY <1>1, <2>5 DEF DmaDone, DmaReadDone, DmaWriteDone, Completed
    <2>6. CASE DmaExecute(n)
      <3>1. PICK ok \in BOOLEAN :
              /\ ok => ~dmaErr[n]
              /\ dmaErr' = [dmaErr EXCEPT ![n] = ~ok] /\ posted' = posted
              /\ IF ok \/ dmaErr[n] THEN UNCHANGED host ELSE CutOff(n)
        BY <2>6 DEF DmaExecute
      <3>2. dmaErr \in [Nics -> BOOLEAN]
        BY DEF HostInv
      <3>3. CASE ok \/ dmaErr[n]
        <4>1. dmaErr' = dmaErr
          BY <3>1, <3>2, <3>3
        <4>. QED BY <1>1, <3>1, <3>3, <4>1
      <3>4. CASE ~ok /\ ~dmaErr[n]
        BY <3>1, <3>4, CutKeepsHost
      <3>. QED BY <3>3, <3>4
    <2>. QED BY <1>2, <2>1, <2>2, <2>3, <2>4, <2>5, <2>6 DEF Nic
  <1>3. CASE UNCHANGED vars
    BY <1>1, <1>3 DEF vars
  <1>. QED BY <1>2, <1>3 DEF Next

-----------------------------------------------------------------------------
(***************************************************************************)
(* The wires.                                                              *)
(***************************************************************************)
\* What was carried out stays so.
Growing == \A m \in Nics : executed[m] \subseteq executed'[m]

LEMMA ExecutedGrows == HistoryInv /\ [Next]_vars => Growing
  <1> USE DEF Growing
  <1> SUFFICES ASSUME HistoryInv, [Next]_vars PROVE Growing
    OBVIOUS
  <1>0. executed \in [Nics -> SUBSET Ids]
    BY DEF HistoryInv
  <1>1. ASSUME executed' = executed PROVE \A m \in Nics : executed[m] \subseteq executed'[m]
    BY <1>1
  <1>2. ASSUME NEW n \in Nics, Nic(n) PROVE \A m \in Nics : executed[m] \subseteq executed'[m]
    <2>1. CASE DmaExecute(n)
      <3>1. \/ executed' = executed
            \/ \E x : executed' = [executed EXCEPT ![n] = @ \cup {x}]
        BY <2>1 DEF DmaExecute
      <3>. QED BY <1>0, <3>1
    <2>2. CASE HostPost(n) \/ ProcessSendRequest(n) \/ DmaRecvFlushed(n) \/ PollClientSendCompletion(n)
      BY <1>1, <2>2 DEF HostPost, ProcessSendRequest, DmaRecvFlushed, PollClientSendCompletion, histories
    <2>3. CASE RejectPacket(n) \/ ReceiveRequest(n) \/ ReceiveReadAnswer(n) \/ ReceiveWriteAnswer(n)
      BY <1>1, <2>3 DEF RejectPacket, ReceiveRequest, ReceiveReadAnswer, ReceiveWriteAnswer, Polled
    <2>4. CASE DmaDone(n) \/ DmaReadDone(n) \/ DmaWriteDone(n)
      BY <1>1, <2>4 DEF DmaDone, DmaReadDone, DmaWriteDone, Completed
    <2>. QED BY <1>2, <2>1, <2>2, <2>3, <2>4 DEF Nic
  <1>3. CASE UNCHANGED vars
    BY <1>1, <1>3 DEF vars, histories
  <1>. QED BY <1>2, <1>3 DEF Next

\* The wire of n after a packet is sent, or after the post of one fails.
LEMMA SendEffectOnWire ==
  ASSUME NEW n \in Nics, WireInv, Numbers, NEW r \in Request, NEW eth \in BOOLEAN,
         NEW tag, NEW size, Send(n, r, eth, tag, size)
  PROVE  /\ Sealed(n, r, eth) \in Packet
         /\ wire' \in [Nics -> Seq(Packet)] /\ \A m \in Nics : m # n => wire'[m] = wire[m]
         /\ HasRoom(n) => /\ refused' = refused /\ Longer(wire[n], Sealed(n, r, eth), wire'[n])
                          /\ Elems(wire'[n]) = Elems(wire[n]) \cup {Sealed(n, r, eth)}
         /\ ~HasRoom(n) => wire' = wire /\ refused' = Add(refused, n, 1)
  <1> DEFINE p == Sealed(n, r, eth)
             s == wire[n]
  <1>1. /\ wire \in [Nics -> Seq(Packet)] /\ sendnonce[n] + 2 \in Nat /\ refused[n] \in Nat
        /\ secured \in BOOLEAN
    BY DEF WireInv, Numbers, NonceInv, NonceTypes
  <1>2. p \in Packet
    BY <1>1 DEF Packet, Request, Sealed
  <1>3. s \in Seq(Packet)
    BY <1>1
  <1>4. CASE HasRoom(n)
    <2>1. wire' = [wire EXCEPT ![n] = Append(s, p)] /\ refused' = refused
      BY <1>4 DEF Send, Put
    <2> HIDE DEF p, s
    <2>2. Append(s, p) \in Seq(Packet) /\ Longer(s, p, Append(s, p))
          /\ Elems(Append(s, p)) = Elems(s) \cup {p}
      BY <1>2, <1>3, AppendedIn
    <2>3. wire'[n] = Append(s, p) /\ wire' \in [Nics -> Seq(Packet)]
          /\ \A m \in Nics : m # n => wire'[m] = wire[m]
      BY <1>1, <2>1, <2>2
    <2>. QED BY <1>2, <1>4, <2>1, <2>2, <2>3 DEF p, s
  <1>5. CASE ~HasRoom(n)
    <2>1. wire' = wire /\ refused' = Add(refused, n, 1)
      BY <1>5 DEF Send
    <2>. QED BY <1>1, <1>2, <1>5, <2>1
  <1>. QED BY <1>4, <1>5

LEMMA SendKeepsWire ==
  ASSUME NEW n \in Nics, WireInv, Numbers, Growing, NEW r \in Request, NEW eth \in BOOLEAN,
         NEW tag, NEW size, Send(n, r, eth, tag, size),
         PacketFrom(n, Sealed(n, r, eth), executed'[n])
  PROVE  WireInv'
  <1> DEFINE p == Sealed(n, r, eth)
  <1>1. /\ wire' \in [Nics -> Seq(Packet)] /\ \A m \in Nics : m # n => wire'[m] = wire[m]
        /\ Elems(wire'[n]) \subseteq Elems(wire[n]) \cup {p}
    BY SendEffectOnWire
  <1>2. PacketFrom(n, p, executed'[n])
    OBVIOUS
  <1>5. p.mac = secured /\ secured' = secured
    BY DEF Sealed, Send
  <1> HIDE DEF p
  <1>3. \A m \in Nics : \A x \in Elems(wire[m]) : PacketFrom(m, x, executed'[m]) /\ x.mac = secured
    BY DEF WireInv, PacketFrom, Growing
  <1>4. \A m \in Nics : \A x \in Elems(wire'[m]) : PacketFrom(m, x, executed'[m]) /\ x.mac = secured'
    BY <1>1, <1>2, <1>3, <1>5
  <1>6. secured' \in BOOLEAN
    BY <1>5 DEF WireInv
  <1>. QED BY <1>1, <1>4, <1>6 DEF WireInv

\* The packet that arrives at n: it verifies, if it must, unless a post of the
\* other NIC failed before it was sent.
Received(n, p) ==
  LET o == Other(n)
  IN /\ wire[o] \in Seq(Packet) /\ wire[o] # <<>> /\ p = wire[o][1]
     /\ p \in Packet /\ PacketFrom(o, p, executed[o])
     /\ (Verified(n, p) <=> Verifies(p))
     /\ wire' \in [Nics -> Seq(Packet)] /\ wire'[n] = wire[n]
     /\ Shorter(wire[o], 1, wire'[o]) /\ Elems(wire'[o]) \subseteq Elems(wire[o])

LEMMA PolledEffect ==
  ASSUME NEW n \in Nics, WireInv, Numbers, Polled(n, Arriving(n))
  PROVE  Received(n, Arriving(n))
  <1> DEFINE o == Other(n)
             s == wire[o]
             p == Arriving(n)
  <1>0. o \in Nics /\ o # n /\ Other(o) = n
    BY OtherNic
  <1>1. /\ wire \in [Nics -> Seq(Packet)] /\ s \in Seq(Packet) /\ s # <<>>
        /\ wire' = [wire EXCEPT ![o] = Tail(s)] /\ p = Head(s)
    BY <1>0 DEF WireInv, Polled, Drop, Arriving
  <1> HIDE DEF o
  <1>2. /\ Tail(s) \in Seq(Packet) /\ Shorter(s, 1, Tail(s)) /\ Head(s) = s[1]
        /\ Head(s) \in Packet /\ Head(s) \in Elems(s) /\ Elems(Tail(s)) \subseteq Elems(s)
    BY <1>1, TailIn
  <1>3. wire'[o] = Tail(s) /\ wire'[n] = wire[n] /\ wire' \in [Nics -> Seq(Packet)]
    BY <1>0, <1>1, <1>2
  <1>4. PacketFrom(o, p, executed[o]) /\ p.mac = secured
    BY <1>0, <1>1, <1>2 DEF WireInv
  <1>5. Verified(n, p) <=> Verifies(p)
    <2>1. 1 \in 1 .. Len(s)
      BY <1>2 DEF Shorter
    <2>2. s[1].nonce = recvnonce[Other(o)] + 2 * (1 + s[1].gap) /\ recvnonce[n] \in Nat
      BY <1>0, <2>1 DEF Numbers, NonceInv, NoncesAgree, NonceTypes
    <2>3. p = s[1] /\ p.gap \in Nat
      BY <1>1, <1>2 DEF Packet
    <2>4. p.nonce = recvnonce[n] + 2 * (1 + p.gap)
      BY <1>0, <2>2, <2>3
    <2>5. \A c, g \in Nat : c + 2 * (1 + g) = c + 2 <=> g = 0
      OBVIOUS
    <2>6. p.nonce = recvnonce[n] + 2 <=> p.gap = 0
      BY <2>2, <2>3, <2>4, <2>5
    <2>. QED BY <1>4, <2>6 DEF Verified, Verifies
  <1>6. /\ s \in Seq(Packet) /\ s # <<>> /\ p = s[1] /\ p \in Packet
        /\ Shorter(s, 1, wire'[o]) /\ Elems(wire'[o]) \subseteq Elems(s)
    BY <1>1, <1>2, <1>3
  <1>. QED BY <1>3, <1>4, <1>5, <1>6, Zenon DEF Received, o, s, p

LEMMA PolledKeepsWire ==
  ASSUME NEW n \in Nics, WireInv, Numbers, Growing, Polled(n, Arriving(n))
  PROVE  WireInv'
  <1>1. Received(n, Arriving(n))
    BY PolledEffect
  <1>2. /\ wire' \in [Nics -> Seq(Packet)]
        /\ wire'[n] = wire[n] /\ Elems(wire'[Other(n)]) \subseteq Elems(wire[Other(n)])
    BY <1>1 DEF Received
  <1>3. \A m \in Nics : \A x \in Elems(wire[m]) : PacketFrom(m, x, executed'[m]) /\ x.mac = secured
    BY DEF WireInv, PacketFrom, Growing
  <1>6. secured' = secured /\ secured \in BOOLEAN
    BY DEF Polled, WireInv
  <1>4. \A m \in Nics : m = n \/ m = Other(n)
    BY DEF Nics, Other
  <1>5. \A m \in Nics : \A x \in Elems(wire'[m]) : PacketFrom(m, x, executed'[m]) /\ x.mac = secured'
    BY <1>2, <1>3, <1>4, <1>6
  <1>. QED BY <1>2, <1>5, <1>6 DEF WireInv

-----------------------------------------------------------------------------
(***************************************************************************)
(* The DMA links.                                                          *)
(***************************************************************************)
LEMMA ReadsFinite ==
  ASSUME NEW s, Len(s) \in Nat
  PROVE  Cardinality(ReadPlaces(s)) \in Nat /\ ReadPlaces(s) \subseteq 1 .. Len(s)
  <1>1. ReadPlaces(s) \subseteq 1 .. Len(s)
    BY DEF ReadPlaces
  <1>. QED BY <1>1, PlacesFinite

LEMMA DmaGrows ==
  ASSUME NEW n, NEW s, NEW X, NEW Y, NEW c, DmaOf(n, s, X, Y, c), NEW X2, X \subseteq X2,
         NEW Y2, Y \subseteq Y2
  PROVE  DmaOf(n, s, X2, Y2, c)
  BY DEF DmaOf, WorkOf

LEMMA DmaAppended ==
  ASSUME NEW n, NEW s, NEW X, NEW Y, NEW c \in Nat, DmaOf(n, s, X, Y, c),
         NEW w, WorkOf(n, w, X, Y), w.status = "pending",
         NEW t, Longer(s, w, t), Elems(t) = Elems(s) \cup {w},
         NEW e \in Nat, e = IF w.op = "read" THEN c + 1 ELSE c
  PROVE  DmaOf(n, t, X, Y, e)
  <1>1. /\ Len(s) \in Nat /\ Len(t) = Len(s) + 1 /\ t[Len(s) + 1] = w
        /\ \A i \in 1 .. Len(s) : t[i] = s[i]
        /\ \A i : i \in 1 .. Len(t) <=> i \in 1 .. Len(s) \/ i = Len(s) + 1
    BY DEF Longer
  <1>2. PendingBehind(t)
    <2>1. PendingBehind(s)
      BY DEF DmaOf
    <2>2. \A i \in 1 .. Len(s) : ~(Len(s) + 1 < i)
      BY <1>1
    <2>. QED BY <1>1, <2>1, <2>2 DEF PendingBehind
  <1>3. Cardinality(ReadPlaces(t)) <= e
    <2>1. /\ Cardinality(ReadPlaces(s)) \in Nat /\ ReadPlaces(s) \subseteq 1 .. Len(s)
          /\ Cardinality(ReadPlaces(s)) <= c
      BY <1>1, ReadsFinite DEF DmaOf
    <2>2. CASE w.op = "read"
      <3>1. ReadPlaces(t) = ReadPlaces(s) \cup {Len(s) + 1}
        BY <1>1, <2>2 DEF ReadPlaces
      <3>2. Cardinality(ReadPlaces(t)) = Cardinality(ReadPlaces(s)) + 1
        BY <1>1, <2>1, <3>1, OnePlaceMore
      <3>. QED BY <2>1, <2>2, <3>2
    <2>3. CASE w.op # "read"
      <3>1. ReadPlaces(t) = ReadPlaces(s)
        BY <1>1, <2>3 DEF ReadPlaces
      <3>. QED BY <2>1, <2>3, <3>1
    <2>. QED BY <2>2, <2>3
  <1>. QED BY <1>2, <1>3 DEF DmaOf

LEMMA DmaTaken ==
  ASSUME NEW n, NEW s, NEW X, NEW Y, NEW c \in Nat, DmaOf(n, s, X, Y, c),
         NEW k, NEW t, Shorter(s, k, t), Elems(t) \subseteq Elems(s),
         \A j \in 1 .. (k - 1) : s[j].op # "read"
  PROVE  /\ DmaOf(n, t, X, Y, c)
         /\ s[k].op = "read" => c - 1 \in Nat /\ DmaOf(n, t, X, Y, c - 1)
  <1> DEFINE l == Len(s)
             m == Len(t)
             R == ReadPlaces(s)
             T == ReadPlaces(t)
  <1>1. /\ l \in Nat /\ k \in 1 .. l /\ m = l - k /\ m \in Nat
        /\ \A j \in 1 .. m : j + k \in 1 .. l /\ t[j] = s[j + k]
    BY DEF Shorter
  <1>2. PendingBehind(t)
    <2>1. PendingBehind(s)
      BY DEF DmaOf
    <2> SUFFICES ASSUME NEW i \in 1 .. m, NEW j \in 1 .. m, i < j, t[i].status = "pending"
                 PROVE  t[j].status = "pending"
      BY DEF PendingBehind
    <2>2. i + k \in 1 .. l /\ j + k \in 1 .. l /\ t[i] = s[i + k] /\ t[j] = s[j + k]
      BY <1>1
    <2>3. i + k < j + k
      BY <1>1
    <2>4. s[i + k].status = "pending"
      BY <2>2
    <2>5. s[j + k].status = "pending"
      BY <2>1, <2>2, <2>3, <2>4 DEF PendingBehind
    <2>. QED BY <2>2, <2>5
  <1>3. /\ Cardinality(R) \in Nat /\ R \subseteq 1 .. l /\ Cardinality(R) <= c
        /\ Cardinality(T) \in Nat /\ T \subseteq 1 .. m
    BY <1>1, ReadsFinite DEF DmaOf
  <1>4. Shifted(R, T, l, k, m)
    <2>1. \A j \in 1 .. m : j \in T <=> j + k \in R
      BY <1>1 DEF ReadPlaces
    <2>2. \A j \in 1 .. (k - 1) : j \notin R
      BY DEF ReadPlaces
    <2>. QED BY <1>1, <1>3, <2>1, <2>2 DEF Shifted
  <1>5. s[k].op = "read" <=> k \in R
    BY <1>1 DEF ReadPlaces
  <1> HIDE DEF l, m, R, T
  <1>6. /\ k \in R => Cardinality(T) = Cardinality(R) - 1
        /\ k \notin R => Cardinality(T) = Cardinality(R)
    BY <1>4, PlacesShift
  <1>7. Cardinality(T) <= c /\ (k \in R => c - 1 \in Nat /\ Cardinality(T) <= c - 1)
    BY <1>3, <1>6
  <1>. QED BY <1>2, <1>5, <1>7 DEF DmaOf, T

LEMMA DmaExecuted ==
  ASSUME NEW n, NEW s, NEW X, NEW Y, NEW c, DmaOf(n, s, X, Y, c), Len(s) \in Nat,
         NEW i, NEW st, st \in {"ok", "error"}, NEW t, Executed(s, i, st, t),
         \A j \in 1 .. Len(s) : t[j].by = s[j].by,
         \A j \in 1 .. Len(s) : s[j].status = "pending" => i <= j,
         NEW X2, X \subseteq X2, st = "ok" /\ s[i].op \in Access => s[i].req.id \in X2
  PROVE  DmaOf(n, t, X2, Y, c)
  <1>1. /\ Len(t) = Len(s) /\ i \in 1 .. Len(s) /\ s[i].status = "pending"
        /\ \A j \in 1 .. Len(s) : /\ t[j].op = s[j].op /\ t[j].req = s[j].req /\ t[j].by = s[j].by
                                  /\ t[j].status = IF j = i THEN st ELSE s[j].status
    BY DEF Executed
  <1>2. ASSUME NEW j \in 1 .. Len(s) PROVE WorkOf(n, t[j], X2, Y)
    <2>1. WorkOf(n, s[j], X, Y)
      BY DEF DmaOf, Elems
    <2>2. t[j].status = "ok" /\ t[j].op \in Access => t[j].req.id \in X2
      BY <1>1, <2>1 DEF WorkOf
    <2>. QED BY <1>1, <2>1, <2>2 DEF WorkOf
  <1>3. PendingBehind(t)
    <2> SUFFICES ASSUME NEW k \in 1 .. Len(s), NEW j \in 1 .. Len(s), k < j, t[k].status = "pending"
                 PROVE  t[j].status = "pending"
      BY <1>1 DEF PendingBehind
    <2>1. k # i /\ s[k].status = "pending"
      BY <1>1
    <2>2. i <= k
      BY <2>1
    <2>3. j # i
      BY <1>1, <2>2
    <2>4. s[j].status = "pending"
      BY <2>1 DEF DmaOf, PendingBehind
    <2>. QED BY <1>1, <2>3, <2>4
  <1>4. ReadPlaces(t) = ReadPlaces(s)
    BY <1>1 DEF ReadPlaces
  <1>5. \A w \in Elems(t) : WorkOf(n, w, X2, Y)
    BY <1>1, <1>2 DEF Elems
  <1>. QED BY <1>3, <1>4, <1>5 DEF DmaOf

\* An answer that is credited stays so.
Crediting == \A m \in Nics : Credited(m) \subseteq Credited(m)'

\* All works of all NICs, and what they may tell, beside that of one step.
LEMMA DmaOnward ==
  ASSUME Growing, Crediting, dma' \in [Nics -> Seq(Work)], dmaErr' \in [Nics -> BOOLEAN],
         spinning' \in [Nics -> BOOLEAN], pending_dma_req' \in [Nics -> 0 .. ReadLimit],
         \A m \in Nics : DmaOf(m, dma'[m], executed[m], Credited(m), pending_dma_req'[m])
  PROVE  DmaInv'
  <1>1. ASSUME NEW m \in Nics
        PROVE  DmaOf(m, dma'[m], executed'[m], Credited(m)', pending_dma_req'[m])
    BY DmaGrows DEF Growing, Crediting
  <1>. QED BY <1>1 DEF DmaInv

LEMMA DmaSame ==
  ASSUME DmaInv, Growing, Crediting, UNCHANGED <<dma, dmaErr, spinning, pending_dma_req>>
  PROVE  DmaInv'
  BY DmaOnward DEF DmaInv

\* What is posted on dmacon, if there is room for it.
LEMMA PostKeepsDma ==
  ASSUME DmaInv, Growing, Crediting, NEW n \in Nics, NEW w \in Work, w.status = "pending",
         WorkOf(n, w, executed[n], Credited(n)), dmaErr' = dmaErr,
         spinning' \in [Nics -> BOOLEAN], pending_dma_req' \in [Nics -> 0 .. ReadLimit],
         \A m \in Nics : m # n => pending_dma_req'[m] = pending_dma_req[m],
         w.op = "read" => pending_dma_req'[n] = pending_dma_req[n] + 1,
         w.op # "read" => pending_dma_req'[n] = pending_dma_req[n],
         DmaFull(n) => dma' = dma, ~DmaFull(n) => dma' = Put(dma, n, w)
  PROVE  /\ DmaInv' /\ \A m \in Nics : m # n => dma'[m] = dma[m]
         /\ ~DmaFull(n) => Longer(dma[n], w, dma'[n])
  <1> DEFINE s == dma[n]
             X == executed[n]
             Y == Credited(n)
             c == pending_dma_req[n]
  <1>0. ReadLimit \in Nat
    BY SecureAssumption
  <1>1. /\ dma \in [Nics -> Seq(Work)] /\ s \in Seq(Work) /\ c \in Nat /\ DmaOf(n, s, X, Y, c)
        /\ \A m \in Nics : /\ pending_dma_req[m] \in Nat /\ pending_dma_req'[m] \in Nat
                           /\ DmaOf(m, dma[m], executed[m], Credited(m), pending_dma_req[m])
    BY <1>0 DEF DmaInv
  <1>2. ASSUME \A m \in Nics : DmaOf(m, dma'[m], executed[m], Credited(m), pending_dma_req'[m]),
               dma' \in [Nics -> Seq(Work)]
        PROVE  DmaInv'
    BY <1>2, DmaOnward DEF DmaInv
  <1>3. CASE DmaFull(n)
    <2>1. DmaOf(n, s, X, Y, pending_dma_req'[n])
      <3>1. Cardinality(ReadPlaces(s)) \in Nat
        BY <1>1, ElemsIn, ReadsFinite
      <3>2. c <= pending_dma_req'[n] /\ pending_dma_req'[n] \in Nat
        BY <1>1
      <3> HIDE DEF s, X, Y, c
      <3>. QED BY <1>1, <3>1, <3>2 DEF DmaOf
    <2>. QED BY <1>1, <1>2, <1>3, <2>1
  <1>4. CASE ~DmaFull(n)
    <2>1. Append(s, w) \in Seq(Work) /\ Longer(s, w, Append(s, w))
          /\ Elems(Append(s, w)) = Elems(s) \cup {w}
      BY <1>1, AppendedIn
    <2>2. /\ dma'[n] = Append(s, w) /\ dma' \in [Nics -> Seq(Work)]
          /\ \A m \in Nics : m # n => dma'[m] = dma[m]
      BY <1>1, <1>4, <2>1 DEF Put
    <2> DEFINE t == dma'[n]
               e == pending_dma_req'[n]
    <2>3. Longer(s, w, t) /\ Elems(t) = Elems(s) \cup {w}
      BY <2>1, <2>2
    <2>4. e \in Nat /\ e = IF w.op = "read" THEN c + 1 ELSE c
      BY <1>1
    <2>5. WorkOf(n, w, X, Y)
      OBVIOUS
    <2> HIDE DEF s, t, X, Y, c, e
    <2>6. DmaOf(n, t, X, Y, e)
      BY <1>1, <2>3, <2>4, <2>5, DmaAppended
    <2>7. \A m \in Nics : DmaOf(m, dma'[m], executed[m], Credited(m), pending_dma_req'[m])
      BY <1>1, <2>2, <2>6 DEF t, e, X, Y
    <2>. QED BY <1>2, <1>4, <2>2, <2>3, <2>7 DEF s, t
  <1>. QED BY <1>3, <1>4

\* The completion w of dmacon is at place k of its queue.
TakenAt(n, w, k) ==
  /\ k \in 1 .. Len(dma[n]) /\ w = dma[n][k] /\ w \in Work
  /\ w.status # "pending" /\ w.op # "notice"
  /\ \A j \in 1 .. (k - 1) : dma[n][j].op = "notice"
  /\ dma' \in [Nics -> Seq(Work)] /\ Shorter(dma[n], k, dma'[n])
  /\ Elems(dma'[n]) \subseteq Elems(dma[n])
  /\ \A m \in Nics : m # n => dma'[m] = dma[m]
  /\ WorkOf(n, w, executed[n], Credited(n))

LEMMA CompletedIs ==
  ASSUME DmaInv, NEW n \in Nics, NEW w, Completed(n, w)
  PROVE  \E k : TakenAt(n, w, k)
  <1> DEFINE s == dma[n]
  <1>1. PICK k \in Signaled(n) :
          /\ w = s[k] /\ w.status # "pending" /\ \A j \in Signaled(n) : k <= j
          /\ dma' = [dma EXCEPT ![n] = SubSeq(s, k + 1, Len(s))]
    BY DEF Completed
  <1>2. dma \in [Nics -> Seq(Work)] /\ s \in Seq(Work)
    BY DEF DmaInv
  <1>3. /\ Len(s) \in Nat /\ k \in 1 .. Len(s) /\ s[k].op # "notice" /\ s[k] \in Work
        /\ s[k] \in Elems(s)
    BY <1>2, ElemsIn DEF Signaled
  <1>4. \A j \in 1 .. (k - 1) : s[j].op = "notice"
    <2>1. \A j \in 1 .. (k - 1) : j \in 1 .. Len(s) /\ ~(k <= j)
      BY <1>3
    <2>. QED BY <1>1, <2>1 DEF Signaled
  <1>5. WorkOf(n, w, executed[n], Credited(n))
    BY <1>1, <1>3 DEF DmaInv, DmaOf
  <1> HIDE DEF s
  <1>6. /\ SubSeq(s, k + 1, Len(s)) \in Seq(Work) /\ Shorter(s, k, SubSeq(s, k + 1, Len(s)))
        /\ Elems(SubSeq(s, k + 1, Len(s))) \subseteq Elems(s)
    BY <1>2, <1>3, SuffixIn
  <1>7. /\ dma'[n] = SubSeq(s, k + 1, Len(s)) /\ dma' \in [Nics -> Seq(Work)]
        /\ \A m \in Nics : m # n => dma'[m] = dma[m]
    BY <1>1, <1>2, <1>6
  <1>8. Shorter(s, k, dma'[n]) /\ Elems(dma'[n]) \subseteq Elems(s)
    BY <1>6, <1>7
  <1>9. TakenAt(n, w, k)
    BY <1>1, <1>3, <1>4, <1>5, <1>7, <1>8 DEF TakenAt, s
  <1>. QED BY <1>9

LEMMA TakeKeepsDma ==
  ASSUME DmaInv, Growing, Crediting, NEW n \in Nics, NEW w, NEW k, TakenAt(n, w, k),
         dmaErr' = dmaErr, spinning' = spinning,
         \/ pending_dma_req' = pending_dma_req
         \/ w.op = "read" /\ pending_dma_req' = Sub(pending_dma_req, n, 1)
  PROVE  DmaInv'
  <1> DEFINE s == dma[n]
             t == dma'[n]
             X == executed[n]
             Y == Credited(n)
             c == pending_dma_req[n]
  <1>0. ReadLimit \in Nat
    BY SecureAssumption
  <1>1. /\ c \in Nat /\ c <= ReadLimit /\ DmaOf(n, s, X, Y, c) /\ pending_dma_req \in [Nics -> 0 .. ReadLimit]
        /\ dmaErr \in [Nics -> BOOLEAN] /\ spinning \in [Nics -> BOOLEAN]
        /\ \A m \in Nics : DmaOf(m, dma[m], executed[m], Credited(m), pending_dma_req[m])
    BY <1>0 DEF DmaInv
  <1>2. /\ w = s[k] /\ Shorter(s, k, t) /\ Elems(t) \subseteq Elems(s)
        /\ dma' \in [Nics -> Seq(Work)] /\ \A m \in Nics : m # n => dma'[m] = dma[m]
        /\ \A j \in 1 .. (k - 1) : s[j].op # "read"
    BY DEF TakenAt
  <1> HIDE DEF s, t, X, Y, c
  <1>3. /\ DmaOf(n, t, X, Y, c)
        /\ s[k].op = "read" => c - 1 \in Nat /\ DmaOf(n, t, X, Y, c - 1)
    BY <1>1, <1>2, DmaTaken
  <1>4. /\ pending_dma_req' \in [Nics -> 0 .. ReadLimit]
        /\ \A m \in Nics : m # n => pending_dma_req'[m] = pending_dma_req[m]
        /\ DmaOf(n, t, X, Y, pending_dma_req'[n])
    <2>1. CASE pending_dma_req' = pending_dma_req
      BY <1>1, <1>3, <2>1 DEF c
    <2>2. CASE w.op = "read" /\ pending_dma_req' = Sub(pending_dma_req, n, 1)
      <3>1. c - 1 \in 0 .. ReadLimit /\ DmaOf(n, t, X, Y, c - 1)
        BY <1>0, <1>1, <1>2, <1>3, <2>2
      <3>2. pending_dma_req' = [pending_dma_req EXCEPT ![n] = c - 1]
        BY <2>2 DEF Sub, c
      <3>. QED BY <1>1, <3>1, <3>2
    <2>. QED BY <2>1, <2>2
  <1>5. \A m \in Nics : DmaOf(m, dma'[m], executed[m], Credited(m), pending_dma_req'[m])
    BY <1>1, <1>2, <1>4 DEF t, X, Y
  <1>6. dmaErr' \in [Nics -> BOOLEAN] /\ spinning' \in [Nics -> BOOLEAN]
    BY <1>1
  <1>. QED BY <1>2, <1>4, <1>5, <1>6, DmaOnward

\* The DMA link carries out the work at place i, well or not.
ExecutedAt(n, i, ok) ==
  LET w == dma[n][i]
      st == IF ok THEN "ok" ELSE "error"
  IN /\ Executed(dma[n], i, st, dma'[n]) /\ w \in Work /\ WorkOf(n, w, executed[n], Credited(n))
     /\ dma' \in [Nics -> Seq(Work)] /\ \A m \in Nics : m # n => dma'[m] = dma[m]
     /\ \A j \in 1 .. Len(dma[n]) : dma'[n][j].by = dma[n][j].by
     /\ \A j \in 1 .. Len(dma[n]) : dma[n][j].status = "pending" => i <= j
     /\ ok => ~dmaErr[n]
     /\ dmaErr' = [dmaErr EXCEPT ![n] = ~ok]
     /\ executed' = IF ok /\ w.op \in {"send", "read", "write"}
                    THEN [executed EXCEPT ![n] = @ \cup {w.req.id}] ELSE executed
     /\ told' = IF ok /\ Reported(w)
                THEN [told EXCEPT ![n] = @ \cup
                       {[id |-> w.req.id, by |-> w.by,
                         outcome |-> IF w.op = "notice" THEN "failed" ELSE "done"]}]
                ELSE told
     /\ (\A m \in Nics : m # n => host'[m] = host[m]) /\ (ok => host' = host)
     /\ UNCHANGED <<posted, wire, pending_dma_req, queues, spinning, refused, dropped>>

LEMMA ExecuteIs ==
  ASSUME DmaInv, HostInv, NEW n \in Nics, DmaExecute(n)
  PROVE  \E i : \E ok \in BOOLEAN : ExecutedAt(n, i, ok)
  <1> DEFINE s == dma[n]
             st(ok) == IF ok THEN "ok" ELSE "error"
  <1>1. PICK i \in Pending(n), ok \in BOOLEAN :
          LET w == s[i]
          IN /\ \A j \in Pending(n) : i <= j
             /\ ok => ~dmaErr[n]
             /\ dma' = [dma EXCEPT ![n][i].status = st(ok)]
             /\ dmaErr' = [dmaErr EXCEPT ![n] = ~ok]
             /\ executed' = IF ok /\ w.op \in {"send", "read", "write"}
                            THEN [executed EXCEPT ![n] = @ \cup {w.req.id}] ELSE executed
             /\ told' = IF ok /\ Reported(w)
                        THEN [told EXCEPT ![n] = @ \cup
                               {[id |-> w.req.id, by |-> w.by,
                                 outcome |-> IF w.op = "notice" THEN "failed" ELSE "done"]}]
                        ELSE told
             /\ IF ok \/ dmaErr[n] THEN UNCHANGED host ELSE CutOff(n)
             /\ UNCHANGED <<posted, wire, pending_dma_req, queues, spinning, refused, dropped>>
    BY Zenon DEF DmaExecute
  <1>2. dma \in [Nics -> Seq(Work)] /\ s \in Seq(Work)
    BY DEF DmaInv
  <1>3. /\ i \in 1 .. Len(s) /\ s[i].status = "pending"
        /\ \A j \in 1 .. Len(s) : s[j].status = "pending" => i <= j
    BY <1>1 DEF Pending
  <1>4. Len(s) \in Nat /\ s[i] \in Work /\ s[i] \in Elems(s) /\ \A j \in 1 .. Len(s) : s[j] \in Work
    BY <1>2, <1>3, ElemsIn
  <1>5. WorkOf(n, s[i], executed[n], Credited(n))
    BY <1>4 DEF DmaInv, DmaOf
  <1> DEFINE v == [s[i] EXCEPT !.status = st(ok)]
             t == [s EXCEPT ![i] = v]
  <1>6. /\ v \in Work /\ v.op = s[i].op /\ v.req = s[i].req /\ v.by = s[i].by /\ v.status = st(ok)
    BY <1>4 DEF Work
  <1>7. dma' = [dma EXCEPT ![n] = t]
    BY <1>1
  <1> HIDE DEF v
  <1>8. t \in Seq(Work) /\ Len(t) = Len(s) /\ \A j \in 1 .. Len(s) : t[j] = IF j = i THEN v ELSE s[j]
    BY <1>2, <1>3, <1>4, <1>6
  <1> HIDE DEF s, t
  <1>9. /\ dma'[n] = t /\ dma' \in [Nics -> Seq(Work)]
        /\ \A m \in Nics : m # n => dma'[m] = dma[m]
    BY <1>2, <1>7, <1>8
  <1>10. Executed(s, i, st(ok), dma'[n]) /\ \A j \in 1 .. Len(s) : dma'[n][j].by = s[j].by
    BY <1>3, <1>6, <1>8, <1>9 DEF Executed
  <1>12. (\A m \in Nics : m # n => host'[m] = host[m]) /\ (ok => host' = host)
    BY <1>1 DEF CutOff, HostInv
  <1>11. ExecutedAt(n, i, ok)
    BY <1>1, <1>3, <1>4, <1>5, <1>9, <1>10, <1>12, Zenon DEF ExecutedAt, s
  <1>. QED BY <1>11

LEMMA ExecuteKeepsDma ==
  ASSUME DmaInv, HistoryInv, Growing, Crediting, NEW n \in Nics, NEW i, NEW ok \in BOOLEAN, ExecutedAt(n, i, ok)
  PROVE  DmaInv'
  <1> DEFINE s == dma[n]
             t == dma'[n]
             X == executed[n]
             Y == Credited(n)
             X2 == executed'[n]
             c == pending_dma_req[n]
             st == IF ok THEN "ok" ELSE "error"
  <1>1. /\ dmaErr' \in [Nics -> BOOLEAN] /\ spinning' \in [Nics -> BOOLEAN]
        /\ pending_dma_req' = pending_dma_req /\ pending_dma_req' \in [Nics -> 0 .. ReadLimit]
    BY DEF DmaInv, ExecutedAt
  <1>2. /\ dma' \in [Nics -> Seq(Work)] /\ \A m \in Nics : m # n => dma'[m] = dma[m]
        /\ Executed(s, i, st, t) /\ \A j \in 1 .. Len(s) : t[j].by = s[j].by
        /\ \A j \in 1 .. Len(s) : s[j].status = "pending" => i <= j
    BY DEF ExecutedAt
  <1>3. DmaOf(n, s, X, Y, c) /\ X \subseteq X2 /\ Len(s) \in Nat
    <2>1. s \in Seq(Work)
      BY DEF DmaInv
    <2>2. Len(s) \in Nat
      BY <2>1, ElemsIn
    <2>. QED BY <2>2 DEF DmaInv, Growing
  <1>4. st = "ok" /\ s[i].op \in Access => s[i].req.id \in X2
    <2> SUFFICES ASSUME ok, s[i].op \in Access PROVE s[i].req.id \in X2
      BY ok \in BOOLEAN
    <2>1. executed' = [executed EXCEPT ![n] = @ \cup {s[i].req.id}]
      BY DEF ExecutedAt, Access
    <2>2. n \in DOMAIN executed
      BY DEF HistoryInv
    <2>. QED BY <2>1, <2>2
  <1>5. st \in {"ok", "error"}
    OBVIOUS
  <1> HIDE DEF s, t, X, Y, X2, c, st
  <1>6. DmaOf(n, t, X2, Y, c)
    BY <1>2, <1>3, <1>4, <1>5, DmaExecuted
  <1>7. DmaOf(n, t, X2, Credited(n)', c)
    <2>1. Y \subseteq Credited(n)'
      BY DEF Crediting, Y
    <2>2. X2 \subseteq X2
      OBVIOUS
    <2>. QED BY <1>6, <2>1, <2>2, DmaGrows
  <1>8. ASSUME NEW m \in Nics, m # n
        PROVE  DmaOf(m, dma'[m], executed'[m], Credited(m)', pending_dma_req'[m])
    <2>1. DmaOf(m, dma[m], executed[m], Credited(m), pending_dma_req[m])
      BY DEF DmaInv
    <2>2. executed[m] \subseteq executed'[m] /\ Credited(m) \subseteq Credited(m)'
      BY DEF Growing, Crediting
    <2>3. DmaOf(m, dma[m], executed'[m], Credited(m)', pending_dma_req[m])
      BY <2>1, <2>2, DmaGrows
    <2>. QED BY <1>1, <1>2, <1>8, <2>3
  <1>9. \A m \in Nics : DmaOf(m, dma'[m], executed'[m], Credited(m)', pending_dma_req'[m])
    BY <1>1, <1>7, <1>8 DEF t, X2, c
  <1>. QED BY <1>1, <1>2, <1>9 DEF DmaInv

-----------------------------------------------------------------------------
(***************************************************************************)
(* What does not matter to those that wait.                                *)
(***************************************************************************)
LEMMA Unmoved ==
  ASSUME NEW s, NEW K
  PROVE  SameAnswers(s, s, K) /\ SameRequests(s, s, K)
  BY DEF SameAnswers, SameRequests

LEMMA WorksUnmoved ==
  ASSUME NEW s, NEW K, NEW g, NEW h, "dma" \in g <=> "dma" \in h
  PROVE  SameWorks(s, g, s, h, K)
  <1>1. WorkPos(s, h, K) = WorkPos(s, g, K)
    BY DEF WorkPos, LiveWork
  <1>. QED BY <1>1 DEF SameWorks, DNums, DRise

LEMMA OtherPacketSent ==
  ASSUME NEW s, NEW p, NEW t, Longer(s, p, t), NEW K
  PROVE  /\ ~LiveAnswer(p, K) => SameAnswers(s, t, K)
         /\ ~LiveRequest(p, K) => SameRequests(s, t, K)
  <1>1. ASSUME ~LiveAnswer(p, K) PROVE SameAnswers(s, t, K)
    <2>1. ANums(t, K) = ANums(s, K) /\ (ARise(s, K) => ARise(t, K))
      BY <1>1, AnswersAppended
    <2>. QED BY <2>1 DEF SameAnswers
  <1>2. ASSUME ~LiveRequest(p, K) PROVE SameRequests(s, t, K)
    <2>1. WNums(t, K) = WNums(s, K) /\ (WRise(s, K) => WRise(t, K))
      BY <1>2, RequestsAppended
    <2>. QED BY <2>1 DEF SameRequests
  <1>. QED BY <1>1, <1>2

LEMMA OtherWorkPosted ==
  ASSUME NEW s, NEW w, NEW t, Longer(s, w, t), NEW K, NEW g, ~LiveWork(w, g, K),
         NEW h, "dma" \in g <=> "dma" \in h
  PROVE  SameWorks(s, g, t, h, K)
  <1>1. DNums(t, g, K) = DNums(s, g, K) /\ (DRise(s, g, K) => DRise(t, g, K))
    BY WorksAppended
  <1>2. SameWorks(t, g, t, h, K)
    BY WorksUnmoved
  <1>. QED BY <1>1, <1>2 DEF SameWorks

LEMMA OtherPacketReceived ==
  ASSUME NEW s, NEW t, Shorter(s, 1, t), NEW K
  PROVE  /\ ~LiveAnswer(s[1], K) /\ ARise(s, K) /\ ANums(s, K) \subseteq Nat => SameAnswers(s, t, K)
         /\ ~LiveRequest(s[1], K) /\ WRise(s, K) /\ WNums(s, K) \subseteq Nat => SameRequests(s, t, K)
  <1>0. /\ \A j \in 1 .. (1 - 1) : ~LiveAnswer(s[j], K)
        /\ \A j \in 1 .. (1 - 1) : ~LiveRequest(s[j], K)
    OBVIOUS
  <1>1. ASSUME ~LiveAnswer(s[1], K), ARise(s, K), ANums(s, K) \subseteq Nat PROVE SameAnswers(s, t, K)
    <2>1. /\ ARise(t, K)
          /\ LiveAnswer(s[1], K) =>
               /\ s[1].id[2] \in ANums(s, K) /\ Below({s[1].id[2]}, ANums(s, K) \ {s[1].id[2]})
               /\ ANums(t, K) = ANums(s, K) \ {s[1].id[2]}
          /\ ~LiveAnswer(s[1], K) => ANums(t, K) = ANums(s, K)
      BY <1>0, <1>1, AnswersShortened
    <2>. QED BY <1>1, <2>1 DEF SameAnswers
  <1>2. ASSUME ~LiveRequest(s[1], K), WRise(s, K), WNums(s, K) \subseteq Nat PROVE SameRequests(s, t, K)
    <2>1. /\ WRise(t, K)
          /\ LiveRequest(s[1], K) =>
               /\ s[1].id[2] \in WNums(s, K) /\ Below({s[1].id[2]}, WNums(s, K) \ {s[1].id[2]})
               /\ WNums(t, K) = WNums(s, K) \ {s[1].id[2]}
          /\ ~LiveRequest(s[1], K) => WNums(t, K) = WNums(s, K)
      BY <1>0, <1>2, RequestsShortened
    <2>. QED BY <1>2, <2>1 DEF SameRequests
  <1>. QED BY <1>1, <1>2

LEMMA WorkGone ==
  ASSUME NEW s, NEW k, NEW t, NEW g, NEW K, DoneAt(s, k, t, g, K), ~LiveWork(s[k], g, K)
  PROVE  SameWorks(s, g, t, g, K)
  <1>1. WorksLeft(s, k, t, g, K)
    BY WorksShortened
  <1>. QED BY <1>1 DEF WorksLeft, SameWorks

LEMMA OtherWorkDone ==
  ASSUME NEW s, NEW k, NEW t, NEW g, NEW K, DoneAt(s, k, t, g, K), ~LiveWork(s[k], g, K),
         NEW h, "dma" \in g <=> "dma" \in h
  PROVE  SameWorks(s, g, t, h, K)
  <1>1. SameWorks(s, g, t, g, K)
    BY WorkGone
  <1>2. SameWorks(t, g, t, h, K)
    BY WorksUnmoved
  <1>. QED BY <1>1, <1>2 DEF SameWorks

LEMMA PartsAre ==
  ASSUME NEW m \in Nics
  PROVE  /\ "server" \in Parts(m) <=> refused[Other(m)] = 0
         /\ "dma" \in Parts(m) <=> ~dmaErr[Other(m)]
         /\ "worker" \in Parts(m) <=> ~spinning[Other(m)]
         /\ "asker" \in Parts(m) <=> ~secured \/ refused[m] = 0
         /\ "order" \in Parts(m) <=> InOrder(m)
         /\ Orderly(Parts(m))
  BY DEF Parts, Working, Orderly, InOrder

LEMMA PartsAreNext ==
  ASSUME NEW m \in Nics
  PROVE  /\ "server" \in Parts(m)' <=> refused'[Other(m)] = 0
         /\ "dma" \in Parts(m)' <=> ~dmaErr'[Other(m)]
         /\ "worker" \in Parts(m)' <=> ~spinning'[Other(m)]
  BY DEF Parts, Working

\* What has failed stays so, and the MACs are checked for good or never.
Failing ==
  /\ secured' = secured
  /\ \A m \in Nics : /\ refused'[m] = 0 => refused[m] = 0
                     /\ dmaErr[m] => dmaErr'[m]
                     /\ spinning[m] => spinning'[m]

LEMMA PartsFail ==
  ASSUME Failing, NEW m \in Nics
  PROVE  Parts(m)' \subseteq Parts(m)
  <1>1. Other(m) \in Nics
    BY OtherNic
  <1>. QED BY <1>1 DEF Failing, Parts, InOrder

LEMMA PartsSame ==
  ASSUME Failing, NEW m \in Nics, refused' = refused,
         dmaErr'[Other(m)] = dmaErr[Other(m)], spinning'[Other(m)] = spinning[Other(m)]
  PROVE  Parts(m)' = Parts(m)
  BY DEF Failing, Parts, InOrder

LEMMA CreditGrows ==
  ASSUME Growing, Failing
  PROVE  Crediting
  <1> SUFFICES ASSUME NEW m \in Nics PROVE Credited(m) \subseteq Credited(m)'
    BY DEF Crediting
  <1>1. executed[Other(m)] \subseteq executed'[Other(m)] /\ (InOrder(m)' => InOrder(m))
    BY OtherNic DEF Growing, Failing, InOrder
  <1>. QED BY <1>1 DEF Credited

LEMMA MatchIs ==
  ASSUME MatchInv, NEW m \in Nics, NEW K \in Answered
  PROVE  /\ MatchOf(Awaited(m, K), wire[Other(m)], dma[Other(m)], wire[m], K, Parts(m),
                    Served(m))
         /\ Served(m) \in Nat
         /\ ARise(wire[Other(m)], K) /\ ANums(wire[Other(m)], K) \subseteq Nat
         /\ WRise(wire[m], K) /\ WNums(wire[m], K) \subseteq Nat
         /\ DRise(dma[Other(m)], Parts(m), K) /\ DNums(dma[Other(m)], Parts(m), K) \subseteq Nat
  <1>1. MatchOf(Awaited(m, K), wire[Other(m)], dma[Other(m)], wire[m], K, Parts(m),
                Served(m))
    BY DEF MatchInv, Match
  <1>2. /\ Served(m) \in Nat
        /\ ARise(wire[Other(m)], K) /\ WRise(wire[m], K) /\ DRise(dma[Other(m)], Parts(m), K)
    BY <1>1, Zenon DEF MatchOf
  <1>3. /\ ANums(wire[Other(m)], K) \subseteq Nat /\ WNums(wire[m], K) \subseteq Nat
        /\ DNums(dma[Other(m)], Parts(m), K) \subseteq Nat
    BY <1>1, MatchNumbers
  <1>. QED BY <1>1, <1>2, <1>3

LEMMA MatchKept ==
  ASSUME MatchInv, Failing, NEW m \in Nics, NEW K \in Answered,
         SameAnswers(wire[Other(m)], wire'[Other(m)], K),
         SameRequests(wire[m], wire'[m], K),
         SameWorks(dma[Other(m)], Parts(m), dma'[Other(m)], Parts(m)', K),
         Awaited(m, K)' = Awaited(m, K),
         Serving
  PROVE  Match(m, K)'
  <1> DEFINE q == Awaited(m, K)
             a == wire[Other(m)]
             d == dma[Other(m)]
             w == wire[m]
             g == Parts(m)
             b == Served(m)
             a2 == wire'[Other(m)]
             d2 == dma'[Other(m)]
             w2 == wire'[m]
             h == Parts(m)'
             c == Served(m)'
  <1>1. MatchOf(q, a, d, w, K, g, b) /\ c \in Nat /\ b <= c
    BY MatchIs DEF Serving
  <1>2. h \subseteq g
    BY PartsFail
  <1>3. SameAnswers(a, a2, K) /\ SameRequests(w, w2, K) /\ SameWorks(d, g, d2, h, K)
    OBVIOUS
  <1>4. q = Awaited(m, K)'
    OBVIOUS
  <1> HIDE DEF q, a, d, w, g, b, a2, d2, w2, h, c
  <1>5. MatchOf(q, a2, d2, w2, K, h, c)
    BY <1>1, <1>2, <1>3, MatchSame
  <1>. QED BY <1>4, <1>5, Zenon DEF Match, a2, d2, w2, h, c

LEMMA NextFails == NicInv /\ Numbers /\ [Next]_vars => Failing
  <1> SUFFICES ASSUME NicInv, Numbers, [Next]_vars PROVE Failing
    OBVIOUS
  <1>0. /\ refused \in [Nics -> Nat] /\ dmaErr \in [Nics -> BOOLEAN] /\ spinning \in [Nics -> BOOLEAN]
    BY DEF NicInv, DmaInv, Numbers, NonceInv, NonceTypes
  <1>1. ASSUME NEW n \in Nics, secured' = secured,
               refused' = refused \/ refused' = Add(refused, n, 1),
               dmaErr' = dmaErr,
               spinning' = spinning \/ (~spinning[n] /\ spinning' = [spinning EXCEPT ![n] = DmaFull(n)])
        PROVE  Failing
    <2>1. \A m \in Nics : refused'[m] = 0 => refused[m] = 0
      BY <1>0, <1>1 DEF Add
    <2>2. \A m \in Nics : spinning[m] => spinning'[m]
      <3> TAKE m \in Nics
      <3>1. CASE m = n
        BY <1>1, <3>1
      <3>2. CASE m # n
        BY <1>0, <1>1, <3>2
      <3>. QED BY <3>1, <3>2
    <2>. QED BY <1>1, <2>1, <2>2 DEF Failing
  <1>2. ASSUME NEW n \in Nics, Nic(n) PROVE Failing
    <2>1. CASE HostPost(n) \/ DmaRecvFlushed(n) \/ PollClientSendCompletion(n)
      BY <1>1, <2>1 DEF HostPost, DmaRecvFlushed, PollClientSendCompletion, histories, secctx
    <2>2. CASE ProcessSendRequest(n)
      BY <1>1, <2>2 DEF ProcessSendRequest, Send, DmaPost
    <2>3. CASE RejectPacket(n) \/ ReceiveRequest(n)
      BY <1>1, <2>3 DEF RejectPacket, ReceiveRequest, Polled, DmaPost
    <2>4. CASE ReceiveReadAnswer(n) \/ ReceiveWriteAnswer(n)
      BY <1>1, <2>4 DEF ReceiveReadAnswer, ReceiveWriteAnswer, Polled, DmaTryPost
    <2>5. CASE DmaExecute(n)
      <3>1. PICK i : \E ok \in BOOLEAN : ExecutedAt(n, i, ok)
        BY <2>5, ExecuteIs DEF NicInv
      <3>2. PICK ok \in BOOLEAN : ExecutedAt(n, i, ok)
        BY <3>1
      <3>3. /\ refused' = refused /\ spinning' = spinning
            /\ dmaErr' = [dmaErr EXCEPT ![n] = ~ok] /\ (ok => ~dmaErr[n])
        BY <3>2 DEF ExecutedAt
      <3>5. secured' = secured
        BY <2>5 DEF DmaExecute, secctx
      <3>4. \A m \in Nics : dmaErr[m] => dmaErr'[m]
        <4> TAKE m \in Nics
        <4>1. CASE m = n
          BY <1>0, <3>3, <4>1
        <4>2. CASE m # n
          BY <1>0, <3>3, <4>2
        <4>. QED BY <4>1, <4>2
      <3>. QED BY <3>3, <3>4, <3>5 DEF Failing
    <2>6. CASE DmaDone(n) \/ DmaReadDone(n) \/ DmaWriteDone(n)
      <3>1. /\ dmaErr' = dmaErr /\ spinning' = spinning /\ secured' = secured
            /\ (refused' = refused \/ refused' = Add(refused, n, 1))
        BY <2>6 DEF DmaDone, DmaReadDone, DmaWriteDone, Completed, NothingSent, Send
      <3>. QED BY <1>1, <3>1
    <2>. QED BY <1>2, <2>1, <2>2, <2>3, <2>4, <2>5, <2>6 DEF Nic
  <1>3. CASE UNCHANGED vars
    BY <1>3 DEF vars, histories, secctx, Failing
  <1>. QED BY <1>2, <1>3 DEF Next

-----------------------------------------------------------------------------
(***************************************************************************)
(* One action after the other.                                             *)
(***************************************************************************)
\* What every step has, proved by itself.
Stepping ==
  NicInv /\ Numbers /\ Growing /\ Failing /\ Crediting /\ HostInv' /\ Serving

\* What the host knows and what its NIC waits for does not change.
LEMMA HistoryKept ==
  ASSUME HistoryInv, Failing, executed' = executed, told' = told, dropped' \in [Nics -> Nat]
  PROVE  HistoryInv'
  <1>1. \A m \in Nics : secured' \/ refused'[Other(m)] = 0 => secured \/ refused[Other(m)] = 0
    BY OtherNic DEF Failing
  <1>. QED BY <1>1 DEF HistoryInv, AnswersMatch

LEMMA QueuesKept ==
  ASSUME QueueInv, UNCHANGED queues
  PROVE  QueueInv' /\ \A m, K : Awaited(m, K)' = Awaited(m, K)
  BY DEF QueueInv, queues, Awaited

\* Nothing happens but to the host and the send queue of niccon.
LEMMA QuietKeeps ==
  ASSUME Stepping,
         UNCHANGED <<wire, dma, dmaErr, pending_dma_req, queues, spinning, executed, told, refused,
                     dropped>>
  PROVE  NicInv'
  <1>1. WireInv'
    BY DEF Stepping, NicInv, WireInv, Failing
  <1>2. DmaInv'
    BY DmaSame DEF Stepping, NicInv
  <1>3. QueueInv' /\ \A m, K : Awaited(m, K)' = Awaited(m, K)
    BY QueuesKept DEF Stepping, NicInv
  <1>4. HistoryInv'
    BY HistoryKept DEF Stepping, NicInv, HistoryInv
  <1>5. MatchInv'
    <2> SUFFICES ASSUME NEW m \in Nics, NEW K \in Answered PROVE Match(m, K)'
      BY DEF MatchInv
    <2>1. MatchInv /\ Failing /\ Serving
      BY DEF Stepping, NicInv
    <2>4. Parts(m)' = Parts(m)
      BY <2>1, PartsSame
    <2>5. /\ SameAnswers(wire[Other(m)], wire'[Other(m)], K)
          /\ SameRequests(wire[m], wire'[m], K)
          /\ SameWorks(dma[Other(m)], Parts(m), dma'[Other(m)], Parts(m)', K)
      BY <2>4, Unmoved, WorksUnmoved
    <2>. QED BY <1>3, <2>1, <2>5, MatchKept
  <1>. QED BY <1>1, <1>2, <1>3, <1>4, <1>5 DEF Stepping, NicInv

\* A packet that does not verify is none of those that matter.
LEMMA RejectKeeps ==
  ASSUME Stepping, NEW n \in Nics, RejectPacket(n)
  PROVE  NicInv'
  <1> DEFINE o == Other(n)
             p == Arriving(n)
  <1>0. o \in Nics /\ o # n /\ Other(o) = n /\ \A m \in Nics : m = n \/ m = o
    BY OtherNic DEF Nics, Other
  <1>1. /\ Polled(n, p) /\ ~Verified(n, p)
        /\ UNCHANGED <<posted, host, dma, dmaErr, pending_dma_req, queues, spinning, executed, told,
                       refused, dropped>>
    BY DEF RejectPacket, Polled
  <1>2. /\ WireInv /\ Numbers /\ Growing /\ Failing /\ MatchInv
        /\ DmaInv /\ QueueInv /\ HistoryInv /\ HostInv' /\ Serving /\ Crediting
    BY DEF Stepping, NicInv
  <1>3. Received(n, p) /\ WireInv'
    BY <1>1, <1>2, PolledEffect, PolledKeepsWire
  <1>4. /\ wire'[n] = wire[n] /\ Shorter(wire[o], 1, wire'[o]) /\ ~Verifies(wire[o][1])
    BY <1>1, <1>3 DEF Received
  <1>5. DmaInv'
    BY <1>1, <1>2, DmaSame
  <1>6. QueueInv' /\ \A m, K : Awaited(m, K)' = Awaited(m, K)
    BY <1>1, <1>2, QueuesKept
  <1>7. HistoryInv'
    BY <1>1, <1>2, HistoryKept DEF HistoryInv
  <1>8. MatchInv'
    <2> SUFFICES ASSUME NEW m \in Nics, NEW K \in Answered PROVE Match(m, K)'
      BY DEF MatchInv
    <2>2. Parts(m)' = Parts(m)
      BY <1>1, <1>2, PartsSame
    <2>3. ~LiveAnswer(wire[o][1], K) /\ ~LiveRequest(wire[o][1], K)
      BY <1>4 DEF LiveAnswer, LiveRequest
    <2>4. SameWorks(dma[Other(m)], Parts(m), dma'[Other(m)], Parts(m)', K)
      BY <1>1, <2>2, WorksUnmoved
    <2>5. SameAnswers(wire[Other(m)], wire'[Other(m)], K)
      <3>1. CASE m = n
        <4>1. ARise(wire[o], K) /\ ANums(wire[o], K) \subseteq Nat
          BY <1>2, <3>1, MatchIs
        <4>. QED BY <1>4, <2>3, <3>1, <4>1, OtherPacketReceived
      <3>2. CASE m = o
        BY <1>0, <1>4, <3>2, Unmoved
      <3>. QED BY <1>0, <3>1, <3>2
    <2>6. SameRequests(wire[m], wire'[m], K)
      <3>1. CASE m = n
        BY <1>4, <3>1, Unmoved
      <3>2. CASE m = o
        <4>1. WRise(wire[o], K) /\ WNums(wire[o], K) \subseteq Nat
          BY <1>2, <3>2, MatchIs
        <4>. QED BY <1>4, <2>3, <3>2, <4>1, OtherPacketReceived
      <3>. QED BY <1>0, <3>1, <3>2
    <2>. QED BY <1>2, <1>6, <2>4, <2>5, <2>6, MatchKept
  <1>. QED BY <1>2, <1>3, <1>5, <1>6, <1>7, <1>8 DEF NicInv

\* The work a request becomes.
RequestWork(p) ==
  NewWork(CASE p.kind = "SEND" -> "send" [] p.kind = "READ" -> "read" [] OTHER -> "write",
          Plain(p), p.id)

LEMMA RequestWorkIs ==
  ASSUME NEW n \in Nics, NEW p \in Packet, NEW X, PacketFrom(Other(n), p, X), p.eth \/ p.kind = "SEND",
         NEW Z, NEW Y
  PROVE  LET w == RequestWork(p)
         IN /\ w \in Work /\ w.status = "pending" /\ w.req.id = p.id
            /\ w.op \in {"send", "read", "write"} /\ (w.op = "read" <=> p.kind = "READ")
            /\ WorkOf(n, w, Y, Z)
            /\ Verifies(p) => \A K \in Answered : \A g :
                 (LiveWork(w, g, K) <=> LiveRequest(p, K) /\ "dma" \in g)
  <1> DEFINE op == CASE p.kind = "SEND" -> "send" [] p.kind = "READ" -> "read" [] OTHER -> "write"
             r == Plain(p)
             w == RequestWork(p)
  <1>1. /\ p.kind \in Kinds /\ p.signaled \in BOOLEAN /\ p.id \in Ids /\ p.eth \in BOOLEAN
        /\ p.id[1] = Other(n)
    BY DEF Packet, PacketFrom, IsRequest
  <1>2. r \in Request /\ r.id = p.id /\ r.kind = p.kind /\ r.signaled = p.signaled
    BY <1>1 DEF Plain, Request
  <1>3. /\ op \in {"send", "read", "write"} /\ (op = "read" <=> p.kind = "READ")
        /\ (op = "write" <=> p.kind = "WRITE") /\ (op = "send" <=> p.kind = "SEND")
    BY <1>1 DEF Kinds
  <1>4. w = [op |-> op, req |-> r, by |-> p.id, status |-> "pending"]
    BY DEF RequestWork, NewWork
  <1> HIDE DEF op, r, w
  <1>5. w \in Work /\ w.op = op /\ w.req = r /\ w.by = p.id /\ w.status = "pending"
    BY <1>1, <1>2, <1>3, <1>4 DEF Work
  <1>6. WorkOf(n, w, Y, Z)
    BY <1>1, <1>2, <1>3, <1>5 DEF WorkOf, Access
  <1>7. ASSUME NEW K \in Answered, NEW g, Verifies(p)
        PROVE  LiveWork(w, g, K) <=> LiveRequest(p, K) /\ "dma" \in g
    <2>1. Asks(w.req, K) <=> Asks(p, K)
      BY <1>2, <1>5 DEF Asks
    <2>2. Asks(p, K) => p.kind \in {"READ", "WRITE"}
      BY DEF Asks, Answered
    <2>3. Asks(p, K) => p.eth /\ w.op \in {"read", "write"}
      BY <1>3, <1>5, <2>2
    <2>. QED BY <1>5, <1>7, <2>1, <2>3 DEF LiveWork, LiveRequest
  <1>. QED BY <1>2, <1>3, <1>5, <1>6, <1>7 DEF w

LEMMA RequestKeeps ==
  ASSUME Stepping, NEW n \in Nics, ReceiveRequest(n)
  PROVE  NicInv'
  <1> DEFINE o == Other(n)
             p == Arriving(n)
             w == RequestWork(p)
  <1>0. o \in Nics /\ o # n /\ Other(o) = n /\ \A m \in Nics : m = n \/ m = o
    BY OtherNic DEF Nics, Other
  <1>1. /\ Polled(n, p) /\ Verified(n, p) /\ (p.eth \/ p.kind = "SEND") /\ ~spinning[n]
        /\ pending_dma_req[n] < ReadLimit
        /\ pending_dma_req' = IF p.kind = "READ" THEN Add(pending_dma_req, n, 1) ELSE pending_dma_req
        /\ UNCHANGED <<posted, host, dmaErr, queues, executed, told, refused, dropped>>
    BY DEF ReceiveRequest, Polled, DmaPost
  <1>2. /\ DmaFull(n) => dma' = dma
        /\ ~DmaFull(n) => dma' = Put(dma, n, w)
        /\ spinning' = [spinning EXCEPT ![n] = DmaFull(n)]
    BY DEF ReceiveRequest, DmaPost, RequestWork
  <1>3. /\ WireInv /\ Numbers /\ Growing /\ Failing /\ MatchInv
        /\ DmaInv /\ QueueInv /\ HistoryInv /\ HostInv' /\ Serving /\ Crediting
    BY DEF Stepping, NicInv
  <1>4. Received(n, p) /\ WireInv'
    BY <1>1, <1>3, PolledEffect, PolledKeepsWire
  <1>5. /\ wire'[n] = wire[n] /\ Shorter(wire[o], 1, wire'[o]) /\ p = wire[o][1] /\ Verifies(p)
        /\ p \in Packet /\ PacketFrom(o, p, executed[o])
    BY <1>1, <1>4 DEF Received
  <1> HIDE DEF p
  <1>6. /\ w \in Work /\ w.status = "pending" /\ w.req.id = p.id
        /\ w.op \in {"send", "read", "write"} /\ (w.op = "read" <=> p.kind = "READ")
        /\ WorkOf(n, w, executed[n], Credited(n))
        /\ \A K \in Answered : \A g : (LiveWork(w, g, K) <=> LiveRequest(p, K) /\ "dma" \in g)
    BY <1>1, <1>5, RequestWorkIs
  <1> HIDE DEF w, o
  <1>7. /\ spinning' \in [Nics -> BOOLEAN] /\ spinning'[n] = DmaFull(n)
        /\ \A m \in Nics : m # n => spinning'[m] = spinning[m]
    <2>1. DmaFull(n) \in BOOLEAN /\ spinning \in [Nics -> BOOLEAN]
      BY <1>3 DEF DmaFull, DmaInv
    <2>. QED BY <1>2, <2>1
  <1>8. /\ DmaInv' /\ \A m \in Nics : m # n => dma'[m] = dma[m]
        /\ ~DmaFull(n) => Longer(dma[n], w, dma'[n])
    <2>1. pending_dma_req \in [Nics -> 0 .. ReadLimit] /\ ReadLimit \in Nat
      BY <1>3, SecureAssumption DEF DmaInv
    <2>2. /\ pending_dma_req' \in [Nics -> 0 .. ReadLimit]
          /\ \A m \in Nics : m # n => pending_dma_req'[m] = pending_dma_req[m]
          /\ w.op = "read" => pending_dma_req'[n] = pending_dma_req[n] + 1
          /\ w.op # "read" => pending_dma_req'[n] = pending_dma_req[n]
      <3>1. CASE p.kind = "READ"
        BY <1>1, <1>6, <2>1, <3>1 DEF Add
      <3>2. CASE p.kind # "READ"
        BY <1>1, <1>6, <2>1, <3>2
      <3>. QED BY <3>1, <3>2
    <2>3. dmaErr' = dmaErr
      BY <1>1
    <2>. QED BY <1>2, <1>3, <1>6, <1>7, <2>2, <2>3, PostKeepsDma
  <1>9. QueueInv' /\ \A m, K : Awaited(m, K)' = Awaited(m, K)
    BY <1>1, <1>3, QueuesKept
  <1>10. HistoryInv'
    BY <1>1, <1>3, HistoryKept DEF HistoryInv
  <1>11. \A m \in Nics : Served(m)' = Served(m)
    BY <1>1 DEF Served
  <1>12. ASSUME NEW K \in Answered PROVE Match(n, K)'
    <2>1. ~LiveAnswer(p, K)
      BY <1>1 DEF LiveAnswer, Answered
    <2>2. ARise(wire[o], K) /\ ANums(wire[o], K) \subseteq Nat
      BY <1>3, MatchIs DEF o
    <2>3. SameAnswers(wire[o], wire'[o], K)
      BY <1>5, <2>1, <2>2, OtherPacketReceived
    <2>4. Parts(n)' = Parts(n) /\ dma'[o] = dma[o]
      BY <1>0, <1>1, <1>3, <1>7, <1>8, PartsSame DEF o
    <2>5. SameWorks(dma[o], Parts(n), dma'[o], Parts(n)', K) /\ SameRequests(wire[n], wire'[n], K)
      BY <1>5, <2>4, WorksUnmoved, Unmoved
    <2>. QED BY <1>3, <1>9, <2>3, <2>5, MatchKept DEF o
  <1>13. ASSUME NEW K \in Answered PROVE Match(o, K)'
    <2> DEFINE q == Awaited(o, K)
               a == wire[n]
               d == dma[n]
               s == wire[o]
               g == Parts(o)
               b == Served(o)
               d2 == dma'[n]
               s2 == wire'[o]
               h == Parts(o)'
    <2>1. /\ MatchOf(q, a, d, s, K, g, b) /\ b \in Nat
          /\ WRise(s, K) /\ WNums(s, K) \subseteq Nat
      BY <1>0, <1>3, MatchIs
    <2>2. /\ "worker" \in g /\ ("worker" \in h <=> ~DmaFull(n)) /\ ("dma" \in h <=> "dma" \in g)
          /\ h \subseteq g
      BY <1>0, <1>1, <1>3, <1>7, PartsAre, PartsAreNext, PartsFail
    <2>3. ~DmaFull(n) => h = g
      <3>1. ~DmaFull(n) => spinning'[n] = spinning[n]
        <4>1. spinning'[n] \in BOOLEAN /\ spinning[n] \in BOOLEAN
          BY <1>3, <1>7 DEF DmaInv
        <4>2. ~DmaFull(n) => ~spinning'[n]
          BY <1>7, Zenon
        <4>. QED BY <1>1, <4>1, <4>2
      <3>. QED BY <1>0, <1>1, <1>3, <3>1, PartsSame
    <2>4. ASSUME MatchOf(q, a, d2, s2, K, h, b) PROVE Match(o, K)'
      <3>1. /\ Awaited(o, K)' = q /\ wire'[Other(o)] = a /\ dma'[Other(o)] = d2
            /\ Served(o)' = b
        BY <1>0, <1>5, <1>9, <1>11
      <3> HIDE DEF q, a, d2, b
      <3>. QED BY <2>4, <3>1, Zenon DEF Match
    <2>5. CASE LiveRequest(p, K)
      <3>1. LiveRequest(s[1], K) /\ Shorter(s, 1, s2)
        BY <1>5, <2>5
      <3>2. CASE DmaFull(n)
        <4>1. d2 = d /\ "worker" \notin h
          BY <1>2, <2>2, <3>2
        <4> HIDE DEF q, a, d, s, g, b, s2, h, d2
        <4>2. MatchOf(q, a, d, s2, K, h, b)
          BY <2>1, <2>2, <3>1, <4>1, MatchStuck
        <4>. QED BY <2>4, <4>1, <4>2
      <3>3. CASE ~DmaFull(n)
        <4>1. Longer(d, w, d2) /\ h = g
          BY <1>8, <2>3, <3>3
        <4>2. w.req.id[2] = s[1].id[2] /\ (LiveWork(w, g, K) <=> "dma" \in g)
          BY <1>5, <1>6, <2>5
        <4> HIDE DEF q, a, d, s, g, b, s2, h, d2
        <4>3. MatchOf(q, a, d2, s2, K, g, b)
          BY <2>1, <2>2, <3>1, <4>1, <4>2, MatchArrived
        <4>. QED BY <2>4, <4>1, <4>3
      <3>. QED BY <3>2, <3>3
    <2>6. CASE ~LiveRequest(p, K)
      <3>1. SameRequests(s, s2, K)
        BY <1>5, <2>1, <2>6, OtherPacketReceived
      <3>2. ~LiveWork(w, g, K)
        BY <1>6, <2>6
      <3>3. SameWorks(d, g, d2, h, K)
        <4>1. CASE DmaFull(n)
          BY <1>2, <2>2, <4>1, WorksUnmoved
        <4>2. CASE ~DmaFull(n)
          BY <1>8, <2>2, <3>2, <4>2, OtherWorkPosted
        <4>. QED BY <4>1, <4>2
      <3>4. SameAnswers(a, a, K)
        BY Unmoved
      <3> HIDE DEF q, a, d, s, g, b, s2, h, d2
      <3>5. MatchOf(q, a, d2, s2, K, h, b)
        BY <2>1, <2>2, <3>1, <3>3, <3>4, MatchSame
      <3>. QED BY <2>4, <3>5
    <2>. QED BY <2>5, <2>6
  <1>14. MatchInv'
    BY <1>0, <1>12, <1>13 DEF MatchInv
  <1>. QED BY <1>3, <1>4, <1>8, <1>9, <1>10, <1>14 DEF NicInv

\* The answer p to a request of n and of kind K arrives: a request is at the head
\* of the queue, and it is its own unless an answer was not sent.
LEMMA AnswerIs ==
  ASSUME MatchInv, QueueInv, NEW n \in Nics, NEW K \in Answered, NEW p, Received(n, p),
         LiveAnswer(p, K)
  PROVE  LET q == Awaited(n, K)
         IN /\ Tail(q) \in Seq(Request) /\ Elems(Tail(q)) \subseteq Elems(q)
            /\ Head(q) \in Request /\ p.id \in Ids /\ <<Head(q).id, p.id>> \in Credited(n)
            /\ MatchOf(Tail(q), wire'[Other(n)], dma[Other(n)], wire[n], K, Parts(n),
                       Served(n))
  <1> DEFINE o == Other(n)
             q == Awaited(n, K)
             a == wire[o]
             a2 == wire'[o]
             d == dma[o]
             w == wire[n]
             g == Parts(n)
             b == Served(n)
  <1>1. MatchOf(q, a, d, w, K, g, b) /\ Orderly(g) /\ ("order" \in g <=> InOrder(n))
    BY MatchIs, PartsAre
  <1>2. q \in Seq(Request) /\ \A r \in Elems(q) : r.id[1] = n
    <2>1. q \in Seq(Request)
      BY DEF QueueInv, Awaited
    <2>. QED BY <2>1 DEF QueueInv
  <1>3. /\ a # <<>> /\ p = a[1] /\ p \in Packet /\ PacketFrom(o, p, executed[o])
        /\ Shorter(a, 1, a2) /\ LiveAnswer(a[1], K)
    BY DEF Received
  <1>4. p.id \in Ids /\ p.id[1] = n /\ p.id \in executed[o]
    <2>1. ~IsRequest(p)
      BY DEF IsRequest, LiveAnswer, Answered
    <2>. QED BY <1>3, <2>1, OtherNic DEF PacketFrom, Packet
  <1> HIDE DEF o, q, a, a2, d, w, g, b
  <1>5. /\ q # <<>> /\ ("order" \in g => q[1].id[2] = a[1].id[2])
        /\ \A q2 : Shorter(q, 1, q2) => MatchOf(q2, a2, d, w, K, g, b)
    BY <1>1, <1>2, <1>3, MatchAnswered
  <1>6. /\ Tail(q) \in Seq(Request) /\ Shorter(q, 1, Tail(q))
        /\ Head(q) = q[1] /\ Head(q) \in Request /\ Head(q) \in Elems(q)
        /\ Elems(Tail(q)) \subseteq Elems(q)
    BY <1>2, <1>5, TailIn
  <1>7. <<Head(q).id, p.id>> \in Credited(n)
    <2>1. Head(q).id \in Ids /\ Head(q).id[1] = n
      BY <1>2, <1>6 DEF Request
    <2>2. InOrder(n) => Head(q).id[2] = p.id[2]
      BY <1>1, <1>3, <1>5, <1>6
    <2>3. \A x, y \in Ids : x[1] = y[1] /\ x[2] = y[2] => x = y
      BY DEF Ids
    <2>4. InOrder(n) => Head(q).id = p.id
      BY <1>4, <2>1, <2>2, <2>3
    <2>. QED BY <1>4, <2>1, <2>4 DEF Credited, o
  <1>8. MatchOf(Tail(q), a2, d, w, K, g, b)
    BY <1>5, <1>6
  <1>. QED BY <1>4, <1>6, <1>7, <1>8 DEF o, q, a, a2, d, w, g, b

\* What is done with it.
Answering(n, K, op) ==
  LET p == Arriving(n)
  IN /\ Polled(n, p) /\ Verified(n, p) /\ ~p.eth /\ p.kind = K /\ op \in {"answer", "ack"}
     /\ read_queue' = IF K = "READ" THEN Drop(read_queue, n) ELSE read_queue
     /\ write_queue' = IF K = "WRITE" THEN Drop(write_queue, n) ELSE write_queue
     /\ DmaTryPost(n, NewWork(op, Head(Awaited(n, K)), p.id))
     /\ UNCHANGED pending_dma_req

LEMMA AnswerKeeps ==
  ASSUME Stepping, NEW n \in Nics, NEW K \in Answered, NEW op, Answering(n, K, op)
  PROVE  NicInv'
  <1> DEFINE o == Other(n)
             p == Arriving(n)
             q == Awaited(n, K)
             w == NewWork(op, Head(q), p.id)
  <1>0. o \in Nics /\ o # n /\ Other(o) = n /\ \A m \in Nics : m = n \/ m = o
    BY OtherNic DEF Nics, Other
  <1>1. /\ Polled(n, p) /\ Verified(n, p) /\ ~p.eth /\ p.kind = K /\ op \in {"answer", "ack"}
        /\ read_queue' = IF K = "READ" THEN Drop(read_queue, n) ELSE read_queue
        /\ write_queue' = IF K = "WRITE" THEN Drop(write_queue, n) ELSE write_queue
        /\ pending_dma_req' = pending_dma_req
        /\ UNCHANGED <<posted, host, dmaErr, executed, told, refused>>
    BY DEF Answering, Polled
  <1>2. /\ DmaFull(n) => dma' = dma
        /\ ~DmaFull(n) => dma' = Put(dma, n, w)
        /\ spinning' = spinning
        /\ dropped' = IF DmaFull(n) THEN Add(dropped, n, 1) ELSE dropped
    BY DEF Answering, DmaTryPost
  <1>3. /\ WireInv /\ Numbers /\ Growing /\ Failing /\ MatchInv
        /\ DmaInv /\ QueueInv /\ HistoryInv /\ HostInv' /\ Serving /\ Crediting
    BY DEF Stepping, NicInv
  <1>4. Received(n, p) /\ WireInv'
    BY <1>1, <1>3, PolledEffect, PolledKeepsWire
  <1>5. /\ wire'[n] = wire[n] /\ Shorter(wire[o], 1, wire'[o]) /\ p = wire[o][1] /\ Verifies(p)
    BY <1>1, <1>4 DEF Received
  <1>6. LiveAnswer(p, K)
    BY <1>1, <1>5 DEF LiveAnswer
  <1> HIDE DEF p, o
  <1>7. /\ Tail(q) \in Seq(Request) /\ Elems(Tail(q)) \subseteq Elems(q)
        /\ Head(q) \in Request /\ p.id \in Ids /\ <<Head(q).id, p.id>> \in Credited(n)
        /\ MatchOf(Tail(q), wire'[o], dma[o], wire[n], K, Parts(n), Served(n))
    BY <1>3, <1>4, <1>6, AnswerIs DEF o
  <1>8. /\ w \in Work /\ w.status = "pending" /\ w.op \notin {"send", "read", "write"}
        /\ WorkOf(n, w, executed[n], Credited(n))
    BY <1>1, <1>7 DEF NewWork, Work, WorkOf, Access
  <1> HIDE DEF w
  <1>9. /\ DmaInv' /\ \A m \in Nics : m # n => dma'[m] = dma[m]
        /\ ~DmaFull(n) => Longer(dma[n], w, dma'[n])
    <2>1. /\ spinning' \in [Nics -> BOOLEAN] /\ pending_dma_req' \in [Nics -> 0 .. ReadLimit]
          /\ \A m \in Nics : pending_dma_req'[m] = pending_dma_req[m]
      BY <1>1, <1>2, <1>3 DEF DmaInv
    <2>2. dmaErr' = dmaErr /\ w.op # "read"
      BY <1>1, <1>8
    <2>. QED BY <1>2, <1>3, <1>8, <2>1, <2>2, PostKeepsDma
  <1>10. /\ Awaited(n, K)' = Tail(q)
         /\ \A m \in Nics, L \in Answered : m # n \/ L # K => Awaited(m, L)' = Awaited(m, L)
         /\ read_queue' \in [Nics -> Seq(Request)] /\ write_queue' \in [Nics -> Seq(Request)]
    <2>1. read_queue \in [Nics -> Seq(Request)] /\ write_queue \in [Nics -> Seq(Request)]
      BY <1>3 DEF QueueInv
    <2>2. CASE K = "READ"
      <3>1. read_queue' = [read_queue EXCEPT ![n] = Tail(q)] /\ write_queue' = write_queue
        BY <1>1, <2>2 DEF Drop, Awaited
      <3> HIDE DEF q
      <3>2. /\ read_queue'[n] = Tail(q) /\ \A m \in Nics : m # n => read_queue'[m] = read_queue[m]
            /\ read_queue' \in [Nics -> Seq(Request)]
        BY <1>7, <2>1, <3>1
      <3>. QED BY <2>1, <2>2, <3>1, <3>2 DEF Awaited, Answered
    <2>3. CASE K = "WRITE"
      <3>1. write_queue' = [write_queue EXCEPT ![n] = Tail(q)] /\ read_queue' = read_queue
        BY <1>1, <2>3 DEF Drop, Awaited
      <3> HIDE DEF q
      <3>2. /\ write_queue'[n] = Tail(q) /\ \A m \in Nics : m # n => write_queue'[m] = write_queue[m]
            /\ write_queue' \in [Nics -> Seq(Request)]
        BY <1>7, <2>1, <3>1
      <3>. QED BY <2>1, <2>3, <3>1, <3>2 DEF Awaited, Answered
    <2>. QED BY <2>2, <2>3 DEF Answered
  <1>11. QueueInv'
    <2> HIDE DEF q
    <2>1. \A m \in Nics, L \in Answered : \A r \in Elems(Awaited(m, L)') : r.id[1] = m
      <3> SUFFICES ASSUME NEW m \in Nics, NEW L \in Answered PROVE \A r \in Elems(Awaited(m, L)') : r.id[1] = m
        OBVIOUS
      <3>1. \A r \in Elems(Awaited(m, L)) : r.id[1] = m
        BY <1>3 DEF QueueInv
      <3>2. CASE m = n /\ L = K
        BY <1>7, <1>10, <3>1, <3>2 DEF q
      <3>3. CASE m # n \/ L # K
        BY <1>10, <3>1, <3>3
      <3>. QED BY <3>2, <3>3
    <2>. QED BY <1>10, <2>1 DEF QueueInv
  <1>12. HistoryInv'
    <2>1. dropped' \in [Nics -> Nat]
      BY <1>2, <1>3 DEF HistoryInv, Add
    <2>. QED BY <1>1, <1>3, <2>1, HistoryKept
  <1> HIDE DEF q
  <1>13. /\ \A m \in Nics : Served(m)' = Served(m)
         /\ \A m \in Nics : Parts(m)' = Parts(m)
    BY <1>1, <1>2, <1>3, PartsSame DEF Served
  <1>14. Match(n, K)'
    <2> DEFINE q2 == Tail(q)
               a2 == wire'[o]
               d == dma[o]
               s == wire[n]
               g == Parts(n)
               b == Served(n)
    <2>1. MatchOf(q2, a2, d, s, K, g, b)
      BY <1>7
    <2>2. /\ Awaited(n, K)' = q2 /\ dma'[Other(n)] = d /\ wire'[Other(n)] = a2 /\ wire'[n] = s
          /\ Parts(n)' = g /\ Served(n)' = b
      BY <1>0, <1>5, <1>9, <1>10, <1>13 DEF o
    <2> HIDE DEF q2, a2, d, s, g, b
    <2>. QED BY <2>1, <2>2, Zenon DEF Match
  <1>15. ASSUME NEW m \in Nics, NEW L \in Answered, m = o \/ L # K PROVE Match(m, L)'
    <2>1. /\ ARise(wire[Other(m)], L) /\ ANums(wire[Other(m)], L) \subseteq Nat
          /\ WRise(wire[m], L) /\ WNums(wire[m], L) \subseteq Nat
      BY <1>3, MatchIs
    <2>2. ~LiveRequest(p, L) /\ (m = n => ~LiveAnswer(p, L))
      BY <1>0, <1>1, <1>15 DEF LiveRequest, LiveAnswer
    <2>3. SameAnswers(wire[Other(m)], wire'[Other(m)], L)
      <3>1. CASE m = n
        BY <1>5, <2>1, <2>2, <3>1, OtherPacketReceived DEF o
      <3>2. CASE m = o
        BY <1>0, <1>5, <3>2, Unmoved
      <3>. QED BY <1>0, <3>1, <3>2
    <2>4. SameRequests(wire[m], wire'[m], L)
      <3>1. CASE m = n
        BY <1>5, <3>1, Unmoved
      <3>2. CASE m = o
        BY <1>5, <2>1, <2>2, <3>2, OtherPacketReceived
      <3>. QED BY <1>0, <3>1, <3>2
    <2>5. SameWorks(dma[Other(m)], Parts(m), dma'[Other(m)], Parts(m)', L)
      <3>1. CASE dma'[Other(m)] = dma[Other(m)]
        BY <1>13, <3>1, WorksUnmoved
      <3>2. CASE dma'[Other(m)] # dma[Other(m)]
        <4>1. Other(m) = n /\ ~DmaFull(n)
          BY <1>2, <1>9, <3>2, OtherNic
        <4>2. ~LiveWork(w, Parts(m), L)
          BY <1>8 DEF LiveWork
        <4>3. Longer(dma[n], w, dma'[n])
          BY <1>9, <4>1
        <4>. QED BY <1>13, <4>1, <4>2, <4>3, OtherWorkPosted
      <3>. QED BY <3>1, <3>2
    <2>7. Awaited(m, L)' = Awaited(m, L)
      BY <1>0, <1>10, <1>15
    <2>. QED BY <1>3, <2>3, <2>4, <2>5, <2>7, MatchKept
  <1>16. MatchInv'
    BY <1>0, <1>14, <1>15 DEF MatchInv
  <1>. QED BY <1>3, <1>4, <1>9, <1>11, <1>12, <1>16 DEF NicInv

\* What a host is told done is credited to an answer.
LEMMA ExecuteKeepsHistory ==
  ASSUME HistoryInv, Growing, Failing, Crediting, NEW n \in Nics, NEW i, NEW ok \in BOOLEAN, ExecutedAt(n, i, ok)
  PROVE  HistoryInv'
  <1> DEFINE w == dma[n][i]
             t == [id |-> w.req.id, by |-> w.by,
                   outcome |-> IF w.op = "notice" THEN "failed" ELSE "done"]
  <1>1. /\ executed \in [Nics -> SUBSET Ids] /\ dropped \in [Nics -> Nat] /\ AnswersMatch
        /\ told \in [Nics -> SUBSET [id : Ids, by : Ids, outcome : {"done", "failed"}]]
    BY DEF HistoryInv
  <1>2. /\ w \in Work /\ WorkOf(n, w, executed[n], Credited(n))
        /\ executed' = IF ok /\ w.op \in {"send", "read", "write"}
                       THEN [executed EXCEPT ![n] = @ \cup {w.req.id}] ELSE executed
        /\ told' = IF ok /\ Reported(w) THEN [told EXCEPT ![n] = @ \cup {t}] ELSE told
        /\ dropped' = dropped
    BY DEF ExecutedAt
  <1> HIDE DEF w
  <1>3. w.req.id \in Ids /\ w.by \in Ids
    BY <1>2 DEF Work, Request
  <1>4. executed' \in [Nics -> SUBSET Ids]
    BY <1>1, <1>2, <1>3
  <1>5. t \in [id : Ids, by : Ids, outcome : {"done", "failed"}]
    BY <1>3
  <1>6. Reported(w) => /\ t.outcome = "done" => t.by \in executed'[Other(n)]
                       /\ InOrder(n)' => t.id = t.by
    <2> SUFFICES ASSUME Reported(w)
                 PROVE  /\ t.outcome = "done" => t.by \in executed'[Other(n)]
                        /\ InOrder(n)' => t.id = t.by
      OBVIOUS
    <2>1. CASE w.op = "notice"
      BY <1>2, <2>1 DEF WorkOf
    <2>2. CASE w.op \in {"answer", "ack"}
      <3>1. <<w.req.id, w.by>> \in Credited(n)'
        BY <1>2, <2>2 DEF WorkOf, Crediting
      <3>2. w.by \in executed'[Other(n)] /\ (InOrder(n)' => w.req.id = w.by)
        BY <3>1 DEF Credited
      <3>. QED BY <3>2
    <2>. QED BY <2>1, <2>2 DEF Reported
  <1> HIDE DEF t
  <1>7. told' \in [Nics -> SUBSET [id : Ids, by : Ids, outcome : {"done", "failed"}]]
    BY <1>1, <1>2, <1>5
  <1>8. \A m \in Nics : \A x \in told'[m] : x \in told[m] \/ (m = n /\ x = t /\ Reported(w))
    BY <1>1, <1>2
  <1>9. AnswersMatch'
    <2> SUFFICES ASSUME NEW m \in Nics, NEW x \in told'[m]
                 PROVE  /\ x.outcome = "done" => x.by \in executed'[Other(m)]
                        /\ InOrder(m)' => x.id = x.by
      BY DEF AnswersMatch, InOrder
    <2>1. CASE x \in told[m]
      <3>1. executed[Other(m)] \subseteq executed'[Other(m)] /\ (InOrder(m)' => InOrder(m))
        BY OtherNic DEF Growing, Failing, InOrder
      <3>. QED BY <1>1, <2>1, <3>1 DEF AnswersMatch, InOrder
    <2>2. CASE x \notin told[m]
      BY <1>6, <1>8, <2>2
    <2>. QED BY <2>1, <2>2
  <1>. QED BY <1>1, <1>2, <1>4, <1>7, <1>9 DEF HistoryInv

LEMMA ExecuteKeeps ==
  ASSUME Stepping, NEW n \in Nics, NEW i, NEW ok \in BOOLEAN, ExecutedAt(n, i, ok)
  PROVE  NicInv'
  <1> DEFINE o == Other(n)
  <1>0. o \in Nics /\ o # n /\ Other(o) = n /\ \A m \in Nics : m = n \/ m = o
    BY OtherNic DEF Nics, Other
  <1>1. /\ Executed(dma[n], i, IF ok THEN "ok" ELSE "error", dma'[n])
        /\ \A m \in Nics : m # n => dma'[m] = dma[m]
        /\ ok => ~dmaErr[n]
        /\ dmaErr' = [dmaErr EXCEPT ![n] = ~ok]
        /\ UNCHANGED <<posted, wire, queues, spinning, refused>>
        /\ host'[o] = host[o]
    BY <1>0 DEF ExecutedAt
  <1>2. /\ WireInv /\ Growing /\ Failing /\ MatchInv
        /\ DmaInv /\ QueueInv /\ HistoryInv /\ HostInv' /\ Serving /\ Crediting
    BY DEF Stepping, NicInv
  <1>3. WireInv'
    BY <1>1, <1>2 DEF WireInv, PacketFrom, Growing, Failing
  <1>4. DmaInv'
    BY <1>2, ExecuteKeepsDma
  <1>5. QueueInv' /\ \A m, K : Awaited(m, K)' = Awaited(m, K)
    BY <1>1, <1>2, QueuesKept
  <1>6. HistoryInv'
    BY <1>2, ExecuteKeepsHistory
  <1>7. dmaErr'[n] = ~ok /\ \A m \in Nics : m # n => dmaErr'[m] = dmaErr[m]
    BY <1>1, <1>2 DEF DmaInv
  <1> HIDE DEF o
  <1>8. ASSUME NEW m \in Nics, NEW K \in Answered,
               SameWorks(dma[Other(m)], Parts(m), dma'[Other(m)], Parts(m)', K)
        PROVE  Match(m, K)'
    <2>3. SameAnswers(wire[Other(m)], wire'[Other(m)], K) /\ SameRequests(wire[m], wire'[m], K)
      BY <1>1, Unmoved
    <2>. QED BY <1>2, <1>5, <1>8, <2>3, MatchKept
  <1>9. ASSUME NEW K \in Answered PROVE Match(n, K)'
    <2>1. Parts(n)' = Parts(n) /\ dma'[o] = dma[o]
      BY <1>0, <1>1, <1>2, <1>7, PartsSame DEF o
    <2>. QED BY <1>8, <2>1, WorksUnmoved DEF o
  <1>10. ASSUME NEW K \in Answered, ok PROVE Match(o, K)'
    <2>1. "dma" \in Parts(o) /\ Parts(o)' = Parts(o)
      <3>1. ~dmaErr[n] /\ ~dmaErr'[n]
        BY <1>1, <1>7, <1>10
      <3>2. dmaErr'[n] = dmaErr[n]
        BY <1>2, <1>4, <3>1 DEF DmaInv
      <3>. QED BY <1>0, <1>1, <1>2, <3>1, <3>2, PartsAre, PartsSame DEF o
    <2>2. Executed(dma[n], i, "ok", dma'[n])
      BY <1>1, <1>10
    <2> DEFINE g == Parts(o)
    <2> HIDE DEF g
    <2>3. SameWorks(dma[n], g, dma'[n], g, K)
      BY <2>1, <2>2, WorkSucceeded DEF SameWorks, g
    <2>. QED BY <1>0, <1>8, <2>1, <2>3 DEF g
  <1>11. ASSUME NEW K \in Answered, ~ok PROVE Match(o, K)'
    <2> DEFINE q == Awaited(o, K)
               a == wire[n]
               d == dma[n]
               s == wire[o]
               g == Parts(o)
               b == Served(o)
               d2 == dma'[n]
               h == Parts(o)'
    <2>1. MatchOf(q, a, d, s, K, g, b)
      BY <1>0, <1>2, MatchIs
    <2>2. h \subseteq g /\ "dma" \notin h
      BY <1>0, <1>2, <1>7, <1>11, PartsFail, PartsAreNext
    <2>3. Executed(d, i, "error", d2)
      BY <1>1, <1>11
    <2>4. PendingBehind(d) /\ Len(d) \in Nat
      <3>1. d \in Seq(Work) /\ PendingBehind(d)
        BY <1>2 DEF DmaInv, DmaOf
      <3>. QED BY <3>1, ElemsIn
    <2>5. /\ Awaited(o, K)' = q /\ wire'[n] = a /\ wire'[o] = s /\ Served(o)' = b
      BY <1>1, <1>5 DEF Served
    <2> HIDE DEF q, a, d, s, g, b, d2, h
    <2>6. MatchOf(q, a, d2, s, K, h, b)
      BY <2>1, <2>2, <2>3, <2>4, MatchFailed
    <2>. QED BY <1>0, <2>5, <2>6, Zenon DEF Match, d2, h
  <1>12. MatchInv'
    BY <1>0, <1>9, <1>10, <1>11 DEF MatchInv
  <1>. QED BY <1>2, <1>3, <1>4, <1>5, <1>6, <1>12 DEF NicInv

\* The work w is done: what its completion leaves alone.
WorkDone(n, w, k) ==
  /\ TakenAt(n, w, k)
  /\ \/ pending_dma_req' = pending_dma_req
     \/ w.op = "read" /\ pending_dma_req' = Sub(pending_dma_req, n, 1)
  /\ UNCHANGED <<posted, host, dmaErr, queues, spinning, executed, told, dropped>>

LEMMA DoneKeeps ==
  ASSUME Stepping, NEW n \in Nics, NEW w, NEW k, WorkDone(n, w, k)
  PROVE  /\ DmaInv' /\ QueueInv' /\ HistoryInv' /\ \A m, K : Awaited(m, K)' = Awaited(m, K)
         /\ \A m \in Nics : m # n => dma'[m] = dma[m]
         /\ \A m \in Nics : Served(m)' = Served(m)
         /\ \A K \in Answered : DoneAt(dma[n], k, dma'[n], Parts(Other(n)), K)
  <1>1. /\ TakenAt(n, w, k) /\ UNCHANGED queues
        /\ executed' = executed /\ dmaErr' = dmaErr /\ spinning' = spinning
        /\ posted' = posted /\ host' = host /\ told' = told /\ dropped' = dropped
    BY DEF WorkDone
  <1>2. DmaInv /\ QueueInv /\ HistoryInv /\ MatchInv /\ Failing /\ Growing /\ Crediting
    BY DEF Stepping, NicInv
  <1>3. DmaInv'
    BY <1>1, <1>2, TakeKeepsDma DEF WorkDone
  <1>4. QueueInv' /\ \A m, K : Awaited(m, K)' = Awaited(m, K)
    BY <1>1, <1>2, QueuesKept
  <1>5. HistoryInv'
    BY <1>1, <1>2, HistoryKept DEF HistoryInv
  <1>6. ASSUME NEW K \in Answered PROVE DoneAt(dma[n], k, dma'[n], Parts(Other(n)), K)
    <2>1. Other(n) \in Nics /\ Other(Other(n)) = n
      BY OtherNic
    <2>2. DRise(dma[n], Parts(Other(n)), K) /\ DNums(dma[n], Parts(Other(n)), K) \subseteq Nat
      BY <1>2, <2>1, MatchIs
    <2>3. \A j \in 1 .. (k - 1) : ~LiveWork(dma[n][j], Parts(Other(n)), K)
      BY <1>1 DEF TakenAt, LiveWork
    <2>. QED BY <1>1, <2>2, <2>3 DEF TakenAt, DoneAt
  <1>7. \A m \in Nics : m # n => dma'[m] = dma[m]
    BY <1>1 DEF TakenAt
  <1>8. \A m \in Nics : Served(m)' = Served(m)
    BY <1>1 DEF Served
  <1>. QED BY <1>3, <1>4, <1>5, <1>6, <1>7, <1>8

\* No answer is sent for it, and none is awaited.
LEMMA UnansweredKeeps ==
  ASSUME Stepping, NEW n \in Nics, NEW w, NEW k, WorkDone(n, w, k),
         UNCHANGED <<wire, refused>>,
         \A K \in Answered : ~LiveWork(w, Parts(Other(n)), K)
  PROVE  NicInv'
  <1> DEFINE o == Other(n)
  <1>0. o \in Nics /\ o # n /\ Other(o) = n /\ \A m \in Nics : m = n \/ m = o
    BY OtherNic DEF Nics, Other
  <1>1. /\ DmaInv' /\ QueueInv' /\ HistoryInv' /\ \A m, K : Awaited(m, K)' = Awaited(m, K)
        /\ \A m \in Nics : m # n => dma'[m] = dma[m]
        /\ \A m \in Nics : Served(m)' = Served(m)
        /\ \A K \in Answered : DoneAt(dma[n], k, dma'[n], Parts(o), K)
    BY DoneKeeps
  <1>2. WireInv /\ MatchInv /\ Failing /\ HostInv' /\ Serving
    BY DEF Stepping, NicInv
  <1>3. WireInv' /\ \A m \in Nics : Parts(m)' = Parts(m)
    <2>1. UNCHANGED <<wire, refused, dmaErr, spinning, executed>>
      BY DEF WorkDone
    <2>. QED BY <1>2, <2>1, PartsSame DEF WireInv, Failing
  <1>4. ASSUME NEW m \in Nics, NEW K \in Answered PROVE Match(m, K)'
    <2>3. SameAnswers(wire[Other(m)], wire'[Other(m)], K) /\ SameRequests(wire[m], wire'[m], K)
      BY Unmoved
    <2>4. SameWorks(dma[Other(m)], Parts(m), dma'[Other(m)], Parts(m)', K)
      <3>1. CASE m = n
        <4>1. dma'[Other(m)] = dma[Other(m)]
          BY <1>0, <1>1, <3>1
        <4>. QED BY <1>3, <4>1, WorksUnmoved
      <3>2. CASE m = o
        <4>1. DoneAt(dma[n], k, dma'[n], Parts(o), K) /\ ~LiveWork(dma[n][k], Parts(o), K)
          BY <1>1 DEF WorkDone, TakenAt
        <4>2. SameWorks(dma[n], Parts(o), dma'[n], Parts(o), K)
          BY <4>1, WorkGone
        <4>. QED BY <1>0, <1>3, <3>2, <4>2
      <3>. QED BY <1>0, <3>1, <3>2
    <2>. QED BY <1>1, <1>2, <2>3, <2>4, MatchKept
  <1>. QED BY <1>1, <1>2, <1>3, <1>4 DEF NicInv, MatchInv

\* The answer to it is sent, or the post of it fails.
LEMMA AnsweredKeeps ==
  ASSUME Stepping, NEW n \in Nics, NEW w, NEW k, WorkDone(n, w, k),
         w.op \in Access, w.status = "ok", w.op = "write" => w.req.signaled,
         NEW tag, NEW size, Send(n, w.req, FALSE, tag, size)
  PROVE  NicInv'
  <1> DEFINE o == Other(n)
             p == Sealed(n, w.req, FALSE)
  <1>0. o \in Nics /\ o # n /\ Other(o) = n /\ \A m \in Nics : m = n \/ m = o
    BY OtherNic DEF Nics, Other
  <1>1. /\ DmaInv' /\ QueueInv' /\ HistoryInv' /\ \A m, K : Awaited(m, K)' = Awaited(m, K)
        /\ \A m \in Nics : m # n => dma'[m] = dma[m]
        /\ \A m \in Nics : Served(m)' = Served(m)
        /\ \A K \in Answered : DoneAt(dma[n], k, dma'[n], Parts(o), K)
    BY DoneKeeps
  <1>2. WireInv /\ MatchInv /\ Failing /\ HostInv' /\ Numbers /\ Growing /\ Serving
    BY DEF Stepping, NicInv
  <1>3. /\ w = dma[n][k] /\ w \in Work /\ WorkOf(n, w, executed[n], Credited(n))
        /\ w.req \in Request
        /\ UNCHANGED <<dmaErr, spinning, executed>>
    BY DEF WorkDone, TakenAt, Work
  <1>4. /\ w.req.id[1] = o /\ w.req.id \in executed'[n]
        /\ w.req.kind = (IF w.op = "read" THEN "READ" ELSE "WRITE")
    BY <1>3 DEF WorkOf, Access
  <1>5. /\ p.id = w.req.id /\ p.kind = w.req.kind /\ p.eth = FALSE /\ p.gap = refused[n] /\ p.mac = secured
    BY DEF Sealed
  <1>6. PacketFrom(n, p, executed'[n])
    <2>1. p.kind # "SEND" /\ p.id[1] = o /\ p.id \in executed'[n]
      BY <1>4, <1>5
    <2>. QED BY <1>5, <2>1, Zenon DEF PacketFrom, IsRequest
  <1>7. /\ WireInv' /\ \A m \in Nics : m # n => wire'[m] = wire[m]
        /\ HasRoom(n) => refused' = refused /\ Longer(wire[n], p, wire'[n])
        /\ ~HasRoom(n) => wire' = wire /\ refused' = Add(refused, n, 1)
    <2>1. FALSE \in BOOLEAN
      OBVIOUS
    <2>2. WireInv'
      BY <1>2, <1>3, <1>6, <2>1, SendKeepsWire
    <2>3. /\ \A m \in Nics : m # n => wire'[m] = wire[m]
          /\ HasRoom(n) => refused' = refused /\ Longer(wire[n], p, wire'[n])
          /\ ~HasRoom(n) => wire' = wire /\ refused' = Add(refused, n, 1)
      BY <1>2, <1>3, <2>1, SendEffectOnWire
    <2>. QED BY <2>2, <2>3
  <1>8. \A K \in Answered : LiveWork(w, Parts(o), K) <=> w.req.kind = K
    BY <1>4 DEF LiveWork, Asks, Access, Answered
  <1>9. \A K \in Answered : LiveAnswer(p, K) <=> w.req.kind = K /\ (secured => refused[n] = 0)
    BY <1>5 DEF LiveAnswer, Verifies
  <1> HIDE DEF p
  <1>10. ~HasRoom(n) => refused'[n] # 0 /\ \A m \in Nics : m # n => refused'[m] = refused[m]
    <2>1. refused \in [Nics -> Nat]
      BY <1>2 DEF Numbers, NonceInv, NonceTypes
    <2>. QED BY <1>7, <2>1 DEF Add
  <1> HIDE DEF o
  <1>11. ASSUME NEW K \in Answered PROVE Match(n, K)'
    <2>3. SameAnswers(wire[o], wire'[o], K)
      BY <1>0, <1>7, Unmoved
    <2>4. SameRequests(wire[n], wire'[n], K)
      <3>1. CASE HasRoom(n)
        <4>1. ~LiveRequest(p, K)
          BY <1>5 DEF LiveRequest
        <4>. QED BY <1>7, <3>1, <4>1, OtherPacketSent
      <3>2. CASE ~HasRoom(n)
        BY <1>7, <3>2, Unmoved
      <3>. QED BY <3>1, <3>2
    <2>5. SameWorks(dma[o], Parts(n), dma'[o], Parts(n)', K)
      <3>1. "dma" \in Parts(n) <=> "dma" \in Parts(n)'
        BY <1>3, PartsAre, PartsAreNext
      <3>2. dma'[o] = dma[o]
        BY <1>0, <1>1
      <3>. QED BY <3>1, <3>2, WorksUnmoved
    <2>. QED BY <1>1, <1>2, <2>3, <2>4, <2>5, MatchKept DEF o
  <1>12. ASSUME NEW K \in Answered PROVE Match(o, K)'
    <2> DEFINE q == Awaited(o, K)
               a == wire[n]
               d == dma[n]
               s == wire[o]
               g == Parts(o)
               b == Served(o)
               a2 == wire'[n]
               d2 == dma'[n]
               h == Parts(o)'
    <2>1. MatchOf(q, a, d, s, K, g, b) /\ b \in Nat
      BY <1>0, <1>2, MatchIs
    <2>2. /\ "server" \in g <=> refused[n] = 0
          /\ "order" \in g <=> secured \/ refused[n] = 0
          /\ "server" \in h <=> refused'[n] = 0
          /\ "dma" \in h <=> "dma" \in g
          /\ h \subseteq g
      BY <1>0, <1>2, <1>3, PartsAre, PartsAreNext, PartsFail DEF InOrder
    <2>3. HasRoom(n) => h = g
      BY <1>0, <1>2, <1>3, <1>7, PartsSame
    <2>4. ASSUME MatchOf(q, a2, d2, s, K, h, b) PROVE Match(o, K)'
      <3>1. /\ Awaited(o, K)' = q /\ wire'[o] = s /\ Served(o)' = b
        BY <1>0, <1>1, <1>7
      <3> HIDE DEF q, a2, d2, s, h, b
      <3>2. Match(o, K)' <=> MatchOf(Awaited(o, K)', wire'[n], dma'[n], wire'[o], K, h, Served(o)')
        BY <1>0, Zenon DEF Match, h
      <3>. QED BY <2>4, <3>1, <3>2, Zenon DEF a2, d2
    <2>5. DoneAt(d, k, d2, g, K) /\ w = d[k]
      BY <1>1, <1>3
    <2>6. CASE w.req.kind = K
      <3>1. /\ Shorter(d, k, d2) /\ LiveWork(d[k], g, K) /\ \A j \in 1 .. (k - 1) : ~LiveWork(d[j], g, K)
        BY <1>8, <2>5, <2>6 DEF DoneAt
      <3>2. CASE HasRoom(n)
        <4>1. /\ p.id[2] = d[k].req.id[2] /\ (LiveAnswer(p, K) <=> "server" \in g \/ "order" \notin g) /\ Longer(a, p, a2)
          BY <1>5, <1>7, <1>9, <2>2, <2>5, <2>6, <3>2
        <4> HIDE DEF q, a, d, s, g, b, a2, d2, h
        <4>2. MatchOf(q, a2, d2, s, K, g, b)
          BY <2>1, <3>1, <4>1, MatchDone
        <4>. QED BY <2>3, <2>4, <3>2, <4>2
      <3>3. CASE ~HasRoom(n)
        <4>1. a2 = a /\ "server" \notin h
          BY <1>7, <1>10, <2>2, <3>3
        <4> HIDE DEF q, a, d, s, g, b, a2, d2, h
        <4>2. MatchOf(q, a, d2, s, K, h, b)
          BY <2>1, <2>2, <3>1, <4>1, MatchUnanswered
        <4>. QED BY <2>4, <4>1, <4>2
      <3>. QED BY <3>2, <3>3
    <2>7. CASE w.req.kind # K
      <3>1. ~LiveAnswer(p, K) /\ ~LiveWork(d[k], g, K)
        BY <1>8, <1>9, <2>5, <2>7
      <3>2. SameAnswers(a, a2, K)
        <4>1. CASE HasRoom(n)
          BY <1>7, <3>1, <4>1, OtherPacketSent
        <4>2. CASE ~HasRoom(n)
          BY <1>7, <4>2, Unmoved
        <4>. QED BY <4>1, <4>2
      <3>3. SameRequests(s, s, K)
        BY Unmoved
      <3> HIDE DEF q, a, d, s, g, b, a2, d2, h
      <3>4. SameWorks(d, g, d2, h, K)
        BY <2>2, <2>5, <3>1, OtherWorkDone
      <3>5. MatchOf(q, a2, d2, s, K, h, b)
        BY <2>1, <2>2, <3>2, <3>3, <3>4, MatchSame
      <3>. QED BY <2>4, <3>5
    <2>. QED BY <2>6, <2>7
  <1>13. MatchInv'
    BY <1>0, <1>11, <1>12 DEF MatchInv
  <1>. QED BY <1>1, <1>2, <1>7, <1>13 DEF NicInv

LEMMA DmaDoneKeeps ==
  ASSUME Stepping, NEW n \in Nics, DmaDone(n) \/ DmaReadDone(n) \/ DmaWriteDone(n)
  PROVE  NicInv'
  <1>0. DmaInv
    BY DEF Stepping, NicInv
  <1>1. ASSUME NEW w, Completed(n, w),
               \/ pending_dma_req' = pending_dma_req
               \/ w.op = "read" /\ pending_dma_req' = Sub(pending_dma_req, n, 1)
        PROVE  \E k : WorkDone(n, w, k)
    <2>1. PICK k : TakenAt(n, w, k)
      BY <1>0, <1>1, CompletedIs
    <2>. QED BY <1>1, <2>1 DEF Completed, WorkDone
  <1>2. CASE DmaDone(n)
    <2>1. PICK w \in Works(n) :
            /\ Completed(n, w) /\ (w.status = "error" \/ w.op \in {"send", "answer", "ack"})
            /\ UNCHANGED <<wire, refused, pending_dma_req>>
      BY <1>2 DEF DmaDone, NothingSent
    <2>2. PICK k : WorkDone(n, w, k)
      BY <1>1, <2>1
    <2>3. \A K \in Answered : ~LiveWork(w, Parts(Other(n)), K)
      BY <2>1 DEF LiveWork
    <2>. QED BY <2>1, <2>2, <2>3, UnansweredKeeps
  <1>3. CASE DmaReadDone(n)
    <2>1. PICK w \in Works(n) :
            /\ Completed(n, w) /\ w.status = "ok" /\ w.op = "read"
            /\ pending_dma_req' = Sub(pending_dma_req, n, 1)
            /\ Send(n, w.req, FALSE, "virt", 0)
      BY <1>3 DEF DmaReadDone
    <2>2. PICK k : WorkDone(n, w, k)
      BY <1>1, <2>1
    <2>3. w.op \in Access /\ w.op # "write"
      BY <2>1 DEF Access
    <2>. QED BY <2>1, <2>2, <2>3, AnsweredKeeps
  <1>4. CASE DmaWriteDone(n)
    <2>1. PICK w \in Works(n) :
            /\ Completed(n, w) /\ w.status = "ok" /\ w.op = "write"
            /\ IF w.req.signaled THEN Send(n, w.req, FALSE, "none", Header) ELSE NothingSent
            /\ UNCHANGED pending_dma_req
      BY <1>4 DEF DmaWriteDone
    <2>2. PICK k : WorkDone(n, w, k)
      BY <1>1, <2>1
    <2>3. CASE w.req.signaled
      <3>1. w.op \in Access
        BY <2>1 DEF Access
      <3>. QED BY <2>1, <2>2, <2>3, <3>1, AnsweredKeeps
    <2>4. CASE ~w.req.signaled
      <3>1. UNCHANGED <<wire, refused>>
        BY <2>1, <2>4 DEF NothingSent
      <3>2. w.req.kind = "WRITE"
        BY <2>1, <2>2 DEF WorkDone, TakenAt, WorkOf
      <3>3. \A K \in Answered : ~LiveWork(w, Parts(Other(n)), K)
        BY <2>4, <3>2 DEF LiveWork, Asks
      <3>. QED BY <2>2, <3>1, <3>3, UnansweredKeeps
    <2>. QED BY <2>3, <2>4
  <1>. QED BY <1>2, <1>3, <1>4

\* A notice is told of the request itself.
LEMMA NoticeIs ==
  ASSUME NEW r \in Request, NEW n, NEW X, NEW Y
  PROVE  LET w == NewWork("notice", r, r.id)
         IN /\ w \in Work /\ w.status = "pending" /\ w.op = "notice" /\ WorkOf(n, w, X, Y)
  BY DEF NewWork, Work, Request, WorkOf, Access

\* The NIC sends the request its host posted, or tells the host that it cannot.
LEMMA AskKeeps ==
  ASSUME Stepping, NEW n \in Nics, ProcessSendRequest(n)
  PROVE  NicInv'
  <1> DEFINE o == Other(n)
             r == Head(host[n])
             eth == r.kind # "SEND"
             p == Sealed(n, r, eth)
             w == NewWork("notice", r, r.id)
             b == Served(n)
  <1>0. o \in Nics /\ o # n /\ Other(o) = n /\ \A m \in Nics : m = n \/ m = o
    BY OtherNic DEF Nics, Other
  <1>1. /\ ~spinning[n] /\ host' = Drop(host, n)
        /\ \E tag, size : Send(n, r, eth, tag, size)
        /\ HasRoom(n) =>
             /\ read_queue' = IF r.kind = "READ" THEN Put(read_queue, n, r) ELSE read_queue
             /\ write_queue' = IF RemembersWrite(r) THEN Put(write_queue, n, r) ELSE write_queue
             /\ UNCHANGED <<dma, spinning, dropped>>
        /\ ~HasRoom(n) => DmaPost(n, w) /\ UNCHANGED queues
        /\ UNCHANGED <<posted, dmaErr, pending_dma_req, executed, told>>
    BY DEF ProcessSendRequest
  <1>2. /\ WireInv /\ MatchInv /\ Failing /\ Numbers /\ Growing
        /\ DmaInv /\ QueueInv /\ HistoryInv /\ HostInv /\ HostInv' /\ Serving /\ Crediting
    BY DEF Stepping, NicInv
  <1>3. /\ r \in Request /\ r.id = <<n, b + 1>>
        /\ b \in Nat /\ b + 1 <= Served(n)'
    BY <1>2, TakeKeepsHost
  <1> HIDE DEF r, b
  <1>5. /\ r.kind \in Kinds /\ r.signaled \in BOOLEAN /\ r.id[1] = n /\ r.id[2] = b + 1 /\ eth \in BOOLEAN
    BY <1>3 DEF Request
  <1>6. /\ p.id = r.id /\ p.kind = r.kind /\ p.signaled = r.signaled /\ p.eth = eth
        /\ p.gap = refused[n] /\ p.mac = secured
    BY DEF Sealed
  <1>7. PacketFrom(n, p, executed'[n])
    <2>1. p.id[1] = n /\ (p.eth \/ p.kind = "SEND")
      BY <1>5, <1>6
    <2>. QED BY <2>1, Zenon DEF PacketFrom, IsRequest
  <1>8. \A K \in Answered : /\ ~LiveAnswer(p, K)
                            /\ LiveRequest(p, K) <=> Asks(r, K) /\ (secured => refused[n] = 0)
    BY <1>5, <1>6 DEF LiveAnswer, LiveRequest, Verifies, Asks, Answered, Kinds
  <1> HIDE DEF eth
  <1>9. /\ WireInv' /\ \A m \in Nics : m # n => wire'[m] = wire[m]
        /\ HasRoom(n) => refused' = refused /\ Longer(wire[n], p, wire'[n])
        /\ ~HasRoom(n) => wire' = wire /\ refused' = Add(refused, n, 1)
    <2>1. PICK tag, size : Send(n, r, eth, tag, size)
      BY <1>1
    <2>2. WireInv'
      BY <1>2, <1>3, <1>5, <1>7, <2>1, SendKeepsWire
    <2>3. /\ \A m \in Nics : m # n => wire'[m] = wire[m]
          /\ HasRoom(n) => refused' = refused /\ Longer(wire[n], p, wire'[n])
          /\ ~HasRoom(n) => wire' = wire /\ refused' = Add(refused, n, 1)
      BY <1>2, <1>3, <1>5, <2>1, SendEffectOnWire
    <2>. QED BY <2>2, <2>3
  <1>10. /\ w \in Work /\ w.status = "pending" /\ w.op = "notice"
         /\ WorkOf(n, w, executed[n], Credited(n))
    BY <1>3, NoticeIs
  <1> HIDE DEF p, w, o
  <1>11. HistoryInv'
    <2>1. dropped' = dropped
      BY <1>1 DEF DmaPost
    <2>. QED BY <1>1, <1>2, <2>1, HistoryKept DEF HistoryInv
  <1>12. /\ DmaInv' /\ \A m \in Nics : m # n => dma'[m] = dma[m]
         /\ dma' = dma \/ Longer(dma[n], w, dma'[n])
         /\ HasRoom(n) => dma' = dma /\ spinning' = spinning
    <2>1. CASE HasRoom(n)
      <3>1. UNCHANGED <<dma, dmaErr, spinning, pending_dma_req>>
        BY <1>1, <2>1
      <3>. QED BY <1>2, <2>1, <3>1, DmaSame
    <2>2. CASE ~HasRoom(n)
      <3>1. /\ DmaFull(n) => dma' = dma
            /\ ~DmaFull(n) => dma' = Put(dma, n, w)
            /\ spinning' = [spinning EXCEPT ![n] = DmaFull(n)]
        BY <1>1, <2>2 DEF DmaPost
      <3>2. spinning' \in [Nics -> BOOLEAN]
        BY <1>2, <3>1 DEF DmaInv, DmaFull
      <3>3. /\ pending_dma_req' \in [Nics -> 0 .. ReadLimit]
            /\ \A m \in Nics : pending_dma_req'[m] = pending_dma_req[m]
            /\ dmaErr' = dmaErr
        BY <1>1, <1>2 DEF DmaInv
      <3>4. w.op # "read"
        BY <1>10
      <3>5. /\ DmaInv' /\ \A m \in Nics : m # n => dma'[m] = dma[m]
            /\ ~DmaFull(n) => Longer(dma[n], w, dma'[n])
        BY <1>2, <1>10, <3>1, <3>2, <3>3, <3>4, PostKeepsDma
      <3>. QED BY <2>2, <3>1, <3>5
    <2>. QED BY <2>1, <2>2
  <1>13. /\ \A m \in Nics, K \in Answered :
              ~(m = n /\ HasRoom(n) /\ Asks(r, K)) => Awaited(m, K)' = Awaited(m, K)
         /\ \A K \in Answered :
              HasRoom(n) /\ Asks(r, K) => /\ Longer(Awaited(n, K), r, Awaited(n, K)')
                                          /\ Elems(Awaited(n, K)') = Elems(Awaited(n, K)) \cup {r}
         /\ read_queue' \in [Nics -> Seq(Request)] /\ write_queue' \in [Nics -> Seq(Request)]
    <2>0. read_queue \in [Nics -> Seq(Request)] /\ write_queue \in [Nics -> Seq(Request)]
      BY <1>2 DEF QueueInv
    <2>1. \A s \in Seq(Request) : /\ Append(s, r) \in Seq(Request) /\ Longer(s, r, Append(s, r))
                                  /\ Elems(Append(s, r)) = Elems(s) \cup {r}
      BY <1>3, AppendedIn
    <2>2. ASSUME NEW f \in [Nics -> Seq(Request)], NEW g, g = Put(f, n, r)
          PROVE  /\ g \in [Nics -> Seq(Request)] /\ \A m \in Nics : m # n => g[m] = f[m]
                 /\ Longer(f[n], r, g[n]) /\ Elems(g[n]) = Elems(f[n]) \cup {r}
      <3>1. f[n] \in Seq(Request)
        OBVIOUS
      <3>2. g[n] = Append(f[n], r) /\ \A m \in Nics : m # n => g[m] = f[m]
        BY <2>2 DEF Put
      <3>3. g \in [Nics -> Seq(Request)]
        BY <2>1, <2>2, <3>1 DEF Put
      <3>. QED BY <2>1, <3>1, <3>2, <3>3
    <2>3. /\ HasRoom(n) /\ Asks(r, "READ") => read_queue' = Put(read_queue, n, r)
          /\ ~(HasRoom(n) /\ Asks(r, "READ")) => read_queue' = read_queue
          /\ HasRoom(n) /\ Asks(r, "WRITE") => write_queue' = Put(write_queue, n, r)
          /\ ~(HasRoom(n) /\ Asks(r, "WRITE")) => write_queue' = write_queue
      BY <1>1 DEF Asks, RemembersWrite, queues
    <2>4. /\ read_queue' \in [Nics -> Seq(Request)]
          /\ \A m \in Nics : ~(m = n /\ HasRoom(n) /\ Asks(r, "READ")) => read_queue'[m] = read_queue[m]
          /\ HasRoom(n) /\ Asks(r, "READ") => /\ Longer(read_queue[n], r, read_queue'[n])
                                              /\ Elems(read_queue'[n]) = Elems(read_queue[n]) \cup {r}
      BY <2>0, <2>2, <2>3
    <2>5. /\ write_queue' \in [Nics -> Seq(Request)]
          /\ \A m \in Nics : ~(m = n /\ HasRoom(n) /\ Asks(r, "WRITE")) => write_queue'[m] = write_queue[m]
          /\ HasRoom(n) /\ Asks(r, "WRITE") => /\ Longer(write_queue[n], r, write_queue'[n])
                                               /\ Elems(write_queue'[n]) = Elems(write_queue[n]) \cup {r}
      BY <2>0, <2>2, <2>3
    <2>. QED BY <2>4, <2>5, Zenon DEF Awaited, Answered
  <1>14. QueueInv'
    <2>1. ASSUME NEW m \in Nics, NEW K \in Answered, NEW x \in Elems(Awaited(m, K)') PROVE x.id[1] = m
      <3>1. \A y \in Elems(Awaited(m, K)) : y.id[1] = m
        BY <1>2 DEF QueueInv
      <3>2. CASE m = n /\ HasRoom(n) /\ Asks(r, K)
        BY <1>5, <1>13, <2>1, <3>1, <3>2
      <3>3. CASE ~(m = n /\ HasRoom(n) /\ Asks(r, K))
        <4>1. Awaited(m, K)' = Awaited(m, K)
          BY <1>13, <3>3
        <4>. QED BY <2>1, <3>1, <4>1
      <3>. QED BY <3>2, <3>3
    <2>. QED BY <1>13, <2>1 DEF QueueInv
  <1>15. ASSUME NEW m \in Nics, NEW K \in Answered, ~(m = n /\ HasRoom(n) /\ Asks(r, K))
         PROVE  Match(m, K)'
    <2>3. SameAnswers(wire[Other(m)], wire'[Other(m)], K)
      <3>1. CASE wire'[Other(m)] = wire[Other(m)]
        BY <3>1, Unmoved
      <3>2. CASE wire'[Other(m)] # wire[Other(m)]
        <4>1. Other(m) = n /\ Longer(wire[n], p, wire'[n])
          BY <1>9, <3>2, OtherNic
        <4>. QED BY <1>8, <4>1, OtherPacketSent
      <3>. QED BY <3>1, <3>2
    <2>4. SameRequests(wire[m], wire'[m], K)
      <3>1. CASE wire'[m] = wire[m]
        BY <3>1, Unmoved
      <3>2. CASE wire'[m] # wire[m]
        <4>1. m = n /\ HasRoom(n) /\ Longer(wire[n], p, wire'[n])
          BY <1>9, <3>2
        <4>2. ~LiveRequest(p, K)
          BY <1>8, <1>15, <4>1
        <4>. QED BY <4>1, <4>2, OtherPacketSent
      <3>. QED BY <3>1, <3>2
    <2>5. SameWorks(dma[Other(m)], Parts(m), dma'[Other(m)], Parts(m)', K)
      <3>1. "dma" \in Parts(m) <=> "dma" \in Parts(m)'
        BY <1>1, PartsAre, PartsAreNext
      <3>2. CASE dma'[Other(m)] = dma[Other(m)]
        BY <3>1, <3>2, WorksUnmoved
      <3>3. CASE dma'[Other(m)] # dma[Other(m)]
        <4>1. Other(m) = n /\ Longer(dma[n], w, dma'[n])
          BY <1>12, <3>3, OtherNic
        <4>2. ~LiveWork(w, Parts(m), K)
          BY <1>10 DEF LiveWork
        <4>. QED BY <3>1, <4>1, <4>2, OtherWorkPosted
      <3>. QED BY <3>2, <3>3
    <2>6. Awaited(m, K)' = Awaited(m, K)
      BY <1>13, <1>15
    <2>. QED BY <1>2, <2>3, <2>4, <2>5, <2>6, MatchKept
  <1>16. ASSUME NEW K \in Answered, HasRoom(n), Asks(r, K) PROVE Match(n, K)'
    <2> DEFINE q == Awaited(n, K)
               a == wire[o]
               d == dma[o]
               s == wire[n]
               g == Parts(n)
               q2 == Awaited(n, K)'
               s2 == wire'[n]
    <2>1. MatchOf(q, a, d, s, K, g, b)
      BY <1>2, MatchIs DEF o, b
    <2>2. Longer(q, r, q2) /\ Longer(s, p, s2) /\ r.id[2] = b + 1 /\ p.id[2] = b + 1
      BY <1>5, <1>6, <1>9, <1>13, <1>16
    <2>3. LiveRequest(p, K) <=> "asker" \in g
      BY <1>8, <1>16, PartsAre
    <2>4. wire'[Other(n)] = a /\ dma'[Other(n)] = d /\ Parts(n)' = g
      <3>1. UNCHANGED <<dma, spinning, dmaErr, refused>>
        BY <1>1, <1>9, <1>12, <1>16
      <3>. QED BY <1>0, <1>2, <1>9, <3>1, PartsSame DEF o
    <2>6. Served(n)' \in Nat /\ b + 1 <= Served(n)'
      BY <1>2, <1>3 DEF Serving
    <2> HIDE DEF q, a, d, s, g, q2, s2
    <2>5. MatchOf(q2, a, d, s2, K, g, b + 1)
      BY <2>1, <2>2, <2>3, MatchAsked
    <2>7. SameAnswers(a, a, K) /\ SameRequests(s2, s2, K) /\ SameWorks(d, g, d, g, K)
      BY Unmoved, WorksUnmoved
    <2>8. MatchOf(q2, a, d, s2, K, g, Served(n)')
      BY <2>5, <2>6, <2>7, MatchSame
    <2>. QED BY <2>4, <2>8, Zenon DEF Match, q2, s2
  <1>17. MatchInv'
    BY <1>15, <1>16 DEF MatchInv
  <1>. QED BY <1>2, <1>9, <1>11, <1>12, <1>14, <1>17 DEF NicInv

-----------------------------------------------------------------------------
(***************************************************************************)
(* The invariant holds.                                                    *)
(***************************************************************************)
LEMMA InitNic == Init => NicInv
  <1> SUFFICES ASSUME Init PROVE NicInv
    OBVIOUS
  <1>0. /\ MaxPosts[1] \in Nat /\ MaxPosts[2] \in Nat /\ ReadLimit \in Nat
    BY SecureAssumption DEF Nics
  <1>1. \A n \in Nics :
          /\ posted[n] = 0 /\ host[n] = <<>> /\ wire[n] = <<>> /\ dma[n] = <<>>
          /\ read_queue[n] = <<>> /\ write_queue[n] = <<>>
          /\ executed[n] = {} /\ told[n] = {} /\ pending_dma_req[n] = 0
    BY DEF Init, Each
  <1>2. Len(<<>>) = 0 /\ 1 .. 0 = {} /\ Elems(<<>>) = {} /\ \A S : <<>> \in Seq(S)
    BY DEF Elems
  <1>10. \A n \in Nics : Served(n) = 0
    BY <1>1 DEF Served
  <1>3. HostInv
    <2>1. posted \in [Nics -> Nat] /\ host \in [Nics -> Seq(Request)] /\ dmaErr \in [Nics -> BOOLEAN]
      BY <1>2 DEF Init, Each
    <2>2. \A n \in Nics : 0 <= MaxPosts[n]
      BY <1>0 DEF Nics
    <2>3. \A n \in Nics : HostOf(n)
      BY <1>1, <1>2, <1>10, <2>2 DEF HostOf
    <2>. QED BY <2>1, <2>3 DEF HostInv
  <1>4. WireInv
    <2>1. wire \in [Nics -> Seq(Packet)] /\ secured \in BOOLEAN
      BY <1>2 DEF Init, Each
    <2>. QED BY <1>1, <1>2, <2>1 DEF WireInv
  <1>5. DmaInv
    <2>1. /\ dma \in [Nics -> Seq(Work)] /\ dmaErr \in [Nics -> BOOLEAN] /\ spinning \in [Nics -> BOOLEAN]
          /\ pending_dma_req \in [Nics -> 0 .. ReadLimit]
      BY <1>0, <1>2 DEF Init, Each
    <2>2. ReadPlaces(<<>>) = {} /\ PendingBehind(<<>>)
      BY <1>2 DEF ReadPlaces, PendingBehind
    <2>3. Cardinality(ReadPlaces(<<>>)) <= 0
      BY <2>2, FS_EmptySet
    <2>. QED BY <1>1, <1>2, <2>1, <2>2, <2>3 DEF DmaInv, DmaOf
  <1>6. QueueInv
    <2>1. read_queue \in [Nics -> Seq(Request)] /\ write_queue \in [Nics -> Seq(Request)]
      BY <1>2 DEF Init, Each
    <2>. QED BY <1>1, <1>2, <2>1 DEF QueueInv, Awaited
  <1>7. ASSUME NEW K, NEW g PROVE MatchOf(<<>>, <<>>, <<>>, <<>>, K, g, 0)
    <2>1. /\ AnswerPos(<<>>, K) = {} /\ RequestPos(<<>>, K) = {} /\ WorkPos(<<>>, g, K) = {}
      BY <1>2 DEF AnswerPos, RequestPos, WorkPos
    <2>2. \A f : Vals(f, {}) = {} /\ Rises(f, {})
      BY DEF Vals, Rises
    <2>3. /\ ANums(<<>>, K) = {} /\ WNums(<<>>, K) = {} /\ DNums(<<>>, g, K) = {} /\ QNums(<<>>) = {}
          /\ ARise(<<>>, K) /\ WRise(<<>>, K) /\ DRise(<<>>, g, K) /\ QRise(<<>>)
      BY <1>2, <2>1, <2>2, Zenon DEF ANums, WNums, DNums, QNums, ARise, WRise, DRise, QRise
    <2>4. Aligned({}, {}, {}, {}, g)
      BY DEF Aligned, Below, Down
    <2>. QED BY <2>3, <2>4 DEF MatchOf
  <1>8. MatchInv
    <2> SUFFICES ASSUME NEW n \in Nics, NEW K \in Answered PROVE Match(n, K)
      BY DEF MatchInv
    <2>1. /\ Awaited(n, K) = <<>> /\ wire[Other(n)] = <<>> /\ dma[Other(n)] = <<>> /\ wire[n] = <<>>
          /\ Served(n) = 0
      BY <1>1, <1>2, <1>10, OtherNic DEF Awaited
    <2>. QED BY <1>7, <2>1, Zenon DEF Match
  <1>9. HistoryInv
    <2>1. /\ executed \in [Nics -> SUBSET Ids]
          /\ told \in [Nics -> SUBSET [id : Ids, by : Ids, outcome : {"done", "failed"}]]
          /\ dropped \in [Nics -> Nat]
      BY DEF Init, Each
    <2>. QED BY <1>1, <2>1 DEF HistoryInv, AnswersMatch
  <1>. QED BY <1>3, <1>4, <1>5, <1>6, <1>8, <1>9 DEF NicInv

LEMMA NextNic == NicInv /\ Numbers /\ [Next]_vars => NicInv'
  <1> SUFFICES ASSUME NicInv, Numbers, [Next]_vars PROVE NicInv'
    OBVIOUS
  <1>1. Stepping
    <2>1. Growing /\ Failing /\ Crediting
      BY ExecutedGrows, NextFails, CreditGrows DEF NicInv
    <2>2. HostInv' /\ Serving
      BY NextHost DEF NicInv
    <2>. QED BY <2>1, <2>2 DEF Stepping
  <1>2. ASSUME NEW n \in Nics, Nic(n) PROVE NicInv'
    <2>1. CASE HostPost(n) \/ DmaRecvFlushed(n) \/ PollClientSendCompletion(n)
      BY <1>1, <2>1, QuietKeeps
      DEF HostPost, DmaRecvFlushed, PollClientSendCompletion, queues, histories
    <2>2. CASE ProcessSendRequest(n)
      BY <1>1, <2>2, AskKeeps
    <2>3. CASE RejectPacket(n)
      BY <1>1, <2>3, RejectKeeps
    <2>4. CASE ReceiveRequest(n)
      BY <1>1, <2>4, RequestKeeps
    <2>5. CASE ReceiveReadAnswer(n)
      <3>1. Answering(n, "READ", "answer") /\ "READ" \in Answered
        BY <2>5 DEF ReceiveReadAnswer, Answering, Awaited, Answered
      <3>. QED BY <1>1, <3>1, AnswerKeeps
    <2>6. CASE ReceiveWriteAnswer(n)
      <3>1. Answering(n, "WRITE", "ack") /\ "WRITE" \in Answered
        BY <2>6 DEF ReceiveWriteAnswer, Answering, Awaited, Answered
      <3>. QED BY <1>1, <3>1, AnswerKeeps
    <2>7. CASE DmaExecute(n)
      <3>1. PICK i : \E ok \in BOOLEAN : ExecutedAt(n, i, ok)
        BY <2>7, ExecuteIs DEF NicInv
      <3>2. PICK ok \in BOOLEAN : ExecutedAt(n, i, ok)
        BY <3>1
      <3>. QED BY <1>1, <3>2, ExecuteKeeps
    <2>8. CASE DmaDone(n) \/ DmaReadDone(n) \/ DmaWriteDone(n)
      BY <1>1, <2>8, DmaDoneKeeps
    <2>. QED BY <1>2, <2>1, <2>2, <2>3, <2>4, <2>5, <2>6, <2>7, <2>8 DEF Nic
  <1>3. CASE UNCHANGED vars
    BY <1>1, <1>3, QuietKeeps DEF vars, queues, histories
  <1>. QED BY <1>2, <1>3 DEF Next

(***************************************************************************)
(* Requests and answers are matched by order alone, with queues and pools  *)
(* of any size, posts that fail, and a DMA link that fails: and yet, where *)
(* MACs are checked, a host is told of a request only by its own answer.   *)
(* Without security it is while no post of the other NIC has failed, and   *)
(* after that by the answer to some request that was carried out.          *)
(***************************************************************************)
THEOREM AnswersFindTheirRequests == Spec => []AnswersMatch
<1>1. HeadersInv => HeaderTypes
  BY DEF HeadersInv
<1>2. NonceInv /\ HeaderTypes /\ FreeTypes => Numbers
  BY DEF Numbers
<1>3. NicInv => AnswersMatch
  BY DEF NicInv, HistoryInv
<1> QED
  BY <1>1, <1>2, <1>3, InitNic, NextNic, InitHeaders, NextHeaders, InitNonces, NextNonces,
     InitFree, NextFree, PTL DEF Spec

(***************************************************************************)
(* Every queue of the two NICs holds what it is made for, no pool is drawn *)
(* below empty, pending_dma_req stays between 0 and ReadLimit and current  *)
(* inside circular_buf, whatever the workers, links and hosts do.          *)
(***************************************************************************)
THEOREM SecureTypeCorrect == Spec => []SecureTypeOK
<1>1. HeadersInv => HeaderTypes
  BY DEF HeadersInv
<1>2. NonceInv /\ HeaderTypes /\ FreeTypes => Numbers
  BY DEF Numbers
<1>3. NicInv /\ NonceInv /\ HeaderTypes /\ FreeTypes => SecureTypeOK
  BY DEF NicInv, HostInv, WireInv, DmaInv, QueueInv, HistoryInv, NonceInv, NonceTypes,
         HeaderTypes, SendWr, FreeTypes, SecureTypeOK
<1> QED
  BY <1>1, <1>2, <1>3, InitNic, NextNic, InitHeaders, NextHeaders, InitNonces, NextNonces,
     InitFree, NextFree, PTL DEF Spec
=============================================================================
