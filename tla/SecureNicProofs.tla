-------------------------- MODULE SecureNicProofs --------------------------
(***************************************************************************)
(* TLAPS proofs about SecureNic, for every size of its queues, pools and   *)
(* ring and every number of requests: the nonces of the two NICs stay in   *)
(* step; the headers in circular_buf do not overwrite each other before a  *)
(* post fails; no receive buffer is lost but those the model counts.       *)
(***************************************************************************)
EXTENDS SecureNic, SequenceTheorems, FiniteSetTheorems, TLAPS

vars_nonces == <<sendnonce, recvnonce, wire, refused>>

(***************************************************************************)
(* The inductive invariant: NoncesAgree, and that the counters it speaks   *)
(* of are numbers and wire[n] is a sequence.  What a packet holds beside   *)
(* its nonce and its gap does not matter, so nothing is said of it.        *)
(***************************************************************************)
NonceTypes ==
  /\ sendnonce \in [Nics -> Nat] /\ recvnonce \in [Nics -> Nat] /\ refused \in [Nics -> Nat]
  /\ DOMAIN wire = Nics /\ wire = [n \in Nics |-> wire[n]]
  /\ \A n \in Nics : \E S : wire[n] \in Seq(S)
  /\ \A n \in Nics : \A i \in 1 .. Len(wire[n]) : wire[n][i].gap \in Nat

NonceInv == NonceTypes /\ NoncesAgree

LEMMA OtherNic == \A n \in Nics : Other(n) \in Nics /\ Other(n) # n /\ Other(Other(n)) = n
  BY DEF Nics, Other

LEMMA Appended ==
  ASSUME NEW S, NEW s \in Seq(S), NEW x
  PROVE  /\ Append(s, x) \in Seq(S \cup {x})
         /\ Len(s) \in Nat /\ Len(Append(s, x)) = Len(s) + 1
         /\ \A i \in 1 .. Len(s) : Append(s, x)[i] = s[i]
         /\ Append(s, x)[Len(s) + 1] = x
<1>1. s \in Seq(S \cup {x})
  <2>1. \A i \in 1 .. Len(s) : s[i] \in S
    BY ElementOfSeq
  <2> QED
    BY <2>1, SeqDef, LenProperties
<1> QED
  BY <1>1, AppendProperties, LenProperties

LEMMA Taken ==
  ASSUME NEW S, NEW s \in Seq(S), s # <<>>
  PROVE  /\ Tail(s) \in Seq(S)
         /\ Len(s) \in Nat \ {0} /\ Len(Tail(s)) = Len(s) - 1
         /\ \A i \in 1 .. Len(Tail(s)) : Tail(s)[i] = s[i + 1]
  BY HeadTailProperties, LenProperties, EmptySeq

\* A packet sent, or the post of one refused.
LEMMA SendKeeps ==
  ASSUME NEW n \in Nics, NEW r, NEW eth, NEW tag, NEW size,
         NonceInv, Send(n, r, eth, tag, size)
  PROVE  NonceInv'
<1> DEFINE o == Other(n)
           p == Sealed(n, r, eth)
<1>0. o \in Nics /\ o # n /\ Other(o) = n
  BY OtherNic
<1>1. sendnonce' = [sendnonce EXCEPT ![n] = @ + 2] /\ recvnonce' = recvnonce
  BY DEF Send, Add
<1>2. PICK S : wire[n] \in Seq(S)
  BY DEF NonceInv, NonceTypes
<1>3. CASE HasRoom(n)
  <2>1. wire' = [wire EXCEPT ![n] = Append(@, p)] /\ refused' = refused
    BY <1>3 DEF Send, Put
  <2>2. p.nonce = sendnonce[n] + 2 /\ p.gap = refused[n]
    BY DEF Sealed
  <2>3. /\ wire'[n] \in Seq(S \cup {p}) /\ Len(wire[n]) \in Nat
        /\ Len(wire'[n]) = Len(wire[n]) + 1 /\ wire'[n][Len(wire[n]) + 1] = p
        /\ \A i \in 1 .. Len(wire[n]) : wire'[n][i] = wire[n][i]
    BY <1>2, <2>1, Appended DEF NonceInv, NonceTypes
  <2>4. \A m \in Nics : m # n => wire'[m] = wire[m]
    BY <2>1 DEF NonceInv, NonceTypes
  <2>5. \A i \in 1 .. Len(wire'[n]) : i \in 1 .. Len(wire[n]) \/ i = Len(wire[n]) + 1
    BY <2>3
  <2>6. NonceTypes'
    <3>1. sendnonce' \in [Nics -> Nat] /\ recvnonce' \in [Nics -> Nat] /\ refused' \in [Nics -> Nat]
      BY <1>1, <2>1 DEF NonceInv, NonceTypes
    <3>2. DOMAIN wire' = Nics /\ wire' = [m \in Nics |-> wire'[m]]
      BY <2>1 DEF NonceInv, NonceTypes
    <3>3. \A m \in Nics : \E T : wire'[m] \in Seq(T)
      BY <2>3, <2>4 DEF NonceInv, NonceTypes
    <3>4. \A m \in Nics : \A i \in 1 .. Len(wire'[m]) : wire'[m][i].gap \in Nat
      <4> TAKE m \in Nics
      <4>1. CASE m # n
        BY <2>4, <4>1 DEF NonceInv, NonceTypes
      <4>2. ASSUME m = n, NEW i \in 1 .. Len(wire'[n]) PROVE wire'[n][i].gap \in Nat
        <5>1. CASE i \in 1 .. Len(wire[n])
          <6>1. wire'[n][i] = wire[n][i]
            BY <2>3, <5>1
          <6> QED
            BY <5>1, <6>1 DEF NonceInv, NonceTypes
        <5>2. CASE i = Len(wire[n]) + 1
          <6>1. wire'[n][i] = p /\ refused[n] \in Nat
            BY <2>3, <5>2 DEF NonceInv, NonceTypes
          <6> QED
            BY <2>2, <6>1
        <5> QED
          BY <2>5, <5>1, <5>2
      <4> QED
        BY <4>1, <4>2
    <3> QED
      BY <3>1, <3>2, <3>3, <3>4 DEF NonceTypes
  <2>7. sendnonce[n] = recvnonce[o] + 2 * (Len(wire[n]) + refused[n])
    BY DEF NonceInv, NoncesAgree
  <2> HIDE DEF p
  <2>8. /\ sendnonce'[n] = recvnonce'[o] + 2 * (Len(wire'[n]) + refused'[n])
        /\ p.nonce = recvnonce'[o] + 2 * (Len(wire[n]) + 1 + p.gap)
    <3>1. /\ sendnonce'[n] = sendnonce[n] + 2 /\ recvnonce'[o] = recvnonce[o]
          /\ refused'[n] = refused[n]
          /\ sendnonce[n] \in Nat /\ recvnonce[o] \in Nat /\ refused[n] \in Nat
      BY <1>0, <1>1, <2>1 DEF NonceInv, NonceTypes
    <3>2. \A a, b, c, d \in Nat : a = b + 2 * (c + d) => a + 2 = b + 2 * (c + 1 + d)
      OBVIOUS
    <3>3. sendnonce[n] + 2 = recvnonce[o] + 2 * (Len(wire[n]) + 1 + refused[n])
      <4>1. Len(wire[n]) \in Nat
        BY <2>3
      <4>. QED BY <2>7, <3>1, <3>2, <4>1
    <3>4. p.nonce = sendnonce[n] + 2 /\ p.gap = refused[n] /\ Len(wire'[n]) = Len(wire[n]) + 1
      BY <2>2, <2>3
    <3>. QED BY <3>1, <3>3, <3>4
  <2>9. \A i \in 1 .. Len(wire'[n]) :
          wire'[n][i].nonce = recvnonce'[o] + 2 * (i + wire'[n][i].gap)
    BY <1>1, <2>3, <2>5, <2>8 DEF NonceInv, NoncesAgree
  <2>10. ASSUME NEW m \in Nics, m # n
         PROVE  /\ sendnonce'[m] = recvnonce'[Other(m)] + 2 * (Len(wire'[m]) + refused'[m])
                /\ \A i \in 1 .. Len(wire'[m]) :
                     wire'[m][i].nonce = recvnonce'[Other(m)] + 2 * (i + wire'[m][i].gap)
    <3>1. sendnonce'[m] = sendnonce[m] /\ wire'[m] = wire[m] /\ refused' = refused
      BY <1>1, <2>1, <2>4, <2>10 DEF NonceInv, NonceTypes
    <3> QED
      BY <1>1, <3>1 DEF NonceInv, NoncesAgree
  <2>11. NoncesAgree'
    BY <2>8, <2>9, <2>10 DEF NoncesAgree
  <2> QED
    BY <2>6, <2>11 DEF NonceInv
<1>4. CASE ~HasRoom(n)
  <2>1. wire' = wire /\ refused' = [refused EXCEPT ![n] = @ + 1]
    BY <1>4 DEF Send, Add
  <2>2. NonceTypes'
    BY <1>1, <2>1 DEF NonceInv, NonceTypes
  <2>3. Len(wire[n]) \in Nat
    BY <1>2, LenProperties
  <2>4. sendnonce'[n] = recvnonce'[o] + 2 * (Len(wire'[n]) + refused'[n])
    <3>1. /\ sendnonce'[n] = sendnonce[n] + 2 /\ recvnonce'[o] = recvnonce[o]
          /\ refused'[n] = refused[n] + 1 /\ wire'[n] = wire[n]
          /\ sendnonce[n] \in Nat /\ recvnonce[o] \in Nat /\ refused[n] \in Nat
      BY <1>0, <1>1, <2>1 DEF NonceInv, NonceTypes
    <3>2. sendnonce[n] = recvnonce[o] + 2 * (Len(wire[n]) + refused[n])
      BY DEF NonceInv, NoncesAgree
    <3>. QED BY <2>3, <3>1, <3>2
  <2>5. \A m \in Nics : m # n => sendnonce'[m] = sendnonce[m] /\ refused'[m] = refused[m]
    BY <1>1, <2>1 DEF NonceInv, NonceTypes
  <2>6. NoncesAgree'
    BY <1>1, <2>1, <2>4, <2>5 DEF NonceInv, NoncesAgree
  <2> QED
    BY <2>2, <2>6 DEF NonceInv
<1> QED
  BY <1>3, <1>4

\* A packet polled, verified or not.
LEMMA PolledKeeps ==
  ASSUME NEW n \in Nics, NEW p, NonceInv, Polled(n, p)
  PROVE  NonceInv'
<1> DEFINE o == Other(n)
<1>0. o \in Nics /\ o # n /\ Other(o) = n
  BY OtherNic
<1>1. /\ sendnonce' = sendnonce /\ refused' = refused /\ wire[o] # <<>>
      /\ recvnonce' = [recvnonce EXCEPT ![n] = @ + 2] /\ wire' = [wire EXCEPT ![o] = Tail(@)]
  BY DEF Polled, OnReceive, Add, Drop
<1>2. PICK S : wire[o] \in Seq(S)
  BY <1>0 DEF NonceInv, NonceTypes
<1>3. /\ wire'[o] \in Seq(S) /\ Len(wire[o]) \in Nat \ {0} /\ Len(wire'[o]) = Len(wire[o]) - 1
      /\ \A i \in 1 .. Len(wire'[o]) : wire'[o][i] = wire[o][i + 1]
  BY <1>0, <1>1, <1>2, Taken DEF NonceInv, NonceTypes
<1>4. \A m \in Nics : m # o => wire'[m] = wire[m]
  BY <1>1 DEF NonceInv, NonceTypes
<1>5. \A i \in 1 .. Len(wire'[o]) : i + 1 \in 1 .. Len(wire[o])
  BY <1>3
<1>6. NonceTypes'
  <2>1. sendnonce' \in [Nics -> Nat] /\ recvnonce' \in [Nics -> Nat] /\ refused' \in [Nics -> Nat]
    BY <1>1 DEF NonceInv, NonceTypes
  <2>2. DOMAIN wire' = Nics /\ wire' = [m \in Nics |-> wire'[m]]
    BY <1>1 DEF NonceInv, NonceTypes
  <2>3. \A m \in Nics : \E T : wire'[m] \in Seq(T)
    BY <1>3, <1>4 DEF NonceInv, NonceTypes
  <2>4. \A m \in Nics : \A i \in 1 .. Len(wire'[m]) : wire'[m][i].gap \in Nat
    <3> TAKE m \in Nics
    <3>1. CASE m # o
      BY <1>4, <3>1 DEF NonceInv, NonceTypes
    <3>2. ASSUME m = o, NEW i \in 1 .. Len(wire'[o]) PROVE wire'[o][i].gap \in Nat
      <4>1. wire'[o][i] = wire[o][i + 1] /\ i + 1 \in 1 .. Len(wire[o])
        BY <1>3, <1>5
      <4> QED
        BY <1>0, <4>1 DEF NonceInv, NonceTypes
    <3> QED
      BY <3>1, <3>2
  <2> QED
    BY <2>1, <2>2, <2>3, <2>4 DEF NonceTypes
<1>7. sendnonce'[o] = recvnonce'[n] + 2 * (Len(wire'[o]) + refused'[o])
  BY <1>0, <1>1, <1>3 DEF NonceInv, NonceTypes, NoncesAgree
<1>8. \A i \in 1 .. Len(wire'[o]) :
        wire'[o][i].nonce = recvnonce'[n] + 2 * (i + wire'[o][i].gap)
  <2> TAKE i \in 1 .. Len(wire'[o])
  <2>1. i \in Nat /\ i + 1 \in 1 .. Len(wire[o]) /\ wire'[o][i] = wire[o][i + 1]
    BY <1>3, <1>5
  <2>2. wire[o][i + 1].nonce = recvnonce[n] + 2 * (i + 1 + wire[o][i + 1].gap)
    BY <1>0, <2>1 DEF NonceInv, NoncesAgree
  <2>3. recvnonce'[n] = recvnonce[n] + 2 /\ recvnonce[n] \in Nat
    BY <1>1 DEF NonceInv, NonceTypes
  <2>4. wire[o][i + 1].gap \in Nat
    BY <1>0, <2>1 DEF NonceInv, NonceTypes
  <2>5. recvnonce[n] + 2 * (i + 1 + wire[o][i + 1].gap)
          = recvnonce[n] + 2 + 2 * (i + wire[o][i + 1].gap)
    <3>1. \A a, k, g \in Nat : a + 2 * (k + 1 + g) = a + 2 + 2 * (k + g)
      OBVIOUS
    <3> QED
      BY <2>1, <2>3, <2>4, <3>1, Zenon
  <2>6. wire'[o][i].nonce = wire[o][i + 1].nonce /\ wire'[o][i].gap = wire[o][i + 1].gap
    BY <2>1
  <2>7. wire[o][i + 1].nonce = recvnonce'[n] + 2 * (i + wire[o][i + 1].gap)
    BY <2>2, <2>3, <2>5
  <2> QED
    BY <2>6, <2>7, Zenon
<1>9. \A m \in Nics : m # o => Other(m) # n
  BY <1>0 DEF Other, Nics
<1>10. ASSUME NEW m \in Nics, m # o
       PROVE  /\ sendnonce'[m] = recvnonce'[Other(m)] + 2 * (Len(wire'[m]) + refused'[m])
              /\ \A i \in 1 .. Len(wire'[m]) :
                   wire'[m][i].nonce = recvnonce'[Other(m)] + 2 * (i + wire'[m][i].gap)
  <2>1. recvnonce'[Other(m)] = recvnonce[Other(m)]
    <3>1. Other(m) \in Nics /\ Other(m) # n
      BY <1>9, <1>10, OtherNic
    <3> QED
      BY <1>1, <3>1 DEF NonceInv, NonceTypes
  <2>2. wire'[m] = wire[m] /\ sendnonce' = sendnonce /\ refused' = refused
    BY <1>1, <1>4, <1>10
  <2> QED
    BY <2>1, <2>2 DEF NonceInv, NoncesAgree
<1>11. NoncesAgree'
  BY <1>0, <1>7, <1>8, <1>10 DEF NoncesAgree
<1> QED
  BY <1>6, <1>11 DEF NonceInv

LEMMA StutterKeeps ==
  ASSUME NonceInv, UNCHANGED vars_nonces
  PROVE  NonceInv'
  BY DEF NonceInv, NonceTypes, NoncesAgree, vars_nonces

LEMMA InitNonces == Init => NonceInv
<1> SUFFICES ASSUME Init PROVE NonceInv
  OBVIOUS
<1>1. \A n \in Nics : sendnonce[n] = 0 /\ recvnonce[Other(n)] = 0 /\ refused[n] = 0 /\ wire[n] = <<>>
  BY OtherNic DEF Init, Each
<1>2. NonceTypes
  <2>0. <<>> \in Seq({}) /\ Len(<<>>) = 0
    OBVIOUS
  <2>1. \A n \in Nics : wire[n] \in Seq({}) /\ Len(wire[n]) = 0
    BY <1>1, <2>0, Zenon
  <2>2. sendnonce \in [Nics -> Nat] /\ recvnonce \in [Nics -> Nat] /\ refused \in [Nics -> Nat]
    BY DEF Init, Each
  <2>3. DOMAIN wire = Nics /\ wire = [n \in Nics |-> wire[n]]
    BY DEF Init, Each
  <2> QED
    BY <2>1, <2>2, <2>3 DEF NonceTypes
<1>3. NoncesAgree
  <2>1. \A n \in Nics : Len(wire[n]) = 0
    BY <1>1
  <2> QED
    BY <1>1, <2>1 DEF NoncesAgree
<1> QED
  BY <1>2, <1>3 DEF NonceInv

LEMMA NextNonces == NonceInv /\ [Next]_vars => NonceInv'
<1> SUFFICES ASSUME NonceInv, [Next]_vars PROVE NonceInv'
  OBVIOUS
<1>1. CASE UNCHANGED vars
  BY <1>1, StutterKeeps DEF vars, vars_nonces, secctx, histories
<1>2. ASSUME NEW n \in Nics, Nic(n) PROVE NonceInv'
  <2>1. CASE HostPost(n)
    BY <2>1, StutterKeeps DEF HostPost, vars_nonces, secctx, histories
  <2>2. CASE ProcessSendRequest(n)
    BY <2>2, SendKeeps DEF ProcessSendRequest
  <2>3. CASE RejectPacket(n) \/ ReceiveRequest(n) \/ ReceiveReadAnswer(n) \/ ReceiveWriteAnswer(n)
    BY <2>3, PolledKeeps DEF RejectPacket, ReceiveRequest, ReceiveReadAnswer, ReceiveWriteAnswer
  <2>4. CASE DmaExecute(n)
    BY <2>4, StutterKeeps DEF DmaExecute, vars_nonces, secctx
  <2>5. CASE DmaDone(n)
    BY <2>5, StutterKeeps DEF DmaDone, Completed, NothingSent, vars_nonces
  <2>6. CASE DmaReadDone(n)
    BY <2>6, SendKeeps DEF DmaReadDone
  <2>7. CASE DmaWriteDone(n)
    BY <2>7, SendKeeps, StutterKeeps DEF DmaWriteDone, Completed, NothingSent, vars_nonces
  <2>8. CASE PollClientSendCompletion(n)
    BY <2>8, StutterKeeps DEF PollClientSendCompletion, vars_nonces, secctx, histories
  <2>9. CASE DmaRecvFlushed(n)
    BY <2>9, StutterKeeps DEF DmaRecvFlushed, vars_nonces, secctx, histories
  <2> QED
    BY <1>2, <2>1, <2>2, <2>3, <2>4, <2>5, <2>6, <2>7, <2>8, <2>9 DEF Nic
<1> QED
  BY <1>1, <1>2 DEF Next

-----------------------------------------------------------------------------
(***************************************************************************)
(* The nonces of the two ends stay in step but for the posts that failed,  *)
(* whatever the sizes of queues and buffers and however many requests.     *)
(***************************************************************************)
THEOREM NoncesStayInStep == Spec => []NoncesAgree
<1>1. NonceInv => NoncesAgree
  BY DEF NonceInv
<1> QED
  BY <1>1, InitNonces, NextNonces, PTL DEF Spec

-----------------------------------------------------------------------------
(***************************************************************************)
(* The changes of one variable of one NIC.                                 *)
(***************************************************************************)
LEMMA AddPer ==
  ASSUME NEW f \in [Nics -> Nat], NEW n \in Nics, NEW k \in Nat
  PROVE  /\ Add(f, n, k) \in [Nics -> Nat]
         /\ Add(f, n, k)[n] = f[n] + k
         /\ \A m \in Nics : m # n => Add(f, n, k)[m] = f[m]
  BY DEF Add

-----------------------------------------------------------------------------
(***************************************************************************)
(* The headers in circular_buf.                                            *)
(***************************************************************************)
SendWr == [tag : {"none", "virt", "dma"}, from : Nat, size : Nat]

HeaderTypes ==
  /\ sq \in [Nics -> Seq(SendWr)]
  /\ ring \in [Nics -> 0 .. RingSize] /\ refused \in [Nics -> Nat]

\* The size of a header that goes to circular_buf, and where it ends.
Sizes == {0, EthHeader, Header}

LEMMA GetFits ==
  ASSUME ring \in [Nics -> 0 .. RingSize], NEW n \in Nics, NEW size \in Sizes
  PROVE  /\ size \in Nat /\ size <= EthHeader /\ EthHeader <= RingSize
         /\ RingSize \in Nat /\ EthHeader \in Nat
         /\ Get(n, size) \in Nat /\ Get(n, size) + size \in 0 .. RingSize
  <1>1. /\ EthHeader \in Nat /\ Header \in Nat \ {0} /\ Header <= EthHeader /\ RingSize \in Nat
        /\ SendDepth[n] \in Nat \ {0} /\ (SendDepth[n] + 1) * EthHeader <= RingSize + 1
    BY SecureAssumption
  <1>2. size \in Nat /\ size <= EthHeader
    BY <1>1 DEF Sizes
  <1>3. EthHeader <= RingSize
    <2> DEFINE d == SendDepth[n]
    <2> HIDE DEF d
    <2>1. d \in Nat \ {0} /\ (d + 1) * EthHeader <= RingSize + 1
      BY <1>1 DEF d
    <2>2. (d + 1) * EthHeader = EthHeader + EthHeader + (d - 1) * EthHeader
      BY <1>1, <2>1
    <2>3. (d - 1) * EthHeader >= 0 /\ (d - 1) * EthHeader \in Int
      BY <1>1, <2>1
    <2>. QED BY <1>1, <2>1, <2>2, <2>3
  <1>4. ring[n] \in 0 .. RingSize
    OBVIOUS
  <1>. QED BY <1>1, <1>2, <1>3, <1>4 DEF Get

SentWr(n, tag, size) == [tag |-> tag, from |-> Get(n, size), size |-> size]

\* What a send does to the send queue and to circular_buf.
LEMMA SendEffect ==
  ASSUME HeaderTypes, NEW n \in Nics, NEW r, NEW eth,
         NEW tag \in {"none", "virt", "dma"}, NEW size \in Sizes, Send(n, r, eth, tag, size)
  PROVE  /\ HeaderTypes'
         /\ SentWr(n, tag, size) \in SendWr
         /\ \A m \in Nics : m # n => ring'[m] = ring[m] /\ sq'[m] = sq[m] /\ refused'[m] = refused[m]
         /\ ring'[n] = IF size = 0 THEN ring[n] ELSE Get(n, size) + size
         /\ HasRoom(n) => sq'[n] = Append(sq[n], SentWr(n, tag, size)) /\ refused'[n] = refused[n]
         /\ ~HasRoom(n) => sq'[n] = sq[n] /\ refused'[n] = refused[n] + 1
  <1> DEFINE h == SentWr(n, tag, size)
  <1>1. /\ sq \in [Nics -> Seq(SendWr)]
        /\ ring \in [Nics -> 0 .. RingSize] /\ refused \in [Nics -> Nat]
    BY DEF HeaderTypes
  <1>2. size \in Nat /\ Get(n, size) \in Nat /\ Get(n, size) + size \in 0 .. RingSize
    BY <1>1, GetFits
  <1>3. h \in SendWr
    BY <1>2 DEF SentWr, SendWr
  <1>4. ring' = IF size = 0 THEN ring ELSE [ring EXCEPT ![n] = Get(n, size) + size]
    BY DEF Send
  <1>5. HasRoom(n) => sq' = Put(sq, n, h) /\ refused' = refused
    BY DEF Send, SentWr
  <1>6. ~HasRoom(n) => sq' = sq /\ refused' = Add(refused, n, 1)
    BY DEF Send
  <1> HIDE DEF h
  <1>7. /\ ring' \in [Nics -> 0 .. RingSize]
        /\ \A m \in Nics : m # n => ring'[m] = ring[m]
        /\ ring'[n] = IF size = 0 THEN ring[n] ELSE Get(n, size) + size
    BY <1>1, <1>2, <1>4
  <1>8. CASE HasRoom(n)
    <2>1. /\ Put(sq, n, h) \in [Nics -> Seq(SendWr)]
          /\ Put(sq, n, h)[n] = Append(sq[n], h)
          /\ \A m \in Nics : m # n => Put(sq, n, h)[m] = sq[m]
      BY <1>1, <1>3, AppendProperties DEF Put
    <2>. QED BY <1>1, <1>3, <1>5, <1>7, <1>8, <2>1 DEF HeaderTypes, h
  <1>9. CASE ~HasRoom(n)
    <2>1. /\ Add(refused, n, 1) \in [Nics -> Nat]
          /\ Add(refused, n, 1)[n] = refused[n] + 1
          /\ \A m \in Nics : m # n => Add(refused, n, 1)[m] = refused[m]
      BY ONLY <1>1, 1 \in Nat, n \in Nics, AddPer
    <2>. QED BY <1>1, <1>3, <1>6, <1>7, <1>9, <2>1 DEF HeaderTypes, h
  <1>. QED BY <1>8, <1>9

(***************************************************************************)
(* Where a header lies that c - 1 headers followed.  ring comes round only *)
(* after RingSize bytes, so the header is behind it, not farther than c    *)
(* headers are long, or it was written before ring came round, and is in   *)
(* front of it.                                                            *)
(***************************************************************************)
Placed(h, c, r) ==
  h.size > 0 =>
    /\ h.size <= EthHeader /\ h.from + h.size <= RingSize
    /\ \/ h.from + h.size <= r /\ h.from + c * EthHeader >= r
       \/ h.from + (c + 1) * EthHeader >= r + RingSize + 1

Headers ==
  \A n \in Nics : refused[n] = 0 =>
    \A i \in 1 .. Len(sq[n]) : Placed(sq[n][i], Len(sq[n]) + 1 - i, ring[n])

HeadersInv == HeaderTypes /\ Headers /\ HeadersIntact

LEMMA OneMoreHeader ==
  ASSUME NEW c \in Nat
  PROVE  /\ c * EthHeader \in Nat /\ (c + 1) * EthHeader = c * EthHeader + EthHeader
         /\ (c + 2) * EthHeader = c * EthHeader + EthHeader + EthHeader
  BY SecureAssumption

\* A header stays where it is while ring moves by another one.
LEMMA StaysPlaced ==
  ASSUME NEW h \in SendWr, NEW c \in Nat, NEW n \in Nics, NEW size \in Sizes,
         ring \in [Nics -> 0 .. RingSize], Placed(h, c, ring[n])
  PROVE  /\ Placed(h, c + 1, Get(n, size) + size)
         /\ Placed(h, c + 1, ring[n])
  <1> DEFINE r == ring[n]
             f == h.from
             s == h.size
             E == EthHeader
             cE == c * E
             g == Get(n, size)
  <1>1. /\ r \in Nat /\ f \in Nat /\ s \in Nat /\ E \in Nat /\ RingSize \in Nat /\ size \in Nat
        /\ size <= E /\ E <= RingSize /\ r <= RingSize
    BY GetFits DEF SendWr
  <1>2. cE \in Nat /\ (c + 1) * E = cE + E /\ (c + 2) * E = cE + E + E /\ (c + 1) + 1 = c + 2
    BY OneMoreHeader
  <1>3. g = IF size + r > RingSize THEN 0 ELSE r
    BY DEF Get
  <1>4. CASE s > 0
    <2>1. s <= E /\ f + s <= RingSize
      BY <1>4 DEF Placed
    <2>2. (f + s <= r /\ f + cE >= r) \/ f + (cE + E) >= r + RingSize + 1
      BY <1>2, <1>4 DEF Placed
    <2> HIDE DEF r, f, s, E, cE, g
    <2>3. \/ f + s <= g + size /\ f + (cE + E) >= g + size
          \/ f + (cE + E + E) >= g + size + RingSize + 1
      BY <1>1, <1>2, <1>3, <1>4, <2>1, <2>2
    <2>4. (f + s <= r /\ f + (cE + E) >= r) \/ f + (cE + E + E) >= r + RingSize + 1
      BY <1>1, <1>2, <1>4, <2>1, <2>2
    <2>. QED BY <1>2, <2>1, <2>3, <2>4 DEF Placed, r, f, s, E, cE, g
  <1>5. CASE ~(s > 0)
    BY <1>5 DEF Placed
  <1>. QED BY <1>4, <1>5

\* The next header is well placed, and meets none of the d - 1 before it.
LEMMA NewPlaced ==
  ASSUME NEW n \in Nics, NEW tag \in {"none", "virt", "dma"}, NEW size \in Sizes,
         ring \in [Nics -> 0 .. RingSize]
  PROVE  Placed(SentWr(n, tag, size), 1, Get(n, size) + size)
  <1>1. /\ size \in Nat /\ size <= EthHeader /\ EthHeader \in Nat /\ Get(n, size) \in Nat
        /\ Get(n, size) + size <= RingSize /\ 1 * EthHeader = EthHeader /\ RingSize \in Nat
    BY GetFits
  <1>. QED BY <1>1 DEF Placed, SentWr

LEMMA NewApart ==
  ASSUME NEW n \in Nics, NEW tag \in {"none", "virt", "dma"}, NEW size \in Sizes,
         ring \in [Nics -> 0 .. RingSize], NEW h \in SendWr, NEW c \in Nat, c < SendDepth[n],
         Placed(h, c, ring[n]), size > 0, h.size > 0
  PROVE  Bytes(SentWr(n, tag, size)) \cap Bytes(h) = {}
  <1> DEFINE r == ring[n]
             f == h.from
             s == h.size
             E == EthHeader
             cE == c * E
             g == Get(n, size)
             d == SendDepth[n]
  <1>1. /\ r \in Nat /\ f \in Nat /\ s \in Nat /\ E \in Nat /\ RingSize \in Nat /\ size \in Nat
        /\ size <= E /\ E <= RingSize /\ r <= RingSize /\ g \in Nat
    BY GetFits DEF SendWr
  <1>2. cE \in Nat /\ (c + 1) * E = cE + E
    BY OneMoreHeader
  <1>3. g = IF size + r > RingSize THEN 0 ELSE r
    BY DEF Get
  <1>4. d \in Nat /\ c < d /\ (d + 1) * E <= RingSize + 1
    BY SecureAssumption
  <1>5. cE + E + E <= RingSize + 1
    <2> HIDE DEF d, E
    <2>1. (d + 1) * E = cE + E + E + (d - (c + 1)) * E
      BY <1>1, <1>4
    <2>2. (d - (c + 1)) * E >= 0 /\ (d - (c + 1)) * E \in Int /\ (d + 1) * E \in Int
      BY <1>1, <1>4
    <2> HIDE DEF cE
    <2>. QED BY <1>1, <1>2, <1>4, <2>1, <2>2
  <1>6. /\ s <= E /\ f + s <= RingSize
        /\ (f + s <= r /\ f + cE >= r) \/ f + (cE + E) >= r + RingSize + 1
    BY <1>2 DEF Placed
  <1> HIDE DEF r, f, s, E, cE, g, d
  <1>7. f >= g + size \/ f + s <= g
    BY <1>1, <1>2, <1>3, <1>5, <1>6
  <1>8. \A x \in g .. (g + size - 1) : x \notin f .. (f + s - 1)
    BY <1>1, <1>7
  <1>9. Bytes(SentWr(n, tag, size)) = g .. (g + size - 1) /\ Bytes(h) = f .. (f + s - 1)
    BY DEF Bytes, SentWr, g, f, s
  <1>. QED BY <1>8, <1>9

(***************************************************************************)
(* A receive buffer is given away only while there is one, so that a       *)
(* completion of niccon is one of a send it holds.                         *)
(***************************************************************************)
FreeTypes == free \in [Nics -> Nat] /\ dmaFree \in [Nics -> Nat]

LEMMA InitFree == Init => FreeTypes
  BY SecureAssumption DEF Init, Each, FreeTypes

LEMMA NextFree == FreeTypes /\ [Next]_vars => FreeTypes'
  <1> SUFFICES ASSUME FreeTypes, [Next]_vars PROVE FreeTypes'
    OBVIOUS
  <1>0. \A n \in Nics : Add(free, n, 1) \in [Nics -> Nat] /\ Add(dmaFree, n, 1) \in [Nics -> Nat]
    BY DEF FreeTypes, Add
  <1>00. ASSUME NEW n \in Nics
         PROVE  /\ free[n] > 0 => Sub(free, n, 1) \in [Nics -> Nat]
                /\ dmaFree[n] > 0 => Sub(dmaFree, n, 1) \in [Nics -> Nat]
    BY DEF FreeTypes, Sub
  <1>1. CASE UNCHANGED vars
    BY <1>1 DEF vars, FreeTypes
  <1>2. ASSUME NEW n \in Nics, Nic(n) PROVE FreeTypes'
    <2>1. CASE HostPost(n)
      BY <2>1 DEF HostPost, FreeTypes
    <2>2. CASE ProcessSendRequest(n)
      <3>1. /\ free' = free /\ dmaFree[n] > 0
            /\ dmaFree' = dmaFree \/ dmaFree' = Sub(dmaFree, n, 1)
        BY <2>2 DEF ProcessSendRequest
      <3>. QED BY <1>00, <3>1 DEF FreeTypes
    <2>3. CASE RejectPacket(n)
      BY <2>3 DEF RejectPacket, Polled, FreeTypes
    <2>4. CASE ReceiveRequest(n)
      BY <1>00, <2>4 DEF ReceiveRequest, Polled, FreeTypes
    <2>5. CASE ReceiveReadAnswer(n)
      BY <1>00, <2>5 DEF ReceiveReadAnswer, Polled, FreeTypes
    <2>6. CASE ReceiveWriteAnswer(n)
      BY <2>6 DEF ReceiveWriteAnswer, Polled, FreeTypes
    <2>7. CASE DmaExecute(n)
      BY <2>7 DEF DmaExecute, FreeTypes
    <2>8. CASE DmaDone(n)
      <3>1. /\ free' = free \/ free' = Add(free, n, 1)
            /\ dmaFree' = dmaFree \/ dmaFree' = Add(dmaFree, n, 1)
        BY <2>8 DEF DmaDone, Completed
      <3>. QED BY <1>0, <3>1 DEF FreeTypes
    <2>9. CASE DmaReadDone(n)
      BY <2>9 DEF DmaReadDone, Completed, FreeTypes
    <2>10. CASE DmaWriteDone(n)
      BY <1>0, <2>10 DEF DmaWriteDone, Completed, FreeTypes
    <2>11. CASE PollClientSendCompletion(n)
      <3>1. /\ free' = free \/ free' = Add(free, n, 1)
            /\ dmaFree' = dmaFree \/ dmaFree' = Add(dmaFree, n, 1)
        BY <2>11 DEF PollClientSendCompletion, Completed
      <3>. QED BY <1>0, <3>1 DEF FreeTypes
    <2>12. CASE DmaRecvFlushed(n)
      BY <1>00, <2>12 DEF DmaRecvFlushed, FreeTypes
    <2>. QED BY <1>2, <2>1, <2>2, <2>3, <2>4, <2>5, <2>6, <2>7, <2>8, <2>9, <2>10, <2>11, <2>12 DEF Nic
  <1>. QED BY <1>1, <1>2 DEF Next

LEMMA CompletionIsOfSend ==
  ASSUME NonceInv, FreeTypes, NEW n \in Nics, PollClientSendCompletion(n)
  PROVE  sq[n] # <<>>
  <1>1. Len(sq[n]) > Unacked(n)
    BY DEF PollClientSendCompletion
  <1>2. Len(wire[n]) \in Nat /\ free[Other(n)] \in Nat
    BY OtherNic, LenProperties DEF NonceInv, NonceTypes, FreeTypes
  <1>3. Unacked(n) \in Nat
    BY <1>2 DEF Unacked
  <1>4. Len(<<>>) = 0
    OBVIOUS
  <1>5. ASSUME sq[n] = <<>> PROVE FALSE
    <2>1. Len(sq[n]) = 0
      BY <1>4, <1>5, Zenon
    <2>. QED BY <1>1, <1>3, <2>1
  <1>. QED BY <1>5

LEMMA SentHeadersIntact ==
  ASSUME HeadersInv, NEW n \in Nics, NEW r, NEW eth,
         NEW tag \in {"none", "virt", "dma"}, NEW size \in Sizes, Send(n, r, eth, tag, size)
  PROVE  HeadersInv'
  <1> DEFINE h == SentWr(n, tag, size)
             q == sq[n]
             l == Len(q)
  <1>1. /\ HeaderTypes' /\ h \in SendWr
        /\ \A m \in Nics : m # n => ring'[m] = ring[m] /\ sq'[m] = sq[m] /\ refused'[m] = refused[m]
        /\ ring'[n] = IF size = 0 THEN ring[n] ELSE Get(n, size) + size
        /\ HasRoom(n) => sq'[n] = Append(q, h) /\ refused'[n] = refused[n]
        /\ ~HasRoom(n) => sq'[n] = q /\ refused'[n] = refused[n] + 1
    BY SendEffect DEF HeadersInv
  <1>2. /\ q \in Seq(SendWr) /\ refused[n] \in Nat /\ ring \in [Nics -> 0 .. RingSize]
        /\ l \in Nat /\ \A i \in 1 .. l : q[i] \in SendWr
    BY ElementOfSeq, LenProperties DEF HeadersInv, HeaderTypes
  <1>3. ASSUME refused'[n] = 0
        PROVE  /\ \A i \in 1 .. Len(sq'[n]) : Placed(sq'[n][i], Len(sq'[n]) + 1 - i, ring'[n])
               /\ \A i \in 1 .. Len(sq'[n]) :
                    /\ sq'[n][i].from + sq'[n][i].size <= RingSize
                    /\ \A j \in 1 .. (i - 1) : sq'[n][i].size * sq'[n][j].size > 0
                                                 => Bytes(sq'[n][i]) \cap Bytes(sq'[n][j]) = {}
    <2>1. HasRoom(n) /\ refused[n] = 0
      BY <1>1, <1>2, <1>3
    <2>2. sq'[n] = Append(q, h) /\ l < SendDepth[n]
      BY <1>1, <2>1 DEF HasRoom
    <2>3. /\ Len(sq'[n]) = l + 1 /\ sq'[n][l + 1] = h
          /\ \A i \in 1 .. l : sq'[n][i] = q[i]
      BY <1>2, <2>2, Appended
    <2>4. \A i \in 1 .. l : Placed(q[i], l + 1 - i, ring[n])
      BY <2>1 DEF HeadersInv, Headers
    <2>5. size = 0 \/ (size > 0 /\ ring'[n] = Get(n, size) + size)
      BY <1>1, <1>2, GetFits
    <2>6. \A i \in 1 .. l : Placed(q[i], l + 1 + 1 - i, ring'[n])
      <3> TAKE i \in 1 .. l
      <3>1. l + 1 - i \in Nat /\ (l + 1 - i) + 1 = l + 1 + 1 - i /\ q[i] \in SendWr
        BY <1>2
      <3>2. Placed(q[i], l + 1 - i, ring[n])
        BY <2>4
      <3> HIDE DEF q, l
      <3>3. /\ Placed(q[i], l + 1 + 1 - i, ring[n])
            /\ Placed(q[i], l + 1 + 1 - i, Get(n, size) + size)
        BY <1>2, <3>1, <3>2, StaysPlaced
      <3>. QED BY <1>1, <2>5, <3>3
    <2>7. Placed(h, 1, ring'[n]) /\ h.from + h.size <= RingSize
      <3>1. h.size = size /\ h.from = Get(n, size)
        BY DEF SentWr
      <3>2. Placed(h, 1, Get(n, size) + size)
        BY <1>2, NewPlaced
      <3>3. h.from + h.size <= RingSize
        BY <1>2, <3>1, GetFits
      <3>4. size = 0 => Placed(h, 1, ring'[n])
        BY <3>1 DEF Placed
      <3>. QED BY <2>5, <3>2, <3>3, <3>4
    <2>8. \A j \in 1 .. l : h.size * q[j].size > 0 => Bytes(h) \cap Bytes(q[j]) = {}
      <3> SUFFICES ASSUME NEW j \in 1 .. l, h.size * q[j].size > 0
                   PROVE  Bytes(h) \cap Bytes(q[j]) = {}
        OBVIOUS
      <3>1. h.size = size /\ size \in Nat /\ q[j].size \in Nat
        BY <1>2, GetFits DEF SentWr, SendWr
      <3>2. size > 0 /\ q[j].size > 0
        <4>1. \A a, b \in Nat : a * b > 0 => a > 0 /\ b > 0
          <5> SUFFICES ASSUME NEW a \in Nat, NEW b \in Nat, ~(a > 0 /\ b > 0) PROVE ~(a * b > 0)
            OBVIOUS
          <5>1. CASE a = 0
            BY <5>1
          <5>2. CASE b = 0
            BY <5>2
          <5>. QED BY <5>1, <5>2
        <4> HIDE DEF h, q, l
        <4>2. size * q[j].size > 0
          BY <3>1
        <4>. QED BY <3>1, <4>1, <4>2
      <3>3. SendDepth[n] \in Nat /\ Placed(q[j], l + 1 - j, ring[n])
        BY <2>4, SecureAssumption
      <3>4. l + 1 - j \in Nat /\ l + 1 - j < SendDepth[n]
        <4> HIDE DEF q, l
        <4>. QED BY <1>2, <2>2, <3>3
      <3> HIDE DEF q, l
      <3>. QED BY <1>2, <3>2, <3>3, <3>4, NewApart DEF h
    <2>9. \A i \in 1 .. l : /\ q[i].from + q[i].size <= RingSize
                            /\ \A j \in 1 .. (i - 1) : q[i].size * q[j].size > 0
                                                         => Bytes(q[i]) \cap Bytes(q[j]) = {}
      BY <2>1 DEF HeadersInv, HeadersIntact
    <2>10. \A i \in 1 .. (l + 1) : i \in 1 .. l \/ i = l + 1
      BY <1>2
    <2>11. \A i \in 1 .. l : \A j \in 1 .. (i - 1) : j \in 1 .. l
      BY <1>2
    <2>12. (l + 1) - 1 = l /\ (l + 1) + 1 - (l + 1) = 1
      BY <1>2
    <2> HIDE DEF h, q, l
    <2>13. \A i \in 1 .. Len(sq'[n]) : Placed(sq'[n][i], Len(sq'[n]) + 1 - i, ring'[n])
      BY <2>3, <2>6, <2>7, <2>10, <2>12
    <2>14. \A i \in 1 .. Len(sq'[n]) :
                    /\ sq'[n][i].from + sq'[n][i].size <= RingSize
                    /\ \A j \in 1 .. (i - 1) : sq'[n][i].size * sq'[n][j].size > 0
                                                 => Bytes(sq'[n][i]) \cap Bytes(sq'[n][j]) = {}
      <3> TAKE i \in 1 .. Len(sq'[n])
      <3>1. CASE i \in 1 .. l
        BY <2>3, <2>9, <2>11, <3>1
      <3>2. CASE i = l + 1
        BY <2>3, <2>7, <2>8, <2>12, <3>2
      <3>. QED BY <2>3, <2>10, <3>1, <3>2
    <2>. QED BY <2>13, <2>14
  <1>4. Headers'
    BY <1>1, <1>3 DEF HeadersInv, Headers
  <1>5. HeadersIntact'
    BY <1>1, <1>3 DEF HeadersInv, HeadersIntact
  <1>. QED BY <1>1, <1>4, <1>5 DEF HeadersInv

\* The oldest header leaves the send queue.
LEMMA DroppedHeadersIntact ==
  ASSUME HeadersInv, NEW n \in Nics, sq[n] # <<>>, sq' = Drop(sq, n), UNCHANGED <<ring, refused>>
  PROVE  HeadersInv'
  <1> DEFINE q == sq[n]
             l == Len(q)
  <1>1. q \in Seq(SendWr) /\ sq \in [Nics -> Seq(SendWr)]
    BY DEF HeadersInv, HeaderTypes
  <1>2. /\ sq' \in [Nics -> Seq(SendWr)] /\ sq'[n] = Tail(q)
        /\ \A m \in Nics : m # n => sq'[m] = sq[m]
    BY <1>1, HeadTailProperties DEF Drop
  <1>3. /\ l \in Nat \ {0} /\ Len(sq'[n]) = l - 1
        /\ \A i \in 1 .. (l - 1) : sq'[n][i] = q[i + 1]
    BY <1>1, <1>2, Taken
  <1>4. ring' = ring /\ refused' = refused
    OBVIOUS
  <1>5. \A i \in 1 .. (l - 1) : /\ i + 1 \in 1 .. l /\ l - 1 + 1 - i = l + 1 - (i + 1)
                                /\ i + 1 - 1 = i
    <2> HIDE DEF q, l
    <2>. QED BY <1>3
  <1>6. \A i \in 1 .. (l - 1) : \A j \in 1 .. (i - 1) : j \in 1 .. (l - 1) /\ j + 1 \in 1 .. i
    <2> HIDE DEF q, l
    <2>. QED BY <1>3
  <1>7. ASSUME refused[n] = 0
        PROVE  /\ \A i \in 1 .. l : Placed(q[i], l + 1 - i, ring[n])
               /\ \A i \in 1 .. l : /\ q[i].from + q[i].size <= RingSize
                                    /\ \A j \in 1 .. (i - 1) : q[i].size * q[j].size > 0
                                                                 => Bytes(q[i]) \cap Bytes(q[j]) = {}
    BY <1>7 DEF HeadersInv, Headers, HeadersIntact
  <1> HIDE DEF q, l
  <1>8. ASSUME refused[n] = 0
        PROVE  /\ \A i \in 1 .. Len(sq'[n]) : Placed(sq'[n][i], Len(sq'[n]) + 1 - i, ring'[n])
               /\ \A i \in 1 .. Len(sq'[n]) :
                    /\ sq'[n][i].from + sq'[n][i].size <= RingSize
                    /\ \A j \in 1 .. (i - 1) : sq'[n][i].size * sq'[n][j].size > 0
                                                 => Bytes(sq'[n][i]) \cap Bytes(sq'[n][j]) = {}
    <2>1. \A i \in 1 .. Len(sq'[n]) : Placed(sq'[n][i], Len(sq'[n]) + 1 - i, ring'[n])
      BY <1>3, <1>4, <1>5, <1>7, <1>8
    <2>2. ASSUME NEW i \in 1 .. Len(sq'[n])
          PROVE  /\ sq'[n][i].from + sq'[n][i].size <= RingSize
                 /\ \A j \in 1 .. (i - 1) : sq'[n][i].size * sq'[n][j].size > 0
                                              => Bytes(sq'[n][i]) \cap Bytes(sq'[n][j]) = {}
      <3>1. /\ i \in 1 .. (l - 1) /\ i + 1 \in 1 .. l /\ sq'[n][i] = q[i + 1]
            /\ \A j \in 1 .. (i - 1) : sq'[n][j] = q[j + 1] /\ j + 1 \in 1 .. i
        BY <1>3, <1>5, <1>6
      <3>2. /\ q[i + 1].from + q[i + 1].size <= RingSize
            /\ \A k \in 1 .. i : q[i + 1].size * q[k].size > 0
                                  => Bytes(q[i + 1]) \cap Bytes(q[k]) = {}
        <4>1. PICK m \in 1 .. l : m = i + 1
          BY <3>1
        <4>2. /\ q[m].from + q[m].size <= RingSize
              /\ \A k \in 1 .. (m - 1) : q[m].size * q[k].size > 0
                                        => Bytes(q[m]) \cap Bytes(q[k]) = {}
          BY <1>7, <1>8, Zenon
        <4>3. m - 1 = i
          BY <1>5, <3>1, <4>1
        <4>. QED BY <4>1, <4>2, <4>3, Zenon
      <3>. QED BY <3>1, <3>2, Zenon
    <2>. QED BY <2>1, <2>2
  <1>9. HeaderTypes'
    BY <1>2, <1>4 DEF HeadersInv, HeaderTypes
  <1>10. Headers'
    BY <1>2, <1>4, <1>8 DEF HeadersInv, Headers
  <1>11. HeadersIntact'
    BY <1>2, <1>4, <1>8 DEF HeadersInv, HeadersIntact
  <1>. QED BY <1>9, <1>10, <1>11 DEF HeadersInv

LEMMA SameHeadersIntact ==
  ASSUME HeadersInv, UNCHANGED <<sq, ring, refused>>
  PROVE  HeadersInv'
  BY DEF HeadersInv, HeaderTypes, Headers, HeadersIntact

LEMMA InitHeaders == Init => HeadersInv
  <1> SUFFICES ASSUME Init PROVE HeadersInv
    OBVIOUS
  <1>0. <<>> \in Seq(SendWr) /\ Len(<<>>) = 0
    OBVIOUS
  <1>1. sq = [n \in Nics |-> <<>>] /\ ring = [n \in Nics |-> 0] /\ refused = [n \in Nics |-> 0]
    BY DEF Init, Each
  <1>2. 0 \in 0 .. RingSize
    BY SecureAssumption
  <1>3. HeaderTypes
    BY <1>0, <1>1, <1>2 DEF HeaderTypes
  <1>4. \A n \in Nics : Len(sq[n]) = 0
    BY <1>0, <1>1
  <1>. QED BY <1>3, <1>4 DEF HeadersInv, Headers, HeadersIntact

LEMMA NextHeaders == HeadersInv /\ NonceInv /\ FreeTypes /\ [Next]_vars => HeadersInv'
  <1> SUFFICES ASSUME HeadersInv, NonceInv, FreeTypes, [Next]_vars PROVE HeadersInv'
    OBVIOUS
  <1>0. 0 \in Sizes /\ EthHeader \in Sizes /\ Header \in Sizes
    BY DEF Sizes
  <1>1. CASE UNCHANGED vars
    BY <1>1, SameHeadersIntact DEF vars, histories
  <1>2. ASSUME NEW n \in Nics, Nic(n) PROVE HeadersInv'
    <2>1. CASE HostPost(n)
      BY <2>1, SameHeadersIntact DEF HostPost, histories
    <2>2. CASE ProcessSendRequest(n)
      <3> DEFINE r == Head(host[n])
                 tag == IF r.kind = "READ" THEN "none" ELSE "dma"
                 size == IF r.kind = "READ" THEN EthHeader ELSE 0
      <3>1. Send(n, r, r.kind # "SEND", tag, size)
        BY <2>2 DEF ProcessSendRequest
      <3>2. tag \in {"none", "virt", "dma"} /\ size \in Sizes
        BY <1>0
      <3> HIDE DEF r, tag, size
      <3>. QED BY <3>1, <3>2, SentHeadersIntact
    <2>3. CASE RejectPacket(n) \/ ReceiveRequest(n) \/ ReceiveReadAnswer(n) \/ ReceiveWriteAnswer(n)
      BY <2>3, SameHeadersIntact
         DEF RejectPacket, ReceiveRequest, ReceiveReadAnswer, ReceiveWriteAnswer, Polled
    <2>4. CASE DmaExecute(n)
      BY <2>4, SameHeadersIntact DEF DmaExecute
    <2>5. CASE DmaDone(n)
      BY <2>5, SameHeadersIntact DEF DmaDone, NothingSent
    <2>6. CASE DmaReadDone(n)
      BY <1>0, <2>6, SentHeadersIntact DEF DmaReadDone
    <2>7. CASE DmaWriteDone(n)
      BY <1>0, <2>7, SentHeadersIntact, SameHeadersIntact DEF DmaWriteDone, NothingSent
    <2>8. CASE PollClientSendCompletion(n)
      <3>1. Len(sq[n]) > Unacked(n) /\ sq' = Drop(sq, n) /\ UNCHANGED <<ring, refused>>
        BY <2>8 DEF PollClientSendCompletion, histories
      <3>2. sq[n] # <<>>
        BY <2>8, CompletionIsOfSend
      <3>. QED BY <3>1, <3>2, DroppedHeadersIntact
    <2>9. CASE DmaRecvFlushed(n)
      BY <2>9, SameHeadersIntact DEF DmaRecvFlushed, histories
    <2>. QED BY <1>2, <2>1, <2>2, <2>3, <2>4, <2>5, <2>6, <2>7, <2>8, <2>9 DEF Nic
  <1>. QED BY <1>1, <1>2 DEF Next

(***************************************************************************)
(* The headers that circular_buf holds for the send queue of niccon do not *)
(* overwrite each other before a post fails, for every size of the ring    *)
(* and of the headers that the assumption on RingSize allows.              *)
(***************************************************************************)
THEOREM HeadersNeverOverlap == Spec => []HeadersIntact
<1>1. HeadersInv => HeadersIntact
  BY DEF HeadersInv
<1> QED
  BY <1>1, InitHeaders, NextHeaders, InitNonces, NextNonces, InitFree, NextFree, PTL DEF Spec

-----------------------------------------------------------------------------
(***************************************************************************)
(* Counting.  The places of a queue where something holds a buffer, as the *)
(* queue grows at its end and shrinks at its front.                        *)
(***************************************************************************)
LEMMA PlacesFinite ==
  ASSUME NEW l \in Nat, NEW X, X \subseteq 1 .. l
  PROVE  IsFiniteSet(X) /\ Cardinality(X) \in Nat
  <1>1. IsFiniteSet(1 .. l)
    <2>1. 1 \in Int /\ l \in Int
      OBVIOUS
    <2>. QED BY <2>1, FS_Interval
  <1>2. X \in SUBSET (1 .. l)
    OBVIOUS
  <1>3. IsFiniteSet(X)
    BY <1>1, <1>2, FS_Subset
  <1>. QED BY <1>3, FS_CardinalityType

LEMMA OnePlaceMore ==
  ASSUME NEW l \in Nat, NEW X, X \subseteq 1 .. l
  PROVE  Cardinality(X \cup {l + 1}) = Cardinality(X) + 1
  <1>1. l + 1 \notin X
    BY l + 1 \notin 1 .. l
  <1>2. IsFiniteSet(X)
    BY PlacesFinite
  <1>. QED BY <1>1, <1>2, FS_AddElement

\* Y has the places of X without the first k of l places; m are left.
Shifted(X, Y, l, k, m) ==
  /\ l \in Nat /\ k \in 1 .. l /\ m = l - k
  /\ X \subseteq 1 .. l /\ Y \subseteq 1 .. m
  /\ \A j \in 1 .. m : j \in Y <=> j + k \in X
  /\ \A j \in 1 .. (k - 1) : j \notin X

LEMMA PlacesShift ==
  ASSUME NEW X, NEW Y, NEW l, NEW k, NEW m, Shifted(X, Y, l, k, m)
  PROVE  /\ k \in X => Cardinality(Y) = Cardinality(X) - 1
         /\ k \notin X => Cardinality(Y) = Cardinality(X)
  <1> USE DEF Shifted
  <1> DEFINE Z == X \ {k}
             f == [j \in Y |-> j + k]
  <1>1. IsFiniteSet(X) /\ Cardinality(X) \in Nat
    BY PlacesFinite
  <1>2. IsFiniteSet(Y)
    <2>1. m \in Nat
      OBVIOUS
    <2>. QED BY <2>1, PlacesFinite
  <1>3. f \in [Y -> Z]
    <2>1. \A j \in Y : j \in 1 .. m /\ j + k \in X /\ j + k # k
      OBVIOUS
    <2>. QED BY <2>1
  <1>4. f \in Injection(Y, Z)
    <2>1. \A a, b \in Y : f[a] = f[b] => a = b
      OBVIOUS
    <2>. QED BY <1>3, <2>1 DEF Injection, IsInjective
  <1>5. f \in Surjection(Y, Z)
    <2>1. ASSUME NEW z \in Z PROVE \E j \in Y : f[j] = z
      <3>1. z \in 1 .. l /\ z # k /\ z \notin 1 .. (k - 1) /\ z \in X
        OBVIOUS
      <3>2. z - k \in 1 .. m /\ (z - k) + k = z
        BY <3>1
      <3>3. z - k \in Y
        BY <3>1, <3>2
      <3>. QED BY <3>2, <3>3
    <2>. QED BY <1>3, <2>1 DEF Surjection
  <1>6. ExistsBijection(Y, Z)
    BY <1>4, <1>5 DEF ExistsBijection, Bijection
  <1>7. Cardinality(Z) = Cardinality(Y)
    BY <1>2, <1>6, FS_Bijection
  <1>8. Cardinality(Z) = IF k \in X THEN Cardinality(X) - 1 ELSE Cardinality(X)
    BY <1>1, FS_RemoveElement
  <1> HIDE DEF Z
  <1>. QED BY <1>7, <1>8

Holding == {"send", "read", "write", "answer"}

OpPlaces(s) == {i \in 1 .. Len(s) : s[i].op \in Holding}

TagPlaces(s, t) == {i \in 1 .. Len(s) : s[i].tag = t}

LEMMA OpsAppended ==
  ASSUME NEW S, NEW s \in Seq(S), NEW x
  PROVE  /\ Cardinality(OpPlaces(s)) \in Nat
         /\ x.op \in Holding => Cardinality(OpPlaces(Append(s, x))) = Cardinality(OpPlaces(s)) + 1
         /\ x.op \notin Holding => OpPlaces(Append(s, x)) = OpPlaces(s)
  <1>1. /\ Len(s) \in Nat /\ Len(Append(s, x)) = Len(s) + 1
        /\ \A i \in 1 .. Len(s) : Append(s, x)[i] = s[i]
        /\ Append(s, x)[Len(s) + 1] = x
    BY Appended
  <1>2. \A i : i \in 1 .. (Len(s) + 1) <=> i \in 1 .. Len(s) \/ i = Len(s) + 1
    BY <1>1
  <1>3. OpPlaces(s) \subseteq 1 .. Len(s)
    BY DEF OpPlaces
  <1>4. CASE x.op \in Holding
    <2>1. OpPlaces(Append(s, x)) = OpPlaces(s) \cup {Len(s) + 1}
      BY <1>1, <1>2, <1>4 DEF OpPlaces
    <2>. QED BY <1>1, <1>3, <1>4, <2>1, OnePlaceMore, PlacesFinite
  <1>5. CASE x.op \notin Holding
    <2>1. OpPlaces(Append(s, x)) = OpPlaces(s)
      BY <1>1, <1>2, <1>5 DEF OpPlaces
    <2>. QED BY <1>1, <1>3, <1>5, <2>1, PlacesFinite
  <1>. QED BY <1>4, <1>5

LEMMA TagsAppended ==
  ASSUME NEW S, NEW s \in Seq(S), NEW x, NEW t
  PROVE  /\ Cardinality(TagPlaces(s, t)) \in Nat
         /\ x.tag = t => Cardinality(TagPlaces(Append(s, x), t)) = Cardinality(TagPlaces(s, t)) + 1
         /\ x.tag # t => TagPlaces(Append(s, x), t) = TagPlaces(s, t)
  <1>1. /\ Len(s) \in Nat /\ Len(Append(s, x)) = Len(s) + 1
        /\ \A i \in 1 .. Len(s) : Append(s, x)[i] = s[i]
        /\ Append(s, x)[Len(s) + 1] = x
    BY Appended
  <1>2. \A i : i \in 1 .. (Len(s) + 1) <=> i \in 1 .. Len(s) \/ i = Len(s) + 1
    BY <1>1
  <1>3. TagPlaces(s, t) \subseteq 1 .. Len(s)
    BY DEF TagPlaces
  <1>4. CASE x.tag = t
    <2>1. TagPlaces(Append(s, x), t) = TagPlaces(s, t) \cup {Len(s) + 1}
      BY <1>1, <1>2, <1>4 DEF TagPlaces
    <2>. QED BY <1>1, <1>3, <1>4, <2>1, OnePlaceMore, PlacesFinite
  <1>5. CASE x.tag # t
    <2>1. TagPlaces(Append(s, x), t) = TagPlaces(s, t)
      BY <1>1, <1>2, <1>5 DEF TagPlaces
    <2>. QED BY <1>1, <1>3, <1>5, <2>1, PlacesFinite
  <1>. QED BY <1>4, <1>5

\* The front of s up to place k.
LEMMA Suffix ==
  ASSUME NEW S, NEW s \in Seq(S), NEW k \in 1 .. Len(s)
  PROVE  /\ SubSeq(s, k + 1, Len(s)) \in Seq(S)
         /\ Len(s) \in Nat /\ Len(SubSeq(s, k + 1, Len(s))) = Len(s) - k
         /\ \A i \in 1 .. (Len(s) - k) : SubSeq(s, k + 1, Len(s))[i] = s[i + k]
  <1>1. Len(s) \in Nat /\ \A i \in 1 .. Len(s) : s[i] \in S
    BY LenProperties, ElementOfSeq
  <1> DEFINE l == Len(s)
             m == k + 1
  <1>2. l \in Nat /\ m \in Int /\ l \in Int /\ k \in 1 .. l /\ m = k + 1
    BY <1>1
  <1> HIDE DEF l, m
  <1>3. \A i \in m .. l : s[i] \in S
    <2>1. \A i \in m .. l : i \in 1 .. l
      BY <1>2
    <2>. QED BY <1>1, <2>1 DEF l
  <1>4. /\ SubSeq(s, m, l) \in Seq(S)
        /\ Len(SubSeq(s, m, l)) = IF m <= l THEN l - m + 1 ELSE 0
        /\ \A i \in 1 .. l - m + 1 : SubSeq(s, m, l)[i] = s[m + i - 1]
    BY <1>2, <1>3, SubSeqProperties
  <1>5. Len(SubSeq(s, m, l)) = l - k /\ l - m + 1 = l - k
    BY <1>2, <1>4
  <1>6. \A i \in 1 .. (l - k) : m + i - 1 = i + k
    BY <1>2
  <1>7. \A i \in 1 .. (l - k) : SubSeq(s, m, l)[i] = s[i + k]
    BY <1>4, <1>5, <1>6
  <1>. QED BY <1>1, <1>4, <1>5, <1>7 DEF l, m

LEMMA OpsTaken ==
  ASSUME NEW S, NEW s \in Seq(S), NEW k \in 1 .. Len(s),
         \A j \in 1 .. (k - 1) : s[j].op \notin Holding
  PROVE  LET t == SubSeq(s, k + 1, Len(s))
         IN /\ s[k].op \in Holding => Cardinality(OpPlaces(t)) = Cardinality(OpPlaces(s)) - 1
            /\ s[k].op \notin Holding => Cardinality(OpPlaces(t)) = Cardinality(OpPlaces(s))
  <1> DEFINE t == SubSeq(s, k + 1, Len(s))
  <1>1. /\ Len(s) \in Nat /\ Len(t) = Len(s) - k
        /\ \A i \in 1 .. (Len(s) - k) : t[i] = s[i + k]
    BY Suffix
  <1> HIDE DEF t
  <1>2. OpPlaces(s) \subseteq 1 .. Len(s) /\ OpPlaces(t) \subseteq 1 .. (Len(s) - k)
    BY <1>1 DEF OpPlaces
  <1>3. \A j \in 1 .. (Len(s) - k) : j + k \in 1 .. Len(s)
    BY <1>1
  <1>4. \A j \in 1 .. (Len(s) - k) : j \in OpPlaces(t) <=> j + k \in OpPlaces(s)
    BY <1>1, <1>3 DEF OpPlaces
  <1>5. \A j \in 1 .. (k - 1) : j \notin OpPlaces(s)
    BY DEF OpPlaces
  <1>6. k \in OpPlaces(s) <=> s[k].op \in Holding
    BY DEF OpPlaces
  <1> DEFINE X == OpPlaces(s)
             Y == OpPlaces(t)
             l == Len(s)
             m == l - k
  <1>7. /\ l \in Nat /\ k \in 1 .. l /\ m = l - k /\ X \subseteq 1 .. l /\ Y \subseteq 1 .. m
        /\ \A j \in 1 .. m : j \in Y <=> j + k \in X
        /\ \A j \in 1 .. (k - 1) : j \notin X
    BY <1>1, <1>2, <1>4, <1>5
  <1> HIDE DEF X, Y, l, m
  <1>8. /\ k \in X => Cardinality(Y) = Cardinality(X) - 1
        /\ k \notin X => Cardinality(Y) = Cardinality(X)
    BY <1>7, PlacesShift DEF Shifted
  <1>. QED BY <1>6, <1>8 DEF X, Y, t

LEMMA TagsTaken ==
  ASSUME NEW S, NEW s \in Seq(S), s # <<>>, NEW a
  PROVE  /\ Head(s).tag = a => Cardinality(TagPlaces(Tail(s), a)) = Cardinality(TagPlaces(s, a)) - 1
         /\ Head(s).tag # a => Cardinality(TagPlaces(Tail(s), a)) = Cardinality(TagPlaces(s, a))
  <1> DEFINE t == Tail(s)
             X == TagPlaces(s, a)
             Y == TagPlaces(t, a)
             l == Len(s)
             m == l - 1
  <1>1. /\ l \in Nat \ {0} /\ Len(t) = m /\ m = l - 1
        /\ \A i \in 1 .. Len(t) : t[i] = s[i + 1]
    BY Taken
  <1>2. Head(s) = s[1]
    BY EmptySeq
  <1> HIDE DEF t, l, m
  <1>3. \A j \in 1 .. m : j + 1 \in 1 .. l
    BY <1>1
  <1>4. 1 \in 1 .. l /\ \A j \in 1 .. (1 - 1) : FALSE
    BY <1>1
  <1>5. /\ X \subseteq 1 .. l /\ Y \subseteq 1 .. m
        /\ \A j \in 1 .. m : j \in Y <=> j + 1 \in X
        /\ 1 \in X <=> Head(s).tag = a
    BY <1>1, <1>2, <1>3, <1>4 DEF TagPlaces, l
  <1> HIDE DEF X, Y
  <1>6. /\ 1 \in X => Cardinality(Y) = Cardinality(X) - 1
        /\ 1 \notin X => Cardinality(Y) = Cardinality(X)
    <2>1. \A j \in 1 .. (1 - 1) : j \notin X
      BY <1>4
    <2>2. l \in Nat
      BY <1>1
    <2>. QED BY <1>1, <1>4, <1>5, <2>1, <2>2, PlacesShift DEF Shifted
  <1>. QED BY <1>5, <1>6 DEF X, Y, t

-----------------------------------------------------------------------------
(***************************************************************************)
(* The receive buffers.  Nothing is said of the request a work of dmacon   *)
(* stands for, only of its operation, which tells whether it has a buffer. *)
(***************************************************************************)
Operations == Holding \cup {"ack", "notice"}

WorkShape(s) == (\E S : s \in Seq(S)) /\ \A i \in 1 .. Len(s) : s[i].op \in Operations

DmaShape ==
  /\ dma = [n \in Nics |-> dma[n]] /\ \A n \in Nics : WorkShape(dma[n])
  /\ dropped \in [Nics -> Nat] /\ spinning \in [Nics -> BOOLEAN]

BufferTypes == FreeTypes /\ HeaderTypes /\ DmaShape

\* What is said of one NIC.
BuffersOf(n) ==
  ~spinning[n] =>
    /\ Owners(n) <= Buffers
    /\ Buffers <= Owners(n) + refused[n] + dropped[n]

BuffersInv == BufferTypes /\ \A n \in Nics : BuffersOf(n)

LEMMA OwnersAre ==
  ASSUME NEW n \in Nics
  PROVE  Owners(n) = free[n] + Cardinality(OpPlaces(dma[n])) + Cardinality(TagPlaces(sq[n], "virt"))
  BY DEF Owners, OpPlaces, TagPlaces, Holding

LEMMA OwnersAreNext ==
  ASSUME NEW n \in Nics
  PROVE  Owners(n)' = free'[n] + Cardinality(OpPlaces(dma'[n])) + Cardinality(TagPlaces(sq'[n], "virt"))
  BY DEF Owners, OpPlaces, TagPlaces, Holding

SameNic(m) ==
  /\ free'[m] = free[m] /\ dma'[m] = dma[m] /\ sq'[m] = sq[m]
  /\ refused'[m] = refused[m] /\ dropped'[m] = dropped[m] /\ spinning'[m] = spinning[m]

\* A step of one NIC leaves the other alone.
LEMMA OneNic ==
  ASSUME BuffersInv, NEW n \in Nics, BufferTypes',
         \A m \in Nics : m # n => SameNic(m), BuffersOf(n)'
  PROVE  BuffersInv'
  <1>1. ASSUME NEW m \in Nics, m # n PROVE BuffersOf(m)'
    <2>1. SameNic(m) /\ BuffersOf(m)
      BY <1>1 DEF BuffersInv
    <2>2. Owners(m)' = Owners(m)
      BY <2>1, OwnersAre, OwnersAreNext DEF SameNic
    <2>. QED BY <2>1, <2>2 DEF BuffersOf, SameNic
  <1>. QED BY <1>1 DEF BuffersInv

\* The numbers of one NIC before a step that is not stuck in a loop.
LEMMA BufferNumbers ==
  ASSUME BuffersInv, NEW n \in Nics, ~spinning[n]
  PROVE  /\ free[n] \in Nat /\ refused[n] \in Nat /\ dropped[n] \in Nat /\ Buffers \in Nat
         /\ Cardinality(OpPlaces(dma[n])) \in Nat
         /\ Cardinality(TagPlaces(sq[n], "virt")) \in Nat
         /\ free[n] + Cardinality(OpPlaces(dma[n])) + Cardinality(TagPlaces(sq[n], "virt")) <= Buffers
         /\ Buffers <= free[n] + Cardinality(OpPlaces(dma[n])) + Cardinality(TagPlaces(sq[n], "virt"))
                        + refused[n] + dropped[n]
  <1>1. sq[n] \in Seq(SendWr) /\ \E S : dma[n] \in Seq(S)
    BY DEF BuffersInv, BufferTypes, HeaderTypes, DmaShape, WorkShape
  <1>2. Cardinality(OpPlaces(dma[n])) \in Nat /\ Cardinality(TagPlaces(sq[n], "virt")) \in Nat
    BY <1>1, OpsAppended, TagsAppended
  <1>3. BuffersOf(n)
    BY DEF BuffersInv
  <1>4. free[n] \in Nat /\ refused[n] \in Nat /\ dropped[n] \in Nat /\ Buffers \in Nat
    BY SecureAssumption DEF BuffersInv, BufferTypes, FreeTypes, HeaderTypes, DmaShape
  <1>. QED BY <1>2, <1>3, <1>4, OwnersAre DEF BuffersOf

\* A post on dmacon.
LEMMA PostedWork ==
  ASSUME DmaShape, NEW n \in Nics, NEW w, w.op \in Operations, dma' = Put(dma, n, w),
         dropped' \in [Nics -> Nat], spinning' \in [Nics -> BOOLEAN]
  PROVE  /\ DmaShape' /\ dma'[n] = Append(dma[n], w) /\ \A m \in Nics : m # n => dma'[m] = dma[m]
         /\ w.op \in Holding => Cardinality(OpPlaces(dma'[n])) = Cardinality(OpPlaces(dma[n])) + 1
         /\ w.op \notin Holding => OpPlaces(dma'[n]) = OpPlaces(dma[n])
  <1>1. /\ dma'[n] = Append(dma[n], w) /\ \A m \in Nics : m # n => dma'[m] = dma[m]
        /\ dma' = [m \in Nics |-> dma'[m]]
    BY DEF Put, DmaShape
  <1>2. PICK S : dma[n] \in Seq(S)
    BY DEF DmaShape, WorkShape
  <1>3. /\ dma'[n] \in Seq(S \cup {w}) /\ Len(dma[n]) \in Nat /\ Len(dma'[n]) = Len(dma[n]) + 1
        /\ \A i \in 1 .. Len(dma[n]) : dma'[n][i] = dma[n][i]
        /\ dma'[n][Len(dma[n]) + 1] = w
    BY <1>1, <1>2, Appended
  <1>4. \A i : i \in 1 .. (Len(dma[n]) + 1) => i \in 1 .. Len(dma[n]) \/ i = Len(dma[n]) + 1
    BY <1>3
  <1>5. WorkShape(dma'[n])
    BY <1>3, <1>4 DEF DmaShape, WorkShape
  <1>6. DmaShape'
    BY <1>1, <1>5 DEF DmaShape
  <1>. QED BY <1>1, <1>2, <1>6, OpsAppended

LEMMA DmaPostEffect ==
  ASSUME DmaShape, NEW n \in Nics, NEW w, w.op \in Operations, DmaPost(n, w)
  PROVE  /\ DmaShape' /\ \A m \in Nics : m # n => dma'[m] = dma[m] /\ spinning'[m] = spinning[m]
         /\ dropped' = dropped
         /\ ~spinning'[n] =>
              /\ w.op \in Holding => Cardinality(OpPlaces(dma'[n])) = Cardinality(OpPlaces(dma[n])) + 1
              /\ w.op \notin Holding => OpPlaces(dma'[n]) = OpPlaces(dma[n])
  <1>1. /\ spinning' = [spinning EXCEPT ![n] = DmaFull(n)] /\ dropped' = dropped
        /\ DmaFull(n) => dma' = dma
        /\ ~DmaFull(n) => dma' = Put(dma, n, w)
    BY DEF DmaPost
  <1>2. /\ spinning' \in [Nics -> BOOLEAN] /\ spinning'[n] = DmaFull(n)
        /\ \A m \in Nics : m # n => spinning'[m] = spinning[m]
    <2>1. DmaFull(n) \in BOOLEAN
      BY DEF DmaFull
    <2>. QED BY <1>1, <2>1 DEF DmaShape
  <1>3. CASE DmaFull(n)
    BY <1>1, <1>2, <1>3 DEF DmaShape
  <1>4. CASE ~DmaFull(n)
    BY <1>1, <1>2, <1>4, PostedWork DEF DmaShape
  <1>. QED BY <1>3, <1>4

LEMMA DmaTryPostEffect ==
  ASSUME DmaShape, NEW n \in Nics, NEW w, w.op \in Operations, DmaTryPost(n, w)
  PROVE  /\ DmaShape' /\ spinning' = spinning
         /\ \A m \in Nics : m # n => dma'[m] = dma[m] /\ dropped'[m] = dropped[m]
         /\ \/ dma' = dma /\ dropped'[n] = dropped[n] + 1
            \/ /\ dropped'[n] = dropped[n]
               /\ w.op \in Holding => Cardinality(OpPlaces(dma'[n])) = Cardinality(OpPlaces(dma[n])) + 1
               /\ w.op \notin Holding => OpPlaces(dma'[n]) = OpPlaces(dma[n])
  <1>1. /\ spinning' = spinning
        /\ DmaFull(n) => dma' = dma /\ dropped' = Add(dropped, n, 1)
        /\ ~DmaFull(n) => dma' = Put(dma, n, w) /\ dropped' = dropped
    BY DEF DmaTryPost
  <1>2. /\ Add(dropped, n, 1) \in [Nics -> Nat] /\ Add(dropped, n, 1)[n] = dropped[n] + 1
        /\ \A m \in Nics : m # n => Add(dropped, n, 1)[m] = dropped[m]
    BY DEF DmaShape, Add
  <1>3. CASE DmaFull(n)
    BY <1>1, <1>2, <1>3 DEF DmaShape
  <1>4. CASE ~DmaFull(n)
    BY <1>1, <1>4, PostedWork DEF DmaShape
  <1>. QED BY <1>3, <1>4

\* The next completion of dmacon leaves its queue, and the notices before it.
LEMMA CompletedEffect ==
  ASSUME DmaShape, NEW n \in Nics, NEW w, Completed(n, w)
  PROVE  /\ DmaShape' /\ spinning' = spinning /\ dropped' = dropped /\ dmaFree' = dmaFree
         /\ ~spinning[n] /\ w.op \in Holding \cup {"ack"}
         /\ \A m \in Nics : m # n => dma'[m] = dma[m]
         /\ w.op \in Holding => Cardinality(OpPlaces(dma'[n])) = Cardinality(OpPlaces(dma[n])) - 1
         /\ w.op \notin Holding => Cardinality(OpPlaces(dma'[n])) = Cardinality(OpPlaces(dma[n]))
  <1>1. PICK k \in Signaled(n) :
          /\ w = dma[n][k] /\ \A j \in Signaled(n) : k <= j
          /\ dma' = [dma EXCEPT ![n] = SubSeq(@, k + 1, Len(@))]
    BY DEF Completed
  <1>2. PICK S : dma[n] \in Seq(S)
    BY DEF DmaShape, WorkShape
  <1> DEFINE s == dma[n]
             t == SubSeq(s, k + 1, Len(s))
  <1>3. k \in 1 .. Len(s) /\ s[k].op # "notice" /\ Len(s) \in Nat
    BY <1>2, LenProperties DEF Signaled
  <1>4. \A j \in 1 .. (k - 1) : s[j].op = "notice"
    <2>1. \A j \in 1 .. (k - 1) : j \in 1 .. Len(s) /\ ~(k <= j)
      BY <1>3
    <2>. QED BY <1>1, <2>1 DEF Signaled
  <1>5. /\ dma'[n] = t /\ \A m \in Nics : m # n => dma'[m] = dma[m]
        /\ dma' = [m \in Nics |-> dma'[m]]
    BY <1>1 DEF DmaShape
  <1>6. WorkShape(t)
    <2>1. /\ t \in Seq(S) /\ Len(t) = Len(s) - k
          /\ \A i \in 1 .. (Len(s) - k) : t[i] = s[i + k]
      BY <1>2, <1>3, Suffix
    <2>2. \A i \in 1 .. (Len(s) - k) : i + k \in 1 .. Len(s)
      BY <1>3
    <2>. QED BY <2>1, <2>2 DEF DmaShape, WorkShape
  <1>7. spinning' = spinning /\ dropped' = dropped /\ dmaFree' = dmaFree /\ ~spinning[n]
    BY DEF Completed
  <1>8. DmaShape'
    BY <1>5, <1>6, <1>7 DEF DmaShape
  <1>9. w = s[k] /\ w.op \in Holding \cup {"ack"}
    BY <1>1, <1>3 DEF DmaShape, WorkShape, Operations
  <1> HIDE DEF s, t
  <1>10. \A j \in 1 .. (k - 1) : s[j].op \notin Holding
    BY <1>4 DEF Holding
  <1>11. /\ s[k].op \in Holding => Cardinality(OpPlaces(t)) = Cardinality(OpPlaces(s)) - 1
         /\ s[k].op \notin Holding => Cardinality(OpPlaces(t)) = Cardinality(OpPlaces(s))
    <2>1. s \in Seq(S)
      BY <1>2 DEF s
    <2>. QED BY <1>3, <1>10, <2>1, OpsTaken DEF t
  <1>. QED BY <1>5, <1>7, <1>8, <1>9, <1>11 DEF s

\* A send, as far as the buffers are concerned.
LEMMA SentTags ==
  ASSUME HeaderTypes, NEW n \in Nics, NEW r, NEW eth,
         NEW tag \in {"none", "virt", "dma"}, NEW size \in Sizes, Send(n, r, eth, tag, size)
  PROVE  /\ ~HasRoom(n) => sq'[n] = sq[n] /\ refused'[n] = refused[n] + 1
         /\ HasRoom(n) =>
              /\ refused'[n] = refused[n]
              /\ \A t \in {"virt", "dma"} :
                   Cardinality(TagPlaces(sq'[n], t))
                     = IF t = tag THEN Cardinality(TagPlaces(sq[n], t)) + 1
                                  ELSE Cardinality(TagPlaces(sq[n], t))
  <1> DEFINE h == SentWr(n, tag, size)
  <1>1. /\ HasRoom(n) => sq'[n] = Append(sq[n], h) /\ refused'[n] = refused[n]
        /\ ~HasRoom(n) => sq'[n] = sq[n] /\ refused'[n] = refused[n] + 1
    BY SendEffect
  <1>2. sq[n] \in Seq(SendWr) /\ h.tag = tag
    BY DEF HeaderTypes, SentWr
  <1> HIDE DEF h
  <1>3. ASSUME NEW t \in {"virt", "dma"}
        PROVE  Cardinality(TagPlaces(Append(sq[n], h), t))
                 = IF t = tag THEN Cardinality(TagPlaces(sq[n], t)) + 1
                              ELSE Cardinality(TagPlaces(sq[n], t))
    <2>1. /\ h.tag = t => Cardinality(TagPlaces(Append(sq[n], h), t)) = Cardinality(TagPlaces(sq[n], t)) + 1
          /\ h.tag # t => TagPlaces(Append(sq[n], h), t) = TagPlaces(sq[n], t)
      BY <1>2, TagsAppended
    <2>. QED BY <1>2, <2>1
  <1>. QED BY <1>1, <1>3

\* The numbers of the NIC that moves decide whether its buffers are conserved.
LEMMA BuffersKept ==
  ASSUME NEW n \in Nics,
         spinning'[n]
         \/ LET own == free'[n] + Cardinality(OpPlaces(dma'[n])) + Cardinality(TagPlaces(sq'[n], "virt"))
            IN own <= Buffers /\ Buffers <= own + refused'[n] + dropped'[n]
  PROVE  BuffersOf(n)'
  BY OwnersAreNext DEF BuffersOf

LEMMA SendRequestKeepsBuffers ==
  ASSUME BuffersInv, NEW n \in Nics, ProcessSendRequest(n)
  PROVE  BuffersInv'
  <1> DEFINE r == Head(host[n])
             tag == IF r.kind = "READ" THEN "none" ELSE "dma"
             size == IF r.kind = "READ" THEN EthHeader ELSE 0
             v == Cardinality(TagPlaces(sq[n], "virt"))
             o == Cardinality(OpPlaces(dma[n]))
             w == NewWork("notice", r, r.id)
  <1>1. Send(n, r, r.kind # "SEND", tag, size) /\ ~spinning[n] /\ dmaFree[n] > 0 /\ free' = free
    BY DEF ProcessSendRequest
  <1>2. tag \in {"none", "virt", "dma"} /\ size \in Sizes /\ w.op = "notice"
    BY DEF Sizes, NewWork
  <1>3. /\ HasRoom(n) => dmaFree' = (IF r.kind = "READ" THEN dmaFree ELSE Sub(dmaFree, n, 1))
                         /\ UNCHANGED <<dma, spinning, dropped>>
        /\ ~HasRoom(n) => DmaPost(n, w) /\ dmaFree' = dmaFree
    BY DEF ProcessSendRequest
  <1>4. r.kind = "READ" => tag = "none"
    OBVIOUS
  <1>5. r.kind # "READ" => tag = "dma"
    OBVIOUS
  <1> HIDE DEF r, tag, size, w
  <1>6. HeaderTypes /\ FreeTypes /\ DmaShape
    BY DEF BuffersInv, BufferTypes
  <1>7. HeaderTypes' /\ \A m \in Nics : m # n => sq'[m] = sq[m] /\ refused'[m] = refused[m]
    BY <1>1, <1>2, <1>6, SendEffect
  <1>8. /\ ~HasRoom(n) => sq'[n] = sq[n] /\ refused'[n] = refused[n] + 1
        /\ HasRoom(n) =>
              /\ refused'[n] = refused[n]
              /\ \A t \in {"virt", "dma"} :
                   Cardinality(TagPlaces(sq'[n], t))
                     = IF t = tag THEN Cardinality(TagPlaces(sq[n], t)) + 1
                                  ELSE Cardinality(TagPlaces(sq[n], t))
    BY <1>1, <1>2, <1>6, SentTags
  <1>9. /\ free[n] \in Nat /\ refused[n] \in Nat /\ dropped[n] \in Nat
        /\ Buffers \in Nat /\ o \in Nat /\ v \in Nat
        /\ free[n] + o + v <= Buffers /\ Buffers <= free[n] + o + v + refused[n] + dropped[n]
    BY <1>1, BufferNumbers
  <1>10. CASE HasRoom(n)
    <2>1. dma' = dma /\ spinning' = spinning /\ dropped' = dropped
      BY <1>3, <1>10
    <2>2. Cardinality(TagPlaces(sq'[n], "virt")) = v /\ refused'[n] = refused[n]
      BY <1>4, <1>5, <1>8, <1>10
    <2>3. dmaFree' \in [Nics -> Nat]
      <3>1. CASE r.kind = "READ"
        BY <1>3, <1>6, <1>10, <3>1 DEF FreeTypes
      <3>2. CASE r.kind # "READ"
        BY <1>1, <1>3, <1>6, <1>10, <3>2 DEF FreeTypes, Sub
      <3>. QED BY <3>1, <3>2
    <2>4. BufferTypes'
      BY <1>1, <1>6, <1>7, <2>1, <2>3 DEF BufferTypes, FreeTypes, DmaShape
    <2>5. \A m \in Nics : m # n => SameNic(m)
      BY <1>1, <1>7, <2>1 DEF SameNic
    <2> HIDE DEF v, o
    <2>7. BuffersOf(n)'
      BY <1>1, <1>9, <2>1, <2>2, BuffersKept DEF o
    <2>. QED BY <2>4, <2>5, <2>7, OneNic
  <1>11. CASE ~HasRoom(n)
    <2>1. DmaPost(n, w) /\ dmaFree' = dmaFree /\ w.op \in Operations /\ w.op \notin Holding
      BY <1>2, <1>3, <1>11 DEF Operations, Holding
    <2>2. /\ DmaShape' /\ \A m \in Nics : m # n => dma'[m] = dma[m] /\ spinning'[m] = spinning[m]
          /\ dropped' = dropped
          /\ ~spinning'[n] => OpPlaces(dma'[n]) = OpPlaces(dma[n])
      BY <1>6, <2>1, DmaPostEffect
    <2>3. BufferTypes'
      BY <1>1, <1>6, <1>7, <2>1, <2>2 DEF BufferTypes, FreeTypes
    <2>4. \A m \in Nics : m # n => SameNic(m)
      BY <1>1, <1>7, <2>1, <2>2 DEF SameNic
    <2>5. sq'[n] = sq[n] /\ refused'[n] = refused[n] + 1
      BY <1>8, <1>11
    <2> HIDE DEF v, o
    <2>6. Buffers <= free[n] + o + v + refused'[n] + dropped[n]
      BY <1>9, <2>5
    <2>7. BuffersOf(n)'
      <3>1. CASE spinning'[n]
        BY <3>1, BuffersKept
      <3>2. CASE ~spinning'[n]
        BY <1>1, <1>9, <2>1, <2>2, <2>5, <2>6, <3>2, BuffersKept DEF o, v
      <3>. QED BY <3>1, <3>2
    <2>. QED BY <2>3, <2>4, <2>7, OneNic
  <1>. QED BY <1>10, <1>11

LEMMA SameKeepsBuffers ==
  ASSUME BuffersInv, FreeTypes', UNCHANGED <<free, dma, sq, ring, refused, dropped, spinning>>
  PROVE  BuffersInv'
  <1>1. BufferTypes'
    BY DEF BuffersInv, BufferTypes, HeaderTypes, DmaShape
  <1>2. ASSUME NEW n \in Nics PROVE BuffersOf(n)'
    <2>1. Owners(n)' = Owners(n)
      BY OwnersAre, OwnersAreNext
    <2>2. BuffersOf(n)
      BY DEF BuffersInv
    <2>. QED BY <2>1, <2>2 DEF BuffersOf
  <1>. QED BY <1>1, <1>2 DEF BuffersInv

LEMMA RequestKeepsBuffers ==
  ASSUME BuffersInv, NEW n \in Nics, ReceiveRequest(n)
  PROVE  BuffersInv'
  <1> DEFINE p == Arriving(n)
             w == NewWork(CASE p.kind = "SEND" -> "send" [] p.kind = "READ" -> "read"
                            [] OTHER -> "write", Plain(p), p.id)
  <1>1. /\ ~spinning[n] /\ free[n] > 0 /\ free' = Sub(free, n, 1) /\ DmaPost(n, w)
        /\ sq' = sq /\ dmaFree' = dmaFree /\ ring' = ring /\ refused' = refused
    BY DEF ReceiveRequest, Polled
  <1>2. w.op \in Holding /\ w.op \in Operations
    BY DEF NewWork, Holding, Operations
  <1> HIDE DEF p, w
  <1>3. HeaderTypes /\ FreeTypes /\ DmaShape
    BY DEF BuffersInv, BufferTypes
  <1>4. /\ DmaShape' /\ \A m \in Nics : m # n => dma'[m] = dma[m] /\ spinning'[m] = spinning[m]
        /\ dropped' = dropped
        /\ ~spinning'[n] => Cardinality(OpPlaces(dma'[n])) = Cardinality(OpPlaces(dma[n])) + 1
    BY <1>1, <1>2, <1>3, DmaPostEffect
  <1>5. /\ free' \in [Nics -> Nat] /\ free'[n] = free[n] - 1
        /\ \A m \in Nics : m # n => free'[m] = free[m]
    BY <1>1, <1>3 DEF FreeTypes, Sub
  <1>6. BufferTypes'
    BY <1>1, <1>3, <1>4, <1>5 DEF BufferTypes, FreeTypes, HeaderTypes
  <1>7. \A m \in Nics : m # n => SameNic(m)
    BY <1>1, <1>4, <1>5 DEF SameNic
  <1>8. BuffersOf(n)'
    <2>1. CASE spinning'[n]
      BY <2>1, BuffersKept
    <2>2. CASE ~spinning'[n]
      BY <1>1, <1>4, <1>5, <2>2, BufferNumbers, BuffersKept
    <2>. QED BY <2>1, <2>2
  <1>. QED BY <1>6, <1>7, <1>8, OneNic

LEMMA ReadAnswerKeepsBuffers ==
  ASSUME BuffersInv, NEW n \in Nics, ReceiveReadAnswer(n)
  PROVE  BuffersInv'
  <1> DEFINE w == NewWork("answer", Head(read_queue[n]), Arriving(n).id)
  <1>1. /\ ~spinning[n] /\ free[n] > 0 /\ free' = Sub(free, n, 1) /\ DmaTryPost(n, w)
        /\ sq' = sq /\ dmaFree' = dmaFree /\ ring' = ring /\ refused' = refused
    BY DEF ReceiveReadAnswer, Polled
  <1>2. w.op \in Holding /\ w.op \in Operations
    BY DEF NewWork, Holding, Operations
  <1> HIDE DEF w
  <1>3. HeaderTypes /\ FreeTypes /\ DmaShape
    BY DEF BuffersInv, BufferTypes
  <1>4. /\ DmaShape' /\ spinning' = spinning
        /\ \A m \in Nics : m # n => dma'[m] = dma[m] /\ dropped'[m] = dropped[m]
        /\ \/ dma' = dma /\ dropped'[n] = dropped[n] + 1
           \/ /\ dropped'[n] = dropped[n]
              /\ Cardinality(OpPlaces(dma'[n])) = Cardinality(OpPlaces(dma[n])) + 1
    BY <1>1, <1>2, <1>3, DmaTryPostEffect
  <1>5. /\ free' \in [Nics -> Nat] /\ free'[n] = free[n] - 1
        /\ \A m \in Nics : m # n => free'[m] = free[m]
    BY <1>1, <1>3 DEF FreeTypes, Sub
  <1>6. BufferTypes'
    BY <1>1, <1>3, <1>4, <1>5 DEF BufferTypes, FreeTypes, HeaderTypes
  <1>7. \A m \in Nics : m # n => SameNic(m)
    BY <1>1, <1>4, <1>5 DEF SameNic
  <1>8. BuffersOf(n)'
    <2>1. CASE dma' = dma /\ dropped'[n] = dropped[n] + 1
      BY <1>1, <1>5, <2>1, BufferNumbers, BuffersKept
    <2>2. CASE /\ dropped'[n] = dropped[n]
               /\ Cardinality(OpPlaces(dma'[n])) = Cardinality(OpPlaces(dma[n])) + 1
      BY <1>1, <1>5, <2>2, BufferNumbers, BuffersKept
    <2>. QED BY <1>4, <2>1, <2>2
  <1>. QED BY <1>6, <1>7, <1>8, OneNic

LEMMA WriteAnswerKeepsBuffers ==
  ASSUME BuffersInv, NEW n \in Nics, ReceiveWriteAnswer(n)
  PROVE  BuffersInv'
  <1> DEFINE w == NewWork("ack", Head(write_queue[n]), Arriving(n).id)
  <1>1. /\ ~spinning[n] /\ free' = free /\ DmaTryPost(n, w)
        /\ sq' = sq /\ dmaFree' = dmaFree /\ ring' = ring /\ refused' = refused
    BY DEF ReceiveWriteAnswer, Polled
  <1>2. w.op \notin Holding /\ w.op \in Operations
    BY DEF NewWork, Holding, Operations
  <1> HIDE DEF w
  <1>3. HeaderTypes /\ FreeTypes /\ DmaShape
    BY DEF BuffersInv, BufferTypes
  <1>4. /\ DmaShape' /\ spinning' = spinning
        /\ \A m \in Nics : m # n => dma'[m] = dma[m] /\ dropped'[m] = dropped[m]
        /\ \/ dma' = dma /\ dropped'[n] = dropped[n] + 1
           \/ dropped'[n] = dropped[n] /\ OpPlaces(dma'[n]) = OpPlaces(dma[n])
    BY <1>1, <1>2, <1>3, DmaTryPostEffect
  <1>5. BufferTypes'
    BY <1>1, <1>3, <1>4 DEF BufferTypes, FreeTypes, HeaderTypes
  <1>6. \A m \in Nics : m # n => SameNic(m)
    BY <1>1, <1>4 DEF SameNic
  <1>7. BuffersOf(n)'
    <2>1. CASE dma' = dma /\ dropped'[n] = dropped[n] + 1
      BY <1>1, <2>1, BufferNumbers, BuffersKept
    <2>2. CASE dropped'[n] = dropped[n] /\ OpPlaces(dma'[n]) = OpPlaces(dma[n])
      BY <1>1, <2>2, BufferNumbers, BuffersKept
    <2>. QED BY <1>4, <2>1, <2>2
  <1>. QED BY <1>5, <1>6, <1>7, OneNic

\* The DMA link changes the status of a work, not its operation.
LEMMA ExecuteKeepsBuffers ==
  ASSUME BuffersInv, NEW n \in Nics, DmaExecute(n)
  PROVE  BuffersInv'
  <1>1. PICK i \in Pending(n), ok \in BOOLEAN :
          dma' = [dma EXCEPT ![n][i].status = IF ok THEN "ok" ELSE "error"]
    BY DEF DmaExecute
  <1>2. UNCHANGED <<free, dmaFree, sq, ring, refused, dropped, spinning>>
    BY DEF DmaExecute
  <1>3. HeaderTypes /\ FreeTypes /\ DmaShape
    BY DEF BuffersInv, BufferTypes
  <1> DEFINE st == IF ok THEN "ok" ELSE "error"
             x == [dma[n][i] EXCEPT !.status = st]
  <1>4. /\ dma'[n] = [dma[n] EXCEPT ![i] = x] /\ \A m \in Nics : m # n => dma'[m] = dma[m]
        /\ dma' = [m \in Nics |-> dma'[m]]
    BY <1>1, <1>3 DEF DmaShape
  <1>5. x.op = dma[n][i].op
    BY <1>1
  <1> HIDE DEF x
  <1>6. PICK S : dma[n] \in Seq(S)
    BY <1>3 DEF DmaShape, WorkShape
  <1>7. /\ dma'[n] \in Seq(S \cup {x}) /\ Len(dma'[n]) = Len(dma[n])
        /\ \A j \in 1 .. Len(dma[n]) : dma'[n][j].op = dma[n][j].op
    <2>1. i \in 1 .. Len(dma[n]) /\ Len(dma[n]) \in Nat
      BY <1>6, LenProperties DEF Pending
    <2>2. dma[n] \in Seq(S \cup {x})
      <3>1. \A j \in 1 .. Len(dma[n]) : dma[n][j] \in S
        BY <1>6, ElementOfSeq
      <3>. QED BY <1>6, <3>1, SeqDef, LenProperties
    <2>3. dma'[n] \in Seq(S \cup {x}) /\ Len(dma'[n]) = Len(dma[n])
      BY <1>4, <2>1, <2>2, ExceptSeq
    <2>. QED BY <1>4, <1>5, <1>6, <2>1, <2>3
  <1>8. WorkShape(dma'[n])
    BY <1>3, <1>7 DEF DmaShape, WorkShape
  <1>9. DmaShape'
    BY <1>2, <1>3, <1>4, <1>8 DEF DmaShape
  <1>10. OpPlaces(dma'[n]) = OpPlaces(dma[n])
    BY <1>7 DEF OpPlaces
  <1>11. BufferTypes'
    BY <1>2, <1>3, <1>9 DEF BufferTypes, FreeTypes, HeaderTypes
  <1>12. \A m \in Nics : m # n => SameNic(m)
    BY <1>2, <1>4 DEF SameNic
  <1>13. BuffersOf(n)'
    <2>1. CASE spinning[n]
      BY <1>2, <2>1, BuffersKept
    <2>2. CASE ~spinning[n]
      BY <1>2, <1>10, <2>2, BufferNumbers, BuffersKept
    <2>. QED BY <2>1, <2>2
  <1>. QED BY <1>11, <1>12, <1>13, OneNic

LEMMA DmaDoneKeepsBuffers ==
  ASSUME BuffersInv, NEW n \in Nics, DmaDone(n)
  PROVE  BuffersInv'
  <1>1. PICK w \in Works(n) :
          /\ Completed(n, w) /\ free' = IF w.op = "ack" THEN free ELSE Add(free, n, 1)
          /\ sq' = sq /\ ring' = ring /\ refused' = refused
    BY DEF DmaDone, NothingSent
  <1>2. HeaderTypes /\ FreeTypes /\ DmaShape
    BY DEF BuffersInv, BufferTypes
  <1>3. /\ DmaShape' /\ spinning' = spinning /\ dropped' = dropped /\ dmaFree' = dmaFree
        /\ ~spinning[n] /\ w.op \in Holding \cup {"ack"}
        /\ \A m \in Nics : m # n => dma'[m] = dma[m]
        /\ w.op \in Holding => Cardinality(OpPlaces(dma'[n])) = Cardinality(OpPlaces(dma[n])) - 1
        /\ w.op \notin Holding => Cardinality(OpPlaces(dma'[n])) = Cardinality(OpPlaces(dma[n]))
    BY <1>1, <1>2, CompletedEffect
  <1>4. /\ free' \in [Nics -> Nat] /\ \A m \in Nics : m # n => free'[m] = free[m]
        /\ w.op = "ack" => free'[n] = free[n]
        /\ w.op # "ack" => free'[n] = free[n] + 1
    <2>1. Add(free, n, 1) = [free EXCEPT ![n] = @ + 1]
      BY DEF Add
    <2>. QED BY <1>1, <1>2, <2>1 DEF FreeTypes
  <1>5. BufferTypes'
    BY <1>1, <1>2, <1>3, <1>4 DEF BufferTypes, FreeTypes, HeaderTypes
  <1>6. \A m \in Nics : m # n => SameNic(m)
    BY <1>1, <1>3, <1>4 DEF SameNic
  <1>7. BuffersOf(n)'
    <2>1. CASE w.op = "ack"
      <3>1. w.op \notin Holding
        BY <2>1 DEF Holding
      <3>. QED BY <1>1, <1>3, <1>4, <2>1, <3>1, BufferNumbers, BuffersKept
    <2>2. CASE w.op # "ack"
      <3>1. w.op \in Holding
        BY <1>3, <2>2
      <3>. QED BY <1>1, <1>3, <1>4, <2>2, <3>1, BufferNumbers, BuffersKept
    <2>. QED BY <2>1, <2>2
  <1>. QED BY <1>5, <1>6, <1>7, OneNic

\* The answer to a read has the buffer that the read had.
LEMMA ReadDoneKeepsBuffers ==
  ASSUME BuffersInv, NEW n \in Nics, DmaReadDone(n)
  PROVE  BuffersInv'
  <1>1. PICK w \in Works(n) :
          /\ Completed(n, w) /\ w.op = "read" /\ Send(n, w.req, FALSE, "virt", 0) /\ free' = free
    BY DEF DmaReadDone
  <1>2. HeaderTypes /\ FreeTypes /\ DmaShape /\ "virt" \in {"none", "virt", "dma"} /\ 0 \in Sizes
    BY DEF BuffersInv, BufferTypes, Sizes
  <1>3. /\ DmaShape' /\ spinning' = spinning /\ dropped' = dropped /\ dmaFree' = dmaFree
        /\ ~spinning[n]
        /\ \A m \in Nics : m # n => dma'[m] = dma[m]
        /\ w.op \in Holding => Cardinality(OpPlaces(dma'[n])) = Cardinality(OpPlaces(dma[n])) - 1
    BY <1>1, <1>2, CompletedEffect
  <1>4. w.op \in Holding
    BY <1>1 DEF Holding
  <1>5. HeaderTypes' /\ \A m \in Nics : m # n => sq'[m] = sq[m] /\ refused'[m] = refused[m]
    BY <1>1, <1>2, SendEffect
  <1>6. /\ ~HasRoom(n) => sq'[n] = sq[n] /\ refused'[n] = refused[n] + 1
        /\ HasRoom(n) =>
              /\ refused'[n] = refused[n]
              /\ \A t \in {"virt", "dma"} :
                   Cardinality(TagPlaces(sq'[n], t))
                     = IF t = "virt" THEN Cardinality(TagPlaces(sq[n], t)) + 1
                                     ELSE Cardinality(TagPlaces(sq[n], t))
    BY <1>1, <1>2, SentTags
  <1>7. BufferTypes'
    BY <1>1, <1>2, <1>3, <1>5 DEF BufferTypes, FreeTypes
  <1>8. \A m \in Nics : m # n => SameNic(m)
    BY <1>1, <1>3, <1>5 DEF SameNic
  <1>9. BuffersOf(n)'
    <2>1. CASE HasRoom(n)
      <3>1. /\ Cardinality(TagPlaces(sq'[n], "virt")) = Cardinality(TagPlaces(sq[n], "virt")) + 1
            /\ refused'[n] = refused[n]
        BY <1>6, <2>1
      <3>. QED BY <1>1, <1>3, <1>4, <3>1, BufferNumbers, BuffersKept
    <2>2. CASE ~HasRoom(n)
      <3>1. sq'[n] = sq[n] /\ refused'[n] = refused[n] + 1
        BY <1>6, <2>2
      <3>. QED BY <1>1, <1>3, <1>4, <3>1, BufferNumbers, BuffersKept
    <2>. QED BY <2>1, <2>2
  <1>. QED BY <1>7, <1>8, <1>9, OneNic

\* The answer to a write has none.
LEMMA WriteDoneKeepsBuffers ==
  ASSUME BuffersInv, NEW n \in Nics, DmaWriteDone(n)
  PROVE  BuffersInv'
  <1>1. PICK w \in Works(n) :
          /\ Completed(n, w) /\ w.op = "write" /\ free' = Add(free, n, 1)
          /\ Send(n, w.req, FALSE, "none", Header) \/ UNCHANGED <<sq, ring, refused>>
    BY DEF DmaWriteDone, NothingSent
  <1>2. HeaderTypes /\ FreeTypes /\ DmaShape /\ "none" \in {"none", "virt", "dma"} /\ Header \in Sizes
    BY DEF BuffersInv, BufferTypes, Sizes
  <1>3. /\ DmaShape' /\ spinning' = spinning /\ dropped' = dropped /\ dmaFree' = dmaFree
        /\ ~spinning[n]
        /\ \A m \in Nics : m # n => dma'[m] = dma[m]
        /\ w.op \in Holding => Cardinality(OpPlaces(dma'[n])) = Cardinality(OpPlaces(dma[n])) - 1
    BY <1>1, <1>2, CompletedEffect
  <1>4. w.op \in Holding
    BY <1>1 DEF Holding
  <1>5. /\ free' \in [Nics -> Nat] /\ free'[n] = free[n] + 1
        /\ \A m \in Nics : m # n => free'[m] = free[m]
    BY <1>1, <1>2 DEF FreeTypes, Add
  <1>6. /\ HeaderTypes' /\ \A m \in Nics : m # n => sq'[m] = sq[m] /\ refused'[m] = refused[m]
        /\ Cardinality(TagPlaces(sq'[n], "virt")) = Cardinality(TagPlaces(sq[n], "virt"))
        /\ refused'[n] \in {refused[n], refused[n] + 1}
    <2>1. CASE UNCHANGED <<sq, ring, refused>>
      BY <1>2, <2>1 DEF HeaderTypes
    <2>2. CASE Send(n, w.req, FALSE, "none", Header)
      <3>1. HeaderTypes' /\ \A m \in Nics : m # n => sq'[m] = sq[m] /\ refused'[m] = refused[m]
        BY <1>2, <2>2, SendEffect
      <3>2. /\ ~HasRoom(n) => sq'[n] = sq[n] /\ refused'[n] = refused[n] + 1
            /\ HasRoom(n) =>
                  /\ refused'[n] = refused[n]
                  /\ \A t \in {"virt", "dma"} :
                       Cardinality(TagPlaces(sq'[n], t))
                         = IF t = "none" THEN Cardinality(TagPlaces(sq[n], t)) + 1
                                         ELSE Cardinality(TagPlaces(sq[n], t))
        BY <1>2, <2>2, SentTags
      <3>. QED BY <3>1, <3>2
    <2>. QED BY <1>1, <2>1, <2>2
  <1>7. BufferTypes'
    BY <1>2, <1>3, <1>5, <1>6 DEF BufferTypes, FreeTypes
  <1>8. \A m \in Nics : m # n => SameNic(m)
    BY <1>3, <1>5, <1>6 DEF SameNic
  <1>9. BuffersOf(n)'
    BY <1>3, <1>4, <1>5, <1>6, BufferNumbers, BuffersKept
  <1>. QED BY <1>7, <1>8, <1>9, OneNic

\* A completion of niccon gives back the buffer that its wr_id names.
LEMMA ClientKeepsBuffers ==
  ASSUME BuffersInv, NEW n \in Nics, PollClientSendCompletion(n), sq[n] # <<>>
  PROVE  BuffersInv'
  <1> DEFINE t == Head(sq[n]).tag
  <1>1. /\ ~spinning[n] /\ sq' = [sq EXCEPT ![n] = Tail(@)]
        /\ free' = (IF t = "virt" THEN [free EXCEPT ![n] = @ + 1] ELSE free)
        /\ dmaFree' = (IF t = "dma" THEN [dmaFree EXCEPT ![n] = @ + 1] ELSE dmaFree)
        /\ UNCHANGED <<dma, ring, spinning, refused, dropped>>
    BY DEF PollClientSendCompletion, Drop, Add, histories
  <1>2. HeaderTypes /\ FreeTypes /\ DmaShape
    BY DEF BuffersInv, BufferTypes
  <1>3. sq[n] \in Seq(SendWr)
    BY <1>2 DEF HeaderTypes
  <1>4. /\ sq' \in [Nics -> Seq(SendWr)] /\ sq'[n] = Tail(sq[n])
        /\ \A m \in Nics : m # n => sq'[m] = sq[m]
    BY <1>1, <1>2, <1>3, HeadTailProperties DEF HeaderTypes
  <1>5. ASSUME NEW a
        PROVE  /\ t = a => Cardinality(TagPlaces(sq'[n], a)) = Cardinality(TagPlaces(sq[n], a)) - 1
               /\ t # a => Cardinality(TagPlaces(sq'[n], a)) = Cardinality(TagPlaces(sq[n], a))
    BY <1>3, <1>4, TagsTaken
  <1> HIDE DEF t
  <1>6. /\ free' \in [Nics -> Nat] /\ dmaFree' \in [Nics -> Nat]
        /\ \A m \in Nics : m # n => free'[m] = free[m]
        /\ free'[n] = IF t = "virt" THEN free[n] + 1 ELSE free[n]
    BY <1>1, <1>2 DEF FreeTypes
  <1>7. BufferTypes'
    BY <1>1, <1>2, <1>4, <1>6 DEF BufferTypes, FreeTypes, HeaderTypes, DmaShape
  <1>8. \A m \in Nics : m # n => SameNic(m)
    BY <1>1, <1>4, <1>6 DEF SameNic
  <1>9. BuffersOf(n)'
    <2>1. Cardinality(TagPlaces(sq'[n], "virt"))
            = IF t = "virt" THEN Cardinality(TagPlaces(sq[n], "virt")) - 1
                            ELSE Cardinality(TagPlaces(sq[n], "virt"))
      BY <1>5
    <2>2. dma'[n] = dma[n] /\ refused'[n] = refused[n] /\ dropped'[n] = dropped[n]
      BY <1>1
    <2> DEFINE own == free[n] + Cardinality(OpPlaces(dma[n])) + Cardinality(TagPlaces(sq[n], "virt"))
               own1 == free'[n] + Cardinality(OpPlaces(dma'[n])) + Cardinality(TagPlaces(sq'[n], "virt"))
    <2>3. /\ free[n] \in Nat
          /\ Cardinality(OpPlaces(dma[n])) \in Nat /\ Cardinality(TagPlaces(sq[n], "virt")) \in Nat
          /\ own <= Buffers /\ Buffers <= own + refused[n] + dropped[n]
      BY <1>1, BufferNumbers
    <2>4. own1 = own
      <3>1. CASE t = "virt"
        <4>1. /\ free'[n] = free[n] + 1
              /\ Cardinality(TagPlaces(sq'[n], "virt")) = Cardinality(TagPlaces(sq[n], "virt")) - 1
          BY <1>6, <2>1, <3>1, Zenon
        <4>2. \A a, b, c \in Nat : (a + 1) + b + (c - 1) = a + b + c
          OBVIOUS
        <4>3. /\ free[n] \in Nat /\ Cardinality(OpPlaces(dma[n])) \in Nat
              /\ Cardinality(TagPlaces(sq[n], "virt")) \in Nat
          BY <2>3
        <4>4. own1 = (free[n] + 1) + Cardinality(OpPlaces(dma[n]))
                       + (Cardinality(TagPlaces(sq[n], "virt")) - 1)
          BY <2>2, <4>1
        <4>. QED BY <4>2, <4>3, <4>4
      <3>2. CASE t # "virt"
        <4>1. /\ free'[n] = free[n]
              /\ Cardinality(TagPlaces(sq'[n], "virt")) = Cardinality(TagPlaces(sq[n], "virt"))
          BY <1>6, <2>1, <3>2, Zenon
        <4>. QED BY <2>2, <2>3, <4>1
      <3>. QED BY <3>1, <3>2
    <2>. QED BY <1>1, <2>2, <2>3, <2>4, BuffersKept
  <1>. QED BY <1>7, <1>8, <1>9, OneNic

LEMMA InitBuffers == Init => BuffersInv
  <1> SUFFICES ASSUME Init PROVE BuffersInv
    OBVIOUS
  <1>0. <<>> \in Seq(SendWr) /\ Len(<<>>) = 0
    OBVIOUS
  <1>1. /\ \A n \in Nics : /\ free[n] = Buffers /\ dma[n] = <<>>
                           /\ sq[n] = <<>> /\ refused[n] = 0 /\ dropped[n] = 0
        /\ dma = [n \in Nics |-> dma[n]] /\ dropped \in [Nics -> Nat] /\ spinning \in [Nics -> BOOLEAN]
    BY DEF Init, Each
  <1>2. HeaderTypes
    BY InitHeaders DEF HeadersInv
  <1>3. DmaShape
    <2>1. WorkShape(<<>>)
      BY <1>0 DEF WorkShape
    <2>. QED BY <1>1, <2>1 DEF DmaShape
  <1>4. ASSUME NEW n \in Nics PROVE BuffersOf(n)
    <2>1. OpPlaces(<<>>) = {} /\ \A t : TagPlaces(<<>>, t) = {}
      BY <1>0 DEF OpPlaces, TagPlaces
    <2>2. Cardinality(OpPlaces(dma[n])) = 0 /\ \A t : Cardinality(TagPlaces(sq[n], t)) = 0
      BY <1>1, <2>1, FS_EmptySet
    <2>3. Buffers \in Nat
      BY SecureAssumption
    <2>. QED BY <1>1, <2>2, <2>3, OwnersAre DEF BuffersOf
  <1>. QED BY <1>2, <1>3, <1>4, InitFree DEF BuffersInv, BufferTypes

LEMMA NextBuffers == BuffersInv /\ NonceInv /\ [Next]_vars => BuffersInv'
  <1> SUFFICES ASSUME BuffersInv, NonceInv, [Next]_vars PROVE BuffersInv'
    OBVIOUS
  <1>0. FreeTypes'
    BY NextFree DEF BuffersInv, BufferTypes
  <1>1. CASE UNCHANGED vars
    BY <1>0, <1>1, SameKeepsBuffers DEF vars, histories
  <1>2. ASSUME NEW n \in Nics, Nic(n) PROVE BuffersInv'
    <2>1. CASE HostPost(n)
      BY <1>0, <2>1, SameKeepsBuffers DEF HostPost, histories
    <2>2. CASE ProcessSendRequest(n)
      BY <2>2, SendRequestKeepsBuffers
    <2>3. CASE RejectPacket(n)
      BY <1>0, <2>3, SameKeepsBuffers DEF RejectPacket, Polled
    <2>4. CASE ReceiveRequest(n)
      BY <2>4, RequestKeepsBuffers
    <2>5. CASE ReceiveReadAnswer(n)
      BY <2>5, ReadAnswerKeepsBuffers
    <2>6. CASE ReceiveWriteAnswer(n)
      BY <2>6, WriteAnswerKeepsBuffers
    <2>7. CASE DmaExecute(n)
      BY <2>7, ExecuteKeepsBuffers
    <2>8. CASE DmaDone(n)
      BY <2>8, DmaDoneKeepsBuffers
    <2>9. CASE DmaReadDone(n)
      BY <2>9, ReadDoneKeepsBuffers
    <2>10. CASE DmaWriteDone(n)
      BY <2>10, WriteDoneKeepsBuffers
    <2>11. CASE PollClientSendCompletion(n)
      BY <2>11, ClientKeepsBuffers, CompletionIsOfSend DEF BuffersInv, BufferTypes
    <2>12. CASE DmaRecvFlushed(n)
      BY <1>0, <2>12, SameKeepsBuffers DEF DmaRecvFlushed, histories
    <2>. QED BY <1>2, <2>1, <2>2, <2>3, <2>4, <2>5, <2>6, <2>7, <2>8, <2>9, <2>10, <2>11, <2>12 DEF Nic
  <1>. QED BY <1>1, <1>2 DEF Next

(***************************************************************************)
(* The receive buffers of dmacon: posted, or in a send under way.  A       *)
(* failed link stays so and gives none back that it flushed, so that they  *)
(* can only become fewer once the link has failed.                         *)
(***************************************************************************)
PoolOf(n) == DmaOwners(n) <= DmaBuffers /\ (~dmaErr[n] => DmaOwners(n) = DmaBuffers)

PoolInv == dmaErr \in [Nics -> BOOLEAN] /\ \A n \in Nics : PoolOf(n)

LEMMA DmaOwnersAre ==
  ASSUME NEW n \in Nics
  PROVE  /\ DmaOwners(n) = dmaFree[n] + Cardinality(TagPlaces(sq[n], "dma"))
         /\ DmaOwners(n)' = dmaFree'[n] + Cardinality(TagPlaces(sq'[n], "dma"))
  BY DEF DmaOwners, TagPlaces

LEMMA PoolNumbers ==
  ASSUME HeaderTypes, FreeTypes, NEW n \in Nics
  PROVE  /\ dmaFree[n] \in Nat /\ Cardinality(TagPlaces(sq[n], "dma")) \in Nat
         /\ DmaBuffers \in Nat
  <1>1. sq[n] \in Seq(SendWr)
    BY DEF HeaderTypes
  <1>. QED BY <1>1, TagsAppended, SecureAssumption DEF FreeTypes

\* A step of one NIC leaves the other's pool alone, and its link does not recover.
LEMMA OnePool ==
  ASSUME PoolInv, NEW n \in Nics, dmaErr' \in [Nics -> BOOLEAN],
         \A m \in Nics : m # n =>
           dmaFree'[m] = dmaFree[m] /\ sq'[m] = sq[m] /\ dmaErr'[m] = dmaErr[m],
         PoolOf(n)'
  PROVE  PoolInv'
  <1>1. ASSUME NEW m \in Nics, m # n PROVE PoolOf(m)'
    <2>1. dmaFree'[m] = dmaFree[m] /\ sq'[m] = sq[m] /\ dmaErr'[m] = dmaErr[m] /\ PoolOf(m)
      BY <1>1 DEF PoolInv
    <2>. QED BY <2>1, DmaOwnersAre DEF PoolOf
  <1>. QED BY <1>1 DEF PoolInv

LEMMA SamePool ==
  ASSUME PoolInv, UNCHANGED <<dmaFree, sq, dmaErr>>
  PROVE  PoolInv'
  BY DmaOwnersAre DEF PoolInv, PoolOf

\* A post on niccon that names no buffer of dmacon.
LEMMA SendKeepsPool ==
  ASSUME PoolInv, HeaderTypes, NEW n \in Nics, NEW r, NEW eth, NEW tag \in {"none", "virt"},
         NEW size \in Sizes, Send(n, r, eth, tag, size), UNCHANGED <<dmaFree, dmaErr>>
  PROVE  PoolInv'
  <1>1. \A m \in Nics : m # n => sq'[m] = sq[m]
    BY SendEffect
  <1>2. Cardinality(TagPlaces(sq'[n], "dma")) = Cardinality(TagPlaces(sq[n], "dma"))
    <2>1. CASE HasRoom(n)
      BY <2>1, SentTags
    <2>2. CASE ~HasRoom(n)
      BY <2>2, SentTags
    <2>. QED BY <2>1, <2>2
  <1>3. PoolOf(n)'
    BY <1>2, DmaOwnersAre DEF PoolInv, PoolOf
  <1>. QED BY <1>1, <1>3, OnePool DEF PoolInv

\* The buffer of a request goes with the packet it is sent in; a read needs none.
LEMMA SendRequestKeepsPool ==
  ASSUME PoolInv, HeaderTypes, FreeTypes, NEW n \in Nics, ProcessSendRequest(n)
  PROVE  PoolInv'
  <1> DEFINE r == Head(host[n])
             tag == IF r.kind = "READ" THEN "none" ELSE "dma"
             size == IF r.kind = "READ" THEN EthHeader ELSE 0
  <1>1. Send(n, r, r.kind # "SEND", tag, size) /\ dmaFree[n] > 0 /\ dmaErr' = dmaErr
    BY DEF ProcessSendRequest
  <1>2. /\ HasRoom(n) /\ r.kind # "READ" => dmaFree' = [dmaFree EXCEPT ![n] = @ - 1]
        /\ ~HasRoom(n) \/ r.kind = "READ" => dmaFree' = dmaFree
    BY DEF ProcessSendRequest, Sub
  <1>3. /\ r.kind = "READ" => tag \in {"none", "virt"}
        /\ r.kind # "READ" => tag = "dma"
        /\ tag \in {"none", "virt", "dma"} /\ size \in Sizes
    BY DEF Sizes
  <1> HIDE DEF r, tag, size
  <1>4. CASE r.kind = "READ"
    BY <1>1, <1>2, <1>3, <1>4, SendKeepsPool
  <1>5. CASE r.kind # "READ" /\ ~HasRoom(n)
    <2>1. sq'[n] = sq[n] /\ \A m \in Nics : m # n => sq'[m] = sq[m]
      BY <1>1, <1>3, <1>5, SentTags, SendEffect
    <2>2. dmaFree' = dmaFree
      BY <1>2, <1>5
    <2>3. PoolOf(n)'
      BY <1>1, <2>1, <2>2, DmaOwnersAre DEF PoolInv, PoolOf
    <2>. QED BY <1>1, <2>1, <2>2, <2>3, OnePool DEF PoolInv
  <1>6. CASE r.kind # "READ" /\ HasRoom(n)
    <2>1. /\ Cardinality(TagPlaces(sq'[n], "dma")) = Cardinality(TagPlaces(sq[n], "dma")) + 1
          /\ \A m \in Nics : m # n => sq'[m] = sq[m]
      BY <1>1, <1>3, <1>6, SentTags, SendEffect
    <2>2. dmaFree'[n] = dmaFree[n] - 1 /\ \A m \in Nics : m # n => dmaFree'[m] = dmaFree[m]
      BY <1>2, <1>6 DEF FreeTypes
    <2>3. DmaOwners(n)' = DmaOwners(n)
      BY <2>1, <2>2, DmaOwnersAre, PoolNumbers
    <2>4. PoolOf(n)'
      BY <1>1, <2>3 DEF PoolInv, PoolOf
    <2>. QED BY <1>1, <2>1, <2>2, <2>4, OnePool DEF PoolInv
  <1>. QED BY <1>4, <1>5, <1>6

\* The buffer comes back with the completion of that packet.
LEMMA ClientKeepsPool ==
  ASSUME PoolInv, HeaderTypes, FreeTypes, NEW n \in Nics, PollClientSendCompletion(n), sq[n] # <<>>
  PROVE  PoolInv'
  <1> DEFINE t == Head(sq[n]).tag
  <1>1. /\ sq' = [sq EXCEPT ![n] = Tail(@)] /\ dmaErr' = dmaErr
        /\ dmaFree' = (IF t = "dma" THEN [dmaFree EXCEPT ![n] = @ + 1] ELSE dmaFree)
    BY DEF PollClientSendCompletion, Drop, Add
  <1>2. sq[n] \in Seq(SendWr) /\ sq'[n] = Tail(sq[n]) /\ \A m \in Nics : m # n => sq'[m] = sq[m]
    BY <1>1 DEF HeaderTypes
  <1>3. /\ t = "dma" => Cardinality(TagPlaces(sq'[n], "dma")) = Cardinality(TagPlaces(sq[n], "dma")) - 1
        /\ t # "dma" => Cardinality(TagPlaces(sq'[n], "dma")) = Cardinality(TagPlaces(sq[n], "dma"))
    BY <1>2, TagsTaken
  <1> HIDE DEF t
  <1>4. /\ \A m \in Nics : m # n => dmaFree'[m] = dmaFree[m]
        /\ t = "dma" => dmaFree'[n] = dmaFree[n] + 1
        /\ t # "dma" => dmaFree'[n] = dmaFree[n]
    BY <1>1 DEF FreeTypes
  <1>5. DmaOwners(n)' = DmaOwners(n)
    <2>1. CASE t = "dma"
      BY <1>3, <1>4, <2>1, DmaOwnersAre, PoolNumbers
    <2>2. CASE t # "dma"
      BY <1>3, <1>4, <2>2, DmaOwnersAre
    <2>. QED BY <2>1, <2>2
  <1>6. PoolOf(n)'
    BY <1>1, <1>5 DEF PoolInv, PoolOf
  <1>. QED BY <1>1, <1>2, <1>4, <1>6, OnePool DEF PoolInv

\* A flushed buffer is lost, but then the link has failed.
LEMMA FlushKeepsPool ==
  ASSUME PoolInv, HeaderTypes, FreeTypes, NEW n \in Nics, DmaRecvFlushed(n)
  PROVE  PoolInv'
  <1>1. dmaErr[n] /\ dmaErr' = dmaErr /\ sq' = sq /\ dmaFree' = [dmaFree EXCEPT ![n] = @ - 1]
    BY DEF DmaRecvFlushed, Sub
  <1>2. dmaFree'[n] = dmaFree[n] - 1 /\ \A m \in Nics : m # n => dmaFree'[m] = dmaFree[m]
    BY <1>1 DEF FreeTypes
  <1>3. PoolOf(n)'
    BY <1>1, <1>2, DmaOwnersAre, PoolNumbers DEF PoolInv, PoolOf
  <1>. QED BY <1>1, <1>2, <1>3, OnePool DEF PoolInv

\* A work that fails takes the link with it; one that succeeds finds it whole.
LEMMA ExecuteKeepsPool ==
  ASSUME PoolInv, NEW n \in Nics, DmaExecute(n)
  PROVE  PoolInv'
  <1>1. PICK ok \in BOOLEAN : (ok => ~dmaErr[n]) /\ dmaErr' = [dmaErr EXCEPT ![n] = ~ok]
    BY DEF DmaExecute
  <1>2. sq' = sq /\ dmaFree' = dmaFree
    BY DEF DmaExecute
  <1>3. /\ dmaErr' \in [Nics -> BOOLEAN] /\ \A m \in Nics : m # n => dmaErr'[m] = dmaErr[m]
        /\ ~dmaErr'[n] => ~dmaErr[n]
    BY <1>1 DEF PoolInv
  <1>4. PoolOf(n)'
    BY <1>2, <1>3, DmaOwnersAre DEF PoolInv, PoolOf
  <1>. QED BY <1>2, <1>3, <1>4, OnePool DEF PoolInv

LEMMA InitPool == Init => PoolInv
  <1> SUFFICES ASSUME Init PROVE PoolInv
    OBVIOUS
  <1>1. /\ dmaErr \in [Nics -> BOOLEAN]
        /\ \A n \in Nics : dmaFree[n] = DmaBuffers /\ sq[n] = <<>>
    BY DEF Init, Each
  <1>2. TagPlaces(<<>>, "dma") = {}
    BY DEF TagPlaces
  <1>3. DmaBuffers \in Nat
    BY SecureAssumption
  <1>4. ASSUME NEW n \in Nics PROVE DmaOwners(n) = DmaBuffers
    <2>1. Cardinality(TagPlaces(sq[n], "dma")) = 0
      BY <1>1, <1>2, FS_EmptySet
    <2>. QED BY <1>1, <1>3, <2>1, DmaOwnersAre
  <1>. QED BY <1>1, <1>3, <1>4 DEF PoolInv, PoolOf

LEMMA NextPool == PoolInv /\ HeaderTypes /\ FreeTypes /\ NonceInv /\ [Next]_vars => PoolInv'
  <1> SUFFICES ASSUME PoolInv, HeaderTypes, FreeTypes, NonceInv, [Next]_vars PROVE PoolInv'
    OBVIOUS
  <1>1. CASE UNCHANGED vars
    BY <1>1, SamePool DEF vars
  <1>2. ASSUME NEW n \in Nics, Nic(n) PROVE PoolInv'
    <2>1. CASE HostPost(n)
      BY <2>1, SamePool DEF HostPost
    <2>2. CASE ProcessSendRequest(n)
      BY <2>2, SendRequestKeepsPool
    <2>3. CASE RejectPacket(n)
      BY <2>3, SamePool DEF RejectPacket, Polled
    <2>4. CASE ReceiveRequest(n)
      BY <2>4, SamePool DEF ReceiveRequest, Polled
    <2>5. CASE ReceiveReadAnswer(n)
      BY <2>5, SamePool DEF ReceiveReadAnswer, Polled
    <2>6. CASE ReceiveWriteAnswer(n)
      BY <2>6, SamePool DEF ReceiveWriteAnswer, Polled
    <2>7. CASE DmaExecute(n)
      BY <2>7, ExecuteKeepsPool
    <2>8. CASE DmaDone(n)
      BY <2>8, SamePool DEF DmaDone, Completed, NothingSent
    <2>9. CASE DmaReadDone(n)
      <3>1. PICK w \in Works(n) : Completed(n, w) /\ Send(n, w.req, FALSE, "virt", 0)
        BY <2>9 DEF DmaReadDone
      <3>2. UNCHANGED <<dmaFree, dmaErr>> /\ 0 \in Sizes
        BY <3>1 DEF Completed, Sizes
      <3>. QED BY <3>1, <3>2, SendKeepsPool
    <2>10. CASE DmaWriteDone(n)
      <3>1. PICK w \in Works(n) :
              Completed(n, w) /\ (Send(n, w.req, FALSE, "none", Header) \/ NothingSent)
        BY <2>10 DEF DmaWriteDone
      <3>2. UNCHANGED <<dmaFree, dmaErr>> /\ Header \in Sizes
        BY <3>1 DEF Completed, Sizes
      <3>3. CASE NothingSent
        BY <3>2, <3>3, SamePool DEF NothingSent
      <3>4. CASE Send(n, w.req, FALSE, "none", Header)
        BY <3>2, <3>4, SendKeepsPool
      <3>. QED BY <3>1, <3>3, <3>4
    <2>11. CASE PollClientSendCompletion(n)
      BY <2>11, ClientKeepsPool, CompletionIsOfSend
    <2>12. CASE DmaRecvFlushed(n)
      BY <2>12, FlushKeepsPool
    <2>. QED BY <1>2, <2>1, <2>2, <2>3, <2>4, <2>5, <2>6, <2>7, <2>8, <2>9, <2>10, <2>11, <2>12 DEF Nic
  <1>. QED BY <1>1, <1>2 DEF Next

LEMMA BothPoolsAre == BuffersInv /\ PoolInv => BuffersConserved
  BY DEF BuffersInv, BuffersConserved, BuffersOf, PoolInv, PoolOf

(***************************************************************************)
(* Every receive buffer of niccon has one owner at most, and is lost only  *)
(* with a post that failed; every one of dmacon is posted or in a send     *)
(* under way until that link fails, and is never in both.  This holds      *)
(* while the worker is in no loop, for every number of buffers and every   *)
(* length of the queues.                                                   *)
(***************************************************************************)
THEOREM BuffersAreConserved == Spec => []BuffersConserved
<1>1. BuffersInv => HeaderTypes /\ FreeTypes
  BY DEF BuffersInv, BufferTypes
<1>. QED
  BY <1>1, BothPoolsAre, InitBuffers, NextBuffers, InitPool, NextPool, InitNonces, NextNonces, PTL
  DEF Spec
=============================================================================
