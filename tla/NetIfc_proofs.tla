---------------------------- MODULE NetIfc_proofs ----------------------------
(***************************************************************************)
(* No transmit buffer is ever lost or shared, for any number of buffers    *)
(* and any traffic, and answers go to the host that asked.                 *)
(***************************************************************************)
EXTENDS NetIfc, TLAPS

-----------------------------------------------------------------------------
(* Lists.                                                                  *)

(* A list behind another one.                                              *)
LEMMA Joined ==
  ASSUME NEW S, NEW s \in Seq(S), NEW t \in Seq(S)
  PROVE  /\ s \o t \in Seq(S) /\ Len(s \o t) = Len(s) + Len(t)
         /\ \A i \in 1 .. Len(s) + Len(t) :
              (s \o t)[i] = IF i <= Len(s) THEN s[i] ELSE t[i - Len(s)]
OBVIOUS

(* A list with one more element at its end.                                *)
LEMMA Appended ==
  ASSUME NEW S, NEW s \in Seq(S), NEW e \in S
  PROVE  /\ Append(s, e) \in Seq(S) /\ Append(s, e) # <<>>
         /\ Len(Append(s, e)) = Len(s) + 1
         /\ \A i \in 1 .. Len(s) : Append(s, e)[i] = s[i]
         /\ Append(s, e)[Len(s) + 1] = e
OBVIOUS

(* Lists with the same elements are equal.                                 *)
LEMMA SameList ==
  ASSUME NEW S, NEW s \in Seq(S), NEW t \in Seq(S), Len(s) = Len(t),
         \A i \in 1 .. Len(s) : s[i] = t[i]
  PROVE  s = t
OBVIOUS

(* The empty list.                                                         *)
LEMMA NoElements == ASSUME NEW S PROVE <<>> \in Seq(S) /\ Len(<<>>) = 0
OBVIOUS

(* Taking the first element off a list.                                    *)
LEMMA TailElems ==
  ASSUME NEW S, NEW s \in Seq(S), s # <<>>
  PROVE  /\ Head(s) \in S /\ Tail(s) \in Seq(S)
         /\ Elems(s) = Elems(Tail(s)) \cup {Head(s)}
         /\ Distinct(s) => Distinct(Tail(s)) /\ Head(s) \notin Elems(Tail(s))
<1> DEFINE t == Tail(s)
<1>1. /\ Head(s) \in S /\ t \in Seq(S) /\ Len(t) = Len(s) - 1
      /\ Len(s) \in Nat /\ Len(s) > 0 /\ Head(s) = s[1]
      /\ DOMAIN s = 1 .. Len(s) /\ DOMAIN t = 1 .. Len(s) - 1
  OBVIOUS
<1>2. \A i \in DOMAIN t : i + 1 \in DOMAIN s /\ t[i] = s[i + 1] /\ i + 1 # 1
  BY <1>1
<1>3. \A i \in DOMAIN s : i = 1 \/ (i - 1 \in DOMAIN t /\ t[i - 1] = s[i])
  BY <1>1
<1>4. 1 \in DOMAIN s
  BY <1>1
<1> HIDE DEF t
<1>5. Elems(s) = Elems(t) \cup {Head(s)}
  <2>1. ASSUME NEW x \in Elems(s) PROVE x \in Elems(t) \cup {Head(s)}
    BY <1>1, <1>3 DEF Elems
  <2>2. ASSUME NEW x \in Elems(t) \cup {Head(s)} PROVE x \in Elems(s)
    BY <1>1, <1>2, <1>4 DEF Elems
  <2> QED
    BY <2>1, <2>2
<1>6. ASSUME Distinct(s) PROVE Distinct(t) /\ Head(s) \notin Elems(t)
  <2>1. ASSUME NEW i \in DOMAIN t, NEW j \in DOMAIN t, t[i] = t[j] PROVE i = j
    <3>1. i + 1 = j + 1
      BY <1>2, <1>6, <2>1 DEF Distinct
    <3> QED
      BY <1>1, <3>1
  <2>2. ASSUME NEW i \in DOMAIN t PROVE t[i] # Head(s)
    BY <1>1, <1>2, <1>4, <1>6 DEF Distinct
  <2> QED
    BY <2>1, <2>2 DEF Distinct, Elems
<1> QED
  BY <1>1, <1>5, <1>6 DEF t

(* Putting an element in front of a list, as eth_put_buffer does.          *)
LEMMA PutElems ==
  ASSUME NEW S, NEW s \in Seq(S), NEW e \in S
  PROVE  /\ Put(s, e) \in Seq(S) /\ Put(s, e) # <<>>
         /\ Head(Put(s, e)) = e /\ Tail(Put(s, e)) = s
         /\ Elems(Put(s, e)) = Elems(s) \cup {e}
         /\ Distinct(s) /\ e \notin Elems(s) => Distinct(Put(s, e))
<1> DEFINE t == Put(s, e)
           f == <<e>>
<1>1. /\ f \in Seq(S) /\ Len(f) = 1 /\ f[1] = e /\ Len(s) \in Nat
      /\ DOMAIN s = 1 .. Len(s)
  OBVIOUS
<1>2. /\ t \in Seq(S) /\ Len(t) = 1 + Len(s)
      /\ \A i \in 1 .. 1 + Len(s) : t[i] = IF i <= 1 THEN f[i] ELSE s[i - 1]
  <2>1. t = f \o s
    BY DEF Put
  <2> HIDE DEF t, f
  <2>2. /\ f \o s \in Seq(S) /\ Len(f \o s) = Len(f) + Len(s)
        /\ \A i \in 1 .. Len(f) + Len(s) :
             (f \o s)[i] = IF i <= Len(f) THEN f[i] ELSE s[i - Len(f)]
    BY <1>1, Joined, Zenon
  <2> QED
    BY <1>1, <2>1, <2>2
<1> HIDE DEF t, f
<1>3. /\ DOMAIN t = 1 .. 1 + Len(s) /\ t[1] = e
      /\ \A i \in DOMAIN s : i + 1 \in DOMAIN t /\ t[i + 1] = s[i]
      /\ \A i \in DOMAIN t : i = 1 \/ (i - 1 \in DOMAIN s /\ t[i] = s[i - 1])
  <2>1. DOMAIN t = 1 .. 1 + Len(s)
    BY <1>2
  <2>2. t[1] = e
    BY <1>1, <1>2
  <2>3. ASSUME NEW i \in DOMAIN s PROVE i + 1 \in DOMAIN t /\ t[i + 1] = s[i]
    BY <1>1, <1>2, <2>1
  <2>4. ASSUME NEW i \in DOMAIN t
        PROVE  i = 1 \/ (i - 1 \in DOMAIN s /\ t[i] = s[i - 1])
    BY <1>1, <1>2, <2>1
  <2> QED
    BY <2>1, <2>2, <2>3, <2>4
<1>4. t # <<>> /\ Head(t) = e
  BY <1>1, <1>2, <1>3
<1>5. Tail(t) = s
  <2>1. /\ Tail(t) \in Seq(S) /\ Len(Tail(t)) = Len(s)
        /\ \A i \in 1 .. Len(s) : Tail(t)[i] = t[i + 1]
    BY <1>1, <1>2, <1>4
  <2>2. \A i \in 1 .. Len(s) : Tail(t)[i] = s[i]
    BY <1>1, <1>3, <2>1, Zenon
  <2> QED
    BY <2>1, <2>2, SameList
<1>6. Elems(t) = Elems(s) \cup {e}
  BY <1>1, <1>3 DEF Elems
<1>7. ASSUME Distinct(s), e \notin Elems(s),
             NEW i \in DOMAIN t, NEW j \in DOMAIN t, t[i] = t[j]
      PROVE  i = j
  <2>1. i = 1 <=> j = 1
    BY <1>3, <1>7 DEF Elems
  <2>2. CASE i # 1
    <3>1. i - 1 = j - 1
      BY <1>3, <1>7, <2>1, <2>2 DEF Distinct
    <3> QED
      BY <1>1, <1>3, <3>1
  <2> QED
    BY <2>1, <2>2
<1> QED
  BY <1>2, <1>4, <1>5, <1>6, <1>7 DEF t, Distinct

(* Putting back what was taken restores the list.                          *)
LEMMA PutBack ==
  ASSUME NEW S, NEW s \in Seq(S), s # <<>>
  PROVE  Put(Tail(s), Head(s)) = s
<1> DEFINE t == Tail(s)
           h == Head(s)
           p == Put(t, h)
<1>1. /\ h \in S /\ t \in Seq(S) /\ Len(t) = Len(s) - 1
      /\ Len(s) \in Nat /\ Len(s) > 0 /\ s[1] = h
      /\ \A i \in 1 .. Len(s) - 1 : t[i] = s[i + 1]
  OBVIOUS
<1>2. \A i \in 2 .. Len(s) : s[i] = t[i - 1]
  BY <1>1
<1> HIDE DEF t, h
<1>3. p \in Seq(S) /\ p # <<>> /\ Head(p) = h /\ Tail(p) = t
  BY <1>1, PutElems
<1> HIDE DEF p
<1> DEFINE r == Tail(p)
<1>4. /\ Len(p) \in Nat /\ Len(r) = Len(p) - 1 /\ p[1] = h
      /\ \A i \in 1 .. Len(p) - 1 : r[i] = p[i + 1]
  BY <1>3
<1>5. \A i \in 2 .. Len(p) : p[i] = r[i - 1]
  BY <1>4
<1>6. r = t
  BY <1>3
<1> HIDE DEF r
<1>7. Len(p) = Len(s)
  BY <1>1, <1>4, <1>6
<1>8. \A i \in 1 .. Len(s) : p[i] = s[i]
  BY <1>1, <1>2, <1>4, <1>5, <1>6, <1>7
<1>9. p = s
  BY <1>3, <1>7, <1>8, SameList
<1> QED
  BY <1>9 DEF p, t, h

(* Adding an element at the end of a list, as the driver's queues do.      *)
LEMMA AppendElems ==
  ASSUME NEW S, NEW s \in Seq(S), NEW e \in S
  PROVE  /\ Append(s, e) \in Seq(S)
         /\ Elems(Append(s, e)) = Elems(s) \cup {e}
         /\ Distinct(s) /\ e \notin Elems(s) => Distinct(Append(s, e))
<1> DEFINE t == Append(s, e)
<1>1. /\ t \in Seq(S) /\ Len(s) \in Nat /\ DOMAIN s = 1 .. Len(s)
      /\ DOMAIN t = 1 .. Len(s) + 1 /\ t[Len(s) + 1] = e
      /\ \A i \in 1 .. Len(s) : t[i] = s[i]
  BY Appended
<1> HIDE DEF t
<1>2. /\ \A i \in DOMAIN s : i \in DOMAIN t /\ t[i] = s[i]
      /\ \A i \in DOMAIN t : i = Len(s) + 1 \/ i \in DOMAIN s
      /\ Len(s) + 1 \in DOMAIN t
  BY <1>1
<1>3. Elems(t) = Elems(s) \cup {e}
  BY <1>1, <1>2 DEF Elems
<1>4. Distinct(s) /\ e \notin Elems(s) => Distinct(t)
  BY <1>1, <1>2 DEF Distinct, Elems
<1> QED
  BY <1>1, <1>3, <1>4 DEF t

(* The buffers of the driver's queue change as the queue does.             *)
LEMMA BufsOf ==
  ASSUME NEW q \in Seq(Sent)
  PROVE  /\ Bufs(q) \in Seq(Buf)
         /\ q = <<>> => Bufs(q) = <<>>
         /\ q # <<>> => /\ Bufs(q) # <<>> /\ Head(Bufs(q)) = Head(q).buf
                        /\ Bufs(Tail(q)) = Tail(Bufs(q))
         /\ \A f \in Sent : Bufs(Append(q, f)) = Append(Bufs(q), f.buf)
<1> DEFINE b == Bufs(q)
<1>1. /\ Len(q) \in Nat /\ DOMAIN q = 1 .. Len(q)
      /\ \A i \in 1 .. Len(q) : q[i] \in Sent /\ q[i].buf \in Buf
  <2>1. /\ Len(q) \in Nat /\ DOMAIN q = 1 .. Len(q)
        /\ \A i \in 1 .. Len(q) : q[i] \in Sent
    OBVIOUS
  <2>2. \A f \in Sent : f.buf \in Buf
    BY DEF Sent
  <2> QED
    BY <2>1, <2>2
<1>2. b \in Seq(Buf) /\ Len(b) = Len(q) /\ \A i \in 1 .. Len(q) : b[i] = q[i].buf
  BY <1>1 DEF Bufs
<1>3. q = <<>> => b = <<>>
  BY <1>2
<1> HIDE DEF b
<1>4. ASSUME q # <<>>
      PROVE  /\ b # <<>> /\ Head(b) = Head(q).buf
             /\ Bufs(Tail(q)) = Tail(b)
  <2>1. /\ b # <<>> /\ Head(b) = b[1] /\ Head(q) = q[1] /\ Len(q) > 0
    BY <1>1, <1>2, <1>4
  <2>2. /\ Tail(q) \in Seq(Sent) /\ DOMAIN Tail(q) = 1 .. Len(q) - 1
        /\ \A i \in 1 .. Len(q) - 1 : Tail(q)[i] = q[i + 1]
    BY <1>4
  <2>3. /\ Tail(b) \in Seq(Buf) /\ DOMAIN Tail(b) = 1 .. Len(q) - 1
        /\ \A i \in 1 .. Len(q) - 1 : Tail(b)[i] = b[i + 1]
    BY <1>2, <2>1
  <2>4. \A i \in 1 .. Len(q) - 1 : Tail(q)[i].buf = Tail(b)[i]
    BY <1>1, <1>2, <2>2, <2>3
  <2>5. Head(b) = Head(q).buf
    BY <1>1, <1>2, <2>1
  <2> DEFINE tb == Tail(b)
             tq == Tail(q)
  <2>6. Bufs(tq) = tb
    <3> HIDE DEF tb, tq
    <3>1. tb = [i \in 1 .. Len(q) - 1 |-> tb[i]]
      <4>1. tb \in Seq(Buf) /\ DOMAIN tb = 1 .. Len(q) - 1
        BY <2>3 DEF tb
      <4>2. tb = [i \in DOMAIN tb |-> tb[i]]
        BY <4>1
      <4> QED
        BY <4>1, <4>2
    <3>2. Bufs(tq) = [i \in 1 .. Len(q) - 1 |-> tb[i]]
      BY <2>2, <2>4, Zenon DEF Bufs, tb, tq
    <3> QED
      BY <3>1, <3>2
  <2> QED
    BY <2>1, <2>5, <2>6
<1>5. ASSUME NEW f \in Sent PROVE Bufs(Append(q, f)) = Append(b, f.buf)
  <2> DEFINE c == Append(b, f.buf)
             r == Append(q, f)
  <2>1. /\ DOMAIN r = 1 .. Len(q) + 1 /\ r[Len(q) + 1] = f
        /\ \A i \in 1 .. Len(q) : r[i] = q[i]
    BY <1>1, Appended
  <2>2. f.buf \in Buf
    BY DEF Sent
  <2>3. /\ c \in Seq(Buf) /\ Len(c) = Len(q) + 1 /\ c[Len(q) + 1] = f.buf
        /\ \A i \in 1 .. Len(q) : c[i] = b[i]
    BY <1>2, <2>2, Appended
  <2> HIDE DEF c, r
  <2>4. c = [i \in 1 .. Len(q) + 1 |-> c[i]]
    BY <2>3
  <2>5. \A i \in 1 .. Len(q) + 1 : r[i].buf = c[i]
    BY <1>1, <1>2, <2>1, <2>3
  <2>6. Bufs(r) = [i \in 1 .. Len(q) + 1 |-> c[i]]
    BY <2>1, <2>5 DEF Bufs
  <2> QED
    BY <2>4, <2>6 DEF c, r
<1> QED
  BY <1>2, <1>3, <1>4, <1>5 DEF b

(* netifc_open's loop puts every buffer on the list once.                  *)
LEMMA AllBuffersOnce ==
  /\ AllBuffers \in Seq(Buf) /\ Distinct(AllBuffers) /\ Elems(AllBuffers) = Buf
<1>1. NumBuffers \in Nat
  BY NetIfcAssumption
<1>2. AllBuffers \in Seq(Buf)
  BY <1>1 DEF AllBuffers, Buf
<1>3. Distinct(AllBuffers)
  BY <1>1 DEF AllBuffers, Buf, Distinct
<1>4. \A b \in Buf : NumBuffers + 1 - b \in Buf /\ AllBuffers[NumBuffers + 1 - b] = b
  BY <1>1 DEF AllBuffers, Buf
<1>5. \A b \in Buf : AllBuffers[b] \in Buf
  BY <1>1 DEF AllBuffers, Buf
<1>6. DOMAIN AllBuffers = Buf
  BY DEF AllBuffers
<1> QED
  BY <1>2, <1>3, <1>4, <1>5, <1>6, Zenon DEF Elems

-----------------------------------------------------------------------------
(* What a step may do to the pool: nothing, a send, the end of a send, or  *)
(* the report of it.                                                       *)
Untouched == UNCHANGED <<eth_buffers, tx, txdone>>

Sends ==
  /\ eth_buffers # <<>> /\ eth_buffers' = Tail(eth_buffers)
  /\ \E f \in Sent : f.buf = Head(eth_buffers) /\ f.mac = f.re /\ tx' = Append(tx, f)
  /\ txdone' = txdone

Completes ==
  /\ tx # <<>> /\ tx' = Tail(tx) /\ txdone' = Append(txdone, Head(tx).buf)
  /\ eth_buffers' = eth_buffers

Reclaims ==
  /\ txdone # <<>> /\ txdone' = Tail(txdone)
  /\ eth_buffers' = Put(eth_buffers, Head(txdone))
  /\ tx' = tx

Moves == Untouched \/ Sends \/ Completes \/ Reclaims

(* Until the buffers are allocated, nothing is on a list.                  *)
Empty == eth_buffers = <<>> /\ tx = <<>> /\ txdone = <<>>

(* The buffers of the pool are in one place each.                          *)
Apart ==
  /\ Distinct(eth_buffers) /\ Distinct(Bufs(tx)) /\ Distinct(txdone)
  /\ Elems(eth_buffers) \cap Elems(Bufs(tx)) = {}
  /\ Elems(eth_buffers) \cap Elems(txdone) = {}
  /\ Elems(Bufs(tx)) \cap Elems(txdone) = {}

Everywhere == Elems(eth_buffers) \cup Elems(Bufs(tx)) \cup Elems(txdone)

(* The inductive invariant.                                                *)
NetIfcInv ==
  /\ TypeOK
  /\ Apart
  /\ pc \in {"open", "snp"} => Empty
  /\ pc \notin {"open", "snp", "failed"} => Everywhere = Buf
  /\ AnswersGoBack

(* Moving a buffer keeps the lists apart and complete, and moves at most   *)
(* one buffer between the free list and the driver.                        *)
LEMMA MovesKeep ==
  ASSUME TypeOK, Apart, AnswersGoBack, Moves
  PROVE  /\ Apart' /\ AnswersGoBack' /\ Everywhere' = Everywhere
         /\ eth_buffers' \in Seq(Buf) /\ tx' \in Seq(Sent) /\ txdone' \in Seq(Buf)
         /\ [Pool!Take \/ Pool!Release]_<<Elems(eth_buffers),
                                          Elems(Bufs(tx)) \cup Elems(txdone)>>
<1> DEFINE F == Elems(eth_buffers)
           B == Elems(Bufs(tx))
           D == Elems(txdone)
<1>1. /\ eth_buffers \in Seq(Buf) /\ tx \in Seq(Sent) /\ txdone \in Seq(Buf)
      /\ Bufs(tx) \in Seq(Buf)
  BY BufsOf DEF TypeOK
<1>2. CASE Untouched
  <2>1. UNCHANGED <<eth_buffers, tx, txdone, F, B, D>>
    BY <1>2 DEF Untouched
  <2> QED
    BY <1>1, <2>1 DEF Apart, Everywhere, AnswersGoBack
<1>3. CASE Sends
  <2>1. PICK f \in Sent : f.buf = Head(eth_buffers) /\ f.mac = f.re /\ tx' = Append(tx, f)
    BY <1>3 DEF Sends
  <2>2. PICK h \in Buf : h = Head(eth_buffers)
    BY <1>1, <1>3 DEF Sends
  <2>3. /\ eth_buffers' \in Seq(Buf) /\ F = F' \cup {h}
        /\ Distinct(eth_buffers') /\ h \notin F'
    BY <1>1, <1>3, <2>2, TailElems DEF Sends, Apart
  <2>4. Bufs(tx)' = Append(Bufs(tx), h) /\ tx' \in Seq(Sent)
    BY <1>1, <2>1, <2>2, BufsOf
  <2>5. h \notin B /\ h \in F
    BY <2>3 DEF Apart
  <2>6. B' = B \cup {h} /\ Distinct(Bufs(tx)')
    BY <1>1, <2>4, <2>5, AppendElems DEF Apart
  <2>7. txdone' = txdone /\ D' = D
    BY <1>3 DEF Sends
  <2>8. AnswersGoBack'
    <3>1. /\ DOMAIN tx' = 1 .. Len(tx) + 1 /\ tx'[Len(tx) + 1] = f
          /\ \A i \in 1 .. Len(tx) : tx'[i] = tx[i]
          /\ DOMAIN tx = 1 .. Len(tx) /\ Len(tx) \in Nat
      BY <1>1, <2>1, Appended
    <3>2. \A i \in DOMAIN tx' : i \in DOMAIN tx \/ i = Len(tx) + 1
      BY <3>1
    <3> QED
      BY <2>1, <3>1, <3>2 DEF AnswersGoBack
  <2>9. Apart'
    BY <2>3, <2>5, <2>6, <2>7 DEF Apart
  <2>10. Everywhere' = Everywhere
    BY <2>3, <2>6, <2>7 DEF Everywhere
  <2>11. Pool!Take
    <3>1. F' = F \ {h} /\ B' \cup D' = (B \cup D) \cup {h}
      BY <2>3, <2>6, <2>7
    <3> QED
      BY <2>5, <3>1 DEF Pool!Take
  <2> QED
    BY <1>1, <2>3, <2>4, <2>7, <2>8, <2>9, <2>10, <2>11
<1>4. CASE Completes
  <2>1. /\ tx # <<>> /\ tx' = Tail(tx) /\ tx' \in Seq(Sent)
        /\ eth_buffers' = eth_buffers /\ F' = F
    BY <1>1, <1>4 DEF Completes
  <2>2. /\ Bufs(tx) # <<>> /\ Bufs(tx)' = Tail(Bufs(tx))
        /\ Head(Bufs(tx)) = Head(tx).buf
    BY <1>1, <2>1, BufsOf
  <2>3. PICK h \in Buf : h = Head(Bufs(tx))
    BY <1>1, <2>2
  <2>4. B = B' \cup {h} /\ Distinct(Bufs(tx)') /\ h \notin B'
    BY <1>1, <2>2, <2>3, TailElems DEF Apart
  <2>5. txdone' = Append(txdone, h)
    BY <1>4, <2>2, <2>3 DEF Completes
  <2>6. h \notin D /\ h \notin F
    BY <2>4 DEF Apart
  <2>7. txdone' \in Seq(Buf) /\ D' = D \cup {h} /\ Distinct(txdone')
    BY <1>1, <2>5, <2>6, AppendElems DEF Apart
  <2>8. AnswersGoBack'
    <3>1. \A i \in DOMAIN Tail(tx) : i + 1 \in DOMAIN tx /\ Tail(tx)[i] = tx[i + 1]
      BY <1>1, <2>1
    <3> QED
      BY <2>1, <3>1 DEF AnswersGoBack
  <2>9. Apart'
    BY <2>1, <2>4, <2>6, <2>7 DEF Apart
  <2>10. F' = F /\ B' \cup D' = B \cup D
    BY <2>1, <2>4, <2>7
  <2>11. Everywhere' = Everywhere
    BY <2>1, <2>4, <2>7 DEF Everywhere
  <2> QED
    BY <1>1, <2>1, <2>7, <2>8, <2>9, <2>10, <2>11
<1>5. CASE Reclaims
  <2>1. txdone # <<>> /\ txdone' = Tail(txdone) /\ tx' = tx /\ B' = B
    BY <1>5 DEF Reclaims
  <2>2. PICK h \in Buf : h = Head(txdone)
    BY <1>1, <2>1
  <2>3. txdone' \in Seq(Buf) /\ D = D' \cup {h} /\ Distinct(txdone') /\ h \notin D'
    BY <1>1, <2>1, <2>2, TailElems DEF Apart
  <2>4. h \notin F /\ h \notin B /\ h \in D
    BY <2>3 DEF Apart
  <2>5. eth_buffers' = Put(eth_buffers, h)
    BY <1>5, <2>2 DEF Reclaims
  <2>6. eth_buffers' \in Seq(Buf) /\ F' = F \cup {h} /\ Distinct(eth_buffers')
    BY <1>1, <2>4, <2>5, PutElems, ZenonT(60) DEF Apart
  <2>7. Apart'
    BY <2>1, <2>3, <2>4, <2>6 DEF Apart
  <2>8. Everywhere' = Everywhere
    BY <2>1, <2>3, <2>6 DEF Everywhere
  <2>9. Pool!Release
    <3>1. F' = F \cup {h} /\ B' \cup D' = (B \cup D) \ {h}
      BY <2>1, <2>3, <2>4, <2>6
    <3> QED
      BY <2>4, <3>1 DEF Pool!Release
  <2> QED
    BY <1>1, <2>1, <2>3, <2>6, <2>7, <2>8, <2>9 DEF AnswersGoBack
<1> QED
  BY <1>2, <1>3, <1>4, <1>5 DEF Moves

-----------------------------------------------------------------------------
(* Sending takes the first free buffer and hands it to the driver with the *)
(* MAC of the frame it answers, or leaves the list as it is.               *)
LEMMA SendMoves ==
  ASSUME TypeOK, NEW ip, NEW re, Send(ip, re), UNCHANGED txdone,
         \/ ip = ip6_ll_all_nodes /\ re = all_mac_addr
         \/ ip \in IpAddr /\ re \in MacAddr /\ rx_mac_addr' = re
  PROVE  Moves
<1> USE DEF snm_mac_addr, all_mac_addr, snm_ip6_addr, ip6_ll_all_nodes
<1> DEFINE macs == resolve_ip6(ip, rx_mac_addr', rx_ip6_addr')
<1>1. eth_buffers \in Seq(Buf) /\ tx \in Seq(Sent)
  BY DEF TypeOK
<1>2. macs \subseteq {re}
  <2>1. CASE ip = ip6_ll_all_nodes /\ re = all_mac_addr
    BY <2>1 DEF resolve_ip6, Multicast, multicast_from_ip6
  <2>2. CASE ip \in IpAddr /\ re \in MacAddr /\ rx_mac_addr' = re
    <3>1. ip \notin Multicast
      BY <2>2, NetIfcAssumption
    <3> QED
      BY <2>2, <3>1 DEF resolve_ip6
  <2> QED
    BY <2>1, <2>2
<1> HIDE DEF macs
<1>3. CASE SendFails(macs)
  <2>1. CASE eth_buffers = <<>>
    BY <1>3, <2>1 DEF SendFails, Moves, Untouched
  <2>2. CASE eth_buffers # <<>>
    <3>1. eth_buffers' = Put(Tail(eth_buffers), Head(eth_buffers)) /\ tx' = tx
      BY <1>3, <2>2 DEF SendFails
    <3>2. Put(Tail(eth_buffers), Head(eth_buffers)) = eth_buffers
      BY <1>1, <2>2, PutBack
    <3> QED
      BY <3>1, <3>2 DEF Moves, Untouched
  <2> QED
    BY <2>1, <2>2
<1>4. CASE Transmit(ip, macs, re)
  <2>1. /\ eth_buffers # <<>> /\ eth_buffers' = Tail(eth_buffers)
        /\ re \in macs
        /\ tx' = Append(tx, [buf |-> Head(eth_buffers), mac |-> re,
                             dst |-> ip, re |-> re])
    BY <1>2, <1>4 DEF Transmit
  <2> DEFINE f == [buf |-> Head(eth_buffers), mac |-> re, dst |-> ip, re |-> re]
  <2>2. Head(eth_buffers) \in Buf
    BY <1>1, <2>1
  <2>3. f \in Sent
    BY <2>2 DEF Sent, Multicast
  <2> QED
    BY <2>1, <2>3 DEF Moves, Sends
<1> QED
  BY <1>3, <1>4 DEF Send, macs

(* A frame makes eth_recv send one answer, to its sender, or none.         *)
LEMMA RecvMoves ==
  ASSUME TypeOK, NEW f \in Frame, eth_recv(f), UNCHANGED txdone
  PROVE  /\ Moves
         /\ rx_mac_addr' \in MacAddr \cup {NoAddr} /\ rx_ip6_addr' \in IpAddr \cup {NoAddr}
<1>1. f.mac \in MacAddr /\ f.src \in IpAddr
  BY DEF Frame
<1>2. CASE ~ForMe(f) /\ Silent /\ UNCHANGED senderVars
  BY <1>2 DEF Silent, senderVars, Moves, Untouched, TypeOK
<1>3. CASE ForMe(f) /\ rx_mac_addr' = f.mac /\ rx_ip6_addr' = f.src /\ Answer(f)
  <2>1. CASE Silent
    BY <1>1, <1>3, <2>1 DEF Silent, Moves, Untouched
  <2>2. CASE Send(f.src, f.mac)
    BY <1>1, <1>3, <2>2, SendMoves
  <2> QED
    BY <1>3, <2>1, <2>2 DEF Answer
<1> QED
  BY <1>2, <1>3 DEF eth_recv


(* Every step but the allocation of the buffers is a move of one buffer at *)
(* most; nothing is sent before they are allocated.                        *)
LEMMA StepMoves ==
  ASSUME TypeOK, Next, ~OpenBuffers
  PROVE  /\ Moves
         /\ pc \in {"open", "snp"} => Untouched \/ Completes \/ Reclaims
         /\ pc' \in {"open", "snp"} => pc \in {"open", "snp"}
         /\ pc' \notin {"open", "snp", "failed"} => pc \notin {"open", "snp", "failed"}
<1>1. CASE OpenProtocol
  BY <1>1 DEF OpenProtocol, OpenFails, Moves, Untouched
<1>2. CASE OpenFilters
  BY <1>2 DEF OpenFilters, Moves, Untouched
<1>3. CASE PollStatus
  BY <1>3 DEF PollStatus, Moves, Untouched, Reclaims
<1>4. CASE PollReceive
  <2>1. pc = "receive" /\ pc' = "up" /\ txdone' = txdone
    BY <1>4 DEF PollReceive
  <2>2. CASE rx # <<>> /\ eth_recv(Head(rx))
    <3>1. Head(rx) \in Frame
      BY <2>2 DEF TypeOK
    <3> QED
      BY <2>1, <2>2, <3>1, RecvMoves
  <2>3. CASE Silent
    BY <2>1, <2>3 DEF Silent, Moves, Untouched
  <2> QED
    BY <1>4, <2>2, <2>3 DEF PollReceive
<1>5. CASE Advertise
  BY <1>5, SendMoves DEF Advertise
<1>6. CASE netifc_close
  BY <1>6 DEF netifc_close, Moves, Untouched
<1>7. CASE TxComplete
  BY <1>7 DEF TxComplete, Moves, Completes
<1>8. CASE RxArrives
  BY <1>8 DEF RxArrives, Moves, Untouched
<1> QED
  BY <1>1, <1>2, <1>3, <1>4, <1>5, <1>6, <1>7, <1>8
  DEF Next, netifc_open, netifc_poll

(* The variables that are not lists of buffers keep their types.           *)
LEMMA OtherTypes ==
  ASSUME TypeOK, Next
  PROVE  /\ pc' \in {"open", "snp", "pool", "up", "receive", "failed", "closed"}
         /\ snp' \in {"Stopped", "Started", "Initialized"}
         /\ mcast_filters' \in Seq({snm_mac_addr, all_mac_addr})
         /\ filters' \subseteq {snm_mac_addr, all_mac_addr}
         /\ rx' \in Seq(Frame) /\ arrived' \in 0 .. MaxFrames
         /\ rx_mac_addr' \in MacAddr \cup {NoAddr} /\ rx_ip6_addr' \in IpAddr \cup {NoAddr}
<1> USE DEF TypeOK
<1>1. CASE OpenProtocol
  BY <1>1 DEF OpenProtocol, OpenFails, rxVars, senderVars
<1>2. CASE OpenBuffers
  BY <1>2 DEF OpenBuffers, OpenFails, openVars, rxVars, senderVars
<1>3. CASE OpenFilters
  <2> DEFINE S == {snm_mac_addr, all_mac_addr}
  <2>1. \A l \in Seq(S), m \in S : AddFilter(l, m) \in Seq(S)
    BY DEF AddFilter
  <2>2. <<>> \in Seq(S)
    BY NoElements
  <2>3. mcast_filters' \in Seq(S)
    <3>1. mcast_filters' = AddFilter(AddFilter(<<>>, snm_mac_addr), all_mac_addr)
      BY <1>3 DEF OpenFilters, ip6_init
    <3>2. AddFilter(<<>>, snm_mac_addr) \in Seq(S)
      BY <2>1, <2>2, Zenon
    <3>3. AddFilter(AddFilter(<<>>, snm_mac_addr), all_mac_addr) \in Seq(S)
      BY <2>1, <3>2, Zenon
    <3> QED
      BY <3>1, <3>3, Zenon
  <2>4. {mcast_filters'[i] : i \in DOMAIN mcast_filters'} \subseteq S
    BY <2>3
  <2>5. filters' \subseteq S /\ pc' \in {"up", "failed"}
    BY <1>3, <2>4, Zenon DEF OpenFilters
  <2> QED
    BY <1>3, <2>3, <2>5 DEF OpenFilters, rxVars, senderVars
<1>4. CASE PollStatus
  BY <1>4 DEF PollStatus, openVars, senderVars
<1>5. CASE PollReceive
  <2>1. /\ pc' = "up" /\ UNCHANGED <<openVars, txdone, arrived>>
        /\ rx' = rx \/ (rx # <<>> /\ rx' = Tail(rx))
    BY <1>5 DEF PollReceive
  <2>2. rx' \in Seq(Frame)
    <3>1. rx \in Seq(Frame)
      OBVIOUS
    <3>2. \A q \in Seq(Frame) : q # <<>> => Tail(q) \in Seq(Frame)
      OBVIOUS
    <3> QED
      BY <2>1, <3>1, <3>2, Zenon
  <2>3. rx_mac_addr' \in MacAddr \cup {NoAddr} /\ rx_ip6_addr' \in IpAddr \cup {NoAddr}
    <3>1. CASE rx # <<>> /\ eth_recv(Head(rx))
      <4>1. Head(rx) \in Frame
        BY <3>1
      <4> QED
        BY <2>1, <3>1, <4>1, RecvMoves
    <3>2. CASE UNCHANGED senderVars
      BY <3>2 DEF senderVars
    <3> QED
      BY <1>5, <3>1, <3>2 DEF PollReceive
  <2> QED
    BY <2>1, <2>2, <2>3 DEF openVars
<1>6. CASE Advertise
  BY <1>6 DEF Advertise, openVars, rxVars, senderVars
<1>7. CASE netifc_close
  BY <1>7 DEF netifc_close, rxVars, senderVars
<1>8. CASE TxComplete
  BY <1>8 DEF TxComplete, openVars, rxVars, senderVars
<1>9. CASE RxArrives
  <2>1. \A f \in Frames : Append(rx, f) \in Seq(Frame)
    BY NetIfcAssumption
  <2>2. rx' \in Seq(Frame)
    BY <1>9, <2>1 DEF RxArrives
  <2>3. arrived' \in 0 .. MaxFrames
    BY <1>9, NetIfcAssumption DEF RxArrives
  <2> QED
    BY <1>9, <2>2, <2>3 DEF RxArrives, openVars, senderVars
<1> QED
  BY <1>1, <1>2, <1>3, <1>4, <1>5, <1>6, <1>7, <1>8, <1>9
  DEF Next, netifc_open, netifc_poll

(* irq stays a Boolean.                                                    *)
LEMMA IrqType ==
  ASSUME TypeOK, [Next]_vars
  PROVE  irq' \in BOOLEAN
<1>1. irq' = irq \/ irq' = TRUE \/ irq' = FALSE
  BY Zenon DEF Next, netifc_open, netifc_poll, OpenProtocol, OpenBuffers,
     OpenFilters, OpenFails, PollStatus, PollReceive, Advertise, netifc_close,
     TxComplete, RxArrives, rxVars, vars
<1> QED
  BY <1>1, Zenon DEF TypeOK

-----------------------------------------------------------------------------
(* No buffer exists at the start of netifc_open.                           *)
LEMMA NetIfcInvInit == Init => NetIfcInv /\ Pool!Init
<1> SUFFICES ASSUME Init PROVE NetIfcInv /\ Pool!Init
  OBVIOUS
<1>1. \A S : <<>> \in Seq(S)
  BY NoElements
<1>2. Empty /\ Elems(eth_buffers) = {} /\ Elems(Bufs(tx)) = {} /\ Elems(txdone) = {}
  BY DEF Init, Empty, Elems, Bufs
<1>3. Apart
  BY <1>2 DEF Empty, Apart, Distinct, Bufs
<1>4. irq \in BOOLEAN
  BY Zenon DEF Init
<1>5. TypeOK
  BY <1>1, <1>4, NetIfcAssumption DEF Init, TypeOK
<1>6. AnswersGoBack
  BY <1>2 DEF Empty, AnswersGoBack
<1> QED
  BY <1>2, <1>3, <1>5, <1>6 DEF Init, NetIfcInv, Pool!Init

(* Allocating the buffers fills the pool, which was empty.                 *)
LEMMA OpenBuffersFills ==
  ASSUME NetIfcInv, OpenBuffers
  PROVE  \/ Untouched /\ pc' = "failed"
         \/ /\ eth_buffers' = AllBuffers /\ tx' = <<>> /\ txdone' = <<>>
            /\ Elems(Bufs(tx)') = {} /\ Elems(txdone') = {}
            /\ Elems(Bufs(tx)) = {} /\ Elems(txdone) = {} /\ Elems(eth_buffers) = {}
<1>1. Empty
  BY DEF NetIfcInv, OpenBuffers
<1>2. CASE eth_buffers' = AllBuffers /\ UNCHANGED <<tx, txdone>>
  BY <1>1, <1>2 DEF Empty, Elems, Bufs
<1>3. CASE OpenFails
  BY <1>3 DEF OpenFails, Untouched
<1> QED
  BY <1>2, <1>3 DEF OpenBuffers

(* The inductive step, with the step of the pool it stands for.            *)
LEMMA NetIfcInvStep ==
  ASSUME NetIfcInv, [Next]_vars
  PROVE  /\ NetIfcInv'
         /\ [Pool!Fill \/ Pool!Take \/ Pool!Release]_<<Elems(eth_buffers),
                                          Elems(Bufs(tx)) \cup Elems(txdone)>>
<1> DEFINE lists == /\ Apart' /\ AnswersGoBack'
                    /\ eth_buffers' \in Seq(Buf) /\ tx' \in Seq(Sent)
                    /\ txdone' \in Seq(Buf)
           opening == /\ pc' \in {"open", "snp"} => Empty'
                      /\ pc' \notin {"open", "snp", "failed"} => Everywhere' = Buf
           pools == [Pool!Fill \/ Pool!Take \/ Pool!Release]_<<Elems(eth_buffers),
                                          Elems(Bufs(tx)) \cup Elems(txdone)>>
<1>1. TypeOK /\ Apart /\ AnswersGoBack
  BY DEF NetIfcInv
<1>2. CASE UNCHANGED vars
  <2>1. /\ UNCHANGED <<pc, snp, mcast_filters, filters, eth_buffers, tx, txdone, rx,
                       irq, rx_mac_addr, rx_ip6_addr, arrived>>
    BY <1>2 DEF vars, openVars, rxVars, senderVars
  <2>2. NetIfcInv'
    <3>1. TypeOK'
      BY <1>1, <2>1, Zenon DEF TypeOK
    <3>2. Apart' /\ Everywhere' = Everywhere
      BY <1>1, <2>1 DEF Apart, Everywhere
    <3>3. AnswersGoBack'
      BY <1>1, <2>1 DEF AnswersGoBack
    <3>4. pc' \in {"open", "snp"} => Empty'
      BY <2>1 DEF NetIfcInv, Empty
    <3>5. pc' \notin {"open", "snp", "failed"} => Everywhere' = Buf
      BY <2>1, <3>2 DEF NetIfcInv
    <3> QED
      BY <3>1, <3>2, <3>3, <3>4, <3>5 DEF NetIfcInv
  <2>3. UNCHANGED <<Elems(eth_buffers), Elems(Bufs(tx)) \cup Elems(txdone)>>
    BY <2>1
  <2> QED
    BY <2>2, <2>3
<1>3. ASSUME Next PROVE lists /\ opening /\ pools
  <2>1. CASE OpenBuffers
    <3>1. CASE Untouched /\ pc' = "failed"
      <4>1. Moves
        BY <3>1 DEF Moves
      <4> QED
        BY <1>1, <3>1, <4>1, MovesKeep
    <3>2. CASE /\ eth_buffers' = AllBuffers /\ tx' = <<>> /\ txdone' = <<>>
               /\ Elems(Bufs(tx)') = {} /\ Elems(txdone') = {}
               /\ Elems(Bufs(tx)) = {} /\ Elems(txdone) = {} /\ Elems(eth_buffers) = {}
      <4>1. eth_buffers' \in Seq(Buf) /\ Distinct(eth_buffers') /\ Elems(eth_buffers') = Buf
        BY <3>2, AllBuffersOnce
      <4>2. tx' \in Seq(Sent) /\ txdone' \in Seq(Buf)
        BY <3>2, NoElements
      <4>3. Distinct(Bufs(tx)') /\ Distinct(txdone') /\ AnswersGoBack'
        BY <3>2 DEF Distinct, Bufs, AnswersGoBack
      <4>4. Apart' /\ Everywhere' = Buf
        BY <3>2, <4>1, <4>3 DEF Apart, Everywhere
      <4>5. Pool!Fill
        BY <3>2, <4>1 DEF Pool!Fill, Pool!Buf, Buf
      <4>6. pc' \in {"pool", "failed"}
        BY <2>1 DEF OpenBuffers, OpenFails
      <4> QED
        BY <4>1, <4>2, <4>3, <4>4, <4>5, <4>6
    <3> QED
      BY <2>1, <3>1, <3>2, OpenBuffersFills
  <2>2. CASE ~OpenBuffers
    <3>1. /\ Moves
          /\ pc \in {"open", "snp"} => Untouched \/ Completes \/ Reclaims
          /\ pc' \in {"open", "snp"} => pc \in {"open", "snp"}
          /\ pc' \notin {"open", "snp", "failed"} => pc \notin {"open", "snp", "failed"}
      BY <1>1, <1>3, <2>2, StepMoves
    <3>2. lists /\ Everywhere' = Everywhere
      BY <1>1, <3>1, MovesKeep
    <3>3. pools
      BY <1>1, <3>1, MovesKeep
    <3>4. ASSUME pc' \in {"open", "snp"} PROVE Empty'
      <4>1. Empty
        BY <3>1, <3>4 DEF NetIfcInv
      <4> QED
        BY <3>1, <3>4, <4>1 DEF Empty, Untouched, Completes, Reclaims
    <3>5. pc' \notin {"open", "snp", "failed"} => Everywhere' = Buf
      BY <3>1, <3>2 DEF NetIfcInv
    <3> QED
      BY <3>2, <3>3, <3>4, <3>5
  <2> QED
    BY <2>1, <2>2
<1>4. ASSUME Next PROVE TypeOK'
  <2>1. lists /\ irq' \in BOOLEAN
    BY <1>1, <1>3, <1>4, IrqType
  <2> QED
    BY <1>1, <1>4, <2>1, OtherTypes, Zenon DEF TypeOK
<1> QED
  BY <1>2, <1>3, <1>4, Zenon DEF NetIfcInv

(* The inductive invariant holds throughout.                               *)
LEMMA NetIfcInvariant == Spec => []NetIfcInv
<1>1. Init => NetIfcInv
  BY NetIfcInvInit
<1>2. NetIfcInv /\ [Next]_vars => NetIfcInv'
  BY NetIfcInvStep
<1> QED
  BY <1>1, <1>2, PTL DEF Spec

(* The state of netifc.c and inet6.c has its type, for every number of     *)
(* buffers, filters and frames.                                            *)
THEOREM NetIfcTypeCorrect == Spec => []TypeOK
<1>1. NetIfcInv => TypeOK
  BY DEF NetIfcInv
<1> QED
  BY <1>1, NetIfcInvariant, PTL

(* Once netifc_open has allocated them, every transmit buffer is in one    *)
(* place: no path of udp6_send, icmp6_send, eth_send and netifc_poll loses *)
(* one or frees it twice, whatever fails.                                  *)
THEOREM NetIfcPoolConserved == Spec => []PoolConserved
<1>1. NetIfcInv => PoolConserved
  BY DEF NetIfcInv, Apart, Everywhere, PoolConserved
<1> QED
  BY <1>1, NetIfcInvariant, PTL

(* icmp6_recv's and udp6_recv's answers go to the link address their       *)
(* question came from, whatever addresses the senders use.                 *)
THEOREM NetIfcAnswersGoBack == Spec => []AnswersGoBack
<1>1. NetIfcInv => AnswersGoBack
  BY DEF NetIfcInv
<1> QED
  BY <1>1, NetIfcInvariant, PTL

(* The free list of netifc.c and the driver's queues implement the pool:   *)
(* every step of the interface takes a buffer, releases one, fills the     *)
(* empty pool, or leaves it alone.                                         *)
THEOREM NetIfcImplementsPool == Spec => PoolSpec
<1>1. Init => Pool!Init
  BY NetIfcInvInit
<1>2. NetIfcInv /\ [Next]_vars =>
        [Pool!Fill \/ Pool!Take \/ Pool!Release]_<<Elems(eth_buffers),
                                      Elems(Bufs(tx)) \cup Elems(txdone)>>
  BY NetIfcInvStep
<1> QED
  BY <1>1, <1>2, NetIfcInvariant, PTL DEF Spec, PoolSpec, Pool!Spec

-----------------------------------------------------------------------------
(* Once netifc_open has returned 0, what it set up stays until the         *)
(* interface is closed.                                                    *)
LEMMA UpStays ==
  ASSUME [Next]_vars, pc' \in {"up", "receive"}
  PROVE  \/ OpenFilters
         \/ pc \in {"up", "receive"} /\ UNCHANGED <<snp, filters>>
<1>1. CASE OpenProtocol \/ OpenBuffers
  BY <1>1 DEF OpenProtocol, OpenBuffers, OpenFails
<1>2. CASE netifc_poll
  BY <1>2 DEF netifc_poll, PollStatus, PollReceive, openVars
<1>3. CASE Advertise \/ netifc_close
  BY <1>3 DEF Advertise, netifc_close, openVars
<1>4. CASE TxComplete \/ RxArrives
  BY <1>4 DEF TxComplete, RxArrives, openVars
<1>5. CASE UNCHANGED vars
  BY <1>5 DEF vars, openVars
<1> QED
  BY <1>1, <1>2, <1>3, <1>4, <1>5 DEF Next, netifc_open

(* netifc_open returns 0 only with an initialized interface, in whatever   *)
(* state the firmware left it and whatever fails.                          *)
THEOREM NetIfcUpIsInitialized == Spec => []UpIsInitialized
<1>1. Init => UpIsInitialized
  BY DEF Init, UpIsInitialized
<1>2. UpIsInitialized /\ [Next]_vars => UpIsInitialized'
  <2> SUFFICES ASSUME UpIsInitialized, [Next]_vars, pc' \in {"up", "receive"}
               PROVE  snp' = "Initialized"
    BY DEF UpIsInitialized
  <2>1. CASE OpenFilters
    BY <2>1 DEF OpenFilters
  <2>2. CASE pc \in {"up", "receive"} /\ UNCHANGED <<snp, filters>>
    BY <2>2 DEF UpIsInitialized
  <2> QED
    BY <2>1, <2>2, UpStays
<1> QED
  BY <1>1, <1>2, PTL DEF Spec

(* However many multicast filters the driver has, neighbor solicitations   *)
(* pass once netifc_open has returned 0: ip6_init asks for their group     *)
(* first, and without room for one filter ReceiveFilters fails.            *)
THEOREM NetIfcSolicitationsHeard == Spec => []SolicitationsHeard
<1>1. Init => SolicitationsHeard
  BY DEF Init, SolicitationsHeard
<1>2. SolicitationsHeard /\ [Next]_vars => SolicitationsHeard'
  <2> SUFFICES ASSUME SolicitationsHeard, [Next]_vars, pc' \in {"up", "receive"}
               PROVE  snm_mac_addr \in filters'
    BY DEF SolicitationsHeard
  <2>1. CASE OpenFilters
    <3> DEFINE one == <<snm_mac_addr>>
    <3>l. Len(<<>>) = 0 /\ Append(<<>>, snm_mac_addr) = one
      OBVIOUS
    <3>n. MaxMCast > 0
      <4> SUFFICES ASSUME MaxMCast = 0 PROVE FALSE
        BY NetIfcAssumption
      <4>1. AddFilter(<<>>, snm_mac_addr) = <<>> /\ AddFilter(<<>>, all_mac_addr) = <<>>
        BY <3>l DEF AddFilter
      <4>2. mcast_filters' = <<>>
        BY <2>1, <4>1, Zenon DEF OpenFilters, ip6_init
      <4>3. {mcast_filters'[i] : i \in DOMAIN mcast_filters'} = {}
        BY <4>2
      <4> QED
        BY <2>1, <4>3, Zenon DEF OpenFilters
    <3>1. AddFilter(<<>>, snm_mac_addr) = one
      BY <3>l, <3>n, NetIfcAssumption DEF AddFilter, MAX_FILTER
    <3>2. ip6_init = one \/ ip6_init = Append(one, all_mac_addr)
      BY <3>1 DEF ip6_init, AddFilter
    <3>3. 1 \in DOMAIN ip6_init /\ ip6_init[1] = snm_mac_addr
      BY <3>2
    <3>4. snm_mac_addr \in {mcast_filters'[i] : i \in DOMAIN mcast_filters'}
      BY <2>1, <3>3 DEF OpenFilters
    <3>5. pc' # "failed"
      OBVIOUS
    <3> QED
      BY <2>1, <3>4, <3>5, Zenon DEF OpenFilters
  <2>2. CASE pc \in {"up", "receive"} /\ UNCHANGED <<snp, filters>>
    BY <2>2 DEF SolicitationsHeard
  <2> QED
    BY <2>1, <2>2, UpStays
<1> QED
  BY <1>1, <1>2, PTL DEF Spec
=============================================================================
