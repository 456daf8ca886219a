-------------------------- MODULE StdoutRing_proofs --------------------------
(***************************************************************************)
(* Theorems about StdoutRing, for every size of ring and of pull, every     *)
(* sequence of writes and every number of sessions.                        *)
(***************************************************************************)
EXTENDS StdoutRing, SequenceTheorems, TLAPS

LEMMA RingSizes == RingSize \in Nat \ {0} /\ MaxPull \in Nat \ {0} /\ 0 \in Slot
  BY GeometryAssumption, RingAssumption DEF Slot

\* The firmware wraps its tail with a remainder, the stub with a subtraction
\* (usb_bridge.c:274, stdout_ring.c:71); they agree below twice the size.
LEMMA RemainderWraps ==
    ASSUME NEW x \in 0 .. 2 * RingSize - 1
    PROVE  x % RingSize = Wrap(x)
  <1>1. CASE x < RingSize
    BY <1>1, RingSizes DEF Wrap
  <1>2. CASE x >= RingSize
    <2>1. x - RingSize \in 0 .. RingSize - 1
      BY <1>2, RingSizes
    <2>2. x = (x - RingSize) + RingSize
      BY <2>1, RingSizes
    <2> QED
      BY <1>2, <2>1, <2>2, RingSizes DEF Wrap
  <1> QED
    BY <1>1, <1>2, RingSizes

LEMMA RingTypeInit == Init => TypeOK
  <1> SUFFICES ASSUME Init PROVE TypeOK
    OBVIOUS
  <1>1. ring \in [Slot -> Nat \X Nat]
    BY DEF Init
  <1>2. chunk \in Seq(Nat \X Nat) /\ recv \in Seq(Nat \X Nat) /\ Len(chunk) = 0
    BY DEF Init
  <1> QED
    BY <1>1, <1>2, RingSizes DEF Init, TypeOK

\* One turn of the stub's write loop keeps its pointer inside the ring.
LEMMA PutType ==
    ASSUME TypeOK, NEW stored \in Nat, Put(stored)
    PROVE  /\ Lesser(rem, RingSize - head) \in 1 .. RingSize - head
           /\ ring' \in [Slot -> Nat \X Nat] /\ head' \in Slot
           /\ rem' \in Nat /\ nput' \in Nat /\ lossy' \in BOOLEAN
           /\ spc' \in {"put", "publish"} /\ (spc' = "put" => rem' > 0)
           /\ UNCHANGED <<HEAD, tail, pull, session, npub, ngot, recv, fresh>>
  <1> DEFINE n == Lesser(rem, RingSize - head)
  <1>1. /\ head \in 0 .. RingSize - 1 /\ rem \in Nat /\ rem > 0
        /\ nput \in Nat /\ session \in Nat /\ ring \in [Slot -> Nat \X Nat]
    BY DEF TypeOK, Slot, Put
  <1>2. n \in 1 .. RingSize - head /\ n <= rem
    BY <1>1, RingSizes DEF Lesser
  <1>3. head' \in Slot
    <2>1. head' = Wrap(head + n)
      BY DEF Put
    <2> HIDE DEF n
    <2> QED
      BY <1>1, <1>2, <2>1, RingSizes DEF Wrap, Slot
  <1>4. ring' \in [Slot -> Nat \X Nat]
    <2>1. ASSUME NEW s \in Slot, s >= head PROVE Byte(nput + 1 + s - head) \in Nat \X Nat
      BY <1>1, <2>1, RingSizes DEF Byte, Slot
    <2>2. ring' = [s \in Slot |-> IF s \in head .. head + Lesser(n, stored) - 1
                                  THEN Byte(nput + 1 + s - head) ELSE ring[s]]
      BY DEF Put
    <2>3. ASSUME NEW s \in Slot PROVE ring'[s] \in Nat \X Nat
      <3>1. s \in head .. head + Lesser(n, stored) - 1 => s >= head
        OBVIOUS
      <3> QED
        BY <1>1, <2>1, <2>2, <3>1
    <2> QED
      BY <2>2, <2>3
  <1>5. rem' \in Nat /\ nput' \in Nat /\ (spc' = "put" => rem' > 0)
    BY <1>1, <1>2 DEF Put
  <1> QED
    BY <1>2, <1>3, <1>4, <1>5 DEF Put

LEMMA RingTypeStep == TypeOK /\ [Next]_vars => TypeOK'
  <1> SUFFICES ASSUME TypeOK, [Next]_vars PROVE TypeOK'
    OBVIOUS
  <1> USE DEF TypeOK, stub, pull, ghosts, bounds
  <1>1. CASE Boot \/ Return
    BY <1>1 DEF Boot, Return
  <1>2. CASE RingInit
    BY <1>2 DEF RingInit
  <1>3. CASE RingInitFail
    BY <1>3, RingSizes DEF RingInitFail
  <1>4. ASSUME NEW n \in 1 .. MaxWrite, BeginWrite(n) PROVE TypeOK'
    BY <1>4, RingAssumption DEF BeginWrite
  <1>5. CASE PutAll
    <2>1. Put(RingSize) /\ UNCHANGED bounds
      BY <1>5 DEF PutAll
    <2> QED
      BY <2>1, PutType, RingSizes
  <1>6. CASE PutFail
    <2>1. PICK stored \in 0 .. RingSize - 1 : Put(stored)
      BY <1>6 DEF PutFail
    <2>2. faults' \in Nat /\ powerOffs' = powerOffs
      BY <1>6 DEF PutFail
    <2>3. stored \in Nat
      BY RingSizes
    <2> QED
      BY <2>1, <2>2, <2>3, PutType
  <1>7. CASE Publish
    BY <1>7 DEF Publish
  <1>8. CASE PublishFail
    BY <1>8 DEF PublishFail
  <1>9. CASE RingReset \/ RingResetFail
    <2>1. /\ UNCHANGED <<ring, head, rem, tail, pull, fresh, powerOffs>>
          /\ HEAD' \in {0, HEAD} /\ spc' = "init" /\ faults' \in {faults, faults + 1}
          /\ session' = session + 1 /\ nput' = 0 /\ npub' = 0 /\ ngot' = 0
          /\ recv' = << >> /\ lossy' = FALSE
      BY <1>9 DEF RingReset, RingResetFail, NewSession
    <2>0. recv' \in Seq(Nat \X Nat)
      BY <2>1
    <2>2. /\ HEAD' \in Slot /\ session' \in Nat /\ nput' \in Nat /\ npub' \in Nat /\ ngot' \in Nat
          /\ faults' \in Nat
      BY <2>1, RingSizes
    <2>5. lossy' \in BOOLEAN
      BY <2>1
    <2>3. UNCHANGED <<ring, head, rem, tail, fpc, need, chunk, fresh, powerOffs>>
      BY <2>1
    <2>4. spc' = "init"
      BY <2>1
    <2> QED
      BY <2>0, <2>2, <2>3, <2>4, <2>5
  <1>10. CASE PowerOff
    BY <1>10, RingSizes DEF PowerOff
  <1>11. CASE PullBegin
    <2>1. Available(HEAD, tail) \in 0 .. RingSize - 1
      BY RingSizes DEF Available, Slot
    <2>2. need' \in 0 .. MaxPull /\ need' < RingSize
      BY <1>11, <2>1, RingSizes DEF PullBegin, Lesser
    <2> QED
      BY <1>11, <2>2 DEF PullBegin
  <1>12. CASE PullCopy
    <2> DEFINE pos == Wrap(tail + Len(chunk))
               n == Lesser(need - Len(chunk), RingSize - pos)
               piece == [i \in 1 .. n |-> ring[pos + i - 1]]
    <2>0. Len(chunk) \in Nat /\ Len(chunk) < need /\ need < RingSize /\ need \in Nat
      BY <1>12, RingSizes DEF PullCopy
    <2>1. pos \in 0 .. RingSize - 1
      <3>1. tail \in 0 .. RingSize - 1
        BY DEF Slot
      <3> HIDE DEF TypeOK
      <3>2. tail + Len(chunk) \in 0 .. 2 * RingSize - 2
        <4>1. tail \in Nat /\ tail <= RingSize - 1 /\ RingSize \in Nat
          BY <3>1, RingSizes
        <4>2. Len(chunk) \in Nat /\ Len(chunk) <= RingSize - 1
          BY <2>0, <4>1
        <4> QED
          BY <4>1, <4>2
      <3> QED
        BY <3>2, RingSizes DEF Wrap
    <2>2. n \in 1 .. RingSize - pos /\ n <= need - Len(chunk)
      <3> HIDE DEF pos, TypeOK
      <3>1. RingSize - pos \in Nat \ {0} /\ need - Len(chunk) \in Nat \ {0}
        BY <2>0, <2>1, RingSizes
      <3> QED
        BY <3>1 DEF Lesser
    <2>3. piece \in Seq(Nat \X Nat) /\ Len(piece) = n
      <3>1. ASSUME NEW i \in 1 .. n PROVE ring[pos + i - 1] \in Nat \X Nat
        <4> HIDE DEF pos, n
        <4>1. pos + i - 1 \in Slot
          BY <2>1, <2>2, RingSizes DEF Slot
        <4> QED
          BY <4>1
      <3> HIDE DEF n, pos
      <3>2. n \in Nat
        BY <2>1, <2>2, RingSizes
      <3> QED
        BY <3>1, <3>2
    <2>4. chunk' = chunk \o piece /\ UNCHANGED <<ring, HEAD, stub, tail, fpc, need, ghosts, bounds>>
      BY <1>12 DEF PullCopy
    <2>5. chunk' \in Seq(Nat \X Nat) /\ Len(chunk') <= need' /\ fpc' = "copy"
      <3>1. fpc' = "copy" /\ need' = need
        BY <1>12 DEF PullCopy
      <3> HIDE DEF n, pos, piece
      <3> QED
        BY <2>0, <2>1, <2>2, <2>3, <2>4, <3>1, RingSizes
    <2> QED
      BY <2>4, <2>5
  <1>13. CASE PullEnd
    <2>1. tail' \in Slot
      BY <1>13, RingSizes DEF PullEnd, Slot
    <2>2. recv' \in Seq(Nat \X Nat) /\ ngot' \in Nat
      BY <1>13 DEF PullEnd
    <2> QED
      BY <1>13, <2>1, <2>2, RingSizes DEF PullEnd
  <1>14. CASE DevReset
    <2>1. /\ UNCHANGED <<ring, stub, pull, bounds>>
          /\ HEAD' = 0 /\ tail' = 0 /\ fresh' = TRUE
          /\ session' = session + 1 /\ nput' = 0 /\ npub' = 0 /\ ngot' = 0
          /\ recv' = << >> /\ lossy' = FALSE
      BY <1>14 DEF DevReset, NewSession
    <2>0. recv' \in Seq(Nat \X Nat)
      BY <2>1
    <2>2. /\ HEAD' \in Slot /\ tail' \in Slot /\ session' \in Nat /\ nput' \in Nat /\ npub' \in Nat /\ ngot' \in Nat
      BY <2>1, RingSizes
    <2>5. lossy' \in BOOLEAN /\ fresh' \in BOOLEAN
      BY <2>1
    <2>3. UNCHANGED <<ring, spc, head, rem, fpc, need, chunk, faults, powerOffs>>
      BY <2>1
    <2> QED
      BY <2>0, <2>2, <2>3, <2>5
  <1>15. CASE UNCHANGED vars
    BY <1>15 DEF vars
  <1> QED
    BY <1>1, <1>2, <1>3, <1>4, <1>5, <1>6, <1>7, <1>8, <1>9, <1>10, <1>11, <1>12,
       <1>13, <1>14, <1>15 DEF Next, StubStep, PullStep

\* Every pointer stays inside the ring, and no pull is longer than a packet or
\* the ring, whatever the PC does.
THEOREM RingTypeCorrect == Spec => []TypeOK
  BY RingTypeInit, RingTypeStep, PTL DEF Spec
-----------------------------------------------------------------------------
(* With a PC that sends DEV_RESET between sessions, before each of them,   *)
(* the ring delivers a session's bytes once, in order and from the first.  *)

\* From one position of the ring, distances shorter than the ring lead to
\* different positions, and add up.
LEMMA WrapSlot ==
    ASSUME NEW t \in Slot, NEW j \in 0 .. RingSize
    PROVE  Wrap(t + j) \in Slot /\ Wrap(t) = t
  BY RingSizes DEF Slot, Wrap

LEMMA WrapInjective ==
    ASSUME NEW t \in Slot, NEW j \in 0 .. RingSize - 1, NEW k \in 0 .. RingSize - 1,
           Wrap(t + j) = Wrap(t + k)
    PROVE  j = k
  BY RingSizes DEF Slot, Wrap

LEMMA WrapAdd ==
    ASSUME NEW t \in Slot, NEW j \in Nat, NEW k \in Nat, j + k < RingSize
    PROVE  Wrap(Wrap(t + j) + k) = Wrap(t + j + k)
  BY RingSizes DEF Slot, Wrap

\* The firmware computes the distance from the drain pointer to the write
\* pointer.
LEMMA AvailableIsDistance ==
    ASSUME NEW t \in Slot, NEW d \in 0 .. RingSize - 1
    PROVE  Available(Wrap(t + d), t) = d
  BY RingSizes DEF Slot, Wrap, Available

\* The types and distances that the steps below work with.
LEMMA Distances ==
    ASSUME TypeOK, InOrder
    PROVE  /\ tail \in Slot /\ head \in Slot /\ HEAD \in Slot
           /\ nput - ngot \in 0 .. RingSize - 1
           /\ npub - ngot \in 0 .. nput - ngot
           /\ Len(chunk) \in Nat /\ Len(chunk) <= need
           /\ need \in 0 .. npub - ngot
           /\ ngot \in Nat /\ npub \in Nat /\ nput \in Nat /\ rem \in Nat
           /\ Available(HEAD, tail) = npub - ngot
  <1>1. /\ tail \in Slot /\ head \in Slot /\ HEAD \in Slot
        /\ ngot \in Nat /\ npub \in Nat /\ nput \in Nat /\ rem \in Nat
        /\ need \in Nat
    BY RingSizes DEF TypeOK
  <1>2. Len(chunk) \in Nat /\ Len(chunk) <= need
    BY DEF TypeOK
  <1>3. /\ ngot <= npub /\ npub <= nput /\ nput < ngot + RingSize
        /\ need <= npub - ngot /\ HEAD = Wrap(tail + (npub - ngot))
    BY DEF InOrder
  <1>4. npub - ngot \in 0 .. RingSize - 1
    BY <1>1, <1>3, RingSizes
  <1>5. Available(HEAD, tail) = npub - ngot
    BY <1>1, <1>3, <1>4, AvailableIsDistance
  <1> QED
    BY <1>1, <1>2, <1>3, <1>4, <1>5, RingSizes

LEMMA OrderInit == Init => RingInv
  <1> SUFFICES ASSUME Init PROVE RingInv
    OBVIOUS
  <1>1. InOrder
    <2>1. /\ HEAD = 0 /\ tail = 0 /\ spc = "off" /\ need = 0
          /\ nput = 0 /\ npub = 0 /\ ngot = 0
      BY DEF Init
    <2>2. Len(chunk) = 0 /\ Len(recv) = 0
      BY DEF Init
    <2> QED
      BY <2>1, <2>2, RingSizes DEF InOrder, Wrap
  <1>2. Reset
    BY DEF Init, Reset
  <1> QED
    BY <1>1, <1>2 DEF RingInv

\* A step that leaves the pointers and the bytes alone keeps the order.
LEMMA SameOrder ==
    ASSUME InOrder,
           UNCHANGED <<ring, HEAD, tail, fpc, need, chunk, session, nput, npub, ngot, recv>>,
           spc' \in {"run", "put", "publish"} => head' = Wrap(tail + (nput - ngot))
    PROVE  InOrder'
  BY DEF InOrder, Byte

\* What one turn of the write loop puts behind the bytes that are there.
LEMMA PutOrder ==
    ASSUME TypeOK, InOrder, NEW stored \in Nat, Put(stored), ~lossy'
    PROVE  InOrder'
  <1> DEFINE n == Lesser(rem, RingSize - head)
             d == nput - ngot
  <1>1. /\ n \in 1 .. RingSize - head
        /\ UNCHANGED <<HEAD, tail, fpc, need, chunk, session, npub, ngot, recv, fresh>>
    BY PutType DEF pull
  <1>2. /\ head' = Wrap(head + n) /\ nput' = nput + n
        /\ ring' = [s \in Slot |-> IF s \in head .. head + Lesser(n, stored) - 1
                                   THEN Byte(nput + 1 + s - head) ELSE ring[s]]
        /\ nput + n - ngot < RingSize /\ stored >= n
    <2>1. ~(nput + n - ngot >= RingSize) /\ ~(stored < n)
      BY DEF Put
    <2>2. head \in Slot /\ nput \in Nat /\ ngot \in Nat
      BY DEF TypeOK
    <2> QED
      <3>1. n \in Nat
        BY <1>1
      <3>2. nput + n - ngot < RingSize /\ stored >= n
        BY <2>1, <2>2, <3>1, RingSizes
      <3> QED
        BY <3>2 DEF Put
  <1>3. /\ head \in Slot /\ tail \in Slot /\ d \in 0 .. RingSize - 1
        /\ nput \in Nat /\ ngot \in Nat /\ npub <= nput /\ npub \in Nat
    BY Distances, RingSizes
  <1>4. head = Wrap(tail + d)
    BY DEF Put, InOrder
  <1>5. Lesser(n, stored) = n
    BY <1>1, <1>2 DEF Lesser
  <1>6. n \in Nat /\ d + n < RingSize /\ head + n <= RingSize
    BY <1>1, <1>2, <1>3, RingSizes DEF Slot
  <1>7. ASSUME NEW j \in 0 .. n - 1
        PROVE  /\ head + j = Wrap(tail + (d + j)) /\ head + j \in Slot
               /\ ring'[head + j] = Byte(nput + 1 + j)
    <2> HIDE DEF n
    <2>1. head + j \in Slot
      BY <1>3, <1>6, RingSizes DEF Slot
    <2>2. head + j = Wrap(tail + (d + j))
      BY <1>3, <1>4, <1>6, RingSizes DEF Slot, Wrap
    <2>3. head + j \in head .. head + n - 1 /\ nput + 1 + (head + j) - head = nput + 1 + j
      BY <1>3, <1>6 DEF Slot
    <2> QED
      BY <1>2, <1>5, <2>1, <2>2, <2>3
  <1>8. ASSUME NEW k \in 0 .. d - 1
        PROVE  ring'[Wrap(tail + k)] = ring[Wrap(tail + k)]
    <2> HIDE DEF n
    <2>1. Wrap(tail + k) \in Slot
      <3>1. k \in 0 .. RingSize
        BY <1>3, RingSizes
      <3> QED
        BY <1>3, <3>1, WrapSlot
    <2>2. ASSUME Wrap(tail + k) \in head .. head + n - 1 PROVE FALSE
      <3>1. PICK j \in 0 .. n - 1 : Wrap(tail + k) = head + j
        <4>1. Wrap(tail + k) - head \in 0 .. n - 1
          BY <1>3, <1>6, <2>1, <2>2 DEF Slot
        <4>2. Wrap(tail + k) = head + (Wrap(tail + k) - head)
          BY <1>3, <2>1 DEF Slot
        <4> QED
          BY <4>1, <4>2
      <3>2. Wrap(tail + k) = Wrap(tail + (d + j))
        BY <1>7, <3>1
      <3>3. k \in 0 .. RingSize - 1 /\ d + j \in 0 .. RingSize - 1 /\ k # d + j
        BY <1>3, <1>6, RingSizes
      <3> QED
        BY <1>3, <3>2, <3>3, WrapInjective
    <2> QED
      BY <1>2, <1>5, <2>1, <2>2
  <1>9. ASSUME NEW k \in 0 .. (nput' - ngot') - 1
        PROVE  ring'[Wrap(tail' + k)] = Byte(ngot' + k + 1)
    <2>1. nput' - ngot' = d + n /\ tail' = tail /\ ngot' = ngot
      BY <1>1, <1>2, <1>3, <1>6
    <2>2. CASE k < d
      <3>1. k \in 0 .. d - 1
        BY <1>3, <2>2
      <3>2. ring[Wrap(tail + k)] = Byte(ngot + k + 1)
        BY <3>1 DEF InOrder
      <3> QED
        BY <1>8, <2>1, <3>1, <3>2
    <2>3. CASE k >= d
      <3>1. k - d \in 0 .. n - 1
        BY <1>3, <1>6, <2>1, <2>3
      <3>2. d + (k - d) = k /\ nput + 1 + (k - d) = ngot + k + 1
        BY <1>3, <3>1
      <3> HIDE DEF d, n
      <3> QED
        BY <1>7, <2>1, <3>1, <3>2
    <2> QED
      BY <1>3, <2>2, <2>3
  <1>10. head' = Wrap(tail' + (nput' - ngot'))
    <2>1. nput' - ngot' = d + n /\ tail' = tail
      BY <1>1, <1>2, <1>3, <1>6
    <2>2. Wrap(Wrap(tail + d) + n) = Wrap(tail + d + n)
      <3> HIDE DEF n
      <3> QED
        BY <1>3, <1>6, WrapAdd
    <2>3. tail + d + n = tail + (d + n)
      BY <1>3, <1>6 DEF Slot
    <2> QED
      BY <1>2, <1>4, <2>1, <2>2, <2>3
  <1>11. ngot' <= npub' /\ npub' <= nput' /\ nput' < ngot' + RingSize
    BY <1>1, <1>2, <1>3, <1>6, RingSizes DEF InOrder
  <1>12. /\ HEAD' = Wrap(tail' + (npub' - ngot'))
         /\ need' <= npub' - ngot'
         /\ \A i \in 1 .. Len(chunk') : chunk'[i] = <<session', ngot' + i>>
         /\ Len(recv') = ngot'
         /\ \A i \in 1 .. ngot' : recv'[i] = <<session', i>>
    BY <1>1 DEF InOrder, Byte
  <1>13. \A k \in 0 .. (nput' - ngot') - 1 : ring'[Wrap(tail' + k)] = <<session', ngot' + k + 1>>
    BY <1>1, <1>9 DEF Byte
  <1> HIDE DEF n, d
  <1> QED
    BY <1>10, <1>11, <1>12, <1>13 DEF InOrder, Byte

\* What a pull copies continues what it has copied.
LEMMA CopyOrder ==
    ASSUME TypeOK, InOrder, PullCopy
    PROVE  InOrder'
  <1> DEFINE pos == Wrap(tail + Len(chunk))
             n == Lesser(need - Len(chunk), RingSize - pos)
             piece == [i \in 1 .. n |-> ring[pos + i - 1]]
  <1>1. /\ Len(chunk) < need /\ chunk' = chunk \o piece
        /\ UNCHANGED <<ring, HEAD, spc, head, tail, fpc, need, session, nput, npub, ngot, recv>>
    BY DEF PullCopy, stub, ghosts
  <1>2. /\ tail \in Slot /\ Len(chunk) \in Nat /\ need \in 0 .. npub - ngot
        /\ npub - ngot \in 0 .. nput - ngot /\ nput - ngot \in 0 .. RingSize - 1
        /\ ngot \in Nat /\ npub \in Nat /\ nput \in Nat
    BY Distances
  <1>3. Len(chunk) \in 0 .. RingSize /\ need \in Nat /\ need < RingSize /\ need <= nput - ngot
    BY <1>1, <1>2, RingSizes
  <1>4. pos \in Slot
    BY <1>2, <1>3, WrapSlot
  <1>5. n \in 1 .. RingSize - pos /\ n <= need - Len(chunk) /\ n \in Nat
    <2> HIDE DEF pos
    <2> QED
      BY <1>1, <1>3, <1>4, RingSizes DEF Lesser, Slot
  <1>6. ASSUME NEW j \in 1 .. n
        PROVE  piece[j] = Byte(ngot + Len(chunk) + j)
    <2> HIDE DEF n
    <2>1. pos + j - 1 = Wrap(tail + (Len(chunk) + j - 1))
      BY <1>2, <1>3, <1>4, <1>5, RingSizes DEF Wrap, Slot
    <2>2. Len(chunk) + j - 1 \in 0 .. nput - ngot - 1
      BY <1>2, <1>3, <1>5
    <2>3. ring[Wrap(tail + (Len(chunk) + j - 1))] = Byte(ngot + (Len(chunk) + j - 1) + 1)
      BY <2>2 DEF InOrder
    <2>4. ngot + (Len(chunk) + j - 1) + 1 = ngot + Len(chunk) + j
      BY <1>2, <1>5
    <2> QED
      BY <2>1, <2>3, <2>4
  <1>7. /\ Len(chunk') = Len(chunk) + n
        /\ \A i \in 1 .. Len(chunk) : chunk'[i] = chunk[i]
        /\ \A i \in Len(chunk) + 1 .. Len(chunk) + n : chunk'[i] = piece[i - Len(chunk)]
    <2>1. chunk \in Seq(Nat \X Nat)
      BY DEF TypeOK
    <2>2. piece \in Seq(Nat \X Nat) /\ Len(piece) = n
      <3>1. ASSUME NEW i \in 1 .. n PROVE ring[pos + i - 1] \in Nat \X Nat
        <4> HIDE DEF pos, n
        <4>1. pos + i - 1 \in Slot
          BY <1>4, <1>5, RingSizes DEF Slot
        <4> QED
          BY <4>1 DEF TypeOK
      <3> HIDE DEF n, pos
      <3> QED
        BY <1>5, <3>1
    <2> HIDE DEF n, pos, piece
    <2>3. /\ Len(chunk \o piece) = Len(chunk) + Len(piece)
          /\ \A i \in 1 .. Len(chunk) + Len(piece) :
                (chunk \o piece)[i] = IF i <= Len(chunk) THEN chunk[i] ELSE piece[i - Len(chunk)]
      BY <2>1, <2>2, ConcatProperties
    <2> QED
      BY <1>1, <1>2, <1>5, <2>2, <2>3
  <1>8. \A i \in 1 .. Len(chunk') : chunk'[i] = <<session', ngot' + i>>
    <2> SUFFICES ASSUME NEW i \in 1 .. Len(chunk') PROVE chunk'[i] = <<session', ngot' + i>>
      OBVIOUS
    <2> HIDE DEF n, pos, piece
    <2>1. CASE i <= Len(chunk)
      <3>1. i \in 1 .. Len(chunk)
        BY <1>2, <1>7, <2>1
      <3> QED
        BY <1>1, <1>7, <3>1 DEF InOrder, Byte
    <2>2. CASE i > Len(chunk)
      <3>1. i - Len(chunk) \in 1 .. n /\ i \in Len(chunk) + 1 .. Len(chunk) + n
        BY <1>2, <1>5, <1>7, <2>2
      <3>2. ngot + Len(chunk) + (i - Len(chunk)) = ngot + i
        BY <1>2, <3>1
      <3> QED
        BY <1>1, <1>6, <1>7, <3>1, <3>2 DEF Byte
    <2> QED
      BY <1>2, <1>7, <2>1, <2>2
  <1> HIDE DEF n, pos, piece
  <1> QED
    BY <1>1, <1>8 DEF InOrder, Byte

\* A pull that ends moves the drain pointer by what it delivers.
LEMMA DeliverOrder ==
    ASSUME TypeOK, InOrder, PullEnd
    PROVE  InOrder' /\ ngot' <= npub
  <1>1. /\ Len(chunk) = need /\ tail' = (tail + need) % RingSize
        /\ recv' = recv \o chunk /\ ngot' = ngot + need
        /\ need' = 0 /\ chunk' = << >>
        /\ UNCHANGED <<ring, HEAD, spc, head, session, nput, npub>>
    BY DEF PullEnd, stub
  <1>2. /\ tail \in Slot /\ need \in 0 .. npub - ngot
        /\ npub - ngot \in 0 .. nput - ngot /\ nput - ngot \in 0 .. RingSize - 1
        /\ ngot \in Nat /\ npub \in Nat /\ nput \in Nat
    BY Distances
  <1>3. tail' = Wrap(tail + need)
    <2>1. tail + need \in 0 .. 2 * RingSize - 1
      BY <1>2, RingSizes DEF Slot
    <2> QED
      BY <1>1, <2>1, RemainderWraps
  <1>4. ASSUME NEW k \in Nat, need + k < RingSize
        PROVE  Wrap(tail' + k) = Wrap(tail + (need + k))
    <2>1. need \in Nat
      BY <1>2
    <2>2. Wrap(Wrap(tail + need) + k) = Wrap(tail + need + k)
      BY <1>2, <1>4, <2>1, WrapAdd
    <2>3. tail + need + k = tail + (need + k)
      BY <1>2, <2>1 DEF Slot
    <2> QED
      BY <1>3, <2>2, <2>3
  <1>5. HEAD' = Wrap(tail' + (npub' - ngot'))
    <2>1. npub' - ngot' \in Nat /\ need + (npub' - ngot') = npub - ngot /\ npub - ngot < RingSize
      BY <1>1, <1>2, RingSizes
    <2> QED
      BY <1>1, <1>4, <2>1 DEF InOrder
  <1>6. spc' \in {"run", "put", "publish"} => head' = Wrap(tail' + (nput' - ngot'))
    <2>1. nput' - ngot' \in Nat /\ need + (nput' - ngot') = nput - ngot /\ nput - ngot < RingSize
      BY <1>1, <1>2, RingSizes
    <2> QED
      BY <1>1, <1>4, <2>1 DEF InOrder
  <1>7. ASSUME NEW k \in 0 .. nput' - ngot' - 1
        PROVE  ring'[Wrap(tail' + k)] = Byte(ngot' + k + 1)
    <2>1. k \in Nat /\ need + k < RingSize /\ need + k \in 0 .. nput - ngot - 1
      BY <1>1, <1>2, RingSizes
    <2>2. ring[Wrap(tail + (need + k))] = Byte(ngot + (need + k) + 1)
      BY <2>1 DEF InOrder
    <2>3. ngot + (need + k) + 1 = ngot' + k + 1
      BY <1>1, <1>2, <2>1
    <2> QED
      BY <1>1, <1>4, <2>1, <2>2, <2>3
  <1>8. /\ Len(recv') = ngot'
        /\ \A i \in 1 .. ngot' : recv'[i] = Byte(i)
    <2>1. recv \in Seq(Nat \X Nat) /\ chunk \in Seq(Nat \X Nat)
      BY DEF TypeOK
    <2>2. Len(recv) = ngot
      BY DEF InOrder
    <2>0. /\ Len(recv \o chunk) = Len(recv) + Len(chunk)
          /\ \A i \in 1 .. Len(recv) + Len(chunk) :
                (recv \o chunk)[i] = IF i <= Len(recv) THEN recv[i] ELSE chunk[i - Len(recv)]
      BY <2>1, ConcatProperties
    <2>3. Len(recv') = ngot' /\ ngot' = Len(recv) + Len(chunk)
      BY <1>1, <2>0, <2>2
    <2>5. ngot' \in Nat
      BY <1>1, <1>2
    <2>4. ASSUME NEW i \in 1 .. ngot' PROVE recv'[i] = Byte(i)
      <3>1. CASE i <= ngot
        <4>1. recv'[i] = recv[i]
          BY <1>1, <2>0, <2>2, <2>3, <3>1
        <4>2. i \in 1 .. ngot
          BY <1>2, <3>1
        <4> QED
          BY <4>1, <4>2 DEF InOrder
      <3>2. CASE i > ngot
        <4>1. i - ngot \in 1 .. Len(chunk) /\ ngot + (i - ngot) = i
          BY <1>1, <1>2, <3>2
        <4>2. recv'[i] = chunk[i - ngot]
          BY <1>1, <1>2, <2>0, <2>2, <2>3, <3>2
        <4>3. chunk[i - ngot] = Byte(ngot + (i - ngot))
          BY <4>1 DEF InOrder
        <4> QED
          BY <4>1, <4>2, <4>3
      <3> QED
        BY <1>2, <2>5, <3>1, <3>2
    <2> QED
      BY <2>3, <2>4
  <1>9. ngot' <= npub' /\ npub' <= nput' /\ nput' < ngot' + RingSize /\ need' <= npub' - ngot'
    BY <1>1, <1>2, RingSizes
  <1>10. Len(chunk') = 0
    BY <1>1
  <1> QED
    BY <1>1, <1>5, <1>6, <1>7, <1>8, <1>9, <1>10 DEF InOrder, Byte

\* A session begins with both pointers at 0 and nothing in the ring.
LEMMA FreshOrder ==
    ASSUME TypeOK', HEAD' = 0, tail' = 0, nput' = 0, npub' = 0, ngot' = 0,
           recv' = << >>, fpc' = "idle", spc' \notin {"run", "put", "publish"}
    PROVE  InOrder'
  <1>1. need' = 0 /\ Len(chunk') = 0 /\ Len(recv') = 0
    BY DEF TypeOK
  <1>2. Wrap(0) = 0
    BY RingSizes DEF Wrap
  <1> QED
    BY <1>1, <1>2, RingSizes DEF InOrder

LEMMA OrderStep ==
    ASSUME ResetPolicy = "between", TypeOK, RingInv, [Next]_vars
    PROVE  RingInv'
  <1> USE DEF stub, pull, ghosts, bounds
  <1>0. TypeOK'
    BY RingTypeStep
  <1>1. CASE Boot \/ Return
    <2>1. /\ UNCHANGED <<ring, HEAD, head, rem, tail, pull, ghosts, bounds>>
          /\ spc' \in {"init", "poll"}
      BY <1>1 DEF Boot, Return
    <2> QED
      BY <2>1, SameOrder DEF RingInv, Reset
  <1>2. CASE RingInit \/ RingInitFail
    <2>1. /\ spc' = "run" /\ nput' = npub
          /\ UNCHANGED <<ring, HEAD, tail, pull, session, npub, ngot, recv, fresh>>
          /\ ~lossy' => ~lossy /\ head' = HEAD
      <3>1. CASE RingInit
        BY <3>1 DEF RingInit
      <3>2. CASE RingInitFail
        <4>1. /\ spc' = "run" /\ nput' = npub /\ head' = 0
              /\ UNCHANGED <<ring, HEAD, tail, pull, session, npub, ngot, recv, fresh>>
          BY <3>2 DEF RingInitFail
        <4>2. ~lossy' => ~lossy /\ HEAD = 0
          BY <3>2 DEF RingInitFail
        <4> QED
          BY <4>1, <4>2
      <3> QED
        BY <1>2, <3>1, <3>2
    <2>2. ASSUME ~lossy' PROVE InOrder'
      <3>1. InOrder /\ head' = HEAD
        BY <2>1, <2>2 DEF RingInv
      <3>2. npub - ngot \in 0 .. nput - ngot /\ nput - ngot \in 0 .. RingSize - 1
            /\ npub \in Nat /\ nput \in Nat /\ ngot \in Nat
        BY <3>1, Distances
      <3>3. ngot <= npub /\ npub < ngot + RingSize
        BY <3>2, RingSizes
      <3>4. \A k \in 0 .. npub - ngot - 1 : ring[Wrap(tail + k)] = Byte(ngot + k + 1)
        BY <3>1, <3>2 DEF InOrder
      <3> QED
        BY <2>1, <3>1, <3>2, <3>3, <3>4 DEF InOrder, Byte
    <2> QED
      BY <2>1, <2>2 DEF RingInv, Reset
  <1>3. ASSUME NEW n \in 1 .. MaxWrite, BeginWrite(n) PROVE RingInv'
    <2>1. /\ UNCHANGED <<ring, HEAD, head, tail, pull, ghosts>>
          /\ spc = "run"
      BY <1>3 DEF BeginWrite
    <2>2. InOrder => head = Wrap(tail + (nput - ngot))
      BY <2>1 DEF InOrder
    <2> QED
      BY <2>1, <2>2, SameOrder DEF RingInv, Reset
  <1>4. ASSUME NEW stored \in Nat, Put(stored) PROVE RingInv'
    <2>1. UNCHANGED <<HEAD, tail, fpc, fresh>> /\ (~lossy' => ~lossy)
      BY <1>4 DEF Put
    <2> QED
      BY <1>4, <2>1, PutOrder DEF RingInv, Reset
  <1>5. CASE PutAll \/ PutFail
    <2>1. PICK stored \in Nat : Put(stored)
      BY <1>5, RingSizes DEF PutAll, PutFail
    <2> QED
      BY <1>4, <2>1
  <1>6. CASE Publish
    <2>1. /\ spc = "publish" /\ spc' = "run" /\ HEAD' = head /\ npub' = nput /\ fresh' = FALSE
          /\ UNCHANGED <<ring, head, tail, pull, session, nput, ngot, recv, lossy>>
      BY <1>6 DEF Publish
    <2>2. ASSUME InOrder PROVE InOrder'
      <3>1. head = Wrap(tail + (nput - ngot))
        BY <2>1, <2>2 DEF InOrder
      <3>2. npub - ngot \in 0 .. nput - ngot /\ nput - ngot \in 0 .. RingSize - 1
            /\ need \in 0 .. npub - ngot /\ npub \in Nat /\ nput \in Nat /\ ngot \in Nat
        BY <2>2, Distances
      <3>3. ngot <= nput /\ nput <= nput /\ need <= nput - ngot
        BY <3>2, RingSizes
      <3> QED
        BY <2>1, <2>2, <3>1, <3>3 DEF InOrder, Byte
    <2> QED
      BY <2>1, <2>2 DEF RingInv, Reset
  <1>7. CASE PublishFail
    <2>1. /\ UNCHANGED <<ring, HEAD, head, tail, pull, ghosts>>
          /\ spc = "publish"
      BY <1>7 DEF PublishFail
    <2>2. InOrder => head = Wrap(tail + (nput - ngot))
      BY <2>1 DEF InOrder
    <2> QED
      BY <2>1, <2>2, SameOrder DEF RingInv, Reset
  <1>8. CASE RingReset \/ RingResetFail
    <2>1. /\ fresh /\ HEAD' \in {0, HEAD} /\ spc' = "init"
          /\ nput' = 0 /\ npub' = 0 /\ ngot' = 0 /\ recv' = << >>
          /\ tail' = tail /\ fpc' = fpc
      BY <1>8 DEF RingReset, RingResetFail, NewSession
    <2>2. HEAD' = 0 /\ tail' = 0 /\ fpc' = "idle"
      BY <2>1 DEF RingInv, Reset
    <2> QED
      BY <1>0, <2>1, <2>2, FreshOrder DEF RingInv, Reset
  <1>9. CASE DevReset
    <2>1. /\ HEAD' = 0 /\ tail' = 0 /\ spc' = spc /\ spc \in {"poll", "off"}
          /\ nput' = 0 /\ npub' = 0 /\ ngot' = 0 /\ recv' = << >>
          /\ fpc' = "idle"
      BY <1>9 DEF DevReset, NewSession
    <2> QED
      BY <1>0, <2>1, FreshOrder DEF RingInv, Reset
  <1>10. CASE PowerOff
    <2>1. /\ UNCHANGED <<ring, HEAD, tail, pull, ghosts>>
          /\ spc' = "off"
      BY <1>10 DEF PowerOff
    <2> QED
      BY <2>1, SameOrder DEF RingInv, Reset
  <1>11. CASE PullBegin
    <2>1. /\ fpc = "idle" /\ Available(HEAD, tail) > 0
          /\ need' = Lesser(Available(HEAD, tail), MaxPull)
          /\ UNCHANGED <<ring, HEAD, stub, tail, chunk, ghosts>>
      BY <1>11 DEF PullBegin
    <2>2. ~fresh
      BY <2>1 DEF RingInv, Reset, Available
    <2>3. ASSUME InOrder PROVE InOrder'
      <3>1. Available(HEAD, tail) = npub - ngot /\ npub - ngot \in Nat
        BY <2>3, Distances, RingSizes
      <3>2. need' <= npub - ngot
        BY <2>1, <3>1, RingSizes DEF Lesser
      <3> QED
        BY <2>1, <2>3, <3>2 DEF InOrder, Byte
    <2> QED
      BY <2>1, <2>2, <2>3 DEF RingInv, Reset
  <1>12. CASE PullCopy
    <2>1. UNCHANGED <<HEAD, tail, fpc, fresh, lossy>>
      BY <1>12 DEF PullCopy
    <2> QED
      BY <1>12, <2>1, CopyOrder DEF RingInv, Reset
  <1>13. CASE PullEnd
    <2>1. fpc = "copy" /\ UNCHANGED <<fresh, lossy>>
      BY <1>13 DEF PullEnd
    <2>2. ~fresh
      BY <2>1 DEF RingInv, Reset
    <2> QED
      BY <1>13, <2>1, <2>2, DeliverOrder DEF RingInv, Reset
  <1>14. CASE UNCHANGED vars
    <2>1. UNCHANGED <<ring, HEAD, spc, head, tail, pull, ghosts>>
      BY <1>14 DEF vars
    <2> QED
      BY <2>1 DEF RingInv, Reset, InOrder, Byte
  <1> QED
    BY <1>1, <1>2, <1>3, <1>5, <1>6, <1>7, <1>8, <1>9, <1>10, <1>11, <1>12, <1>13, <1>14
    DEF Next, StubStep, PullStep

THEOREM RingInvariant ==
    ASSUME ResetPolicy = "between"
    PROVE  Spec => [](TypeOK /\ RingInv)
  <1>1. TypeOK /\ RingInv /\ [Next]_vars => TypeOK' /\ RingInv'
    BY RingTypeStep, OrderStep
  <1> QED
    BY <1>1, RingTypeInit, OrderInit, PTL DEF Spec

\* With a PC that resets the channel between sessions, what it receives is the
\* beginning of the session's output, and what lies between the drain pointer
\* and STDOUT_HEAD is the rest of what was published, of which a pull under way
\* takes its bytes, unless the ring overran or the card failed
\* (dev_stdout_pull; stdout_ring_write).
THEOREM OutputInOrder ==
    ASSUME ResetPolicy = "between"
    PROVE  Spec => [](ReceivesThisSession /\ UnreadIsBetween)
  <1>1. TypeOK /\ RingInv => ReceivesThisSession /\ UnreadIsBetween
    <2> SUFFICES ASSUME TypeOK, RingInv, ~lossy
                 PROVE  ReceivesThisSession /\ UnreadIsBetween
      BY DEF ReceivesThisSession, UnreadIsBetween
    <2>1. InOrder
      BY DEF RingInv
    <2>2. UnreadIsBetween
      BY <2>1, Distances DEF InOrder, UnreadIsBetween
    <2>3. recv \in Seq(Nat \X Nat) /\ Len(recv) = ngot /\ \A i \in 1 .. ngot : recv[i] = Byte(i)
      BY <2>1 DEF InOrder, TypeOK
    <2>4. recv = [k \in 1 .. Len(recv) |-> Byte(k)]
      BY <2>3
    <2> QED
      BY <2>2, <2>4 DEF ReceivesThisSession
  <1> QED
    BY <1>1, RingInvariant, PTL

\* What the library reports as pending is the number of unread bytes with its
\* two bytes swapped, in every state of a ring whose pointers fit 16 bits: for
\* the 1 to 255 bytes of a short line it is never right (usb_bridge.c:446-453,
\* sd2psx_bridge.py:446).
THEOREM StatusSwapsBytes ==
    ASSUME ResetPolicy = "between", RingSize <= 65536
    PROVE  Spec => []StatusIsSwapped
  <1>1. TypeOK /\ RingInv => StatusIsSwapped
    <2> SUFFICES ASSUME TypeOK, RingInv, ~lossy PROVE StatusIsSwapped
      BY DEF StatusIsSwapped
    <2>1. PICK n \in 0 .. RingSize - 1 : n = npub - ngot
      BY Distances, RingSizes DEF RingInv
    <2>2. Available(HEAD, tail) = n
      BY <2>1, Distances DEF RingInv
    <2>3. n \in Nat /\ n <= 65535
      BY <2>1, RingSizes
    <2>4. PendingSent = <<n % 256, n \div 256>>
      BY <2>2, <2>3 DEF PendingSent, Lesser
    <2>5. PendingRead(PendingSent) = (n % 256) * 256 + n \div 256
      BY <2>4 DEF PendingRead
    <2>6. (n % 256) * 256 + n \div 256 = n <=> n % 256 = n \div 256
      BY <2>3
    <2> QED
      BY <2>1, <2>5, <2>6 DEF StatusIsSwapped
  <1> QED
    BY <1>1, RingInvariant, PTL

\* The steps of the ring that the pipe sees.
LEMMA PipeStep ==
    ASSUME ResetPolicy = "between", TypeOK, RingInv, [Next]_vars, ReceivesThisSession'
    PROVE  [Pipe!Next]_(Pipe!vars)
  <1> USE DEF stub, pull, ghosts, bounds, Pipe!vars, Pipe!Next
  <1>0. TypeOK'
    BY RingTypeStep
  <1>1. CASE \/ Boot \/ Return \/ RingInit \/ PublishFail \/ PowerOff
             \/ PullBegin \/ PullCopy \/ UNCHANGED vars
    <2>1. UNCHANGED <<session, npub, recv, lossy>>
      BY <1>1 DEF Boot, Return, RingInit, PublishFail, PowerOff, PullBegin, PullCopy, vars
    <2> QED
      BY <2>1
  <1>2. ASSUME NEW n \in 1 .. MaxWrite, BeginWrite(n) PROVE UNCHANGED Pipe!vars
    BY <1>2 DEF BeginWrite
  <1>3. ASSUME UNCHANGED <<session, npub, recv>>, lossy => lossy'
        PROVE  [Pipe!Next]_(Pipe!vars)
    <2>1. lossy \in BOOLEAN /\ lossy' \in BOOLEAN
      BY <1>0 DEF TypeOK
    <2>2. CASE lossy' = TRUE
      BY <1>3, <2>2 DEF Pipe!Break
    <2>3. CASE lossy' = lossy
      BY <1>3, <2>3
    <2> QED
      BY <1>3, <2>1, <2>2, <2>3
  <1>4. CASE RingInitFail \/ PutAll \/ PutFail
    <2>1. UNCHANGED <<session, npub, recv>> /\ (lossy => lossy')
      BY <1>4 DEF RingInitFail, PutAll, PutFail, Put
    <2> QED
      BY <1>3, <2>1
  <1>5. CASE Publish
    <2>1. npub' = nput /\ UNCHANGED <<session, recv, lossy>>
      BY <1>5 DEF Publish
    <2>2. CASE lossy
      BY <2>1, <2>2 DEF Pipe!Broken
    <2>3. CASE ~lossy
      <3>1. npub' \in Nat /\ npub' >= npub
        BY <2>1, <2>3 DEF RingInv, InOrder, TypeOK
      <3> QED
        BY <2>1, <3>1 DEF Pipe!Send
    <2> QED
      BY <2>2, <2>3
  <1>6. CASE RingReset \/ RingResetFail \/ DevReset
    <2>1. session' = session + 1 /\ npub' = 0 /\ recv' = << >> /\ lossy' = FALSE
      BY <1>6 DEF RingReset, RingResetFail, DevReset, NewSession
    <2> QED
      BY <2>1 DEF Pipe!Restart
  <1>7. CASE PullEnd
    <2>1. recv' = recv \o chunk /\ UNCHANGED <<session, npub, lossy>>
      BY <1>7 DEF PullEnd
    <2>2. CASE lossy
      BY <2>1, <2>2 DEF Pipe!Broken
    <2>3. CASE ~lossy
      <3>1. InOrder /\ InOrder' /\ ngot' <= npub
        BY <1>7, <2>3, DeliverOrder DEF RingInv
      <3>2. Len(recv) = ngot /\ Len(recv') = ngot' /\ ngot' = ngot + need
            /\ ngot \in Nat /\ need \in Nat /\ npub \in Nat
        BY <1>7, <3>1, Distances DEF InOrder, PullEnd, TypeOK
      <3>3. Len(recv') \in Len(recv) .. npub
        BY <3>1, <3>2
      <3>4. recv' = [k \in 1 .. Len(recv') |-> <<session, k>>]
        BY <2>1, <2>3 DEF ReceivesThisSession, Byte
      <3> QED
        BY <2>1, <3>3, <3>4 DEF Pipe!Receive, Pipe!Byte
    <2> QED
      BY <2>2, <2>3
  <1> QED
    BY <1>1, <1>2, <1>4, <1>5, <1>6, <1>7 DEF Next, StubStep, PullStep

\* The ring is a pipe, as long as the PC resets the channel between sessions.
THEOREM RingIsPipe ==
    ASSUME ResetPolicy = "between"
    PROVE  Spec => ImplementsPipe
  <1>1. Init => Pipe!Init
    BY DEF Init, Pipe!Init
  <1>2. TypeOK /\ RingInv /\ [Next]_vars /\ ReceivesThisSession' => [Pipe!Next]_(Pipe!vars)
    BY PipeStep
  <1> QED
    BY <1>1, <1>2, RingInvariant, OutputInOrder, PTL DEF Spec, ImplementsPipe, Pipe!Spec
=============================================================================
