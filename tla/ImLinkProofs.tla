---------------------------- MODULE ImLinkProofs ----------------------------
(***************************************************************************)
(* Proofs about ImLink, for every length of header, every set of PDU       *)
(* sizes, every socket buffer and every number of PDUs.  The argument is   *)
(* that each of the three buffers on the way is a run of consecutive       *)
(* bytes, and that each run starts where the one before it ends.           *)
(***************************************************************************)
EXTENDS ImLink, SequenceTheorems, TLAPS

\* The sequence s holds the bytes that follow byte a.
Run(s, a) == s \in Seq(Int) /\ \A i \in 1..Len(s) : s[i] = a + i

LEMMA RunEmpty == ASSUME NEW a PROVE Run(<<>>, a) /\ Len(<<>>) = 0
  BY DEF Run

\* Two runs that meet are one run.
LEMMA RunConcat ==
  ASSUME NEW s, NEW t, NEW a \in Int, Run(s, a), Run(t, a + Len(s))
  PROVE  Run(s \o t, a) /\ Len(s \o t) = Len(s) + Len(t)
  <1>1. s \in Seq(Int) /\ t \in Seq(Int)
    BY DEF Run
  <1>2. /\ s \o t \in Seq(Int)
        /\ Len(s \o t) = Len(s) + Len(t)
        /\ \A i \in 1..Len(s) + Len(t) :
              (s \o t)[i] = IF i <= Len(s) THEN s[i] ELSE t[i - Len(s)]
    BY <1>1, ConcatProperties
  <1>3. ASSUME NEW i \in 1..Len(s) + Len(t) PROVE (s \o t)[i] = a + i
    <2>1. CASE i <= Len(s)
      BY <1>1, <1>2, <2>1 DEF Run
    <2>2. CASE ~(i <= Len(s))
      <3>1. i - Len(s) \in 1..Len(t)
        BY <1>1, <2>2, LenProperties
      <3>2. t[i - Len(s)] = a + Len(s) + (i - Len(s))
        BY <3>1 DEF Run
      <3> QED
        BY <1>1, <1>2, <2>2, <3>1, <3>2, LenProperties
    <2> QED
      BY <2>1, <2>2
  <1> QED
    BY <1>2, <1>3 DEF Run

\* A run cut in two is two runs that meet.
LEMMA RunSplit ==
  ASSUME NEW s, NEW a \in Int, Run(s, a), NEW k \in 0..Len(s)
  PROVE  /\ Run(SubSeq(s, 1, k), a) /\ Len(SubSeq(s, 1, k)) = k
         /\ Run(SubSeq(s, k + 1, Len(s)), a + k)
         /\ Len(SubSeq(s, k + 1, Len(s))) = Len(s) - k
  <1>1. s \in Seq(Int) /\ Len(s) \in Nat
    BY LenProperties DEF Run
  <1>2. \A i \in 1..Len(s) : s[i] \in Int /\ s[i] = a + i
    BY <1>1 DEF Run
  <1>3. /\ SubSeq(s, 1, k) \in Seq(Int)
        /\ Len(SubSeq(s, 1, k)) = IF 1 <= k THEN k - 1 + 1 ELSE 0
        /\ \A i \in 1..k - 1 + 1 : SubSeq(s, 1, k)[i] = s[1 + i - 1]
    BY <1>1, <1>2, SubSeqProperties
  <1>4. /\ SubSeq(s, k + 1, Len(s)) \in Seq(Int)
        /\ Len(SubSeq(s, k + 1, Len(s))) =
              IF k + 1 <= Len(s) THEN Len(s) - (k + 1) + 1 ELSE 0
        /\ \A i \in 1..Len(s) - (k + 1) + 1 :
              SubSeq(s, k + 1, Len(s))[i] = s[(k + 1) + i - 1]
    <2>1. \A i \in k + 1..Len(s) : s[i] \in Int
      BY <1>1, <1>2
    <2> HIDE <1>2
    <2> QED
      BY <1>1, <2>1, SubSeqProperties
  <1> QED
    BY <1>1, <1>2, <1>3, <1>4 DEF Run

-----------------------------------------------------------------------------
(* The inductive invariant.                                                *)

\* The PDUs follow each other without a gap, and each has at least a byte.
SubmittedInv ==
    /\ submitted \in Seq([first : Nat \ {0}, size : Sizes])
    /\ \A n \in 1..Len(submitted) : submitted[n].first = End(n - 1) + 1
    /\ \A m, n \in 0..Len(submitted) : m < n => End(m) < End(n)

\* What was delivered is the first PDUs, in order.
DeliveredInv ==
    /\ delivered \in Seq(Nat)
    /\ Len(delivered) <= Len(submitted)
    /\ \A i \in 1..Len(delivered) : delivered[i] = i

\* The buffers are runs that meet, from the last byte delivered to the last
\* byte submitted.
RunsInv ==
    /\ m_in_buf \in Seq(Int) /\ wire \in Seq(Int) /\ m_out_buf \in Seq(Int)
    /\ state # "closed" =>
        /\ Run(m_in_buf, End(Len(delivered)))
        /\ Run(wire, End(Len(delivered)) + Len(m_in_buf))
        /\ Run(m_out_buf, End(Len(delivered)) + Len(m_in_buf) + Len(wire))
        /\ End(Len(delivered)) + Len(m_in_buf) + Len(wire) + Len(m_out_buf)
            = End(Len(submitted))

ControlInv ==
    /\ state \in {"connecting", "connected", "closed"}
    /\ early \in BOOLEAN /\ greet \in Nat
    /\ m_busy \in BOOLEAN /\ nospace \in BOOLEAN /\ reading \in BOOLEAN
    /\ m_busy <=> m_out_buf # <<>>
    /\ state = "closed" => ~reading /\ ~m_busy
    /\ state = "connecting" => greet = 0 /\ (~early => ~m_busy)
    /\ ~early /\ state = "connected" /\ m_busy => nospace

Inv == SubmittedInv /\ DeliveredInv /\ RunsInv /\ ControlInv

\* The end of a PDU is a place in the stream.
LEMMA EndNat ==
  ASSUME SubmittedInv, NEW n \in 0..Len(submitted)
  PROVE  End(n) \in Nat
  <1>1. CASE n = 0
    BY <1>1 DEF End
  <1>2. CASE n # 0
    <2>1. submitted \in Seq([first : Nat \ {0}, size : Sizes])
      BY DEF SubmittedInv
    <2>2. n \in 1..Len(submitted)
      BY <1>2, <2>1, LenProperties
    <2>3. submitted[n] \in [first : Nat \ {0}, size : Sizes]
      BY <2>1, <2>2, ElementOfSeq
    <2>4. submitted[n].first \in Nat \ {0} /\ submitted[n].size \in Nat
      BY <2>3, SizesHoldHeader
    <2> QED
      BY <1>2, <2>4 DEF End
  <1> QED
    BY <1>1, <1>2

\* A PDU that is submitted continues the stream.
LEMMA SubmitPdu ==
  ASSUME SubmittedInv, NEW size \in Sizes,
         submitted' = Append(submitted, NewPdu(size))
  PROVE  /\ SubmittedInv'
         /\ Len(submitted') = Len(submitted) + 1
         /\ \A n \in 0..Len(submitted) : End(n)' = End(n)
         /\ End(Len(submitted))' = End(Len(submitted)) + size
         /\ SubSeq(submitted', 1, Len(submitted)) = submitted
  <1> DEFINE Pdus == [first : Nat \ {0}, size : Sizes]
  <1>1. submitted \in Seq(Pdus) /\ Len(submitted) \in Nat
    BY LenProperties DEF SubmittedInv
  <1>2. End(Len(submitted)) \in Nat
    BY <1>1, EndNat
  <1>3. NewPdu(size) \in Pdus /\ NewPdu(size).size = size
        /\ NewPdu(size).first = End(Len(submitted)) + 1
    BY <1>2 DEF NewPdu
  <1>4. /\ submitted' \in Seq(Pdus)
        /\ Len(submitted') = Len(submitted) + 1
        /\ \A n \in 1..Len(submitted) : submitted'[n] = submitted[n]
        /\ submitted'[Len(submitted) + 1] = NewPdu(size)
    BY <1>1, <1>3, AppendProperties
  <1>5. ASSUME NEW n \in 0..Len(submitted) PROVE End(n)' = End(n)
    BY <1>1, <1>4 DEF End
  <1>6. ASSUME NEW n, n = Len(submitted) + 1
        PROVE  End(n)' = End(Len(submitted)) + size
    BY <1>1, <1>2, <1>3, <1>4, <1>6, SizesHoldHeader DEF End
  <1>7. End(Len(submitted))' = End(Len(submitted)) + size
    BY <1>1, <1>2, <1>3, <1>4, SizesHoldHeader DEF End
  <1>8. size \in Nat /\ size > 0
    BY SizesHoldHeader
  <1>9. \A n \in 1..Len(submitted') : submitted'[n].first = End(n - 1)' + 1
    <2> SUFFICES ASSUME NEW n \in 1..Len(submitted) + 1
                 PROVE  submitted'[n].first = End(n - 1)' + 1
      BY <1>4
    <2>1. End(n - 1)' = End(n - 1)
      BY <1>1, <1>5
    <2>2. CASE n \in 1..Len(submitted)
      BY <1>4, <2>1, <2>2 DEF SubmittedInv
    <2>3. CASE n = Len(submitted) + 1
      BY <1>1, <1>3, <1>4, <2>1, <2>3
    <2> QED
      BY <1>1, <2>2, <2>3
  <1>10. \A m, n \in 0..Len(submitted') : m < n => End(m)' < End(n)'
    <2> SUFFICES ASSUME NEW m \in 0..Len(submitted) + 1,
                        NEW n \in 0..Len(submitted) + 1, m < n
                 PROVE  End(m)' < End(n)'
      BY <1>4
    <2>1. m \in 0..Len(submitted) /\ End(m)' = End(m) /\ End(m) \in Nat
      BY <1>1, <1>5, EndNat
    <2>2. CASE n \in 0..Len(submitted)
      BY <1>5, <2>1, <2>2 DEF SubmittedInv
    <2>3. CASE n = Len(submitted) + 1
      <3>1. End(m) <= End(Len(submitted))
        <4>1. \A k, l \in 0..Len(submitted) : k < l => End(k) < End(l)
          BY Zenon DEF SubmittedInv
        <4>2. Len(submitted) \in 0..Len(submitted) /\ (m = Len(submitted) \/ m < Len(submitted))
          BY <1>1, <2>1
        <4>3. m = Len(submitted) \/ End(m) < End(Len(submitted))
          BY <2>1, <4>1, <4>2, Zenon
        <4> QED
          BY <1>2, <2>1, <4>3
      <3> QED
        BY <1>2, <1>6, <1>8, <2>1, <2>3, <3>1
    <2> QED
      BY <1>1, <2>2, <2>3
  <1>11. SubSeq(submitted', 1, Len(submitted)) = submitted
    <2>1. \A i \in 1..Len(submitted) : submitted'[i] \in Pdus
      BY <1>1, <1>4, ElementOfSeq
    <2>2. /\ SubSeq(submitted', 1, Len(submitted)) \in Seq(Pdus)
          /\ Len(SubSeq(submitted', 1, Len(submitted))) = Len(submitted)
          /\ \A i \in 1..Len(submitted) :
                SubSeq(submitted', 1, Len(submitted))[i] = submitted'[i]
      <3> HIDE DEF Pdus
      <3> QED
        BY <1>1, <2>1, SubSeqProperties
    <2> QED
      BY <1>1, <1>4, <2>2, SeqEqual
  <1> QED
    BY <1>4, <1>5, <1>7, <1>9, <1>10, <1>11 DEF SubmittedInv

\* The first byte of a run that is not empty.
LEMMA RunNotEmpty ==
  ASSUME NEW s, NEW a \in Int, Run(s, a)
  PROVE  /\ Len(s) \in Nat
         /\ s # <<>> <=> Len(s) > 0
         /\ Len(s) > 0 => s[1] = a + 1
  BY LenProperties, EmptySeq DEF Run

\* What send() takes leaves the wire and m_out_buf two runs that meet.
LEMMA SockTakesRuns ==
  ASSUME NEW a \in Int, Run(wire, a), NEW data, Run(data, a + Len(wire)),
         NEW k \in 0..Len(data), SockTakes(data, k)
  PROVE  /\ Run(wire', a) /\ Run(m_out_buf', a + Len(wire'))
         /\ Len(wire') + Len(m_out_buf') = Len(wire) + Len(data)
         /\ m_busy' \in BOOLEAN /\ nospace' = m_busy'
         /\ m_busy' <=> m_out_buf' # <<>>
  <1>1. Len(wire) \in Nat /\ Len(data) \in Nat
    BY LenProperties DEF Run
  <1>2. /\ Run(SubSeq(data, 1, k), a + Len(wire))
        /\ Len(SubSeq(data, 1, k)) = k
        /\ Run(SubSeq(data, k + 1, Len(data)), a + Len(wire) + k)
        /\ Len(SubSeq(data, k + 1, Len(data))) = Len(data) - k
    BY <1>1, RunSplit
  <1>3. Run(wire', a) /\ Len(wire') = Len(wire) + k
    BY <1>1, <1>2, RunConcat DEF SockTakes
  <1>4. Run(m_out_buf', a + Len(wire')) /\ Len(m_out_buf') = Len(data) - k
    <2>1. a + Len(wire) + k = a + Len(wire')
      BY <1>1, <1>3
    <2> QED
      BY <1>2, <2>1 DEF SockTakes
  <1>5. m_busy' = (k < Len(data)) /\ nospace' = (k < Len(data))
    BY DEF SockTakes
  <1>6. m_out_buf' # <<>> <=> Len(data) - k > 0
    <2>1. a + Len(wire') \in Int
      BY <1>1, <1>3
    <2> QED
      BY <1>4, <2>1, RunNotEmpty
  <1>7. Len(wire') + Len(m_out_buf') = Len(wire) + Len(data)
    BY <1>1, <1>3, <1>4
  <1>8. (k < Len(data)) <=> Len(data) - k > 0
    BY <1>1
  <1>9. m_busy' \in BOOLEAN /\ nospace' = m_busy'
    BY <1>5
  <1>10. m_busy' <=> m_out_buf' # <<>>
    BY <1>5, <1>6, <1>8, Zenon
  <1> QED
    BY <1>3, <1>4, <1>7, <1>9, <1>10

\* The bytes of a new PDU follow the last byte submitted.
LEMMA NewBytes ==
  ASSUME SubmittedInv, NEW size \in Sizes
  PROVE  /\ Run(PduBytes(NewPdu(size)), End(Len(submitted)))
         /\ Len(PduBytes(NewPdu(size))) = size
  <1>1. size \in Nat /\ End(Len(submitted)) \in Nat
    BY EndNat, LenProperties, SizesHoldHeader DEF SubmittedInv
  <1> QED
    BY <1>1 DEF PduBytes, NewPdu, Run

\* What CImConn::Send does to the buffers.
LEMMA SendPduKeeps ==
  ASSUME Inv, state # "closed", NEW size \in Sizes, SendPdu(size),
         UNCHANGED <<state, receiver>>
  PROVE  /\ SubmittedInv' /\ DeliveredInv' /\ RunsInv'
         /\ m_busy' \in BOOLEAN /\ nospace' \in BOOLEAN
         /\ m_busy' <=> m_out_buf' # <<>>
         /\ ~early /\ state = "connected" /\ m_busy' => nospace'
  <1> DEFINE D == End(Len(delivered))
             E == End(Len(submitted))
             data == PduBytes(NewPdu(size))
  <1>1. /\ SubmittedInv'
        /\ Len(submitted') = Len(submitted) + 1
        /\ \A n \in 0..Len(submitted) : End(n)' = End(n)
        /\ E' = E + size
    BY SubmitPdu DEF Inv, SendPdu
  <1>2. /\ Len(submitted) \in Nat /\ Len(delivered) \in 0..Len(submitted)
        /\ Len(m_in_buf) \in Nat /\ Len(wire) \in Nat /\ Len(m_out_buf) \in Nat
    BY LenProperties DEF Inv, SubmittedInv, DeliveredInv, RunsInv
  <1>3. delivered' = delivered /\ m_in_buf' = m_in_buf /\ state' = state
    BY DEF receiver
  <1>4. DeliveredInv'
    BY <1>1, <1>2, <1>3 DEF Inv, DeliveredInv
  <1>5. D' = D /\ D \in Nat /\ E \in Nat
    <2>1. D' = D
      BY <1>1, <1>2, <1>3 DEF End
    <2> QED
      BY <1>2, <2>1, EndNat DEF Inv
  <1>6. Run(data, E) /\ Len(data) = size /\ size \in Nat
    BY NewBytes, SizesHoldHeader DEF Inv
  <1>7. /\ Run(m_in_buf, D) /\ Run(wire, D + Len(m_in_buf))
        /\ Run(m_out_buf, D + Len(m_in_buf) + Len(wire))
        /\ D + Len(m_in_buf) + Len(wire) + Len(m_out_buf) = E
    BY DEF Inv, RunsInv
  <1> HIDE DEF D, E, data
  <1>8. CASE m_busy \/ state # "connected"
    <2>1. /\ m_out_buf' = m_out_buf \o data /\ m_busy' = TRUE
          /\ wire' = wire /\ nospace' = nospace
      BY <1>8 DEF SendPdu, data
    <2>2. /\ Run(m_out_buf', D + Len(m_in_buf) + Len(wire))
          /\ Len(m_out_buf') = Len(m_out_buf) + size
      <3>1. Run(data, (D + Len(m_in_buf) + Len(wire)) + Len(m_out_buf))
        BY <1>6, <1>7
      <3>2. D + Len(m_in_buf) + Len(wire) \in Int
        BY <1>2, <1>5
      <3> QED
        BY <1>6, <1>7, <2>1, <3>1, <3>2, RunConcat
    <2>3. m_out_buf' # <<>>
      <3>1. size > 0
        BY SizesHoldHeader
      <3> QED
        BY <1>2, <1>5, <1>6, <2>2, <3>1, RunNotEmpty
    <2>4. RunsInv'
      <3>1. D + Len(m_in_buf) + Len(wire) + Len(m_out_buf') = E + size
        BY <1>2, <1>5, <1>6, <1>7, <2>2
      <3>2. /\ Run(m_in_buf', D') /\ Run(wire', D' + Len(m_in_buf'))
            /\ Run(m_out_buf', D' + Len(m_in_buf') + Len(wire'))
            /\ D' + Len(m_in_buf') + Len(wire') + Len(m_out_buf') = E'
        BY <1>1, <1>3, <1>5, <1>7, <2>1, <2>2, <3>1
      <3> QED
        BY <3>2 DEF RunsInv, Run, D, E
    <2> QED
      BY <1>1, <1>4, <1>8, <2>1, <2>3, <2>4 DEF Inv, ControlInv
  <1>9. CASE ~(m_busy \/ state # "connected")
    <2>1. PICK k \in 0..Len(data) : SockTakes(data, k)
      BY <1>9 DEF SendPdu, data
    <2>2. m_out_buf = <<>> /\ Len(m_out_buf) = 0
      BY <1>9, EmptySeq DEF Inv, ControlInv
    <2>3. Run(data, D + Len(m_in_buf) + Len(wire))
      <3>1. E = D + Len(m_in_buf) + Len(wire)
        BY <1>2, <1>5, <1>7, <2>2
      <3> QED
        BY <1>6, <3>1
    <2>4. /\ Run(wire', D + Len(m_in_buf))
          /\ Run(m_out_buf', D + Len(m_in_buf) + Len(wire'))
          /\ Len(wire') + Len(m_out_buf') = Len(wire) + size
          /\ m_busy' \in BOOLEAN /\ nospace' = m_busy'
          /\ m_busy' <=> m_out_buf' # <<>>
      <3>1. D + Len(m_in_buf) \in Int
        BY <1>2, <1>5
      <3>2. Run(wire, D + Len(m_in_buf))
        BY <1>7
      <3>3. Len(data) = size
        BY <1>6
      <3> QED
        BY <2>1, <2>3, <3>1, <3>2, <3>3, SockTakesRuns, Zenon
    <2>5. RunsInv'
      <3>1. Len(wire') \in Nat /\ Len(m_out_buf') \in Nat
        BY <2>4, LenProperties DEF Run
      <3>2. D + Len(m_in_buf) + Len(wire') + Len(m_out_buf') = E + size
        BY <1>2, <1>5, <1>6, <1>7, <2>2, <2>4, <3>1
      <3>3. /\ Run(m_in_buf', D') /\ Run(wire', D' + Len(m_in_buf'))
            /\ Run(m_out_buf', D' + Len(m_in_buf') + Len(wire'))
            /\ D' + Len(m_in_buf') + Len(wire') + Len(m_out_buf') = E'
        BY <1>1, <1>3, <1>5, <1>7, <2>4, <3>2
      <3> QED
        BY <3>3 DEF RunsInv, Run, D, E
    <2> QED
      BY <1>1, <1>4, <2>4, <2>5
  <1> QED
    BY <1>8, <1>9

\* The lengths the invariant speaks of are numbers, and the ends of PDUs too.
LEMMA Lengths ==
  ASSUME Inv
  PROVE  /\ Len(submitted) \in Nat /\ Len(delivered) \in 0..Len(submitted)
         /\ Len(m_in_buf) \in Nat /\ Len(wire) \in Nat /\ Len(m_out_buf) \in Nat
         /\ End(Len(delivered)) \in Nat /\ End(Len(submitted)) \in Nat
  <1>1. /\ Len(submitted) \in Nat /\ Len(delivered) \in 0..Len(submitted)
        /\ Len(m_in_buf) \in Nat /\ Len(wire) \in Nat /\ Len(m_out_buf) \in Nat
    BY LenProperties DEF Inv, SubmittedInv, DeliveredInv, RunsInv
  <1> QED
    BY <1>1, EndNat DEF Inv

\* The PDU at the head of m_in_buf is the next one to deliver.
LEMMA FirstIsNext ==
  ASSUME Inv, state # "closed", Len(m_in_buf) > 0
  PROVE  /\ Len(delivered) < Len(submitted)
         /\ FirstPdu = Len(delivered) + 1
         /\ submitted[FirstPdu].size \in Nat \ {0}
         /\ End(FirstPdu) = End(Len(delivered)) + submitted[FirstPdu].size
  <1> DEFINE next == Len(delivered) + 1
  <1>1. m_in_buf[1] = End(Len(delivered)) + 1
    BY Lengths, RunNotEmpty DEF Inv, RunsInv
  <1>2. Len(delivered) < Len(submitted)
    <2>1. End(Len(delivered)) < End(Len(submitted))
      BY Lengths DEF Inv, RunsInv
    <2>2. Len(delivered) # Len(submitted)
      BY <2>1, Lengths
    <2> QED
      BY <2>2, Lengths
  <1>3. next \in 1..Len(submitted) /\ next - 1 = Len(delivered)
    BY <1>2, Lengths
  <1>4. submitted[next].first = m_in_buf[1]
    BY <1>1, <1>3 DEF Inv, SubmittedInv
  <1>5. ASSUME NEW n \in 1..Len(submitted), submitted[n].first = m_in_buf[1]
        PROVE  n = next
    <2>1. PICK p \in 0..Len(submitted) : p = n - 1
      BY Lengths
    <2>2. End(p) \in Nat /\ End(p) + 1 = End(Len(delivered)) + 1
      BY <1>1, <1>5, <2>1, EndNat DEF Inv, SubmittedInv
    <2>3. End(p) = End(Len(delivered))
      BY <2>2, Lengths
    <2>4. \A m \in 0..Len(submitted) :
            (m < p => End(m) < End(p)) /\ (p < m => End(p) < End(m))
      BY DEF Inv, SubmittedInv
    <2>5. Len(delivered) \in 0..Len(submitted)
      BY Lengths
    <2>6. ~(p < Len(delivered)) /\ ~(Len(delivered) < p)
      BY <2>2, <2>3, <2>4, <2>5
    <2> QED
      BY <2>1, <2>5, <2>6, Lengths
  <1>6. FirstPdu = next
    BY <1>3, <1>4, <1>5 DEF FirstPdu
  <1>7. submitted[next] \in [first : Nat \ {0}, size : Sizes]
    <2>1. submitted \in Seq([first : Nat \ {0}, size : Sizes])
      BY DEF Inv, SubmittedInv
    <2> QED
      BY <1>3, <2>1, ElementOfSeq
  <1>8. submitted[next].size \in Nat \ {0}
    <2>1. submitted[next].size \in Sizes
      BY <1>7
    <2>2. \A s \in Sizes : s \in Nat \ {0}
      BY SizesHoldHeader
    <2> QED
      BY <2>1, <2>2
  <1>9. End(next) = End(Len(delivered)) + submitted[next].size
    <2>1. next # 0 /\ submitted[next].first = End(Len(delivered)) + 1
      BY <1>1, <1>3, <1>4
    <2>2. End(next) = (End(Len(delivered)) + 1) + submitted[next].size - 1
      BY <2>1, Zenon DEF End
    <2>3. End(Len(delivered)) \in Nat
      BY Lengths
    <2> HIDE DEF next
    <2> QED
      BY <1>8, <2>2, <2>3
  <1> HIDE DEF next
  <1>10. submitted[FirstPdu].size \in Nat \ {0}
         /\ End(FirstPdu) = End(Len(delivered)) + submitted[FirstPdu].size
    BY <1>6, <1>8, <1>9
  <1> QED
    BY <1>2, <1>6, <1>10 DEF next

\* A round of the ReadPdu loop delivers exactly the next PDU.
LEMMA ReadPduKeeps ==
  ASSUME Inv, ReadPdu
  PROVE  /\ Inv'
         /\ Len(delivered) < Len(submitted)
         /\ delivered' = Append(delivered, Len(delivered) + 1)
         /\ UNCHANGED submitted
  <1> DEFINE size == submitted[FirstPdu].size
  <1>1. state # "closed" /\ Len(m_in_buf) > 0
    <2>1. Len(m_in_buf) >= HeaderLen
      BY DEF ReadPdu, PduAvailable
    <2> QED
      BY <2>1, Lengths, SizesHoldHeader DEF Inv, ControlInv, ReadPdu
  <1>2. /\ Len(delivered) < Len(submitted)
        /\ FirstPdu = Len(delivered) + 1
        /\ size \in Nat \ {0} /\ size <= Len(m_in_buf)
        /\ End(FirstPdu) = End(Len(delivered)) + size
    BY <1>1, FirstIsNext DEF ReadPdu, PduAvailable
  <1>3. /\ delivered' = Append(delivered, Len(delivered) + 1)
        /\ m_in_buf' = SubSeq(m_in_buf, size + 1, Len(m_in_buf))
        /\ UNCHANGED <<sender, wire, reading>>
    BY <1>2 DEF ReadPdu
  <1>4. /\ delivered' \in Seq(Nat) /\ Len(delivered') = Len(delivered) + 1
        /\ \A i \in 1..Len(delivered) : delivered'[i] = delivered[i]
        /\ delivered'[Len(delivered) + 1] = Len(delivered) + 1
    <2>1. delivered \in Seq(Nat) /\ Len(delivered) + 1 \in Nat
      BY Lengths DEF Inv, DeliveredInv
    <2> QED
      BY <1>3, <2>1, AppendProperties
  <1>5. submitted' = submitted /\ state' = state /\ m_out_buf' = m_out_buf
        /\ wire' = wire
    BY <1>3 DEF sender
  <1>6. SubmittedInv'
    BY <1>5 DEF Inv, SubmittedInv, End
  <1>7. DeliveredInv'
    <2>1. Len(delivered') <= Len(submitted')
      BY <1>2, <1>4, <1>5, Lengths
    <2>2. \A i \in 1..Len(delivered') : delivered'[i] = i
      <3> SUFFICES ASSUME NEW i \in 1..Len(delivered) + 1
                   PROVE  delivered'[i] = i
        BY <1>4
      <3>1. CASE i = Len(delivered) + 1
        BY <1>4, <3>1
      <3>2. CASE i \in 1..Len(delivered)
        BY <1>4, <3>2 DEF Inv, DeliveredInv
      <3> QED
        BY <3>1, <3>2, Lengths
    <2> QED
      BY <1>4, <2>1, <2>2 DEF DeliveredInv
  <1>8. End(Len(delivered))' = End(Len(delivered)) + size
    <2>1. Len(delivered') = FirstPdu
      BY <1>2, <1>4
    <2> QED
      BY <1>2, <1>5, <2>1 DEF End
  <1>9. RunsInv'
    <2> HIDE DEF size
    <2>1. /\ Run(m_in_buf', End(Len(delivered)) + size)
          /\ Len(m_in_buf') = Len(m_in_buf) - size
      <3>1. size \in 0..Len(m_in_buf)
        BY <1>2, Lengths
      <3>2. Run(m_in_buf, End(Len(delivered)))
        BY <1>1 DEF Inv, RunsInv
      <3> QED
        BY <1>3, <3>1, <3>2, Lengths, RunSplit
    <2>2. End(Len(delivered)) + size + Len(m_in_buf')
            = End(Len(delivered)) + Len(m_in_buf)
      BY <1>2, <2>1, Lengths
    <2>3. /\ Run(m_in_buf', End(Len(delivered))')
          /\ Run(wire', End(Len(delivered))' + Len(m_in_buf'))
          /\ Run(m_out_buf', End(Len(delivered))' + Len(m_in_buf') + Len(wire'))
          /\ End(Len(delivered))' + Len(m_in_buf') + Len(wire') + Len(m_out_buf')
              = End(Len(submitted))
      BY <1>1, <1>5, <1>8, <2>1, <2>2 DEF Inv, RunsInv
    <2>4. End(Len(submitted))' = End(Len(submitted))
      BY <1>5 DEF End
    <2> QED
      BY <2>3, <2>4 DEF RunsInv, Run
  <1>10. ControlInv'
    BY <1>3 DEF Inv, ControlInv, sender
  <1> QED
    BY <1>2, <1>3, <1>5, <1>6, <1>7, <1>9, <1>10 DEF Inv

\* A flush moves bytes from m_out_buf to the wire.
LEMMA FlushKeeps == ASSUME Inv, Flush PROVE Inv'
  <1>1. /\ state' = state /\ state = "connected" /\ greet' = greet
        /\ submitted' = submitted /\ m_in_buf' = m_in_buf
        /\ early' = early /\ reading' = reading /\ delivered' = delivered
    BY DEF Flush, receiver
  <1>2. SubmittedInv' /\ DeliveredInv'
        /\ End(Len(delivered))' = End(Len(delivered))
        /\ End(Len(submitted))' = End(Len(submitted))
    BY <1>1 DEF Inv, SubmittedInv, DeliveredInv, End
  <1>3. CASE m_busy
    <2>1. PICK k \in 0..Len(m_out_buf) : SockTakes(m_out_buf, k)
      BY <1>3 DEF Flush
    <2>2. /\ Run(wire, End(Len(delivered)) + Len(m_in_buf))
          /\ Run(m_out_buf, End(Len(delivered)) + Len(m_in_buf) + Len(wire))
          /\ End(Len(delivered)) + Len(m_in_buf) \in Int
      BY <1>1, Lengths DEF Inv, RunsInv
    <2>3. /\ Run(wire', End(Len(delivered)) + Len(m_in_buf))
          /\ Run(m_out_buf', End(Len(delivered)) + Len(m_in_buf) + Len(wire'))
          /\ Len(wire') + Len(m_out_buf') = Len(wire) + Len(m_out_buf)
          /\ m_busy' \in BOOLEAN /\ nospace' = m_busy'
          /\ m_busy' <=> m_out_buf' # <<>>
      BY <2>1, <2>2, SockTakesRuns
    <2>4. Len(wire') \in Nat /\ Len(m_out_buf') \in Nat
      BY <2>3, LenProperties DEF Run
    <2>5. End(Len(delivered)) + Len(m_in_buf) + Len(wire') + Len(m_out_buf')
            = End(Len(submitted))
      <3>1. End(Len(delivered)) + Len(m_in_buf) + Len(wire) + Len(m_out_buf)
              = End(Len(submitted))
        BY <1>1 DEF Inv, RunsInv
      <3> QED
        BY <2>3, <2>4, <3>1, Lengths
    <2>6. RunsInv'
      BY <1>1, <1>2, <2>3, <2>5 DEF Inv, RunsInv, Run
    <2> QED
      BY <1>1, <1>2, <2>3, <2>6 DEF Inv, ControlInv
  <1>4. CASE ~m_busy
    <2>1. nospace' = FALSE /\ m_busy' = m_busy /\ m_out_buf' = m_out_buf
          /\ wire' = wire
      BY <1>4 DEF Flush
    <2> QED
      BY <1>1, <1>2, <1>4, <2>1 DEF Inv, RunsInv, ControlInv
  <1> QED
    BY <1>3, <1>4

\* recv() moves bytes from the wire to m_in_buf.
LEMMA OnReadKeeps == ASSUME Inv, OnRead PROVE Inv'
  <1>1. PICK n \in 1..Len(wire) :
            /\ m_in_buf' = m_in_buf \o SubSeq(wire, 1, n)
            /\ wire' = SubSeq(wire, n + 1, Len(wire))
    BY DEF OnRead
  <1>2. state # "closed" /\ reading' = TRUE /\ UNCHANGED <<sender, delivered>>
    BY DEF OnRead
  <1>3. SubmittedInv' /\ DeliveredInv' /\ ControlInv'
        /\ End(Len(delivered))' = End(Len(delivered))
        /\ End(Len(submitted))' = End(Len(submitted))
    BY <1>2 DEF Inv, SubmittedInv, DeliveredInv, ControlInv, End, sender
  <1> DEFINE D == End(Len(delivered))
  <1>4. /\ Run(m_in_buf, D) /\ Run(wire, D + Len(m_in_buf))
        /\ Run(m_out_buf, D + Len(m_in_buf) + Len(wire))
        /\ D + Len(m_in_buf) + Len(wire) + Len(m_out_buf) = End(Len(submitted))
    BY <1>2 DEF Inv, RunsInv
  <1>5. D \in Nat /\ n \in 0..Len(wire) /\ Len(m_in_buf) \in Nat
        /\ Len(wire) \in Nat /\ D + Len(m_in_buf) \in Int
    BY Lengths
  <1> HIDE DEF D
  <1>6. /\ Run(SubSeq(wire, 1, n), D + Len(m_in_buf)) /\ Len(SubSeq(wire, 1, n)) = n
        /\ Run(wire', D + Len(m_in_buf) + n) /\ Len(wire') = Len(wire) - n
    BY <1>1, <1>4, <1>5, RunSplit
  <1>7. Run(m_in_buf', D) /\ Len(m_in_buf') = Len(m_in_buf) + n
    BY <1>1, <1>4, <1>5, <1>6, RunConcat
  <1>8. /\ D + Len(m_in_buf) + n = D + Len(m_in_buf')
        /\ D + Len(m_in_buf') + Len(wire') = D + Len(m_in_buf) + Len(wire)
    BY <1>5, <1>6, <1>7
  <1>9. m_out_buf' = m_out_buf
    BY <1>2 DEF sender
  <1>10. RunsInv'
    <2>1. /\ Run(m_in_buf', D) /\ Run(wire', D + Len(m_in_buf'))
          /\ Run(m_out_buf', D + Len(m_in_buf') + Len(wire'))
          /\ D + Len(m_in_buf') + Len(wire') + Len(m_out_buf') = End(Len(submitted))
      BY <1>4, <1>6, <1>7, <1>8, <1>9
    <2> QED
      BY <1>3, <2>1 DEF RunsInv, Run, D
  <1> QED
    BY <1>3, <1>10 DEF Inv

LEMMA InitInv == Init => Inv
  <1> SUFFICES ASSUME Init PROVE Inv
    OBVIOUS
  <1>1. submitted = <<>> /\ delivered = <<>> /\ Len(<<>>) = 0 /\ End(0) = 0
    BY EmptySeq DEF Init, End
  <1>2. SubmittedInv
    BY <1>1 DEF SubmittedInv
  <1>3. DeliveredInv
    BY <1>1 DEF DeliveredInv
  <1>4. RunsInv
    BY <1>1, RunEmpty, EmptySeq DEF Init, RunsInv
  <1>5. ControlInv
    BY DEF Init, ControlInv
  <1> QED
    BY <1>2, <1>3, <1>4, <1>5 DEF Inv

LEMMA NextInv == Inv /\ [Next]_vars => Inv'
  <1> SUFFICES ASSUME Inv, [Next]_vars PROVE Inv'
    OBVIOUS
  <1>1. CASE Send
    <2>1. PICK size \in Sizes : SendPdu(size)
      BY <1>1 DEF Send
    <2>2. state # "closed" /\ greet = 0 /\ UNCHANGED <<state, greet, receiver>>
          /\ early' = (early \/ state = "connecting")
      BY <1>1 DEF Send
    <2>3. /\ SubmittedInv' /\ DeliveredInv' /\ RunsInv'
          /\ m_busy' \in BOOLEAN /\ nospace' \in BOOLEAN
          /\ m_busy' <=> m_out_buf' # <<>>
          /\ ~early /\ state = "connected" /\ m_busy' => nospace'
      BY <2>1, <2>2, SendPduKeeps
    <2> QED
      BY <2>2, <2>3 DEF Inv, ControlInv, receiver
  <1>2. CASE Confirm
    <2>1. SubmittedInv' /\ DeliveredInv' /\ RunsInv'
      BY <1>2 DEF Confirm, Inv, SubmittedInv, DeliveredInv, RunsInv, Run, End, receiver
    <2> QED
      BY <1>2, <2>1, SizesHoldHeader DEF Confirm, Inv, ControlInv, receiver
  <1>3. CASE OnConfirm
    <2>1. PICK size \in Sizes : SendPdu(size)
      BY <1>3 DEF OnConfirm
    <2>2. state = "connected" /\ greet > 0 /\ greet' = greet - 1
          /\ UNCHANGED <<state, early, receiver>>
      BY <1>3 DEF OnConfirm
    <2>3. /\ SubmittedInv' /\ DeliveredInv' /\ RunsInv'
          /\ m_busy' \in BOOLEAN /\ nospace' \in BOOLEAN
          /\ m_busy' <=> m_out_buf' # <<>>
          /\ ~early /\ state = "connected" /\ m_busy' => nospace'
      BY <2>1, <2>2, SendPduKeeps
    <2> QED
      BY <2>2, <2>3 DEF Inv, ControlInv, receiver
  <1>4. CASE OnWrite
    BY <1>4, FlushKeeps DEF OnWrite
  <1>5. CASE OnPeerData
    BY <1>5, FlushKeeps DEF OnPeerData
  <1>6. CASE OnRead
    BY <1>6, OnReadKeeps
  <1>7. CASE ReadPdu
    BY <1>7, ReadPduKeeps
  <1>8. CASE ReadEnds
    BY <1>8 DEF ReadEnds, Inv, SubmittedInv, DeliveredInv, RunsInv, Run, End,
                ControlInv, sender
  <1>9. CASE Break
    <2>1. SubmittedInv' /\ DeliveredInv'
      BY <1>9 DEF Break, Inv, SubmittedInv, DeliveredInv, End
    <2>2. RunsInv'
      BY <1>9, EmptySeq DEF Break, RunsInv
    <2> QED
      BY <1>9, <2>1, <2>2 DEF Break, Inv, ControlInv
  <1>10. CASE UNCHANGED vars
    BY <1>10 DEF vars, sender, receiver, Inv, SubmittedInv, DeliveredInv, RunsInv,
                 Run, End, ControlInv
  <1> QED
    BY <1>1, <1>2, <1>3, <1>4, <1>5, <1>6, <1>7, <1>8, <1>9, <1>10 DEF Next

\* The state of the connection stays within the inductive invariant.
THEOREM Inductive == Spec => []Inv
  BY InitInv, NextInv, PTL DEF Spec

-----------------------------------------------------------------------------
(* What follows from it.                                                   *)

\* m_busy says exactly whether bytes wait in m_out_buf, over direct sends,
\* partial sends, refused sends and flushes (imconn.cpp:82-119, 173-198).
THEOREM BusyIffPendingCorrect == Spec => []BusyIffPending
  <1>1. Inv => BusyIffPending
    BY DEF Inv, ControlInv, BusyIffPending
  <1> QED
    BY <1>1, Inductive, PTL

\* A program that does not send before the connection is confirmed has an
\* EPOLLOUT coming whenever bytes wait (EventDispatch.cpp:93).
THEOREM EventComingCorrect == Spec => []EventComing
  <1>1. Inv => EventComing
    BY DEF Inv, ControlInv, EventComing
  <1> QED
    BY <1>1, Inductive, PTL

\* No byte is lost, duplicated or reordered on the way.
THEOREM StreamIntactCorrect == Spec => []StreamIntact
  <1>1. ASSUME Inv PROVE StreamIntact
    <2> SUFFICES ASSUME state # "closed" PROVE StreamIntact
      BY DEF StreamIntact
    <2> DEFINE D == End(Len(delivered))
               s == m_in_buf \o wire \o m_out_buf
    <2>1. /\ Run(m_in_buf, D) /\ Run(wire, D + Len(m_in_buf))
          /\ Run(m_out_buf, D + Len(m_in_buf) + Len(wire))
          /\ D + Len(m_in_buf) + Len(wire) + Len(m_out_buf) = End(Len(submitted))
          /\ D \in Int
      BY <1>1, Lengths DEF Inv, RunsInv
    <2> HIDE DEF D
    <2>2. Run(m_in_buf \o wire, D)
          /\ Len(m_in_buf \o wire) = Len(m_in_buf) + Len(wire)
      BY <2>1, RunConcat
    <2>3. D + Len(m_in_buf \o wire) = D + Len(m_in_buf) + Len(wire)
      BY <1>1, <2>1, <2>2, Lengths
    <2>4. Run(s, D) /\ Len(s) = Len(m_in_buf) + Len(wire) + Len(m_out_buf)
      BY <2>1, <2>2, <2>3, RunConcat
    <2>5. D + Len(s) = End(Len(submitted))
      BY <1>1, <2>1, <2>4, Lengths
    <2> QED
      BY <2>4, <2>5 DEF StreamIntact, Run, D
  <1> QED
    BY <1>1, Inductive, PTL

\* CImConn over a socket implements a PduChannel: handlers see whole PDUs,
\* once each, in the order in which they were sent.
THEOREM ImplementsChannel == Spec => ChannelSpec
  <1>1. Init => Channel!Init
    BY DEF Init, Channel!Init
  <1>2. Inv /\ [Next]_vars => [Channel!Next]_(Channel!vars)
    <2> SUFFICES ASSUME Inv, [Next]_vars PROVE [Channel!Next]_(Channel!vars)
      OBVIOUS
    <2>1. ASSUME NEW size \in Sizes, SendPdu(size), UNCHANGED receiver
          PROVE  Channel!Submit
      <3>1. /\ Len(submitted') = Len(submitted) + 1
            /\ SubSeq(submitted', 1, Len(submitted)) = submitted
        BY <2>1, SubmitPdu DEF Inv, SendPdu
      <3> QED
        BY <2>1, <3>1, Lengths DEF Channel!Submit, receiver
    <2>2. CASE Send
      BY <2>1, <2>2 DEF Send, Channel!Next
    <2>3. CASE OnConfirm
      BY <2>1, <2>3 DEF OnConfirm, Channel!Next
    <2>4. CASE ReadPdu
      BY <2>4, ReadPduKeeps DEF Channel!Next, Channel!Deliver
    <2>5. CASE UNCHANGED <<submitted, delivered>>
      BY <2>5 DEF Channel!vars
    <2> QED
      BY <2>2, <2>3, <2>4, <2>5 DEF Next, vars, sender, receiver, Confirm, OnWrite,
         OnPeerData, Flush, OnRead, ReadEnds, Break
  <1> QED
    BY <1>1, <1>2, Inductive, PTL DEF Spec, ChannelSpec, Channel!Spec
=============================================================================
