------------------------- MODULE AssetStream_proofs -------------------------
(***************************************************************************)
(* Theorems about AssetStream, for any number of messages.  As long as     *)
(* ClientReceive keeps out, its append counts like one of AssetUpdate: at  *)
(* most one message is written and not yet counted.  The invariants:       *)
(*   Excluded   while everybody is punctual one task is in the buffer;     *)
(*   Appended   where the uncounted message is, and what precedes it;      *)
(*   Ascending, Behind  later messages are behind earlier ones, in the     *)
(*              buffer, in the payload, and from the one to the other;     *)
(*   Promised   what the refinement needs while everybody is punctual;     *)
(*              then each step is one of LossyStream, or changes nothing.  *)
(***************************************************************************)
EXTENDS AssetStream, SequenceTheorems, TLAPS

USE MessagesAssumption DEF Blank

Counting == tick = "count" \/ callback = "count"
Base == IF tick = "count" THEN offset["tick"] ELSE offset["callback"]

\* The places that hold, or are about to hold, messages to be sent.
Extent == IF Counting THEN Base + 1 ELSE length

Alone ==
  ~torn /\ callback # "idle" => tick = "idle" /\ app \in {"idle", "give"}

Excluded == ~late /\ tick # "idle" => app = "idle" /\ semaphoreAssetBuffer = 0

Appended ==
  Counting => /\ Base < MaxMessages /\ data[Base + 1] = written
              /\ length = Base \/ (length = 0 /\ app \in {"idle", "give"})

Written ==
  /\ \A p \in 1..Extent : data[p] <= written
  /\ \A i \in 1..Len(payload) : payload[i] <= written
  /\ \A i \in 1..Len(delivered) : delivered[i] <= written

Ascends(s, places) ==
  \A i, j \in places : i < j /\ s[i] # Blank /\ s[j] # Blank => s[i] < s[j]

Ascending ==
  /\ Ascends(data, 1..Extent)
  /\ Ascends(payload, 1..Len(payload))
  /\ Ascends(delivered, 1..Len(delivered))

\* The messages that wait are behind the delivered ones, ...
Behind ==
  \A p \in 1..Extent, i \in 1..Len(delivered) :
    (app # "erase" \/ p > length) /\ data[p] # Blank => delivered[i] < data[p]

\* ... the payload is behind them too, and what came later behind the payload.
Sending ==
  app = "wait" =>
    /\ Len(payload) <= length
    /\ \A j \in 1..Len(payload), i \in 1..Len(delivered) :
         payload[j] # Blank => delivered[i] < payload[j]
    /\ \A p \in 1..Extent, i \in 1..Len(payload) :
         p > Len(payload) /\ data[p] # Blank => payload[i] < data[p]

Order == Appended /\ Written /\ Ascending /\ Behind /\ Sending

Promised ==
  /\ Counting => length = Base
  /\ app = "wait" => payload = SubSeq(data, 1, length)

-----------------------------------------------------------------------------
LEMMA TypeInit == Init => TypeOK
<1>1. << >> \in Seq(0..MaxMessages)
  BY EmptySeq
<1>2. Init => data \in [Places -> 0..MaxMessages] /\ offset \in [Writers -> 0..MaxMessages]
  BY DEF Init, Blank
<1>3. Init => payload \in Seq(0..MaxMessages) /\ delivered \in Seq(0..MaxMessages)
  BY <1>1 DEF Init
<1>4. Init => /\ length \in 0..MaxMessages /\ semaphoreAssetBuffer \in {0, 1}
              /\ app = "idle" /\ tick = "idle" /\ callback = "idle"
              /\ written \in 0..MaxMessages
  BY DEF Init
<1>5. Init => torn \in BOOLEAN /\ late \in BOOLEAN
  BY Zenon DEF Init
<1> QED BY <1>2, <1>3, <1>4, <1>5 DEF TypeOK

LEMMA TypeStep == TypeOK /\ [Next]_vars => TypeOK'
<1> SUFFICES ASSUME TypeOK, [Next]_vars PROVE TypeOK'
  OBVIOUS
<1> USE DEF TypeOK
<1>1. ASSUME NEW w \in Writers, Put(w)
      PROVE  /\ data' \in [Places -> 0..MaxMessages] /\ length' \in 0..MaxMessages
             /\ payload' \in Seq(0..MaxMessages) /\ delivered' \in Seq(0..MaxMessages)
             /\ offset' \in [Writers -> 0..MaxMessages] /\ written' \in 0..MaxMessages
  BY <1>1 DEF Put, Places
<1>2. ASSUME NEW w \in Writers, Count(w)
      PROVE  /\ data' \in [Places -> 0..MaxMessages] /\ length' \in 0..MaxMessages
             /\ payload' \in Seq(0..MaxMessages) /\ delivered' \in Seq(0..MaxMessages)
             /\ offset' \in [Writers -> 0..MaxMessages] /\ written' \in 0..MaxMessages
  BY <1>2 DEF Count, Places
<1>3. CASE TickTake \/ TickRefused \/ TickGive
  BY <1>3 DEF TickTake, TickRefused, TickGive, TickTo, Take, Give, buffer
<1>4. CASE TickPut
  BY <1>4, <1>1 DEF TickPut, TickTo, Writers
<1>5. CASE TickCount
  BY <1>5, <1>2 DEF TickCount, TickTo, Writers
<1>6. CASE CallbackPut
  BY <1>6, <1>1 DEF CallbackPut, CallbackTo, Writers
<1>7. CASE CallbackCount
  BY <1>7, <1>2 DEF CallbackCount, CallbackTo, Writers
<1>8. CASE PublishTake \/ PublishRefused \/ PublishZero \/ PublishGive
  <2>1. CASE PublishTake
    BY <2>1 DEF PublishTake, AppTo, Take
  <2>2. CASE PublishRefused
    BY <2>2 DEF PublishRefused, AppTo, Give
  <2>3. CASE PublishZero \/ PublishGive
    BY <2>3 DEF PublishZero, PublishGive, AppTo, Give
  <2> QED BY <1>8, <2>1, <2>2, <2>3
<1>9. CASE PublishSend
  <2>1. data \in Seq(0..MaxMessages) /\ Len(data) = MaxMessages
    BY DEF Places
  <2>2. SubSeq(data, 1, length) \in Seq(0..MaxMessages)
    BY <2>1, SubSeqProperties
  <2> QED BY <1>9, <2>2 DEF PublishSend, AppTo
<1>10. CASE PublishDone
  <2>1. delivered \o payload \in Seq(0..MaxMessages) /\ << >> \in Seq(0..MaxMessages)
    BY ConcatProperties
  <2> QED BY <1>10, <2>1 DEF PublishDone, AppTo
<1>11. CASE PublishErase
  BY <1>11 DEF PublishErase, AppTo, Blank, Places
<1>12. CASE UNCHANGED vars
  BY <1>12 DEF vars, buffer
<1> QED BY <1>3, <1>4, <1>5, <1>6, <1>7, <1>8, <1>9, <1>10, <1>11, <1>12 DEF Next

LEMMA ExclusionStep ==
  TypeOK /\ Alone /\ Excluded /\ [Next]_vars => Alone' /\ Excluded'
<1> SUFFICES ASSUME TypeOK, Alone, Excluded, [Next]_vars PROVE Alone' /\ Excluded'
  OBVIOUS
<1> USE DEF TypeOK, Alone, Excluded
<1>1. CASE TickTake \/ TickRefused \/ TickPut \/ TickCount \/ TickGive
  BY <1>1 DEF TickTake, TickRefused, TickPut, TickCount, TickGive, TickTo, Take,
     Give, buffer
<1>2. CASE CallbackPut \/ CallbackCount
  BY <1>2 DEF CallbackPut, CallbackCount, CallbackTo
<1>3. CASE PublishTake
  <2>1. late \/ tick = "idle"
    BY <1>3 DEF PublishTake, Take
  <2>2. UNCHANGED << late, tick, callback >>
    BY <1>3 DEF PublishTake, AppTo
  <2>3. torn' \/ callback = "idle"
    BY <1>3, Zenon DEF PublishTake
  <2> QED BY <2>1, <2>2, <2>3
<1>4. CASE PublishRefused
  BY <1>4 DEF PublishRefused, AppTo, Give
<1>5. CASE PublishSend \/ PublishDone
  BY <1>5 DEF PublishSend, PublishDone, AppTo
<1>6. CASE PublishErase \/ PublishZero \/ PublishGive
  BY <1>6 DEF PublishErase, PublishZero, PublishGive, AppTo, Give
<1>7. CASE UNCHANGED vars
  BY <1>7 DEF vars, buffer
<1> QED BY <1>1, <1>2, <1>3, <1>4, <1>5, <1>6, <1>7 DEF Next

\* The types, the bounds of the buffer included (MQTTOperation.c:704-925).
THEOREM TypeCorrect == Spec => []TypeOK
<1>1. Init => TypeOK
  BY TypeInit
<1>2. TypeOK /\ [Next]_vars => TypeOK'
  BY TypeStep
<1> QED BY <1>1, <1>2, PTL DEF Spec

LEMMA Exclusion == Spec => [](TypeOK /\ Alone /\ Excluded)
<1>1. Init => Alone /\ Excluded
  BY DEF Init, Alone, Excluded
<1>2. TypeOK /\ Alone /\ Excluded /\ [Next]_vars => Alone' /\ Excluded'
  BY ExclusionStep
<1> QED BY <1>1, <1>2, TypeCorrect, PTL DEF Spec

\* One task in the buffer at a time, whoever gives the semaphore, while
\* publications and updates are short (MQTTOperation.c:477-494, 929).
THEOREM TasksExclude == Spec => []MutualExclusion
<1>1. TypeOK /\ Alone /\ Excluded => MutualExclusion
  BY DEF TypeOK, Alone, Excluded, MutualExclusion, InBuffer
<1> QED BY <1>1, Exclusion, PTL

-----------------------------------------------------------------------------
\* A step that leaves ClientReceive out was preceded by none that did not.
LEMMA Kept == [Next]_vars => (torn => torn') /\ (late => late')
<1> SUFFICES ASSUME [Next]_vars PROVE (torn => torn') /\ (late => late')
  OBVIOUS
<1>1. CASE TickTake
  BY <1>1, Zenon DEF TickTake
<1>2. CASE CallbackPut
  <2>1. torn => torn'
    BY <1>2, Zenon DEF CallbackPut
  <2>2. late' = late
    BY <1>2 DEF CallbackPut, CallbackTo
  <2> QED BY <2>1, <2>2
<1>3. CASE PublishTake
  <2>1. torn => torn'
    BY <1>3, Zenon DEF PublishTake
  <2>2. late' = late
    BY <1>3 DEF PublishTake
  <2> QED BY <2>1, <2>2
<1>4. CASE PublishRefused
  <2>1. late => late'
    BY <1>4, Zenon DEF PublishRefused
  <2>2. torn' = torn
    BY <1>4 DEF PublishRefused
  <2> QED BY <2>1, <2>2
<1>5. ASSUME \/ TickRefused \/ TickPut \/ TickCount \/ TickGive
             \/ CallbackCount \/ PublishSend \/ PublishDone \/ PublishErase
             \/ PublishZero \/ PublishGive \/ UNCHANGED vars
      PROVE  torn' = torn /\ late' = late
  BY <1>5 DEF TickRefused, TickPut, TickCount, TickGive, CallbackCount, CallbackTo,
     PublishSend, PublishDone, PublishErase, PublishZero, PublishGive, vars
<1> QED BY <1>1, <1>2, <1>3, <1>4, <1>5 DEF Next

LEMMA Numbers ==
  ASSUME TypeOK, Appended
  PROVE  /\ MaxMessages \in Nat /\ length \in 0..MaxMessages /\ written \in Nat
         /\ Len(payload) \in Nat /\ Len(delivered) \in Nat
         /\ \A p \in 1..MaxMessages : data[p] \in Nat
         /\ \A i \in 1..Len(payload) : payload[i] \in Nat
         /\ \A i \in 1..Len(delivered) : delivered[i] \in Nat
         /\ Base \in 0..MaxMessages /\ Extent \in 0..MaxMessages
         /\ length <= Extent
<1> USE DEF TypeOK
<1>1. ASSUME NEW s \in Seq(0..MaxMessages), NEW i \in 1..Len(s) PROVE s[i] \in Nat
  BY <1>1, ElementOfSeq
<1>2. Len(payload) \in Nat /\ Len(delivered) \in Nat
  BY LenProperties
<1>3. Base \in 0..MaxMessages
  BY DEF Base, Writers
<1>4. Extent \in 0..MaxMessages /\ length <= Extent
  BY <1>3 DEF Extent, Appended
<1> QED BY <1>1, <1>2, <1>3, <1>4 DEF Places

\* A task that puts a message is the only one that does.
LEMMA OrderPut ==
  ASSUME TypeOK, Order, NEW w \in Writers, Put(w), ~Counting,
         Counting', Base' = offset'[w], UNCHANGED app
  PROVE  Order'
<1>1. /\ MaxMessages \in Nat /\ length \in 0..MaxMessages /\ written \in Nat
      /\ Len(payload) \in Nat /\ Len(delivered) \in Nat
      /\ \A p \in 1..MaxMessages : data[p] \in Nat
      /\ \A i \in 1..Len(payload) : payload[i] \in Nat
      /\ \A i \in 1..Len(delivered) : delivered[i] \in Nat
  BY Numbers DEF Order
<1>2. Base' = length /\ Extent' = length + 1 /\ Extent = length
  BY DEF Extent, Put, TypeOK
<1>3. written' = written + 1 /\ data'[length + 1] = written' /\ length < MaxMessages
      /\ \A p \in 1..length : data'[p] = data[p]
  BY <1>1 DEF Put, TypeOK, Places
<1>4. UNCHANGED << length, payload, delivered, app >>
  BY DEF Put
<1>5. \A p \in 1..Extent' :
        \/ p = length + 1 /\ data'[p] = written'
        \/ p \in 1..Extent /\ p <= length /\ data'[p] = data[p]
  BY <1>1, <1>2, <1>3
<1>6. /\ \A p \in 1..Extent : data[p] < written'
      /\ \A i \in 1..Len(payload) : payload[i] < written'
      /\ \A i \in 1..Len(delivered) : delivered[i] < written'
  BY <1>1, <1>2, <1>3 DEF Order, Written
<1>7. Appended'
  BY <1>1, <1>2, <1>3, <1>4 DEF Appended
<1>8. Written'
  BY <1>1, <1>3, <1>4, <1>5, <1>6 DEF Written
<1>9. Ascending'
  <2>1. Ascends(data', 1..Extent')
    BY <1>1, <1>2, <1>5, <1>6 DEF Order, Ascending, Ascends
  <2> QED BY <1>4, <2>1 DEF Order, Ascending
<1>10. Behind'
  BY <1>1, <1>2, <1>4, <1>5, <1>6 DEF Order, Behind
<1>11. Sending'
  BY <1>1, <1>2, <1>4, <1>5, <1>6 DEF Order, Sending
<1> QED BY <1>7, <1>8, <1>9, <1>10, <1>11 DEF Order

LEMMA OrderCount ==
  ASSUME TypeOK, Order, NEW w \in Writers, Count(w), Counting, Base = offset[w],
         ~Counting', UNCHANGED app
  PROVE  Order'
<1>1. /\ MaxMessages \in Nat /\ length \in 0..MaxMessages
      /\ Len(payload) \in Nat /\ Base \in 0..MaxMessages
  BY Numbers DEF Order
<1>2. Extent' = length' /\ Extent = Base + 1 /\ length <= length' /\ length' <= Base + 1
      /\ length' \in Nat
  BY <1>1 DEF Extent, Order, Appended, Count
<1>3. UNCHANGED << data, payload, delivered, written, app >>
  BY DEF Count
<1>4. Appended'
  BY DEF Appended
<1>5. Written'
  BY <1>1, <1>2, <1>3 DEF Order, Written
<1>6. Ascending'
  BY <1>1, <1>2, <1>3 DEF Order, Ascending, Ascends
<1>7. Behind'
  BY <1>1, <1>2, <1>3 DEF Order, Behind
<1>8. Sending'
  BY <1>1, <1>2, <1>3 DEF Order, Sending
<1> QED BY <1>4, <1>5, <1>6, <1>7, <1>8 DEF Order

LEMMA OrderSend ==
  ASSUME TypeOK, Order, PublishSend PROVE Order'
<1>1. /\ MaxMessages \in Nat /\ length \in 0..MaxMessages /\ written \in Nat
      /\ Len(delivered) \in Nat
      /\ \A p \in 1..MaxMessages : data[p] \in Nat
      /\ Extent \in 0..MaxMessages /\ length <= Extent
  BY Numbers DEF Order
<1>2. UNCHANGED << data, length, delivered, written, tick, callback, offset >>
      /\ app = "send" /\ app' = "wait" /\ payload' = SubSeq(data, 1, length)
  BY DEF PublishSend, AppTo
<1>3. Len(payload') = length /\ \A p \in 1..length : payload'[p] = data[p]
  <2>1. /\ Len(payload') = IF 1 <= length THEN length - 1 + 1 ELSE 0
        /\ \A i \in 1..length - 1 + 1 : payload'[i] = data[1 + i - 1]
    BY <1>1, <1>2, SubSeqProperties
  <2> QED BY <1>1, <2>1
<1>4. UNCHANGED << Counting, Base, Extent >>
  BY <1>2 DEF Counting, Base, Extent
<1>5. Appended'
  BY <1>2, <1>4 DEF Order, Appended
<1>6. Written'
  BY <1>1, <1>2, <1>3, <1>4 DEF Order, Written
<1>7. Ascending'
  BY <1>1, <1>2, <1>3, <1>4 DEF Order, Ascending, Ascends
<1>8. Behind'
  BY <1>1, <1>2, <1>3, <1>4 DEF Order, Behind
<1>9. Sending'
  BY <1>1, <1>2, <1>3, <1>4 DEF Order, Behind, Sending, Ascending, Ascends
<1> QED BY <1>5, <1>6, <1>7, <1>8, <1>9 DEF Order

LEMMA OrderDone ==
  ASSUME TypeOK, Order, PublishDone PROVE Order'
<1>1. /\ MaxMessages \in Nat /\ length \in 0..MaxMessages /\ written \in Nat
      /\ Len(payload) \in Nat /\ Len(delivered) \in Nat
      /\ \A p \in 1..MaxMessages : data[p] \in Nat
      /\ \A i \in 1..Len(payload) : payload[i] \in Nat
      /\ \A i \in 1..Len(delivered) : delivered[i] \in Nat
      /\ Extent \in 0..MaxMessages
  BY Numbers DEF Order
<1>2. UNCHANGED << data, length, written, tick, callback, offset >>
      /\ app = "wait" /\ app' = "erase" /\ payload' = << >> /\ Len(payload') = 0
  BY DEF PublishDone, AppTo
<1>3. \/ delivered' = delivered
      \/ /\ Len(delivered') = Len(delivered) + Len(payload)
         /\ \A i \in 1..Len(delivered) + Len(payload) :
              delivered'[i] = IF i <= Len(delivered) THEN delivered[i]
                              ELSE payload[i - Len(delivered)]
  <2>1. CASE delivered' = delivered \o payload
    BY <2>1, ConcatProperties DEF TypeOK
  <2> QED BY <2>1 DEF PublishDone
<1>4. UNCHANGED << Counting, Base, Extent >>
  BY <1>2 DEF Counting, Base, Extent
<1>5. Appended'
  BY <1>2, <1>4 DEF Order, Appended
<1>6. Written'
  BY <1>1, <1>2, <1>3, <1>4 DEF Order, Written
<1>7. Ascending'
  <2>1. Ascends(data', 1..Extent') /\ Ascends(payload', 1..Len(payload'))
    BY <1>1, <1>2, <1>4 DEF Order, Ascending, Ascends
  <2>2. Ascends(delivered', 1..Len(delivered'))
    <3>1. CASE delivered' = delivered
      BY <3>1 DEF Order, Ascending
    <3>2. ASSUME delivered' # delivered,
                 NEW i \in 1..Len(delivered'), NEW j \in 1..Len(delivered'),
                 i < j, delivered'[i] # Blank, delivered'[j] # Blank
          PROVE  delivered'[i] < delivered'[j]
      <4> DEFINE k(n) == n - Len(delivered)
      <4>1. CASE j <= Len(delivered)
        <5>1. i \in 1..Len(delivered) /\ j \in 1..Len(delivered)
          BY <1>1, <1>3, <3>2, <4>1
        <5>2. delivered'[i] = delivered[i] /\ delivered'[j] = delivered[j]
          BY <1>1, <1>3, <3>2, <5>1
        <5> QED BY <3>2, <5>1, <5>2 DEF Order, Ascending, Ascends
      <4>2. CASE i > Len(delivered)
        <5>1. k(i) \in 1..Len(payload) /\ k(j) \in 1..Len(payload) /\ k(i) < k(j)
          BY <1>1, <1>3, <3>2, <4>2
        <5>2. delivered'[i] = payload[k(i)] /\ delivered'[j] = payload[k(j)]
          <6>1. ~(i <= Len(delivered)) /\ ~(j <= Len(delivered))
                /\ i \in 1..Len(delivered) + Len(payload)
                /\ j \in 1..Len(delivered) + Len(payload)
            BY <1>1, <1>3, <3>2, <4>2
          <6> QED BY <1>3, <3>2, <6>1
        <5> QED BY <3>2, <5>1, <5>2 DEF Order, Ascending, Ascends
      <4>3. CASE i <= Len(delivered) /\ j > Len(delivered)
        <5>1. /\ i \in 1..Len(delivered) /\ k(j) \in 1..Len(payload)
              /\ ~(j <= Len(delivered))
              /\ i \in 1..Len(delivered) + Len(payload)
              /\ j \in 1..Len(delivered) + Len(payload)
          BY <1>1, <1>3, <3>2, <4>3
        <5>2. delivered'[i] = delivered[i] /\ delivered'[j] = payload[k(j)]
          BY <1>3, <3>2, <4>3, <5>1
        <5> QED BY <1>2, <3>2, <5>1, <5>2 DEF Order, Sending
      <4> QED BY <1>1, <1>3, <3>2, <4>1, <4>2, <4>3
    <3> QED BY <3>1, <3>2 DEF Ascends
  <2> QED BY <2>1, <2>2 DEF Ascending
<1>8. Behind'
  <2>1. ASSUME NEW p \in 1..Extent, NEW i \in 1..Len(delivered'),
               p > length, data[p] # Blank
        PROVE  delivered'[i] < data[p]
    <3>1. \A k \in 1..Len(delivered) : delivered[k] < data[p]
      BY <1>2, <2>1 DEF Order, Behind
    <3>2. \A k \in 1..Len(payload) : payload[k] < data[p]
      BY <1>1, <1>2, <2>1 DEF Order, Sending
    <3>3. CASE delivered' = delivered
      BY <2>1, <3>1, <3>3
    <3>4. CASE delivered' # delivered
      <4>1. i \in 1..Len(delivered) + Len(payload)
        BY <1>3, <2>1, <3>4
      <4>2. CASE i <= Len(delivered)
        BY <1>1, <1>3, <3>1, <3>4, <4>1, <4>2
      <4>3. CASE i > Len(delivered)
        BY <1>1, <1>3, <3>2, <3>4, <4>1, <4>3
      <4> QED BY <1>1, <4>1, <4>2, <4>3
    <3> QED BY <3>3, <3>4
  <2> QED BY <1>2, <1>4, <2>1 DEF Behind
<1>9. Sending'
  BY <1>2 DEF Sending
<1> QED BY <1>5, <1>6, <1>7, <1>8, <1>9 DEF Order

LEMMA OrderErase ==
  ASSUME TypeOK, Order, PublishErase \/ PublishZero PROVE Order'
<1>1. /\ MaxMessages \in Nat /\ length \in 0..MaxMessages /\ written \in Nat
      /\ Len(payload) \in Nat /\ Len(delivered) \in Nat
      /\ \A p \in 1..MaxMessages : data[p] \in Nat
      /\ Base \in 0..MaxMessages
      /\ Extent \in 0..MaxMessages /\ length <= Extent
  BY Numbers DEF Order
<1>2. UNCHANGED << written, tick, callback, offset, payload, delivered, Counting, Base >>
      /\ app' # "wait" /\ app' # "erase" /\ app \notin {"idle", "give"}
  BY DEF PublishErase, PublishZero, AppTo, Counting, Base
<1>3. CASE PublishErase
  <2>1. UNCHANGED << length, Extent >>
    BY <1>2, <1>3 DEF PublishErase, Extent
  <2>2. \A p \in 1..MaxMessages : data'[p] = IF p <= length THEN Blank ELSE data[p]
    BY <1>3 DEF PublishErase, Places
  <2>3. Appended'
    BY <1>1, <1>2, <2>1, <2>2 DEF Order, Appended
  <2>4. Written'
    BY <1>1, <1>2, <2>1, <2>2 DEF Order, Written, Blank
  <2>5. Ascending'
    BY <1>1, <1>2, <2>1, <2>2 DEF Order, Ascending, Ascends
  <2>6. Behind'
    BY <1>1, <1>2, <2>1, <2>2 DEF Order, Behind
  <2>7. Sending'
    BY <1>2 DEF Sending
  <2> QED BY <2>3, <2>4, <2>5, <2>6, <2>7 DEF Order
<1>4. CASE PublishZero
  <2>1. length' = 0 /\ app = "zero" /\ app' = "give" /\ UNCHANGED data
    BY <1>4 DEF PublishZero, AppTo
  <2>2. Extent' = IF Counting THEN Extent ELSE 0
    BY <1>2, <2>1 DEF Extent
  <2>3. Appended'
    BY <1>2, <2>1 DEF Order, Appended
  <2>4. Written'
    BY <1>1, <1>2, <2>1, <2>2 DEF Order, Written
  <2>5. Ascending'
    BY <1>1, <1>2, <2>1, <2>2 DEF Order, Ascending, Ascends
  <2>6. Behind'
    BY <1>1, <1>2, <2>1, <2>2 DEF Order, Behind
  <2>7. Sending'
    BY <1>2 DEF Sending
  <2> QED BY <2>3, <2>4, <2>5, <2>6, <2>7 DEF Order
<1> QED BY <1>3, <1>4

LEMMA OrderQuiet ==
  ASSUME TypeOK, Order,
         UNCHANGED << data, length, payload, delivered, offset, written, callback >>,
         tick' = tick \/ (tick # "count" /\ tick' # "count"),
         app' = app \/ (app # "erase" /\ app' \in {"send", "idle"}),
         app' # app /\ app' = "send" => length > 0
  PROVE  Order'
<1>1. UNCHANGED << data, length, payload, delivered, written, Counting, Base, Extent >>
  BY DEF Counting, Base, Extent
<1>2. Appended'
  BY <1>1 DEF Order, Appended, TypeOK
<1>3. Written' /\ Ascending'
  BY <1>1 DEF Order, Written, Ascending
<1>4. Behind' /\ Sending'
  BY <1>1 DEF Order, Behind, Sending
<1> QED BY <1>2, <1>3, <1>4 DEF Order

LEMMA OrderStep ==
  ASSUME TypeOK, Alone, Order, [Next]_vars, ~torn, ~torn'
  PROVE  Order'
<1>1. CASE TickTake \/ TickRefused \/ TickGive
  <2>1. /\ UNCHANGED << data, length, payload, delivered, offset, written, callback, app >>
        /\ tick # "count" /\ tick' # "count"
    BY <1>1 DEF TickTake, TickRefused, TickGive, TickTo, buffer
  <2> QED BY <2>1, OrderQuiet
<1>2. CASE TickPut
  <2>1. callback = "idle" /\ tick = "write"
    BY <1>2 DEF Alone, TickPut, TickTo, TypeOK
  <2>2. /\ ~Counting /\ Counting' /\ Base' = offset'["tick"]
        /\ Put("tick") /\ UNCHANGED app
    BY <1>2, <2>1 DEF Counting, Base, TickPut, TickTo
  <2> QED BY <2>2, OrderPut DEF Writers
<1>3. CASE TickCount
  <2>1. callback = "idle"
    BY <1>3 DEF Alone, TickCount, TickTo, TypeOK
  <2>2. /\ Counting /\ ~Counting' /\ Base = offset["tick"]
        /\ Count("tick") /\ UNCHANGED app
    BY <1>3, <2>1 DEF Counting, Base, TickCount, TickTo
  <2> QED BY <2>2, OrderCount DEF Writers
<1>4. CASE CallbackPut
  <2>1. tick = "idle"
    BY <1>4, Zenon DEF CallbackPut
  <2>2. /\ ~Counting /\ Counting' /\ Base' = offset'["callback"]
        /\ Put("callback") /\ UNCHANGED app
    BY <1>4, <2>1 DEF Counting, Base, CallbackPut, CallbackTo
  <2> QED BY <2>2, OrderPut DEF Writers
<1>5. CASE CallbackCount
  <2>1. tick = "idle"
    BY <1>5 DEF Alone, CallbackCount, CallbackTo, TypeOK
  <2>2. /\ Counting /\ ~Counting' /\ Base = offset["callback"]
        /\ Count("callback") /\ UNCHANGED app
    BY <1>5, <2>1 DEF Counting, Base, CallbackCount, CallbackTo
  <2> QED BY <2>2, OrderCount DEF Writers
<1>6. CASE PublishTake \/ PublishRefused \/ PublishGive
  <2>1. /\ UNCHANGED << data, length, payload, delivered, offset, written, callback, tick >>
        /\ app # "erase" /\ app' \in {"send", "idle"}
        /\ app' = "send" => length > 0
    BY <1>6 DEF PublishTake, PublishRefused, PublishGive, AppTo
  <2> QED BY <2>1, OrderQuiet
<1>7. CASE PublishSend \/ PublishDone
  BY <1>7, OrderSend, OrderDone
<1>8. CASE PublishErase \/ PublishZero
  BY <1>8, OrderErase
<1>9. CASE UNCHANGED vars
  <2>1. UNCHANGED << data, length, payload, delivered, offset, written, callback, tick, app >>
    BY <1>9 DEF vars, buffer
  <2> QED BY <2>1, OrderQuiet
<1> QED BY <1>1, <1>2, <1>3, <1>4, <1>5, <1>6, <1>7, <1>8, <1>9 DEF Next

LEMMA Ordered == Spec => [](TypeOK /\ Alone /\ Excluded /\ (torn \/ Order))
<1>1. Init => Order
  <2> SUFFICES ASSUME Init PROVE Order
    OBVIOUS
  <2>1. ~Counting /\ Extent = 0 /\ app = "idle" /\ Len(payload) = 0 /\ Len(delivered) = 0
    BY DEF Init, Counting, Extent
  <2> QED BY <2>1 DEF Order, Appended, Written, Ascending, Ascends, Behind, Sending
<1>2. /\ TypeOK /\ Alone /\ Excluded /\ (torn \/ Order)
      /\ [Next]_vars
      => (torn \/ Order)'
  BY OrderStep, Kept
<1> QED BY <1>1, <1>2, Exclusion, PTL DEF Spec

\* Cumulocity gets the messages in the order in which they were written, each
\* at most once, while ClientReceive finds nobody in the buffer; publications
\* and updates may overlap at will (MQTTOperation.c:477-494, 704-929).
THEOREM OrderHolds == Spec => []DeliveredInOrder
<1>1. TypeOK /\ (torn \/ Order) => DeliveredInOrder
  <2> SUFFICES ASSUME TypeOK, ~torn, Order PROVE DeliveredInOrder
    BY Zenon DEF DeliveredInOrder
  <2>1. DOMAIN delivered = 1..Len(delivered)
    BY LenProperties DEF TypeOK
  <2> QED BY <2>1 DEF Order, Ascending, Ascends, DeliveredInOrder, Arrived
<1> QED BY <1>1, Ordered, PTL

-----------------------------------------------------------------------------
\* What LossyStream is given for its variables.
Waiting == IF app \in {"erase", "zero"} THEN << >> ELSE SubSeq(data, 1, length)
Counted == written - Uncounted

Steps ==
  \/ Counted' = Counted + 1 /\ Waiting' = Append(Waiting, Counted') /\ delivered' = delivered
  \/ delivered' = delivered \o Waiting /\ Waiting' = << >> /\ Counted' = Counted
  \/ Waiting' = << >> /\ Counted' = Counted /\ delivered' = delivered
  \/ UNCHANGED << Counted, Waiting, delivered >>

LEMMA StepsImplement == Steps => Stream!Next \/ UNCHANGED Stream!streamVars
  BY DEF Steps, Stream!Next, Stream!Write, Stream!Deliver, Stream!Lose,
     Stream!streamVars, Waiting, Counted

LEMMA SameStart ==
  ASSUME NEW s \in [1..MaxMessages -> 0..MaxMessages],
         NEW t \in [1..MaxMessages -> 0..MaxMessages],
         NEW n \in 0..MaxMessages, \A p \in 1..n : s[p] = t[p]
  PROVE  SubSeq(s, 1, n) = SubSeq(t, 1, n)
<1>1. /\ SubSeq(s, 1, n) \in Seq(0..MaxMessages)
      /\ Len(SubSeq(s, 1, n)) = IF 1 <= n THEN n - 1 + 1 ELSE 0
      /\ \A i \in 1..n - 1 + 1 : SubSeq(s, 1, n)[i] = s[1 + i - 1]
  BY SubSeqProperties
<1>2. /\ SubSeq(t, 1, n) \in Seq(0..MaxMessages)
      /\ Len(SubSeq(t, 1, n)) = IF 1 <= n THEN n - 1 + 1 ELSE 0
      /\ \A i \in 1..n - 1 + 1 : SubSeq(t, 1, n)[i] = t[1 + i - 1]
  BY SubSeqProperties
<1>3. \A i \in 1..n : SubSeq(s, 1, n)[i] = SubSeq(t, 1, n)[i]
  BY <1>1, <1>2
<1> QED BY <1>1, <1>2, <1>3, SeqEqual

LEMMA LongerStart ==
  ASSUME NEW s \in [1..MaxMessages -> 0..MaxMessages],
         NEW n \in 0..MaxMessages, n < MaxMessages
  PROVE  SubSeq(s, 1, n + 1) = Append(SubSeq(s, 1, n), s[n + 1])
<1>1. s \in Seq(0..MaxMessages) /\ Len(s) = MaxMessages
  OBVIOUS
<1>2. SubSeq(s, 1, n + 1) = SubSeq(s, 1, n + 1 - 1) \o << s[n + 1] >>
  BY <1>1, SubSeqRecursiveSecond
<1>3. n + 1 - 1 = n /\ s[n + 1] \in 0..MaxMessages
  OBVIOUS
<1>4. SubSeq(s, 1, n) \in Seq(0..MaxMessages)
  BY SubSeqProperties
<1> QED BY <1>2, <1>3, <1>4, AppendIsConcat

LEMMA RefinesPut ==
  ASSUME TypeOK, NEW w \in Writers, Put(w), ~Counting, Counting', Base' = offset'[w],
         UNCHANGED app, app \in {"idle", "give"}
  PROVE  Promised' /\ Steps
<1>1. length \in Nat /\ UNCHANGED << length, delivered, app >>
      /\ length' = Base' /\ length < MaxMessages /\ Counted' = Counted
  BY DEF Put, TypeOK, Counted, Uncounted, Counting
<1>2. /\ data \in [Places -> 0..MaxMessages] /\ data' \in [Places -> 0..MaxMessages]
      /\ \A p \in 1..length : p \in 1..MaxMessages /\ data'[p] = data[p]
  BY <1>1 DEF Put, TypeOK, Places
<1>3. SubSeq(data', 1, length) = SubSeq(data, 1, length)
  BY <1>1, <1>2, SameStart DEF Places
<1> QED BY <1>1, <1>3 DEF Promised, Steps, Waiting

LEMMA RefinesCount ==
  ASSUME TypeOK, Appended, Promised, NEW w \in Writers, Count(w), Counting,
         Base = offset[w], ~Counting', UNCHANGED app, app \in {"idle", "give"}
  PROVE  Promised' /\ Steps
<1>1. /\ length \in Nat /\ length' = length + 1 /\ length < MaxMessages
      /\ data[length + 1] = written /\ UNCHANGED << data, delivered, written, app >>
  BY DEF Count, TypeOK, Appended, Promised
<1>2. Counted' = written /\ Counted' = Counted + 1
  BY <1>1 DEF Counted, Uncounted, Counting, TypeOK
<1>3. SubSeq(data, 1, length + 1) = Append(SubSeq(data, 1, length), data[length + 1])
  BY <1>1, LongerStart DEF TypeOK, Places
<1> QED BY <1>1, <1>2, <1>3 DEF Promised, Steps, Waiting

\* The buffer starts as the stream does.
LEMMA StreamStarts == Init => Stream!Init
<1> SUFFICES ASSUME Init PROVE Counted = 0 /\ Waiting = << >> /\ delivered = << >>
  BY DEF Stream!Init, Counted, Waiting
<1>1. SubSeq(data, 1, 0) = << >>
  BY SubSeqEmpty
<1> QED BY <1>1 DEF Init, Counted, Uncounted, Waiting

LEMMA RefinesQuiet ==
  ASSUME Promised, UNCHANGED << data, length, payload, delivered, offset, written, callback >>,
         tick' = tick \/ (tick # "count" /\ tick' # "count"),
         app' = app \/ (app \notin {"erase", "zero"} /\ app' \in {"send", "idle"})
  PROVE  Promised' /\ Steps
<1>1. UNCHANGED << Counting, Base, Counted, Waiting >>
  BY DEF Counting, Base, Counted, Uncounted, Waiting
<1> QED BY <1>1 DEF Promised, Steps

LEMMA RefinesStep ==
  ASSUME TypeOK, Alone, Excluded, Order, Promised, [Next]_vars, ~torn, ~late, ~torn'
  PROVE  Promised' /\ Steps
<1>1. CASE TickTake \/ TickRefused \/ TickGive
  <2>1. /\ UNCHANGED << data, length, payload, delivered, offset, written, callback, app >>
        /\ tick # "count" /\ tick' # "count"
    BY <1>1 DEF TickTake, TickRefused, TickGive, TickTo, buffer
  <2> QED BY <2>1, RefinesQuiet
<1>2. CASE TickPut
  <2>1. callback = "idle" /\ tick = "write" /\ app = "idle"
    BY <1>2 DEF Alone, Excluded, TickPut, TickTo, TypeOK
  <2>2. /\ ~Counting /\ Counting' /\ Base' = offset'["tick"]
        /\ Put("tick") /\ UNCHANGED app
    BY <1>2, <2>1 DEF Counting, Base, TickPut, TickTo
  <2> QED BY <2>1, <2>2, RefinesPut DEF Writers
<1>3. CASE TickCount
  <2>1. callback = "idle" /\ app = "idle"
    BY <1>3 DEF Alone, Excluded, TickCount, TickTo, TypeOK
  <2>2. /\ Counting /\ ~Counting' /\ Base = offset["tick"]
        /\ Count("tick") /\ UNCHANGED app
    BY <1>3, <2>1 DEF Counting, Base, TickCount, TickTo
  <2> QED BY <2>1, <2>2, RefinesCount DEF Writers, Order
<1>4. CASE CallbackPut
  <2>1. tick = "idle" /\ app \in {"idle", "give"}
    BY <1>4, Zenon DEF CallbackPut
  <2>2. /\ ~Counting /\ Counting' /\ Base' = offset'["callback"]
        /\ Put("callback") /\ UNCHANGED app
    BY <1>4, <2>1 DEF Counting, Base, CallbackPut, CallbackTo
  <2> QED BY <2>1, <2>2, RefinesPut DEF Writers
<1>5. CASE CallbackCount
  <2>1. tick = "idle" /\ app \in {"idle", "give"}
    BY <1>5 DEF Alone, CallbackCount, CallbackTo, TypeOK
  <2>2. /\ Counting /\ ~Counting' /\ Base = offset["callback"]
        /\ Count("callback") /\ UNCHANGED app
    BY <1>5, <2>1 DEF Counting, Base, CallbackCount, CallbackTo
  <2> QED BY <2>1, <2>2, RefinesCount DEF Writers, Order
<1>6. CASE PublishTake \/ PublishRefused \/ PublishGive
  <2>1. /\ UNCHANGED << data, length, payload, delivered, offset, written, callback, tick >>
        /\ app \notin {"erase", "zero"} /\ app' \in {"send", "idle"}
    BY <1>6 DEF PublishTake, PublishRefused, PublishGive, AppTo
  <2> QED BY <2>1, RefinesQuiet
<1>7. ASSUME PublishSend \/ PublishDone \/ PublishErase \/ PublishZero
      PROVE  Promised' /\ Steps
  <2>1. app \notin {"idle", "give"} /\ ~Counting
    BY <1>7 DEF PublishSend, PublishDone, PublishErase, PublishZero, AppTo,
       Alone, Excluded, Counting, TypeOK
  <2>2. ~Counting' /\ UNCHANGED << Counted, written >>
    BY <1>7, <2>1 DEF PublishSend, PublishDone, PublishErase, PublishZero, AppTo,
       Counting, Counted, Uncounted
  <2>3. CASE PublishSend
    BY <2>2, <2>3 DEF PublishSend, AppTo, Promised, Steps, Waiting
  <2>4. CASE PublishDone
    BY <2>2, <2>4 DEF PublishDone, AppTo, Promised, Steps, Waiting
  <2>5. CASE PublishErase
    BY <2>2, <2>5 DEF PublishErase, AppTo, Promised, Steps, Waiting
  <2>6. CASE PublishZero
    <3>1. SubSeq(data', 1, 0) = << >>
      BY SubSeqEmpty
    <3> QED BY <2>2, <2>6, <3>1 DEF PublishZero, AppTo, Promised, Steps, Waiting
  <2> QED BY <1>7, <2>3, <2>4, <2>5, <2>6
<1>8. CASE UNCHANGED vars
  <2>1. UNCHANGED << data, length, payload, delivered, offset, written, callback, tick, app >>
    BY <1>8 DEF vars, buffer
  <2> QED BY <2>1, RefinesQuiet
<1> QED BY <1>1, <1>2, <1>3, <1>4, <1>5, <1>6, <1>7, <1>8 DEF Next

\* The buffer implements the lossy stream, for any number of messages, until the
\* first long publication or update and the first message on the error topic
\* that meets another task in the buffer (MQTTOperation.c:477-494, 704-929).
THEOREM StreamImplemented == Spec => Stream!Init /\ ImplementsStream
<1> DEFINE Inv == /\ TypeOK /\ Alone /\ Excluded /\ (torn \/ Order)
                  /\ (torn \/ late \/ Promised)
<1>1. Init => Promised
  BY DEF Init, Promised, Counting
<1>2. Inv /\ [Next]_vars => (torn \/ late \/ Promised)'
  BY RefinesStep, Kept
<1>3. Inv /\ [Next]_vars
      => [~late' /\ ~torn' => Stream!Next \/ UNCHANGED Stream!streamVars]_vars
  <2> SUFFICES ASSUME Inv, [Next]_vars, ~late', ~torn'
               PROVE  Stream!Next \/ UNCHANGED Stream!streamVars
    OBVIOUS
  <2>1. ~torn /\ ~late
    BY Kept
  <2> QED BY <2>1, RefinesStep, StepsImplement
<1> QED BY <1>1, <1>2, <1>3, Ordered, StreamStarts, PTL DEF Spec, ImplementsStream

=============================================================================
