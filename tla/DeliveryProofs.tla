---------------------------- MODULE DeliveryProofs ----------------------------
(***************************************************************************)
(* Delivery keeps its promises: proofs of the safety properties of module  *)
(* Delivery for any messages, partitions, consumers, relays and number of  *)
(* faults.                                                                 *)
(***************************************************************************)
EXTENDS DeliveryInvariant, SequenceTheorems, TLAPS

(***************************************************************************)
(* The topic.                                                              *)
(***************************************************************************)
\* What a message in the topic is.
LEMMA LogType ==
    ASSUME K_TypeOK
    PROVE  /\ \A p \in Partition : Len(log[p]) \in Nat
           /\ \A p \in Partition : \A i \in 1 .. Len(log[p]) : log[p][i] \in Message
           /\ Published \subseteq Message
  BY ElementOfSeq, LenProperties DEF K_TypeOK, Published

\* A message that is sent is added, and every other stays where it is.
LEMMA SendAppends ==
    ASSUME K_TypeOK, NEW m \in Message, Send(m)
    PROVE  /\ log' \in [Partition -> Seq(Message)]
           /\ \A p \in Partition :
                 /\ Len(log'[p]) \in Nat
                 /\ Len(log[p]) <= Len(log'[p])
                 /\ \A i \in 1 .. Len(log[p]) : log'[p][i] = log[p][i]
           /\ Published' = Published \cup {m}
<1>1. PICK q \in Partition : log' = [log EXCEPT ![q] = Append(@, m)]
  BY DEF Send
<1>2. log \in [Partition -> Seq(Message)]
  BY DEF K_TypeOK
<1>3. log'[q] = Append(log[q], m) /\ \A p \in Partition \ {q} : log'[p] = log[p]
  BY <1>1, <1>2
<1>4. /\ log'[q] \in Seq(Message)
      /\ Len(log'[q]) = Len(log[q]) + 1
      /\ \A i \in 1 .. Len(log[q]) : log'[q][i] = log[q][i]
      /\ log'[q][Len(log[q]) + 1] = m
  <2>1. log[q] \in Seq(Message)
    BY <1>2
  <2>2. /\ Append(log[q], m) \in Seq(Message)
        /\ Len(Append(log[q], m)) = Len(log[q]) + 1
        /\ \A i \in 1 .. Len(log[q]) : Append(log[q], m)[i] = log[q][i]
        /\ Append(log[q], m)[Len(log[q]) + 1] = m
    BY <2>1, AppendProperties
  <2> QED
    BY <2>2, <1>3, Zenon
<1>5. \A p \in Partition : Len(log[p]) \in Nat
  BY LogType
<1>6. Published' = Published \cup {m}
  <2>1. ASSUME NEW k \in Published
        PROVE  k \in Published'
    <3>1. k \in Message
      BY DEF Published
    <3>2. PICK p \in Partition : \E i \in 1 .. Len(log[p]) : log[p][i] = k
      BY DEF Published
    <3>3. PICK i \in 1 .. Len(log[p]) : log[p][i] = k
      BY <3>2
    <3>4. i \in 1 .. Len(log'[p]) /\ log'[p][i] = k
      <4>1. CASE p = q
        BY <4>1, <3>3, <1>4, <1>5
      <4>2. CASE p # q
        BY <4>2, <3>3, <1>3
      <4> QED
        BY <4>1, <4>2
    <3>5. \E x \in Partition : \E j \in 1 .. Len(log'[x]) : log'[x][j] = k
      BY <3>4
    <3> QED
      BY <3>1, <3>5 DEF Published
  <2>2. m \in Published'
    <3>1. Len(log[q]) + 1 \in 1 .. Len(log'[q]) /\ log'[q][Len(log[q]) + 1] = m
      BY <1>4, <1>5
    <3>2. \E x \in Partition : \E j \in 1 .. Len(log'[x]) : log'[x][j] = m
      BY <3>1
    <3> QED
      BY <3>2 DEF Published
  <2>3. ASSUME NEW k \in Published', k # m
        PROVE  k \in Published
    <3>1. k \in Message
      BY DEF Published
    <3>2. PICK p \in Partition : \E i \in 1 .. Len(log'[p]) : log'[p][i] = k
      BY DEF Published
    <3>3. PICK i \in 1 .. Len(log'[p]) : log'[p][i] = k
      BY <3>2
    <3>4. i \in 1 .. Len(log[p]) /\ log[p][i] = k
      <4>1. CASE p = q
        BY <4>1, <3>3, <2>3, <1>4, <1>5
      <4>2. CASE p # q
        BY <4>2, <3>3, <1>3
      <4> QED
        BY <4>1, <4>2
    <3>5. \E x \in Partition : \E j \in 1 .. Len(log[x]) : log[x][j] = k
      BY <3>4
    <3> QED
      BY <3>1, <3>5 DEF Published
  <2> QED
    BY <2>1, <2>2, <2>3
<1>7. log' \in [Partition -> Seq(Message)]
  BY <1>1, <1>2, <1>3, <1>4
<1>8. ASSUME NEW p \in Partition
      PROVE  /\ Len(log'[p]) \in Nat
             /\ Len(log[p]) <= Len(log'[p])
             /\ \A i \in 1 .. Len(log[p]) : log'[p][i] = log[p][i]
  <2>1. CASE p = q
    BY <2>1, <1>4, <1>5
  <2>2. CASE p # q
    BY <2>2, <1>3, <1>5
  <2> QED
    BY <2>1, <2>2
<1> QED
  BY <1>6, <1>7, <1>8

(***************************************************************************)
(* The consumers.                                                          *)
(***************************************************************************)
\* What the work of a consumer is.
LEMMA WorkType ==
    ASSUME K_TypeOK, C_TypeOK, NEW c \in Consumer, work[c] # Idle
    PROVE  /\ work[c] \in [part : Partition, at : Nat \ {0}, phase : Phase]
           /\ work[c].at \in 1 .. Len(log[work[c].part])
           /\ MessageOf(c) \in Message
<1>1. work[c] \in [part : Partition, at : Nat \ {0}, phase : Phase]
  BY DEF C_TypeOK
<1>2. work[c].at \in 1 .. Len(log[work[c].part])
  BY <1>1, LogType DEF C_TypeOK
<1> QED
  BY <1>1, <1>2, LogType DEF MessageOf

\* A consumer that goes on stays with its message.
LEMMA MoveWork ==
    ASSUME C_TypeOK, NEW c \in Consumer, work[c] # Idle, NEW phase \in Phase, Move(c, phase)
    PROVE  /\ work' \in [Consumer -> {Idle} \cup [part : Partition, at : Nat \ {0}, phase : Phase]]
           /\ work'[c] # Idle
           /\ work'[c].part = work[c].part
           /\ work'[c].at = work[c].at
           /\ work'[c].phase = phase
           /\ \A d \in Consumer \ {c} : work'[d] = work[d]
<1>1. work[c] \in [part : Partition, at : Nat \ {0}, phase : Phase]
  BY DEF C_TypeOK
<1>2. work' = [work EXCEPT ![c] = [work[c] EXCEPT !.phase = phase]]
  BY DEF Move
<1>3. /\ [work[c] EXCEPT !.phase = phase] \in [part : Partition, at : Nat \ {0}, phase : Phase]
      /\ [work[c] EXCEPT !.phase = phase].part = work[c].part
      /\ [work[c] EXCEPT !.phase = phase].at = work[c].at
      /\ [work[c] EXCEPT !.phase = phase].phase = phase
  BY <1>1
<1>4. work \in [Consumer -> {Idle} \cup [part : Partition, at : Nat \ {0}, phase : Phase]]
  BY DEF C_TypeOK
<1>5. work'[c] = [work[c] EXCEPT !.phase = phase] /\ \A d \in Consumer \ {c} : work'[d] = work[d]
  BY <1>2, <1>4
<1>6. work'[c] # Idle
  BY <1>3, <1>5 DEF Idle, Phase
<1> QED
  BY <1>2, <1>3, <1>4, <1>5, <1>6

\* What is settled stays settled when sets of ids grow and the topic stays.
LEMMA SettledStays ==
    ASSUME inbox \subseteq inbox', dead \subseteq dead', spoiled \subseteq spoiled', UNCHANGED log
    PROVE  /\ \A m : Settled(m) => Settled(m)'
           /\ \A p, n : SettledBefore(p, n) => SettledBefore(p, n)'
  BY DEF Settled, SettledBefore

\* A step of a consumer that stays with its message keeps all but the accounts
\* of inbox and effects, if the message is settled when it is done.
LEMMA MoveKeeps ==
    ASSUME ConsumerInv, NEW c \in Consumer, work[c] # Idle,
           NEW phase \in Phase, Move(c, phase), UNCHANGED kafkaVars,
           inbox \subseteq inbox', inbox' \subseteq Message,
           dead \subseteq dead', dead' \subseteq Message,
           spoiled \subseteq spoiled', spoiled' \subseteq Message,
           effects' \in [Message -> Nat],
           phase = "done" => MessageOf(c) \in inbox' \cup dead' \cup spoiled'
    PROVE  /\ K_TypeOK' /\ C_TypeOK' /\ OffsetOK' /\ CursorOK' /\ WorkOK'
           /\ \A d \in Consumer : work[d] # Idle => MessageOf(d)' = MessageOf(d)
           /\ \A d \in Consumer \ {c} : work'[d] = work[d]
           /\ work'[c].phase = phase
<1> USE DEF ConsumerInv
<1>1. /\ work' \in [Consumer -> {Idle} \cup [part : Partition, at : Nat \ {0}, phase : Phase]]
      /\ work'[c] # Idle
      /\ work'[c].part = work[c].part
      /\ work'[c].at = work[c].at
      /\ work'[c].phase = phase
      /\ \A d \in Consumer \ {c} : work'[d] = work[d]
  BY MoveWork
<1>2. UNCHANGED <<log, owner, cursor, offset>>
  BY DEF kafkaVars
<1>3. \A d \in Consumer :
          /\ work'[d] # Idle <=> work[d] # Idle
          /\ work[d] # Idle => work'[d].part = work[d].part /\ work'[d].at = work[d].at
  BY <1>1
<1>4. \A d \in Consumer : work[d] # Idle => MessageOf(d)' = MessageOf(d)
  BY <1>2, <1>3 DEF MessageOf
<1>5. /\ \A m : Settled(m) => Settled(m)'
      /\ \A p, n : SettledBefore(p, n) => SettledBefore(p, n)'
  BY <1>2, SettledStays
<1>6. K_TypeOK'
  BY <1>2 DEF K_TypeOK
<1>7. C_TypeOK'
  BY <1>1, <1>2, <1>3 DEF C_TypeOK
<1>8. OffsetOK'
  BY <1>2, <1>5 DEF OffsetOK
<1>9. CursorOK'
  BY <1>2, <1>3, <1>5 DEF CursorOK, K_TypeOK
<1>10. WorkOK'
  <2> SUFFICES ASSUME NEW d \in Consumer, work'[d] # Idle
               PROVE  /\ SettledBefore(work[d].part, work[d].at)'
                      /\ work'[d].phase = "done" => Settled(MessageOf(d))'
    BY <1>3 DEF WorkOK
  <2>1. SettledBefore(work[d].part, work[d].at)
    BY <1>3 DEF WorkOK
  <2>2. SettledBefore(work[d].part, work[d].at)'
    BY <2>1, <1>2, <1>3, <1>5 DEF SettledBefore
  <2>3. MessageOf(d)' = MessageOf(d)
    BY <1>3, <1>4
  <2>4. CASE d = c
    BY <2>2, <2>3, <2>4, <1>1 DEF Settled
  <2>5. CASE d # c
    <3>1. work'[d].phase = "done" => Settled(MessageOf(d))
      BY <2>5, <1>1 DEF WorkOK
    <3> QED
      BY <2>2, <2>3, <3>1 DEF Settled
  <2> QED
    BY <2>4, <2>5
<1> QED
  BY <1>1, <1>4, <1>6, <1>7, <1>8, <1>9, <1>10

\* The same, for a step that leaves inbox and effects alone and inserts no id.
LEMMA PlainMoveKeeps ==
    ASSUME ConsumerInv, NEW c \in Consumer, work[c] # Idle,
           NEW phase \in Phase, Move(c, phase), UNCHANGED kafkaVars,
           phase # "inserted",
           UNCHANGED <<inbox, effects>>,
           dead \subseteq dead', dead' \subseteq Message,
           spoiled \subseteq spoiled', spoiled' \subseteq Message,
           phase = "done" => MessageOf(c) \in inbox' \cup dead' \cup spoiled'
    PROVE  ConsumerInv'
<1>1. inbox' \subseteq Message /\ effects' \in [Message -> Nat]
  BY DEF ConsumerInv, C_TypeOK
<1>2. /\ K_TypeOK' /\ C_TypeOK' /\ OffsetOK' /\ CursorOK' /\ WorkOK'
      /\ \A d \in Consumer : work[d] # Idle => MessageOf(d)' = MessageOf(d)
      /\ \A d \in Consumer \ {c} : work'[d] = work[d]
      /\ work'[c].phase = phase
  BY <1>1, MoveKeeps
<1>3. \A d \in Consumer : In(d, "inserted")' => In(d, "inserted") /\ MessageOf(d)' = MessageOf(d)
  BY <1>2 DEF In
<1>4. InsertedOK'
  BY <1>3 DEF ConsumerInv, InsertedOK
<1>5. HandledOnce'
  BY DEF ConsumerInv, HandledOnce
<1> QED
  BY <1>2, <1>4, <1>5 DEF ConsumerInv

\* A handler whose failure nobody is told of keeps the invariant.
LEMMA SpoilKeeps ==
    ASSUME ConsumerInv, NEW c \in Consumer, work[c] # Idle, Spoil(c)
    PROVE  ConsumerInv'
<1>1. MessageOf(c) \in Message
  BY WorkType DEF ConsumerInv
<1>2. /\ Move(c, "done") /\ "done" \in Phase
      /\ UNCHANGED kafkaVars /\ UNCHANGED <<inbox, effects>> /\ dead' = dead
      /\ spoiled' = spoiled \cup {MessageOf(c)}
  BY DEF Spoil, Phase
<1>3. dead \subseteq Message /\ spoiled \subseteq Message
  BY DEF ConsumerInv, C_TypeOK
<1>4. /\ dead \subseteq dead' /\ dead' \subseteq Message
      /\ spoiled \subseteq spoiled' /\ spoiled' \subseteq Message
      /\ MessageOf(c) \in inbox' \cup dead' \cup spoiled'
  BY <1>1, <1>2, <1>3
<1> QED
  BY <1>2, <1>4, PlainMoveKeeps

\* No step of a handler breaks the invariant.
LEMMA HandlerKeeps ==
    ASSUME ConsumerInv, NEW c \in Consumer,
           InsertInbox(c) \/ SkipDuplicate(c) \/ CommitHandler(c) \/ RefuseMessage(c) \/ WriteDLQ(c)
    PROVE  ConsumerInv'
<1>1. work[c] # Idle
  BY DEF InsertInbox, SkipDuplicate, CommitHandler, RefuseMessage, WriteDLQ, In
<1>2. MessageOf(c) \in Message
  BY <1>1, WorkType DEF ConsumerInv
<1>3. /\ inbox \subseteq Message /\ dead \subseteq Message /\ spoiled \subseteq Message
      /\ effects \in [Message -> Nat]
  BY DEF ConsumerInv, C_TypeOK
<1>4. CASE InsertInbox(c)
  <2>1. /\ Move(c, "inserted") /\ "inserted" \in Phase /\ UNCHANGED kafkaVars
        /\ UNCHANGED <<inbox, effects, dead, spoiled>>
        /\ Insertable(MessageOf(c))
    BY <1>4 DEF InsertInbox, Phase
  <2>2. /\ K_TypeOK' /\ C_TypeOK' /\ OffsetOK' /\ CursorOK' /\ WorkOK'
        /\ \A d \in Consumer : work[d] # Idle => MessageOf(d)' = MessageOf(d)
        /\ \A d \in Consumer \ {c} : work'[d] = work[d]
    <3>1. inbox \subseteq inbox' /\ inbox' \subseteq Message /\ dead \subseteq dead' /\ dead' \subseteq Message
          /\ spoiled \subseteq spoiled' /\ spoiled' \subseteq Message /\ effects' \in [Message -> Nat]
      BY <2>1, <1>3
    <3> QED
      BY <2>1, <3>1, <1>1, MoveKeeps
  <2>3. InsertedOK'
    <3>1. \A d \in Consumer \ {c} : In(d, "inserted")' =>
              /\ In(d, "inserted")
              /\ MessageOf(d)' = MessageOf(d)
              /\ MessageOf(d) # MessageOf(c)
      BY <2>1, <2>2 DEF In, Insertable
    <3>2. MessageOf(c)' = MessageOf(c) /\ MessageOf(c) \notin inbox
      BY <2>1, <2>2, <1>1 DEF Insertable
    <3> QED
      BY <3>1, <3>2, <2>1 DEF InsertedOK, ConsumerInv
  <2>4. HandledOnce'
    BY <2>1 DEF ConsumerInv, HandledOnce
  <2> QED
    BY <2>2, <2>3, <2>4 DEF ConsumerInv
<1>5. CASE SkipDuplicate(c)
  <2>1. /\ Move(c, "done") /\ "done" \in Phase /\ UNCHANGED kafkaVars
        /\ UNCHANGED <<inbox, effects>> /\ dead' = dead /\ spoiled' = spoiled
        /\ MessageOf(c) \in inbox
    BY <1>5 DEF SkipDuplicate, Phase
  <2> QED
    BY <2>1, <1>1, <1>3, PlainMoveKeeps
<1>6. CASE CommitHandler(c)
  <2>1. /\ In(c, "inserted")
        /\ Move(c, "done") /\ "done" \in Phase /\ UNCHANGED kafkaVars
        /\ inbox' = inbox \cup {MessageOf(c)}
        /\ effects' = [effects EXCEPT ![MessageOf(c)] = @ + 1]
        /\ dead' = dead /\ spoiled' = spoiled
    BY <1>6 DEF CommitHandler, Phase
  <2>2. effects' \in [Message -> Nat]
    BY <2>1, <1>2, <1>3
  <2>3. /\ K_TypeOK' /\ C_TypeOK' /\ OffsetOK' /\ CursorOK' /\ WorkOK'
        /\ \A d \in Consumer : work[d] # Idle => MessageOf(d)' = MessageOf(d)
        /\ \A d \in Consumer \ {c} : work'[d] = work[d]
        /\ work'[c].phase = "done"
    <3>1. inbox \subseteq inbox' /\ inbox' \subseteq Message /\ dead \subseteq dead' /\ dead' \subseteq Message
          /\ spoiled \subseteq spoiled' /\ spoiled' \subseteq Message
          /\ MessageOf(c) \in inbox' \cup dead' \cup spoiled'
      BY <2>1, <1>2, <1>3
    <3> QED
      BY <2>1, <2>2, <3>1, <1>1, MoveKeeps
  <2>4. InsertedOK'
    <3>1. \A d \in Consumer : In(d, "inserted")' =>
              /\ d # c
              /\ In(d, "inserted")
              /\ MessageOf(d)' = MessageOf(d)
      BY <2>3 DEF In
    <3> QED
      BY <3>1, <2>1 DEF InsertedOK, ConsumerInv
  <2>5. HandledOnce'
    <3>1. MessageOf(c) \notin inbox
      BY <2>1 DEF InsertedOK, ConsumerInv
    <3> QED
      BY <3>1, <2>1, <1>2, <1>3 DEF HandledOnce, ConsumerInv
  <2> QED
    BY <2>3, <2>4, <2>5 DEF ConsumerInv
<1>7. CASE RefuseMessage(c)
  <2>1. /\ Move(c, "refused") /\ "refused" \in Phase /\ UNCHANGED kafkaVars
        /\ UNCHANGED <<inbox, effects>> /\ dead' = dead /\ spoiled' = spoiled
    BY <1>7 DEF RefuseMessage, Phase
  <2> QED
    BY <2>1, <1>1, <1>3, PlainMoveKeeps
<1>8. CASE WriteDLQ(c)
  <2>1. /\ Move(c, "done") /\ "done" \in Phase /\ UNCHANGED kafkaVars
        /\ UNCHANGED <<inbox, effects>> /\ dead' = dead \cup {MessageOf(c)} /\ spoiled' = spoiled
    BY <1>8 DEF WriteDLQ, Phase
  <2>2. dead \subseteq dead' /\ dead' \subseteq Message /\ MessageOf(c) \in inbox' \cup dead' \cup spoiled'
    BY <2>1, <1>2, <1>3
  <2> QED
    BY <2>1, <2>2, <1>1, <1>3, PlainMoveKeeps
<1> QED
  BY <1>4, <1>5, <1>6, <1>7, <1>8

\* Fetching keeps the invariant: the owner of a partition that is at no message
\* has seen to all that it fetched.
LEMMA FetchKeeps ==
    ASSUME ConsumerInv, NEW c \in Consumer, FetchMessage(c)
    PROVE  ConsumerInv'
<1> USE DEF ConsumerInv
<1>1. PICK p \in Partition :
          /\ Fetched(c, p)
          /\ work' = [work EXCEPT ![c] = [part |-> p, at |-> cursor'[p], phase |-> "fetched"]]
  BY DEF FetchMessage
<1>2. UNCHANGED <<log, owner, offset, inbox, effects, dead, spoiled>> /\ work[c] = Idle
  BY DEF FetchMessage
<1>3. /\ owner[p] = c
      /\ cursor[p] \in Nat /\ Len(log[p]) \in Nat
      /\ cursor[p] < Len(log[p])
      /\ cursor'[p] = cursor[p] + 1
      /\ \A q \in Partition \ {p} : cursor'[q] = cursor[q]
      /\ cursor' \in [Partition -> Nat]
  BY <1>1, LogType DEF Fetched, K_TypeOK
<1>4. /\ work'[c] = [part |-> p, at |-> cursor[p] + 1, phase |-> "fetched"]
      /\ work'[c] \in [part : Partition, at : Nat \ {0}, phase : Phase]
      /\ work'[c] # Idle
      /\ \A d \in Consumer \ {c} : work'[d] = work[d]
      /\ work' \in [Consumer -> {Idle} \cup [part : Partition, at : Nat \ {0}, phase : Phase]]
  BY <1>1, <1>3 DEF C_TypeOK, Phase, Idle
<1>5. \A d \in Consumer \ {c} : MessageOf(d)' = MessageOf(d)
  BY <1>2, <1>4 DEF MessageOf
<1>6. K_TypeOK'
  <2>1. \A q \in Partition : cursor[q] <= Len(log[q])
    BY DEF K_TypeOK
  <2>2. ASSUME NEW q \in Partition
        PROVE  cursor'[q] <= Len(log[q])
    <3>1. CASE q = p
      BY <3>1, <1>3
    <3>2. CASE q # p
      BY <3>2, <2>1, <1>3
    <3> QED
      BY <3>1, <3>2
  <2> QED
    BY <2>2, <1>2, <1>3 DEF K_TypeOK
<1>7. C_TypeOK'
  BY <1>2, <1>3, <1>4 DEF C_TypeOK
<1>8. OffsetOK'
  BY <1>2 DEF OffsetOK, SettledBefore, Settled
<1>9. \A i \in 1 .. cursor[p] : Settled(log[p][i])
  BY <1>2, <1>3 DEF CursorOK
<1>10. CursorOK'
  <2> SUFFICES ASSUME NEW q \in Partition, NEW i \in 1 .. cursor'[q]
               PROVE  Settled(log'[q][i]) \/ (work'[owner'[q]] # Idle /\ work'[owner'[q]].part = q
                                                 /\ work'[owner'[q]].at = i)
    BY <1>2 DEF CursorOK, Settled
  <2>1. CASE q = p /\ i = cursor[p] + 1
    BY <2>1, <1>2, <1>3, <1>4
  <2>2. CASE q = p /\ i # cursor[p] + 1
    <3>1. i \in 1 .. cursor[p]
      BY <2>2, <1>3
    <3> QED
      BY <3>1, <2>2, <1>2, <1>9
  <2>3. CASE q # p /\ owner[q] = c
    BY <2>3, <1>2, <1>3 DEF CursorOK
  <2>4. CASE q # p /\ owner[q] # c
    <3>1. owner[q] \in Consumer \ {c}
      BY <2>4 DEF K_TypeOK
    <3> QED
      BY <3>1, <2>4, <1>2, <1>3, <1>4 DEF CursorOK
  <2> QED
    BY <2>1, <2>2, <2>3, <2>4
<1>11. WorkOK'
  <2> SUFFICES ASSUME NEW d \in Consumer, work'[d] # Idle
               PROVE  /\ SettledBefore(work[d].part, work[d].at)'
                      /\ work'[d].phase = "done" => Settled(MessageOf(d))'
    BY DEF WorkOK
  <2>1. CASE d = c
    <3>1. \A i \in 1 .. Len(log'[p]) : i < cursor[p] + 1 => Settled(log'[p][i])
      BY <1>2, <1>3, <1>9
    <3> QED
      BY <3>1, <2>1, <1>2, <1>4 DEF SettledBefore, Settled
  <2>2. CASE d # c
    <3>1. SettledBefore(work[d].part, work[d].at)'
      BY <2>2, <1>2, <1>4 DEF WorkOK, SettledBefore, Settled
    <3>2. work'[d].phase = "done" => Settled(MessageOf(d))
      BY <2>2, <1>4 DEF WorkOK
    <3> QED
      BY <3>1, <3>2, <2>2, <1>2, <1>5 DEF Settled
  <2> QED
    BY <2>1, <2>2
<1>12. InsertedOK'
  <2>1. \A d \in Consumer : In(d, "inserted")' =>
            d # c /\ In(d, "inserted") /\ MessageOf(d)' = MessageOf(d)
    BY <1>4, <1>5 DEF In
  <2> QED
    BY <2>1, <1>2 DEF InsertedOK
<1>13. HandledOnce'
  BY <1>2 DEF HandledOnce
<1> QED
  BY <1>6, <1>7, <1>8, <1>10, <1>11, <1>12, <1>13

\* A consumer lets its message go, and partitions may change hands: what is
\* read on is settled, because every partition whose owner dropped a message
\* that was not is read again from its offset.
LEMMA ReleaseKeeps ==
    ASSUME ConsumerInv,
           UNCHANGED <<log, inbox, effects, dead, spoiled>>,
           offset' = offset \/ (offset' \in [Partition -> Nat] /\ OffsetOK'),
           owner' \in [Partition -> Consumer],
           cursor' \in [Partition -> Nat],
           \A d \in Consumer : work'[d] = work[d] \/ work'[d] = Idle,
           work' \in [Consumer -> {Idle} \cup [part : Partition, at : Nat \ {0}, phase : Phase]],
           \A p \in Partition :
               \/ cursor'[p] = offset[p]
               \/ /\ cursor'[p] = cursor[p] /\ owner'[p] = owner[p]
                  /\ \/ work'[owner[p]] = work[owner[p]]
                     \/ Settled(MessageOf(owner[p]))
    PROVE  ConsumerInv'
<1> USE DEF ConsumerInv
<1>1. \A m : Settled(m)' <=> Settled(m)
  BY DEF Settled
<1>2. K_TypeOK'
  BY DEF K_TypeOK, OffsetOK
<1>3. C_TypeOK'
  BY DEF C_TypeOK
<1>4. OffsetOK'
  BY DEF OffsetOK, SettledBefore, Settled
<1>5. \A d \in Consumer : work'[d] # Idle => work'[d] = work[d] /\ MessageOf(d)' = MessageOf(d)
  BY DEF MessageOf
<1>6. CursorOK'
  <2> SUFFICES ASSUME NEW p \in Partition, NEW i \in 1 .. cursor'[p]
               PROVE  Settled(log[p][i]) \/ (work'[owner'[p]] # Idle /\ work'[owner'[p]].part = p
                                                /\ work'[owner'[p]].at = i)
    BY DEF CursorOK, Settled
  <2>1. CASE cursor'[p] = offset[p]
    <3>1. i \in 1 .. Len(log[p]) /\ i < offset[p] + 1
      BY <2>1, LogType DEF OffsetOK, K_TypeOK
    <3> QED
      BY <3>1 DEF OffsetOK, SettledBefore
  <2>2. CASE /\ cursor'[p] = cursor[p] /\ owner'[p] = owner[p]
             /\ work'[owner[p]] = work[owner[p]]
    BY <2>2 DEF CursorOK
  <2>3. CASE /\ cursor'[p] = cursor[p] /\ owner'[p] = owner[p]
             /\ Settled(MessageOf(owner[p]))
    BY <2>3 DEF CursorOK, MessageOf
  <2> QED
    BY <2>1, <2>2, <2>3
<1>7. WorkOK'
  <2> SUFFICES ASSUME NEW d \in Consumer, work'[d] # Idle
               PROVE  /\ SettledBefore(work[d].part, work[d].at)'
                      /\ work'[d].phase = "done" => Settled(MessageOf(d))'
    BY DEF WorkOK
  <2>1. SettledBefore(work[d].part, work[d].at)'
    BY <1>5 DEF WorkOK, SettledBefore, Settled
  <2>2. work'[d].phase = "done" => Settled(MessageOf(d))
    BY <1>5 DEF WorkOK
  <2> QED
    BY <2>1, <2>2, <1>5 DEF Settled
<1>8. InsertedOK'
  <2>1. \A d \in Consumer : In(d, "inserted")' => In(d, "inserted") /\ MessageOf(d)' = MessageOf(d)
    BY <1>5 DEF In
  <2> QED
    BY <2>1 DEF InsertedOK
<1>9. HandledOnce'
  BY DEF HandledOnce
<1> QED
  BY <1>2, <1>3, <1>4, <1>6, <1>7, <1>8, <1>9

\* Finishing a message, with its offset or without, keeps the invariant.
LEMMA FinishKeeps ==
    ASSUME ConsumerInv, NEW c \in Consumer, CommitMessages(c) \/ FailToCommitOffset(c)
    PROVE  ConsumerInv'
<1> USE DEF ConsumerInv
<1>1. /\ In(c, "done")
      /\ work' = [work EXCEPT ![c] = Idle]
      /\ UNCHANGED <<log, owner, cursor, inbox, effects, dead, spoiled>>
      /\ \/ offset' = [offset EXCEPT ![work[c].part] = work[c].at]
         \/ UNCHANGED offset
  BY DEF CommitMessages, FailToCommitOffset, kafkaVars
<1>2. /\ work[c] # Idle
      /\ Settled(MessageOf(c))
      /\ SettledBefore(work[c].part, work[c].at)
  BY <1>1 DEF In, WorkOK
<1>3. /\ work[c].part \in Partition
      /\ work[c].at \in Nat
      /\ work[c].at \in 1 .. Len(log[work[c].part])
  BY <1>2, WorkType
<1>4. /\ work' \in [Consumer -> {Idle} \cup [part : Partition, at : Nat \ {0}, phase : Phase]]
      /\ \A d \in Consumer : work'[d] = work[d] \/ work'[d] = Idle
      /\ \A d \in Consumer : work'[d] = work[d] \/ d = c
  BY <1>1 DEF C_TypeOK
<1>5. offset' = offset \/ (offset' \in [Partition -> Nat] /\ OffsetOK')
  <2> SUFFICES ASSUME offset' = [offset EXCEPT ![work[c].part] = work[c].at]
               PROVE  offset' \in [Partition -> Nat] /\ OffsetOK'
    BY <1>1
  <2>1. /\ offset' \in [Partition -> Nat]
        /\ offset'[work[c].part] = work[c].at
        /\ \A p \in Partition \ {work[c].part} : offset'[p] = offset[p]
    BY <1>3 DEF K_TypeOK
  <2>2. ASSUME NEW p \in Partition
        PROVE  (offset[p] <= Len(log[p]) /\ SettledBefore(p, offset[p] + 1))'
    <3>1. CASE p = work[c].part
      <4>1. offset'[p] <= Len(log'[p])
        BY <3>1, <2>1, <1>1, <1>3, LogType
      <4>2. ASSUME NEW i \in 1 .. Len(log[p]), i < work[c].at + 1
            PROVE  Settled(log[p][i])
        <5>1. CASE i = work[c].at
          BY <5>1, <3>1, <1>2 DEF MessageOf
        <5>2. CASE i # work[c].at
          <6>1. i < work[c].at
            BY <5>2, <4>2, <1>3, LogType
          <6> QED
            BY <6>1, <3>1, <1>2 DEF SettledBefore
        <5> QED
          BY <5>1, <5>2
      <4> QED
        BY <4>1, <4>2, <3>1, <2>1, <1>1 DEF SettledBefore, Settled
    <3>2. CASE p # work[c].part
      BY <3>2, <2>1, <1>1 DEF OffsetOK, SettledBefore, Settled
    <3> QED
      BY <3>1, <3>2
  <2> QED
    BY <2>1, <2>2 DEF OffsetOK
<1>6. /\ owner' \in [Partition -> Consumer] /\ cursor' \in [Partition -> Nat]
      /\ UNCHANGED <<log, inbox, effects, dead, spoiled>>
      /\ \A p \in Partition :
             \/ cursor'[p] = offset[p]
             \/ /\ cursor'[p] = cursor[p] /\ owner'[p] = owner[p]
                /\ \/ work'[owner[p]] = work[owner[p]]
                   \/ Settled(MessageOf(owner[p]))
  BY <1>1, <1>2, <1>4 DEF K_TypeOK
<1> QED
  BY <1>4, <1>5, <1>6, ReleaseKeeps

\* A crash and a rebalance keep the invariant.
LEMMA ReassignKeeps ==
    ASSUME ConsumerInv, NEW c \in Consumer, Crash(c) \/ Rebalance(c)
    PROVE  ConsumerInv'
<1> USE DEF ConsumerInv
<1>1. /\ owner \in [Partition -> Consumer] /\ cursor \in [Partition -> Nat]
      /\ offset \in [Partition -> Nat]
      /\ work \in [Consumer -> {Idle} \cup [part : Partition, at : Nat \ {0}, phase : Phase]]
  BY DEF K_TypeOK, C_TypeOK
<1>2. UNCHANGED <<log, offset, inbox, effects, dead, spoiled>>
  BY DEF Crash, Rebalance
<1>3. PICK parts \in SUBSET Partition, assignment \in [Partition -> Consumer] :
          /\ Assign(parts, assignment)
          /\ \/ work' = [work EXCEPT ![c] = Idle] /\ parts = {p \in Partition : owner[p] = c}
             \/ work' = work
  <2>1. CASE Crash(c)
    BY <2>1 DEF Crash
  <2>2. CASE Rebalance(c)
    <3>1. PICK p \in Partition, d \in Consumer \ {c} : Assign({p}, [q \in Partition |-> d])
      BY <2>2 DEF Rebalance
    <3>2. {p} \in SUBSET Partition /\ [q \in Partition |-> d] \in [Partition -> Consumer]
      OBVIOUS
    <3>3. work' = work
      BY <2>2 DEF Rebalance
    <3> QED
      BY <3>1, <3>2, <3>3
  <2> QED
    BY <2>1, <2>2
<1>4. /\ owner' \in [Partition -> Consumer]
      /\ cursor' \in [Partition -> Nat]
      /\ \A p \in parts : cursor'[p] = offset[p]
      /\ \A p \in Partition \ parts : cursor'[p] = cursor[p] /\ owner'[p] = owner[p]
  BY <1>1, <1>3 DEF Assign
<1>5. /\ work' \in [Consumer -> {Idle} \cup [part : Partition, at : Nat \ {0}, phase : Phase]]
      /\ \A d \in Consumer : work'[d] = work[d] \/ work'[d] = Idle
      /\ \A p \in Partition \ parts : work'[owner[p]] = work[owner[p]]
  BY <1>1, <1>3
<1>6. \A p \in Partition :
          \/ cursor'[p] = offset[p]
          \/ /\ cursor'[p] = cursor[p] /\ owner'[p] = owner[p]
             /\ \/ work'[owner[p]] = work[owner[p]]
                \/ Settled(MessageOf(owner[p]))
  BY <1>4, <1>5
<1> QED
  BY <1>2, <1>4, <1>5, <1>6, ReleaseKeeps

\* Whatever a consumer does, and whatever goes wrong with it, keeps the invariant.
LEMMA ConsumerKeeps ==
    ASSUME ConsumerInv, NEW c \in Consumer, ConsumerStep(c) \/ ConsumerFault(c)
    PROVE  ConsumerInv'
<1>1. CASE FailTransiently(c) \/ FailToCommitHandler(c) \/ FailToWriteDLQ(c)
  <2>1. work[c] # Idle /\ Spoil(c)
    BY <1>1 DEF FailTransiently, FailToCommitHandler, FailToWriteDLQ, In
  <2> QED
    BY <2>1, SpoilKeeps
<1> QED
  BY <1>1, FetchKeeps, HandlerKeeps, FinishKeeps, ReassignKeeps DEF ConsumerStep, ConsumerFault

\* Whoever sends a message leaves the consumers' invariant intact.
LEMMA SendingKeeps ==
    ASSUME ConsumerInv, NEW m \in Message, Send(m),
           UNCHANGED <<owner, cursor, offset, consumerVars>>
    PROVE  ConsumerInv'
<1> USE DEF ConsumerInv, consumerVars
<1>1. /\ log' \in [Partition -> Seq(Message)]
      /\ \A p \in Partition :
            /\ Len(log'[p]) \in Nat
            /\ Len(log[p]) <= Len(log'[p])
            /\ \A i \in 1 .. Len(log[p]) : log'[p][i] = log[p][i]
  BY SendAppends
<1>2. \A p \in Partition : Len(log[p]) \in Nat
  BY LogType
<1>3. \A d \in Consumer : work[d] # Idle =>
          /\ work[d].part \in Partition /\ work[d].at \in Nat
          /\ work[d].at \in 1 .. Len(log[work[d].part])
          /\ MessageOf(d)' = MessageOf(d)
  BY <1>1, WorkType DEF MessageOf
<1>4. ASSUME NEW p \in Partition, NEW n \in Nat, n <= Len(log[p]) + 1, SettledBefore(p, n)
      PROVE  \A i \in 1 .. Len(log'[p]) : i < n => Settled(log'[p][i])
  <2> SUFFICES ASSUME NEW i \in 1 .. Len(log'[p]), i < n
               PROVE  Settled(log'[p][i])
    OBVIOUS
  <2>1. i \in 1 .. Len(log[p])
    BY <1>1, <1>2, <1>4
  <2> QED
    BY <2>1, <1>1, <1>4 DEF SettledBefore
<1>5. K_TypeOK'
  BY <1>1, <1>2 DEF K_TypeOK
<1>6. C_TypeOK'
  BY <1>1, <1>2, <1>3 DEF C_TypeOK
<1>7. OffsetOK'
  <2>1. ASSUME NEW p \in Partition
        PROVE  (offset[p] <= Len(log[p]) /\ SettledBefore(p, offset[p] + 1))'
    <3>1. offset[p] \in Nat /\ offset[p] <= Len(log[p]) /\ SettledBefore(p, offset[p] + 1)
      BY DEF K_TypeOK, OffsetOK
    <3>2. \A i \in 1 .. Len(log'[p]) : i < offset[p] + 1 => Settled(log'[p][i])
      BY <3>1, <1>2, <1>4
    <3> QED
      BY <3>1, <3>2, <1>1, <1>2 DEF SettledBefore, Settled
  <2> QED
    BY <2>1 DEF OffsetOK
<1>8. CursorOK'
  <2> SUFFICES ASSUME NEW p \in Partition, NEW i \in 1 .. cursor[p]
               PROVE  Settled(log'[p][i]) \/ (work[owner[p]] # Idle /\ work[owner[p]].part = p
                                                 /\ work[owner[p]].at = i)
    BY DEF CursorOK, Settled
  <2>1. i \in 1 .. Len(log[p])
    BY <1>2 DEF K_TypeOK
  <2> QED
    BY <2>1, <1>1 DEF CursorOK
<1>9. WorkOK'
  <2> SUFFICES ASSUME NEW d \in Consumer, work[d] # Idle
               PROVE  /\ SettledBefore(work[d].part, work[d].at)'
                      /\ work[d].phase = "done" => Settled(MessageOf(d))'
    BY DEF WorkOK
  <2>1. \A i \in 1 .. Len(log'[work[d].part]) : i < work[d].at => Settled(log'[work[d].part][i])
    BY <1>2, <1>3, <1>4 DEF WorkOK
  <2>2. work[d].phase = "done" => Settled(MessageOf(d))
    BY DEF WorkOK
  <2> QED
    BY <2>1, <2>2, <1>3 DEF SettledBefore, Settled
<1>10. InsertedOK'
  <2>1. \A d \in Consumer : In(d, "inserted")' => In(d, "inserted") /\ MessageOf(d)' = MessageOf(d)
    BY <1>3 DEF In
  <2> QED
    BY <2>1 DEF InsertedOK
<1>11. HandledOnce'
  BY DEF HandledOnce
<1> QED
  BY <1>5, <1>6, <1>7, <1>8, <1>9, <1>10, <1>11

(***************************************************************************)
(* The outboxes and their relays.                                          *)
(***************************************************************************)
\* A row that is inserted anywhere is added, and the others stay.
LEMMA InsertAtFacts ==
    ASSUME NEW seq \in Seq(Message), NEW e \in Message, NEW n \in 1 .. Len(seq) + 1
    PROVE  /\ InsertAt(seq, n, e) \in Seq(Message)
           /\ {InsertAt(seq, n, e)[i] : i \in 1 .. Len(InsertAt(seq, n, e))} =
              {seq[i] : i \in 1 .. Len(seq)} \cup {e}
<1> DEFINE front == SubSeq(seq, 1, n - 1)
           back  == SubSeq(seq, n, Len(seq))
           upTo  == front \o <<e>>
<1>1. Len(seq) \in Nat /\ n \in Nat /\ n >= 1 /\ n <= Len(seq) + 1
  BY LenProperties
<1>2. \A i \in 1 .. Len(seq) : seq[i] \in Message
  BY ElementOfSeq
<1>3. /\ front \in Seq(Message)
      /\ Len(front) = n - 1
      /\ \A i \in 1 .. n - 1 : front[i] = seq[i]
  <2>1. \A i \in 1 .. n - 1 : seq[i] \in Message
    BY <1>1, <1>2
  <2>2. /\ front \in Seq(Message)
        /\ Len(front) = IF 1 <= n - 1 THEN (n - 1) - 1 + 1 ELSE 0
        /\ \A i \in 1 .. (n - 1) - 1 + 1 : front[i] = seq[1 + i - 1]
    BY <1>1, <2>1, SubSeqProperties
  <2> QED
    BY <1>1, <2>2
<1>4. /\ back \in Seq(Message)
      /\ Len(back) = Len(seq) - n + 1
      /\ \A i \in 1 .. Len(seq) - n + 1 : back[i] = seq[n + i - 1]
  <2>1. \A i \in n .. Len(seq) : seq[i] \in Message
    BY <1>1, <1>2
  <2>2. /\ back \in Seq(Message)
        /\ Len(back) = IF n <= Len(seq) THEN Len(seq) - n + 1 ELSE 0
        /\ \A i \in 1 .. Len(seq) - n + 1 : back[i] = seq[n + i - 1]
    BY <1>1, <2>1, SubSeqProperties
  <2> QED
    BY <1>1, <2>2
<1>5. <<e>> \in Seq(Message) /\ Len(<<e>>) = 1 /\ <<e>>[1] = e
  OBVIOUS
<1> HIDE DEF front, back
<1>6. /\ upTo \in Seq(Message)
      /\ Len(upTo) = n
      /\ \A i \in 1 .. n - 1 : upTo[i] = seq[i]
      /\ upTo[n] = e
  <2>1. /\ upTo \in Seq(Message)
        /\ Len(upTo) = Len(front) + Len(<<e>>)
        /\ \A i \in 1 .. Len(front) + Len(<<e>>) :
               upTo[i] = IF i <= Len(front) THEN front[i] ELSE <<e>>[i - Len(front)]
    BY <1>3, <1>5, ConcatProperties
  <2> QED
    BY <2>1, <1>1, <1>3, <1>5
<1> HIDE DEF upTo
<1> DEFINE all == upTo \o back
<1>7. /\ all \in Seq(Message)
      /\ Len(all) = Len(seq) + 1
      /\ \A i \in 1 .. n - 1 : all[i] = seq[i]
      /\ all[n] = e
      /\ \A i \in n .. Len(seq) : all[i + 1] = seq[i]
  <2>1. /\ all \in Seq(Message)
        /\ Len(all) = Len(upTo) + Len(back)
        /\ \A i \in 1 .. Len(upTo) + Len(back) :
               all[i] = IF i <= Len(upTo) THEN upTo[i] ELSE back[i - Len(upTo)]
    BY <1>4, <1>6, ConcatProperties
  <2> HIDE DEF all
  <2>2. Len(all) = Len(seq) + 1
    BY <2>1, <1>1, <1>4, <1>6
  <2>3. ASSUME NEW i \in 1 .. n - 1
        PROVE  all[i] = seq[i]
    BY <2>1, <1>1, <1>4, <1>6
  <2>4. all[n] = e
    BY <2>1, <1>1, <1>4, <1>6
  <2>5. ASSUME NEW i \in n .. Len(seq)
        PROVE  all[i + 1] = seq[i]
    <3>1. all[i + 1] = back[i + 1 - n]
      BY <2>1, <1>1, <1>4, <1>6
    <3>2. back[i + 1 - n] = seq[n + (i + 1 - n) - 1]
      BY <1>1, <1>4
    <3>3. n + (i + 1 - n) - 1 = i
      BY <1>1
    <3> QED
      BY <3>1, <3>2, <3>3
  <2> QED
    BY <2>1, <2>2, <2>3, <2>4, <2>5
<1>8. InsertAt(seq, n, e) = all
  BY DEF InsertAt, front, back, upTo, all
<1> HIDE DEF all
<1>9. ASSUME NEW i \in 1 .. Len(all)
      PROVE  all[i] \in {seq[j] : j \in 1 .. Len(seq)} \cup {e}
  <2>1. CASE i < n
    BY <2>1, <1>1, <1>7
  <2>2. CASE i = n
    BY <2>2, <1>7
  <2>3. CASE i > n
    <3>1. i - 1 \in n .. Len(seq) /\ i - 1 \in 1 .. Len(seq) /\ (i - 1) + 1 = i
      BY <2>3, <1>1, <1>7
    <3>2. all[i] = seq[i - 1]
      BY <3>1, <1>7
    <3> QED
      BY <3>1, <3>2
  <2> QED
    BY <2>1, <2>2, <2>3, <1>1, <1>7
<1>10. ASSUME NEW j \in 1 .. Len(seq)
       PROVE  seq[j] \in {all[i] : i \in 1 .. Len(all)}
  <2>1. CASE j < n
    <3>1. j \in 1 .. Len(all) /\ all[j] = seq[j]
      BY <2>1, <1>1, <1>7
    <3> QED
      BY <3>1
  <2>2. CASE j >= n
    <3>1. j + 1 \in 1 .. Len(all) /\ all[j + 1] = seq[j]
      BY <2>2, <1>1, <1>7
    <3> QED
      BY <3>1
  <2> QED
    BY <2>1, <2>2, <1>1
<1>11. e \in {all[i] : i \in 1 .. Len(all)}
  BY <1>1, <1>7
<1> QED
  BY <1>7, <1>8, <1>9, <1>10, <1>11

\* A committed Append adds its row to one outbox.
LEMMA AppendRowFacts ==
    ASSUME R_TypeOK, NEW sv \in Service, NEW m \in Message, AppendRow(sv, m)
    PROVE  /\ rows' \in [Service -> Seq(Message)]
           /\ AllRows' = AllRows \cup {m}
<1>1. PICK n \in 1 .. Len(rows[sv]) + 1 : rows' = [rows EXCEPT ![sv] = InsertAt(@, n, m)]
  BY DEF AppendRow
<1>2. rows \in [Service -> Seq(Message)] /\ rows[sv] \in Seq(Message)
  BY DEF R_TypeOK
<1>3. /\ InsertAt(rows[sv], n, m) \in Seq(Message)
      /\ {InsertAt(rows[sv], n, m)[i] : i \in 1 .. Len(InsertAt(rows[sv], n, m))} =
         {rows[sv][i] : i \in 1 .. Len(rows[sv])} \cup {m}
  <2> DEFINE seq == rows[sv]
  <2>1. seq \in Seq(Message) /\ n \in 1 .. Len(seq) + 1
    BY <1>2
  <2> HIDE DEF seq
  <2>2. /\ InsertAt(seq, n, m) \in Seq(Message)
        /\ {InsertAt(seq, n, m)[i] : i \in 1 .. Len(InsertAt(seq, n, m))} =
           {seq[i] : i \in 1 .. Len(seq)} \cup {m}
    BY <2>1, InsertAtFacts, Zenon
  <2> QED
    BY <2>2, Zenon DEF seq
<1> DEFINE longer == InsertAt(rows[sv], n, m)
<1>4. /\ rows'[sv] = longer
      /\ \A other \in Service \ {sv} : rows'[other] = rows[other]
  <2>1. rows' = [rows EXCEPT ![sv] = longer]
    BY <1>1
  <2> HIDE DEF longer
  <2> QED
    BY <2>1, <1>2
<1>5. rows' \in [Service -> Seq(Message)]
  BY <1>1, <1>2, <1>3
<1>6. Rows(sv)' = Rows(sv) \cup {m}
  BY <1>3, <1>4, Zenon DEF Rows
<1>7. \A other \in Service \ {sv} : Rows(other)' = Rows(other)
  BY <1>4 DEF Rows
<1>8. AllRows' = UNION {Rows(other)' : other \in Service}
  BY DEF AllRows
<1>9. ASSUME NEW k
      PROVE  k \in AllRows' <=> k \in AllRows \cup {m}
  <2>1. k \in AllRows' <=> \E other \in Service : k \in Rows(other)'
    BY <1>8
  <2>2. k \in AllRows <=> \E other \in Service : k \in Rows(other)
    BY DEF AllRows
  <2>3. (\E other \in Service : k \in Rows(other)') <=> (k = m \/ \E other \in Service : k \in Rows(other))
    BY <1>6, <1>7
  <2> QED
    BY <2>1, <2>2, <2>3
<1> QED
  BY <1>5, <1>9

\* A relay's step keeps the relays' invariant; it sends one message or none.
LEMMA RelayKeeps ==
    ASSUME K_TypeOK, RelayInv, NEW r \in Relay, RelayStep(r) \/ RelayFault(r)
    PROVE  /\ RelayInv'
           /\ UNCHANGED rows
           /\ UNCHANGED log \/ \E m \in Message : Send(m)
<1> USE DEF RelayInv
<1>1. /\ rows \in [Service -> Seq(Message)] /\ marked \subseteq Message
      /\ pass \in [Relay -> [batch : SUBSET Message, todo : SUBSET Message, sent : SUBSET Message]]
      /\ pass[r].todo \subseteq Message /\ pass[r].sent \subseteq Message
      /\ marked \subseteq Published
      /\ \A q \in Relay : pass[q].sent \subseteq Published
  BY DEF R_TypeOK, MarkedWasPublished
<1>2. CASE Poll(r)
  <2>1. FetchUnpublished(r[1]) \subseteq Message
    <3>1. r[1] \in Service
      BY RelayAssumption
    <3>2. rows[r[1]] \in Seq(Message)
      BY <3>1, <1>1
    <3> QED
      BY <3>2, ElementOfSeq DEF FetchUnpublished, Unpublished, Rows
  <2>2. UNCHANGED <<rows, marked, log>>
    BY <1>2 DEF Poll
  <2>3. pass' = [pass EXCEPT ![r] = [batch |-> FetchUnpublished(r[1]),
                                     todo  |-> FetchUnpublished(r[1]),
                                     sent  |-> {}]]
    BY <1>2 DEF Poll
  <2>4. /\ pass' \in [Relay -> [batch : SUBSET Message, todo : SUBSET Message, sent : SUBSET Message]]
        /\ \A q \in Relay : pass'[q].sent = {} \/ pass'[q].sent = pass[q].sent
    BY <2>1, <2>3, <1>1
  <2>5. Published' = Published
    BY <2>2 DEF Published
  <2> QED
    BY <2>2, <2>4, <2>5, <1>1 DEF R_TypeOK, MarkedWasPublished
<1>3. ASSUME NEW m \in Message, NEW todo \in SUBSET Message,
             pass' = [pass EXCEPT ![r].todo = todo, ![r].sent = @ \cup {m}], Send(m),
             UNCHANGED <<rows, marked>>
      PROVE  RelayInv'
  <2>1. Published' = Published \cup {m}
    BY <1>3, SendAppends
  <2>2. /\ pass' \in [Relay -> [batch : SUBSET Message, todo : SUBSET Message, sent : SUBSET Message]]
        /\ \A q \in Relay : pass'[q].sent \subseteq pass[q].sent \cup {m}
    <3>1. pass'[r] = [pass[r] EXCEPT !.todo = todo, !.sent = @ \cup {m}]
      BY <1>1, <1>3
    <3>2. pass'[r] \in [batch : SUBSET Message, todo : SUBSET Message, sent : SUBSET Message]
          /\ pass'[r].sent = pass[r].sent \cup {m}
      BY <3>1, <1>1
    <3>3. \A q \in Relay \ {r} : pass'[q] = pass[q]
      BY <1>1, <1>3
    <3> QED
      BY <3>2, <3>3, <1>1, <1>3
  <2> QED
    BY <2>1, <2>2, <1>1, <1>3 DEF R_TypeOK, MarkedWasPublished
<1>4. CASE Publish(r)
  <2>1. PICK m \in NextRow(r) :
            /\ Send(m)
            /\ pass' = [pass EXCEPT ![r].todo = @ \ {m}, ![r].sent = @ \cup {m}]
            /\ UNCHANGED <<rows, marked>>
    BY <1>4 DEF Publish
  <2>2. m \in Message /\ (pass[r].todo \ {m}) \in SUBSET Message
    BY <1>1 DEF NextRow
  <2> QED
    BY <2>1, <2>2, <1>3
<1>5. ASSUME NEW m \in Message, Skip(r, m), UNCHANGED <<rows, marked>>,
             UNCHANGED log \/ Send(m)
      PROVE  RelayInv'
  <2>1. /\ pass' \in [Relay -> [batch : SUBSET Message, todo : SUBSET Message, sent : SUBSET Message]]
        /\ \A q \in Relay : pass'[q].sent = pass[q].sent
    <3>1. pass'[r] = [pass[r] EXCEPT !.todo = @ \ {m}]
      BY <1>1, <1>5 DEF Skip
    <3>2. pass'[r] \in [batch : SUBSET Message, todo : SUBSET Message, sent : SUBSET Message]
          /\ pass'[r].sent = pass[r].sent
      BY <3>1, <1>1
    <3>3. \A q \in Relay \ {r} : pass'[q] = pass[q]
      BY <1>1, <1>5 DEF Skip
    <3>4. pass' = [pass EXCEPT ![r] = pass'[r]]
      BY <1>1, <1>5 DEF Skip
    <3> QED
      BY <3>2, <3>3, <3>4, <1>1
  <2>2. Published \subseteq Published'
    <3>1. CASE UNCHANGED log
      BY <3>1 DEF Published
    <3>2. CASE Send(m)
      BY <3>2, SendAppends
    <3> QED
      BY <3>1, <3>2, <1>5
  <2> QED
    BY <2>1, <2>2, <1>1, <1>5 DEF R_TypeOK, MarkedWasPublished
<1>6. CASE PublishRefused(r) \/ PublishFails(r)
  <2>1. PICK m \in NextRow(r) : /\ Skip(r, m)
                                /\ UNCHANGED <<rows, marked>>
                                /\ UNCHANGED log \/ Send(m)
    BY <1>6 DEF PublishRefused, PublishFails
  <2>2. m \in Message
    BY <1>1 DEF NextRow
  <2> QED
    BY <2>1, <2>2, <1>5
<1>7. CASE EndPass(r) \/ RollBackPass(r)
  <2>1. /\ pass' = [pass EXCEPT ![r] = NoPass]
        /\ marked' = marked \/ marked' = marked \cup pass[r].sent
        /\ UNCHANGED <<rows, log>>
    BY <1>7 DEF EndPass, RollBackPass, MarkPublished
  <2>2. /\ pass' \in [Relay -> [batch : SUBSET Message, todo : SUBSET Message, sent : SUBSET Message]]
        /\ \A q \in Relay : pass'[q].sent = {} \/ pass'[q].sent = pass[q].sent
    BY <2>1, <1>1 DEF NoPass
  <2>3. Published' = Published
    BY <2>1 DEF Published
  <2> QED
    BY <2>1, <2>2, <2>3, <1>1 DEF R_TypeOK, MarkedWasPublished
<1> QED
  BY <1>2, <1>4, <1>6, <1>7 DEF RelayStep, RelayFault

\* Whoever else sends, or does not, leaves the relays' invariant intact.
LEMMA RelaysUndisturbed ==
    ASSUME K_TypeOK, RelayInv, UNCHANGED <<marked, pass>>, rows' \in [Service -> Seq(Message)],
           UNCHANGED log \/ \E m \in Message : Send(m)
    PROVE  RelayInv'
<1>1. Published \subseteq Published'
  <2>1. CASE UNCHANGED log
    BY <2>1 DEF Published
  <2>2. CASE \E m \in Message : Send(m)
    BY <2>2, SendAppends
  <2> QED
    BY <2>1, <2>2
<1> QED
  BY <1>1 DEF RelayInv, R_TypeOK, MarkedWasPublished

(***************************************************************************)
(* The operators.                                                          *)
(***************************************************************************)
\* Dead messages stay dead, so what is said of them stays true.
LEMMA OperatorsUndisturbed ==
    ASSUME L_TypeOK, dead \subseteq dead', UNCHANGED replayVars
    PROVE  L_TypeOK'
  BY DEF L_TypeOK, replayVars

\* A request, and its end, keep the types; the outbox grows by a message or by none.
LEMMA OperatorKeeps ==
    ASSUME L_TypeOK, dead \subseteq Message, UNCHANGED dead, NEW o \in Operator,
           ReplayStep(o) \/ FailReplay(o)
    PROVE  /\ L_TypeOK'
           /\ UNCHANGED rows \/ \E m \in Message : AppendRow(Orchestrator, m)
<1>1. /\ request \in [Operator -> {NoRequest} \cup [message : dead]]
      /\ request[o] # NoRequest => request[o].message \in dead
      /\ replayed \subseteq dead
  BY DEF L_TypeOK
<1>2. ASSUME NEW m \in dead, RequestReplay(o, m)
      PROVE  L_TypeOK' /\ UNCHANGED rows
  <2>1. UNCHANGED <<rows, replayed>>
    BY <1>2 DEF RequestReplay
  <2>2. request' = [request EXCEPT ![o] = [message |-> m]]
    BY <1>2 DEF RequestReplay
  <2> QED
    BY <2>1, <2>2, <1>1 DEF L_TypeOK
<1>3. CASE CommitReplay(o)
  <2>1. /\ request[o] # NoRequest
        /\ \E m \in Message : AppendRow(Orchestrator, m)
        /\ replayed' = replayed \cup {request[o].message}
        /\ request' = [request EXCEPT ![o] = NoRequest]
    BY <1>3 DEF CommitReplay
  <2> QED
    BY <2>1, <1>1 DEF L_TypeOK
<1>4. CASE FailReplay(o)
  <2>1. /\ request[o] # NoRequest
        /\ request' = [request EXCEPT ![o] = NoRequest]
        /\ UNCHANGED <<rows, replayed>>
    BY <1>4 DEF FailReplay
  <2> QED
    BY <2>1, <1>1 DEF L_TypeOK
<1> QED
  BY <1>2, <1>3, <1>4 DEF ReplayStep

(***************************************************************************)
(* The whole way.                                                          *)
(***************************************************************************)
\* What the parts of the invariant say of the ids.
LEMMA IdTypes ==
    ASSUME DInv
    PROVE  /\ K_TypeOK /\ R_TypeOK /\ L_TypeOK
           /\ inbox \subseteq Message /\ dead \subseteq Message
  BY DEF DInv, ConsumerInv, RelayInv, C_TypeOK

\* A consumer never removes a dead message and never writes to the topic.
LEMMA ConsumerOnlyAdds ==
    ASSUME NEW c \in Consumer, ConsumerStep(c) \/ ConsumerFault(c)
    PROVE  UNCHANGED log /\ dead \subseteq dead'
<1>1. CASE FailTransiently(c) \/ FailToCommitHandler(c) \/ FailToWriteDLQ(c)
  <2>1. Spoil(c)
    BY <1>1 DEF FailTransiently, FailToCommitHandler, FailToWriteDLQ
  <2> QED
    BY <2>1 DEF Spoil, kafkaVars
<1>2. CASE FetchMessage(c) \/ InsertInbox(c) \/ SkipDuplicate(c) \/ CommitHandler(c)
           \/ RefuseMessage(c) \/ WriteDLQ(c) \/ CommitMessages(c)
  BY <1>2 DEF FetchMessage, InsertInbox, SkipDuplicate, CommitHandler, RefuseMessage, WriteDLQ,
              CommitMessages, kafkaVars
<1>3. CASE FailToCommitOffset(c) \/ Crash(c) \/ Rebalance(c)
  BY <1>3 DEF FailToCommitOffset, Crash, Rebalance, kafkaVars
<1> QED
  BY <1>1, <1>2, <1>3 DEF ConsumerStep, ConsumerFault

\* Steps of relays, consumers and operators, faults included, keep the invariant.
LEMMA RelayActorKeeps ==
    ASSUME DInv, NEW r \in Relay, RelayStep(r) \/ RelayFault(r),
           UNCHANGED <<owner, cursor, offset, consumerVars, replayVars>>, faults' \in 0 .. MaxFaults
    PROVE  DInv'
<1>1. RelayInv' /\ (UNCHANGED log \/ \E m \in Message : Send(m))
  BY IdTypes, RelayKeeps DEF DInv
<1>2. ConsumerInv'
  <2>1. CASE UNCHANGED log
    <3>1. UNCHANGED <<log, owner, cursor, offset, work, inbox, effects, dead, spoiled>>
      BY <2>1 DEF consumerVars
    <3>2. \A d \in Consumer : MessageOf(d)' = MessageOf(d)
      BY <3>1 DEF MessageOf
    <3> QED
      BY <3>1, <3>2 DEF DInv, ConsumerInv, K_TypeOK, C_TypeOK, OffsetOK, CursorOK, WorkOK, InsertedOK,
                        HandledOnce, SettledBefore, Settled, In
  <2>2. CASE \E m \in Message : Send(m)
    BY <2>2, SendingKeeps DEF DInv
  <2> QED
    BY <1>1, <2>1, <2>2
<1>3. L_TypeOK'
  BY IdTypes, OperatorsUndisturbed DEF consumerVars
<1> QED
  BY <1>1, <1>2, <1>3 DEF DInv

\* A consumer only adds to what the operators' and the relays' part speaks of.
LEMMA ConsumerActorKeeps ==
    ASSUME DInv, NEW c \in Consumer, ConsumerStep(c) \/ ConsumerFault(c),
           UNCHANGED <<relayVars, replayVars>>, faults' \in 0 .. MaxFaults
    PROVE  DInv'
<1>1. ConsumerInv'
  BY ConsumerKeeps DEF DInv
<1>2. UNCHANGED log /\ dead \subseteq dead'
  BY ConsumerOnlyAdds
<1>3. L_TypeOK'
  BY <1>2, IdTypes, OperatorsUndisturbed
<1>4. RelayInv'
  BY <1>2 DEF DInv, RelayInv, R_TypeOK, MarkedWasPublished, Published, relayVars
<1> QED
  BY <1>1, <1>3, <1>4 DEF DInv

\* The rows of an outbox may grow; nothing else depends on them.
LEMMA RowsMayGrow ==
    ASSUME DInv, UNCHANGED <<kafkaVars, marked, pass, consumerVars>>, L_TypeOK',
           rows' \in [Service -> Seq(Message)], faults' \in 0 .. MaxFaults
    PROVE  DInv'
<1>1. UNCHANGED <<log, owner, cursor, offset, work, inbox, effects, dead, spoiled>>
  BY DEF kafkaVars, consumerVars
<1>2. \A d \in Consumer : MessageOf(d)' = MessageOf(d)
  BY <1>1 DEF MessageOf
<1>3. ConsumerInv'
  BY <1>1, <1>2 DEF DInv, ConsumerInv, K_TypeOK, C_TypeOK, OffsetOK, CursorOK, WorkOK, InsertedOK,
                    HandledOnce, SettledBefore, Settled, In
<1>4. RelayInv'
  BY <1>1 DEF DInv, RelayInv, R_TypeOK, MarkedWasPublished, Published
<1> QED
  BY <1>3, <1>4 DEF DInv

\* A replay adds a row to an outbox and touches nothing that a consumer or a
\* relay depends on.
LEMMA OperatorActorKeeps ==
    ASSUME DInv, NEW o \in Operator, ReplayStep(o) \/ FailReplay(o),
           UNCHANGED <<kafkaVars, marked, pass, consumerVars>>, faults' \in 0 .. MaxFaults
    PROVE  DInv'
<1>1. L_TypeOK' /\ (UNCHANGED rows \/ \E m \in Message : AppendRow(Orchestrator, m))
  BY IdTypes, OperatorKeeps DEF consumerVars
<1>2. rows' \in [Service -> Seq(Message)]
  BY <1>1, IdTypes, AppendRowFacts, OrchestratorAssumption DEF R_TypeOK
<1> QED
  BY <1>1, <1>2, RowsMayGrow

\* The invariant is inductive.
LEMMA DInvInductive ==
    ASSUME DInv, [Next]_vars
    PROVE  DInv'
<1>1. \A source \in Source : Original(source) \in Message
  BY MaxCopiesAssumption DEF Original, Message
<1>2. faults \in 0 .. MaxFaults
  BY DEF DInv
<1>3. ASSUME NEW sv \in Service, NEW source \in Source, Emit(sv, source)
      PROVE  DInv'
  <2>1. /\ AppendRow(sv, Original(source))
        /\ UNCHANGED <<kafkaVars, marked, pass, consumerVars, replayVars, faults>>
    BY <1>3 DEF Emit
  <2>2. rows' \in [Service -> Seq(Message)]
    BY <2>1, <1>1, IdTypes, AppendRowFacts
  <2>3. L_TypeOK'
    BY <2>1, IdTypes, OperatorsUndisturbed DEF consumerVars
  <2> QED
    BY <2>1, <2>2, <2>3, <1>2, RowsMayGrow
<1>4. ASSUME NEW source \in Source, Intrude(source)
      PROVE  DInv'
  <2>1. /\ Send(Original(source))
        /\ UNCHANGED <<owner, cursor, offset, relayVars, consumerVars, replayVars, faults>>
    BY <1>4 DEF Intrude
  <2>2. ConsumerInv'
    BY <2>1, <1>1, SendingKeeps DEF DInv
  <2>3. RelayInv'
    BY <2>1, <1>1, IdTypes, RelaysUndisturbed DEF DInv, relayVars, R_TypeOK
  <2>4. L_TypeOK'
    BY <2>1, IdTypes, OperatorsUndisturbed DEF consumerVars
  <2> QED
    BY <2>1, <2>2, <2>3, <2>4, <1>2 DEF DInv
<1>5. ASSUME NEW r \in Relay, RelayWorks(r)
      PROVE  DInv'
  BY <1>2, <1>5, RelayActorKeeps DEF RelayWorks
<1>6. ASSUME NEW c \in Consumer, ConsumerWorks(c)
      PROVE  DInv'
  BY <1>2, <1>6, ConsumerActorKeeps DEF ConsumerWorks
<1>7. ASSUME NEW o \in Operator, OperatorWorks(o)
      PROVE  DInv'
  BY <1>2, <1>7, OperatorActorKeeps DEF OperatorWorks
<1>8. CASE Fault
  <2>1. faults' \in 0 .. MaxFaults
    BY <1>2, <1>8, MaxFaultsAssumption DEF Fault
  <2> QED
    BY <2>1, <1>8, RelayActorKeeps, ConsumerActorKeeps, OperatorActorKeeps DEF Fault
<1>9. CASE UNCHANGED vars
  <2>1. UNCHANGED <<kafkaVars, marked, pass, consumerVars, rows, replayVars, faults>>
    BY <1>9 DEF vars, relayVars
  <2>2. L_TypeOK' /\ rows' \in [Service -> Seq(Message)]
    BY <2>1, IdTypes, OperatorsUndisturbed DEF consumerVars, R_TypeOK
  <2> QED
    BY <2>1, <2>2, <1>2, RowsMayGrow
<1> QED
  BY <1>3, <1>4, <1>5, <1>6, <1>7, <1>8, <1>9 DEF Next

\* The invariant holds at the start.
LEMMA DInvInitially ==
    ASSUME Init
    PROVE  DInv
<1> USE DEF Init, K_Init, R_Init, C_Init, L_Init
<1>1. log \in [Partition -> Seq(Message)] /\ rows \in [Service -> Seq(Message)]
  OBVIOUS
<1>2. \A p \in Partition : Len(log[p]) = 0
  OBVIOUS
<1>3. \A c \in Consumer : work[c] = Idle
  OBVIOUS
<1>4. K_TypeOK
  BY <1>1, <1>2 DEF K_TypeOK
<1>5. C_TypeOK
  BY <1>3 DEF C_TypeOK
<1>6. OffsetOK /\ CursorOK /\ WorkOK /\ InsertedOK
  BY <1>2, <1>3 DEF OffsetOK, CursorOK, WorkOK, InsertedOK, SettledBefore, In
<1>7. HandledOnce
  BY DEF HandledOnce
<1>8. RelayInv
  BY <1>1 DEF RelayInv, R_TypeOK, MarkedWasPublished, NoPass
<1>9. L_TypeOK
  BY DEF L_TypeOK
<1> QED
  BY <1>4, <1>5, <1>6, <1>7, <1>8, <1>9, MaxFaultsAssumption DEF DInv, ConsumerInv

(***************************************************************************)
(* The theorems.                                                           *)
(***************************************************************************)
\* What a position in a partition, a message in hand and an id in a batch stand
\* for is so in every reachable state (Consumer.Run, Relay.processBatch, Wrap).
THEOREM DeliveryInvariantHolds == Spec => []DInv
<1>1. Init => DInv
  BY DInvInitially
<1>2. DInv /\ [Next]_vars => DInv'
  BY DInvInductive
<1> QED
  BY <1>1, <1>2, PTL DEF Spec

\* Every variable keeps its type.
THEOREM DeliveryTypeCorrect == Spec => []Delivery_TypeOK
<1>1. DInv => Delivery_TypeOK
  BY DEF DInv, ConsumerInv, RelayInv, Delivery_TypeOK
<1> QED
  BY <1>1, DeliveryInvariantHolds, PTL

\* The committed offset never overtakes a message that is still to be handled,
\* whatever crashes, rebalances and late commits there are (Consumer.Run).
THEOREM OffsetNeverOvertakes == Spec => []CommittedIsSettled
<1>1. DInv => CommittedIsSettled
  <2> SUFFICES ASSUME DInv, NEW p \in Partition, NEW i \in 1 .. offset[p], i <= Len(log[p])
               PROVE  Settled(log[p][i])
    BY DEF CommittedIsSettled
  <2>1. /\ K_TypeOK
        /\ SettledBefore(p, offset[p] + 1)
    BY DEF DInv, ConsumerInv, OffsetOK
  <2>2. offset[p] \in Nat /\ Len(log[p]) \in Nat
    BY <2>1, LogType DEF K_TypeOK
  <2>3. i \in 1 .. Len(log[p]) /\ i < offset[p] + 1
    BY <2>2
  <2> QED
    BY <2>1, <2>3 DEF SettledBefore
<1> QED
  BY <1>1, DeliveryInvariantHolds, PTL

\* However often a message is published, fetched or redelivered, it takes effect
\* once, exactly when its id is in the inbox (Dedup in the handler's transaction).
THEOREM HandledAtMostOnce == Spec => []HandledOnce
<1>1. DInv => HandledOnce
  BY DEF DInv, ConsumerInv
<1> QED
  BY <1>1, DeliveryInvariantHolds, PTL

\* A row that a relay has marked is in the topic (Relay.processBatch).
THEOREM MarkedRowsArePublished == Spec => []MarkedWasPublished
<1>1. DInv => MarkedWasPublished
  BY DEF DInv, RelayInv
<1> QED
  BY <1>1, DeliveryInvariantHolds, PTL

(***************************************************************************)
(* The refinement.                                                         *)
(***************************************************************************)
\* A handler's effect is a message of the mailbox taking effect for the first time.
LEMMA HandlerTakesEffect ==
    ASSUME DInv, NEW c \in Consumer, CommitHandler(c)
    PROVE  /\ MessageOf(c) \in Message
           /\ MessageOf(c) \in Published
           /\ effects[MessageOf(c)] = 0
           /\ effects' = [effects EXCEPT ![MessageOf(c)] = 1]
<1>1. In(c, "inserted") /\ effects' = [effects EXCEPT ![MessageOf(c)] = @ + 1]
  BY DEF CommitHandler
<1>2. /\ work[c] # Idle /\ K_TypeOK /\ C_TypeOK /\ effects \in [Message -> Nat]
      /\ MessageOf(c) \notin inbox
  BY <1>1 DEF DInv, ConsumerInv, InsertedOK, C_TypeOK, In
<1>3. /\ MessageOf(c) \in Message
      /\ work[c].part \in Partition
      /\ work[c].at \in 1 .. Len(log[work[c].part])
      /\ MessageOf(c) = log[work[c].part][work[c].at]
  BY <1>2, WorkType DEF MessageOf
<1>4. MessageOf(c) \in Published
  BY <1>3 DEF Published
<1>5. effects[MessageOf(c)] = 0
  BY <1>2, <1>3 DEF DInv, ConsumerInv, HandledOnce
<1> QED
  BY <1>1, <1>2, <1>3, <1>4, <1>5

\* A consumer's other steps have no effect.
LEMMA OnlyHandlersTakeEffect ==
    ASSUME NEW c \in Consumer, ConsumerStep(c) \/ ConsumerFault(c), ~CommitHandler(c)
    PROVE  UNCHANGED effects
<1>1. CASE FailTransiently(c) \/ FailToCommitHandler(c) \/ FailToWriteDLQ(c)
  <2>1. Spoil(c)
    BY <1>1 DEF FailTransiently, FailToCommitHandler, FailToWriteDLQ
  <2> QED
    BY <2>1 DEF Spoil
<1>2. CASE FetchMessage(c) \/ InsertInbox(c) \/ SkipDuplicate(c)
           \/ RefuseMessage(c) \/ WriteDLQ(c) \/ CommitMessages(c)
  BY <1>2 DEF FetchMessage, InsertInbox, SkipDuplicate, RefuseMessage, WriteDLQ, CommitMessages
<1>3. CASE FailToCommitOffset(c) \/ Crash(c) \/ Rebalance(c)
  BY <1>3 DEF FailToCommitOffset, Crash, Rebalance
<1> QED
  BY <1>1, <1>2, <1>3 DEF ConsumerStep, ConsumerFault

\* Every step is a step of the mailbox, or is not seen there.
LEMMA StepOfMailbox ==
    ASSUME DInv, [Next]_vars
    PROVE  [Box!MailboxNext]_<<AllRows \cup Published, effects>>
<1> DEFINE sent == AllRows \cup Published
<1>1. \A source \in Source : Original(source) \in Message
  BY MaxCopiesAssumption DEF Original, Message
<1>2. ASSUME NEW m \in Message, sent' = sent \cup {m}, UNCHANGED effects
      PROVE  Box!MailboxNext
  BY <1>2 DEF Box!MailboxNext, Box!Post
<1>3. ASSUME UNCHANGED <<rows, effects>>, UNCHANGED log \/ \E m \in Message : Send(m)
      PROVE  [Box!MailboxNext]_<<sent, effects>>
  <2>1. AllRows' = AllRows
    BY <1>3 DEF AllRows, Rows
  <2>2. CASE UNCHANGED log
    <3>1. Published' = Published
      BY <2>2 DEF Published
    <3> QED
      BY <2>1, <3>1, <1>3
  <2>3. CASE \E m \in Message : Send(m)
    <3>1. PICK m \in Message : Send(m)
      BY <2>3
    <3>2. sent' = sent \cup {m}
      BY <2>1, <3>1, SendAppends, IdTypes
    <3> QED
      BY <3>2, <1>2, <1>3
  <2> QED
    BY <2>2, <2>3, <1>3
<1>4. ASSUME UNCHANGED <<log, effects>>,
             UNCHANGED rows \/ \E sv \in Service, m \in Message : AppendRow(sv, m)
      PROVE  [Box!MailboxNext]_<<sent, effects>>
  <2>1. Published' = Published
    BY <1>4 DEF Published
  <2>2. CASE UNCHANGED rows
    BY <2>2, <1>3, <1>4
  <2>3. CASE \E sv \in Service, m \in Message : AppendRow(sv, m)
    <3>1. PICK sv \in Service, m \in Message : AppendRow(sv, m)
      BY <2>3
    <3>2. sent' = sent \cup {m}
      BY <2>1, <3>1, AppendRowFacts, IdTypes
    <3> QED
      BY <3>2, <1>2, <1>4
  <2> QED
    BY <2>2, <2>3, <1>4
<1>5. ASSUME NEW r \in Relay, RelayStep(r) \/ RelayFault(r), UNCHANGED effects
      PROVE  [Box!MailboxNext]_<<sent, effects>>
  <2>1. UNCHANGED rows /\ (UNCHANGED log \/ \E m \in Message : Send(m))
    BY <1>5, IdTypes, RelayKeeps DEF DInv
  <2> QED
    BY <2>1, <1>3, <1>5
<1>6. ASSUME NEW c \in Consumer, ConsumerStep(c) \/ ConsumerFault(c), UNCHANGED rows
      PROVE  [Box!MailboxNext]_<<sent, effects>>
  <2>1. UNCHANGED log
    BY <1>6, ConsumerOnlyAdds
  <2>2. sent' = sent
    BY <2>1, <1>6 DEF Published, AllRows, Rows
  <2>3. CASE CommitHandler(c)
    <3>1. /\ MessageOf(c) \in Message /\ MessageOf(c) \in sent
          /\ effects[MessageOf(c)] = 0
          /\ effects' = [effects EXCEPT ![MessageOf(c)] = 1]
      BY <2>3, HandlerTakesEffect
    <3>2. Box!TakeEffect(MessageOf(c))
      BY <2>2, <3>1 DEF Box!TakeEffect
    <3> QED
      BY <3>1, <3>2 DEF Box!MailboxNext
  <2>4. CASE ~CommitHandler(c)
    <3>1. UNCHANGED effects
      BY <2>4, <1>6, OnlyHandlersTakeEffect
    <3> QED
      BY <2>2, <3>1
  <2> QED
    BY <2>3, <2>4
<1>7. ASSUME NEW o \in Operator, ReplayStep(o) \/ FailReplay(o),
             UNCHANGED <<kafkaVars, marked, pass, consumerVars>>
      PROVE  [Box!MailboxNext]_<<sent, effects>>
  <2>1. UNCHANGED rows \/ \E m \in Message : AppendRow(Orchestrator, m)
    BY <1>7, IdTypes, OperatorKeeps DEF consumerVars
  <2> QED
    BY <2>1, <1>4, <1>7, OrchestratorAssumption DEF kafkaVars, consumerVars
<1>8. ASSUME NEW sv \in Service, NEW source \in Source, Emit(sv, source)
      PROVE  [Box!MailboxNext]_<<sent, effects>>
  BY <1>1, <1>4, <1>8 DEF Emit, kafkaVars, consumerVars
<1>9. ASSUME NEW source \in Source, Intrude(source)
      PROVE  [Box!MailboxNext]_<<sent, effects>>
  BY <1>1, <1>3, <1>9 DEF Intrude, relayVars, consumerVars
<1>10. CASE Next
  <2>1. CASE \E r \in Relay : RelayWorks(r)
    BY <2>1, <1>5 DEF RelayWorks, consumerVars
  <2>2. CASE \E c \in Consumer : ConsumerWorks(c)
    BY <2>2, <1>6 DEF ConsumerWorks, relayVars
  <2>3. CASE \E o \in Operator : OperatorWorks(o)
    BY <2>3, <1>7 DEF OperatorWorks
  <2>4. CASE Fault
    BY <2>4, <1>5, <1>6, <1>7 DEF Fault, relayVars, consumerVars
  <2> QED
    BY <1>8, <1>9, <1>10, <2>1, <2>2, <2>3, <2>4 DEF Next
<1>11. CASE UNCHANGED vars
  BY <1>3, <1>11 DEF vars, kafkaVars, relayVars, consumerVars
<1> QED
  BY <1>10, <1>11

\* Outbox, relay, topic, consumer and inbox together are a mailbox: what was sent
\* stays sent, and takes effect at most once.  This is what the rest of the model
\* takes for granted of the delivery of messages.
THEOREM DeliveryIsMailbox == Spec => ImplementsMailbox
<1>1. Init => Box!MailboxInit
  <2> SUFFICES ASSUME Init
               PROVE  Box!MailboxInit
    OBVIOUS
  <2>1. AllRows = {} /\ Published = {}
    BY DEF Init, K_Init, R_Init, AllRows, Rows, Published
  <2> QED
    BY <2>1 DEF Init, C_Init, Box!MailboxInit
<1>2. DInv /\ [Next]_vars => [Box!MailboxNext]_<<AllRows \cup Published, effects>>
  BY StepOfMailbox
<1> QED
  BY <1>1, <1>2, DeliveryInvariantHolds, PTL DEF Spec, ImplementsMailbox, Box!MailboxSpec
=============================================================================
