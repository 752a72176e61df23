----------------------------- MODULE OneWay_proofs -----------------------------
(***************************************************************************)
(* Proofs about the two 1W components.  Sequences: none is sent twice or   *)
(* out of order before the ring wraps, and what is skipped between two     *)
(* transmissions stays within its bound also where it wraps, for every set *)
(* of identities, every stride and ring, and every interleaving of         *)
(* transmissions, flash failures, seeds and reboots.  Adoption: the armed  *)
(* window ends when it should and for no other reason, a report is about   *)
(* what was really heard, and every frame the hub sends with an adopted    *)
(* identity speaks for that identity, for every set of remotes, every key  *)
(* and every length of the window.                                         *)
(***************************************************************************)
EXTENDS OneWaySequence, OneWayAdoption, TLAPS

(***************************************************************************)
(* What the counter of one identity, its reservation and the flash know of *)
(* each other.  The reserved block [next, reserved) lies below the flash   *)
(* value; everything sent lies below both; and a value that is staged but  *)
(* not committed never undercuts the counter.                              *)
(***************************************************************************)
Ledger(i) ==
    /\ i \in disputed => last[i] = None
    /\ i \notin wrapped =>
        /\ next[i] <= reserved[i]
        /\ staged[i] # None /\ i \notin disputed => next[i] = reserved[i] /\ next[i] <= staged[i]
        /\ last[i] # None => flash[i] # None /\ last[i] < flash[i] /\ last[i] < next[i]
        /\ i \notin disputed /\ next[i] # reserved[i] => flash[i] # None /\ reserved[i] <= flash[i]

\* The sequence in flight is between what was sent and what comes next.
InFlightOrdered ==
    inflight # None /\ sender \notin wrapped =>
        /\ inflight < next[sender]
        /\ last[sender] # None => last[sender] < inflight
        /\ sender \notin disputed => flash[sender] # None /\ inflight < flash[sender]

IInv == TypeOK /\ (\A i \in Identities : Ledger(i)) /\ InFlightOrdered
-----------------------------------------------------------------------------
\* uint16_t sums stay in the ring, and a sum that did not wrap is the plain one.
LEMMA RingSum ==
    ASSUME NEW a \in Seq16, NEW b \in Seq16
    PROVE  /\ RingPlus(a, b) \in Seq16
           /\ ~(RingPlus(a, b) < a) => RingPlus(a, b) = a + b
           /\ a + b < Ring => RingPlus(a, b) = a + b
  BY SequenceAssumption DEF RingPlus, Seq16

\* The ring is an interval of numbers that holds all configured values.
LEMMA RingFacts ==
    /\ Ring \in Nat /\ None \notin Nat
    /\ \A a \in Seq16 : a \in Nat /\ a < Ring
    /\ Initials \subseteq Seq16 /\ Seeds \subseteq Seq16
  BY SequenceAssumption DEF Seq16

\* The constants that are added to counters are values of the ring.
LEMMA SmallSums == 1 \in Seq16 /\ ONEWAY_SEQUENCE_STRIDE \in Seq16 /\ None \notin Seq16
  BY SequenceAssumption DEF Seq16

\* A sync() moves staged values into the flash and leaves the others alone.
LEMMA CommitEffect ==
    ASSUME NEW stage \in [Identities -> Seq16 \cup {None}],
           NEW S \in SUBSET Pendings(stage),
           flash \in [Identities -> Seq16 \cup {None}],
           Commit(stage, S)
    PROVE  /\ flash' \in [Identities -> Seq16 \cup {None}]
           /\ staged' \in [Identities -> Seq16 \cup {None}]
           /\ \A i \in Identities :
                \/ stage[i] # None /\ flash'[i] = stage[i] /\ staged'[i] = None
                \/ flash'[i] = flash[i] /\ staged'[i] = stage[i]
  BY DEF Commit, Pendings

\* Every job is a non-empty sequence of frames.
LEMMA JobTypes == \A i : JobsOf(i) \subseteq Seq(Frames) \ {<<>>}
  <1>1. {<<"EXECUTE">>, <<"REMOVE">>} \subseteq Seq(Frames) \ {<<>>}
    BY DEF Frames
  <1>2. SomfyEnrollment \in Seq(Frames) \ {<<>>}
    BY DEF Frames, SomfyEnrollment
  <1>3. VeluxEnrollment \in Seq(Frames) \ {<<>>}
    BY DEF Frames, VeluxEnrollment
  <1>4. QED
    BY <1>1, <1>2, <1>3 DEF JobsOf

\* After AfterFrame the job is still a sequence of frames.
LEMMA JobShrinks ==
    ASSUME NEW sent \in BOOLEAN, TypeOK, job # <<>>, AfterFrame(sent)
    PROVE  job' \in Seq(Frames)
  BY DEF AfterFrame, TypeOK

\* A persist() that succeeds leaves its value in flash and nothing staged.
LEMMA PersistEffect ==
    ASSUME NEW i \in Identities, NEW value \in Seq16, TypeOK, Persist(i, value)
    PROVE  /\ flash' \in [Identities -> Seq16 \cup {None}]
           /\ staged' \in [Identities -> Seq16 \cup {None}]
           /\ flash'[i] = value /\ staged'[i] = None
           /\ \A j \in Identities \ {i} :
                \/ staged[j] # None /\ flash'[j] = staged[j] /\ staged'[j] = None
                \/ flash'[j] = flash[j] /\ staged'[j] = staged[j]
  <1> DEFINE stage == [staged EXCEPT ![i] = value]
  <1>1. stage \in [Identities -> Seq16 \cup {None}] /\ stage[i] = value
    BY DEF TypeOK
  <1>2. i \in Pendings(stage)
    BY <1>1, SmallSums DEF Pendings
  <1>3. Commit(stage, Pendings(stage))
    BY DEF Persist
  <1>4. QED
    BY <1>1, <1>2, <1>3, CommitEffect DEF Commit, TypeOK

\* A persist() that fails may still leave its value staged or in flash.
LEMMA PersistFailsEffect ==
    ASSUME NEW i \in Identities, NEW value \in Seq16, TypeOK, PersistFails(i, value)
    PROVE  /\ flash' \in [Identities -> Seq16 \cup {None}]
           /\ staged' \in [Identities -> Seq16 \cup {None}]
           /\ \/ flash'[i] = value /\ staged'[i] = None
              \/ flash'[i] = flash[i] /\ staged'[i] = value
              \/ flash'[i] = flash[i] /\ staged'[i] = staged[i]
           /\ \A j \in Identities \ {i} :
                \/ staged[j] # None /\ flash'[j] = staged[j] /\ staged'[j] = None
                \/ flash'[j] = flash[j] /\ staged'[j] = staged[j]
  <1> DEFINE stage == [staged EXCEPT ![i] = value]
  <1>1. CASE UNCHANGED <<flash, staged>>
    BY <1>1 DEF TypeOK
  <1>2. CASE \E S \in SUBSET Pendings(stage) : S # Pendings(stage) /\ Commit(stage, S)
    <2>1. PICK S \in SUBSET Pendings(stage) : Commit(stage, S)
      BY <1>2
    <2>2. stage \in [Identities -> Seq16 \cup {None}] /\ stage[i] = value
      BY DEF TypeOK
    <2>3. QED
      BY <2>1, <2>2, CommitEffect DEF TypeOK
  <1>3. QED
    BY <1>1, <1>2 DEF PersistFails

\* next() with a durable reservation: the sequence handed out lies below the flash value.
LEMMA ReserveEffect ==
    ASSUME TypeOK, NextReserves, sender \notin wrapped'
    PROVE  /\ sender \notin wrapped
           /\ reserved'[sender] = next[sender] + ONEWAY_SEQUENCE_STRIDE
           /\ flash'[sender] = reserved'[sender] /\ staged'[sender] = None
           /\ next'[sender] = next[sender] + 1
           /\ next'[sender] <= reserved'[sender]
  <1>1. sender \in Identities /\ next[sender] \in Seq16 /\ Persist(sender, NewReservation(sender))
    BY DEF NextReserves, TypeOK
  <1>2. sender \notin wrapped /\ ~(NewReservation(sender) < next[sender])
    BY <1>1 DEF NextReserves, NoteWrap, TypeOK
  <1>3. NewReservation(sender) = next[sender] + ONEWAY_SEQUENCE_STRIDE /\ NewReservation(sender) \in Seq16
    BY <1>1, <1>2, RingSum, SmallSums DEF NewReservation
  <1>4. RingPlus(next[sender], 1) = next[sender] + 1
    <2>1. next[sender] + 1 < Ring
      BY <1>1, <1>3, SequenceAssumption DEF Seq16
    <2>2. QED
      BY <1>1, <2>1, RingSum, SmallSums
  <1>5. flash'[sender] = NewReservation(sender) /\ staged'[sender] = None
    BY <1>1, <1>3, PersistEffect
  <1>6. reserved'[sender] = NewReservation(sender) /\ next'[sender] = RingPlus(next[sender], 1)
    BY <1>1 DEF NextReserves, HandOut, TypeOK
  <1>7. QED
    BY <1>1, <1>2, <1>3, <1>4, <1>5, <1>6, SequenceAssumption DEF Seq16

\* next() that is refused: what may reach the flash all the same is not below the counter.
LEMMA RefuseEffect ==
    ASSUME TypeOK, NextRefuses, sender \notin wrapped'
    PROVE  /\ sender \notin wrapped
           /\ next[sender] <= NewReservation(sender)
           /\ \/ flash'[sender] = NewReservation(sender) /\ staged'[sender] = None
              \/ flash'[sender] = flash[sender] /\ staged'[sender] = NewReservation(sender)
              \/ flash'[sender] = flash[sender] /\ staged'[sender] = staged[sender]
  <1>1. sender \in Identities /\ next[sender] \in Seq16 /\ PersistFails(sender, NewReservation(sender))
    BY DEF NextRefuses, TypeOK
  <1>2. sender \notin wrapped /\ ~(NewReservation(sender) < next[sender])
    BY <1>1 DEF NextRefuses, NoteWrap, TypeOK
  <1>3. NewReservation(sender) \in Seq16
    BY <1>1, RingSum, SmallSums DEF NewReservation
  <1>4. QED
    BY <1>1, <1>2, <1>3, PersistFailsEffect, SequenceAssumption DEF Seq16
-----------------------------------------------------------------------------
(***************************************************************************)
(* Every step keeps the types: counters never leave the uint16_t ring.     *)
(***************************************************************************)
LEMMA TypeStep == TypeOK /\ [Next]_vars => TypeOK'
  <1> SUFFICES ASSUME TypeOK, [Next]_vars PROVE TypeOK'
    OBVIOUS
  <1> USE SmallSums
  <1>0. \A i \in Identities : NewReservation(i) \in Seq16 /\ RingPlus(next[i], 1) \in Seq16
    BY RingSum DEF NewReservation, TypeOK
  <1>1. ASSUME NEW i \in Identities, Start(i) PROVE TypeOK'
    <2>1. job' \in Seq(Frames) /\ job' # <<>>
      BY <1>1, JobTypes DEF Start
    <2>2. QED
      BY <1>1, <2>1 DEF Start, TypeOK, counters, history
  <1>2. ASSUME NEW i \in Identities, NEW v \in Seeds, Seed(i, v) PROVE TypeOK'
    <2>1. v \in Seq16
      BY SequenceAssumption DEF Seq16
    <2>2. Persist(i, v)
      BY <1>2 DEF Seed
    <2>3. QED
      BY <1>2, <2>1, <2>2, PersistEffect DEF Seed, TypeOK
  <1>3. ASSUME NEW i \in Identities, NEW v \in Seeds, SeedFails(i, v) PROVE TypeOK'
    <2>1. v \in Seq16
      BY SequenceAssumption DEF Seq16
    <2>2. PersistFails(i, v)
      BY <1>3 DEF SeedFails
    <2>3. QED
      BY <1>3, <2>1, <2>2, PersistFailsEffect DEF SeedFails, TypeOK
  <1>4. CASE NextInBlock
    BY <1>0, <1>4 DEF NextInBlock, Asking, HandOut, TypeOK, history
  <1>5. CASE NextReserves
    <2>1. sender \in Identities /\ Persist(sender, NewReservation(sender))
      BY <1>5 DEF NextReserves, TypeOK
    <2>2. flash' \in [Identities -> Seq16 \cup {None}] /\ staged' \in [Identities -> Seq16 \cup {None}]
      BY <1>0, <2>1, PersistEffect
    <2>3. QED
      BY <1>0, <1>5, <2>1, <2>2 DEF NextReserves, Asking, HandOut, NoteWrap, TypeOK
  <1>6. CASE NextRefuses
    <2>1. sender \in Identities /\ PersistFails(sender, NewReservation(sender))
      BY <1>6 DEF NextRefuses, TypeOK
    <2>2. flash' \in [Identities -> Seq16 \cup {None}] /\ staged' \in [Identities -> Seq16 \cup {None}]
      BY <1>0, <2>1, PersistFailsEffect
    <2>3. job' \in Seq(Frames) /\ inflight' = None
      BY <1>6, JobShrinks DEF NextRefuses, Asking
    <2>4. QED
      BY <1>6, <2>1, <2>2, <2>3 DEF NextRefuses, NoteWrap, TypeOK
  <1>7. CASE Transmit
    <2>1. job' \in Seq(Frames)
      BY <1>7, JobShrinks DEF Transmit, TypeOK
    <2>2. QED
      BY <1>7, <2>1 DEF Transmit, TypeOK, counters
  <1>8. CASE TransmitFails
    <2>1. job' \in Seq(Frames)
      BY <1>8, JobShrinks DEF TransmitFails, TypeOK
    <2>2. QED
      BY <1>8, <2>1 DEF TransmitFails, TypeOK, counters
  <1>9. CASE BackgroundSync
    <2>1. PICK S \in SUBSET Pendings(staged) : Commit(staged, S)
      BY <1>9 DEF BackgroundSync
    <2>2. flash' \in [Identities -> Seq16 \cup {None}] /\ staged' \in [Identities -> Seq16 \cup {None}]
      BY <2>1, CommitEffect DEF TypeOK
    <2>3. QED
      BY <1>9, <2>2 DEF BackgroundSync, TypeOK, history
  <1>10. CASE Reboot
    <2>1. next' \in [Identities -> Seq16]
      BY <1>10, SequenceAssumption DEF Reboot, add_identity, TypeOK, Seq16
    <2>2. QED
      BY <1>10, <2>1 DEF Reboot, TypeOK
  <1>11. CASE UNCHANGED vars
    BY <1>11 DEF vars, TypeOK
  <1>12. QED
    BY <1>1, <1>2, <1>3, <1>4, <1>5, <1>6, <1>7, <1>8, <1>9, <1>10, <1>11 DEF Next

\* Initially no identity has reserved or sent anything.
LEMMA InitialState == Init => IInv
  <1> SUFFICES ASSUME Init PROVE IInv
    OBVIOUS
  <1>0. Initials \subseteq Seq16
    BY SequenceAssumption DEF Seq16
  <1>1. next \in [Identities -> Seq16]
    BY <1>0 DEF Init
  <1>2. TypeOK
    <2>1. <<>> \in Seq(Frames)
      OBVIOUS
    <2>2. QED
      BY <1>1, <2>1 DEF Init, TypeOK
  <1>3. ASSUME NEW i \in Identities PROVE Ledger(i)
    <2>1. next[i] \in Nat /\ reserved[i] = next[i] /\ last[i] = None /\ staged[i] = None
      BY <1>1, SequenceAssumption DEF Init, Seq16
    <2>2. QED
      BY <2>1 DEF Ledger
  <1>4. QED
    BY <1>2, <1>3 DEF Init, IInv, InFlightOrdered

(***************************************************************************)
(* A step that leaves the counter of an identity alone keeps its ledger in *)
(* order, also when some sync() commits what is staged for it.             *)
(***************************************************************************)
LEMMA LedgerUndisturbed ==
    ASSUME NEW i \in Identities, TypeOK, Ledger(i),
           next'[i] = next[i], reserved'[i] = reserved[i], last'[i] = last[i],
           i \in disputed' <=> i \in disputed, i \in wrapped' <=> i \in wrapped,
           \/ staged[i] # None /\ flash'[i] = staged[i] /\ staged'[i] = None
           \/ flash'[i] = flash[i] /\ staged'[i] = staged[i]
    PROVE  Ledger(i)'
  <1>1. /\ next[i] \in Nat /\ reserved[i] \in Nat
        /\ flash[i] \in Nat \cup {None} /\ staged[i] \in Nat \cup {None} /\ last[i] \in Nat \cup {None}
    BY SequenceAssumption DEF TypeOK, Seq16
  <1>2. QED
    BY <1>1 DEF Ledger

(***************************************************************************)
(* Every step keeps the ledger of every identity in order.                 *)
(***************************************************************************)
LEMMA LedgerStep ==
    ASSUME IInv, [Next]_vars, NEW i \in Identities
    PROVE  Ledger(i)'
  <1>0. TypeOK /\ TypeOK' /\ Ledger(i) /\ InFlightOrdered
    BY TypeStep DEF IInv
  <1>n. /\ next[i] \in Nat /\ reserved[i] \in Nat
        /\ flash[i] \in Nat \cup {None} /\ staged[i] \in Nat \cup {None} /\ last[i] \in Nat \cup {None}
        /\ inflight \in Nat \cup {None} /\ None \notin Nat
    BY <1>0, RingFacts DEF TypeOK
  <1>1. ASSUME NEW j \in Identities, Start(j) PROVE Ledger(i)'
    BY <1>0, <1>1, LedgerUndisturbed DEF Start, counters, history
  <1>2. ASSUME NEW j \in Identities, NEW v \in Seeds, Seed(j, v) PROVE Ledger(i)'
    <2>1. v \in Seq16 /\ v \in Nat /\ Persist(j, v)
      BY <1>2, RingFacts DEF Seed
    <2>2. CASE i = j
      <3>1. next'[i] = v /\ reserved'[i] = v /\ last'[i] = None /\ i \notin disputed'
        BY <1>0, <1>2, <2>2 DEF Seed, TypeOK
      <3>2. staged'[i] = None
        BY <1>0, <2>1, <2>2, PersistEffect
      <3>3. QED
        BY <2>1, <3>1, <3>2 DEF Ledger
    <2>3. CASE i # j
      <3>1. /\ next'[i] = next[i] /\ reserved'[i] = reserved[i] /\ last'[i] = last[i]
            /\ (i \in disputed' <=> i \in disputed) /\ (i \in wrapped' <=> i \in wrapped)
        BY <1>0, <1>2, <2>3 DEF Seed, TypeOK
      <3>2. QED
        BY <1>0, <2>1, <2>3, <3>1, PersistEffect, LedgerUndisturbed
    <2>4. QED
      BY <2>2, <2>3
  <1>3. ASSUME NEW j \in Identities, NEW v \in Seeds, SeedFails(j, v) PROVE Ledger(i)'
    <2>1. v \in Seq16 /\ PersistFails(j, v)
      BY <1>3, RingFacts DEF SeedFails
    <2>2. CASE i = j
      <3>1. /\ next'[i] = next[i] /\ reserved'[i] = reserved[i] /\ last'[i] = None
            /\ i \in disputed' /\ wrapped' = wrapped
        BY <1>0, <1>3, <2>2 DEF SeedFails, TypeOK
      <3>2. QED
        BY <1>0, <1>n, <3>1 DEF Ledger
    <2>3. CASE i # j
      <3>1. /\ next'[i] = next[i] /\ reserved'[i] = reserved[i] /\ last'[i] = last[i]
            /\ (i \in disputed' <=> i \in disputed) /\ (i \in wrapped' <=> i \in wrapped)
        BY <1>0, <1>3, <2>3 DEF SeedFails, TypeOK
      <3>2. QED
        BY <1>0, <2>1, <2>3, <3>1, PersistFailsEffect, LedgerUndisturbed
    <2>4. QED
      BY <2>2, <2>3
  <1>4. CASE NextInBlock
    <2>1. /\ reserved'[i] = reserved[i] /\ UNCHANGED <<flash, staged, last, disputed, wrapped>>
          /\ next'[i] = IF i = sender THEN RingPlus(next[i], 1) ELSE next[i]
      BY <1>0, <1>4 DEF NextInBlock, HandOut, TypeOK, history
    <2>2. CASE i = sender /\ i \notin wrapped
      <3>1. next[i] < reserved[i]
        BY <1>0, <1>n, <1>4, <2>2 DEF NextInBlock, Ledger
      <3>2. next[i] + 1 < Ring
        BY <1>0, <1>n, <3>1, RingFacts DEF TypeOK
      <3>3. next'[i] = next[i] + 1
        BY <1>0, <2>1, <2>2, <3>2, RingSum, SmallSums DEF TypeOK
      <3>4. QED
        BY <1>0, <1>n, <2>1, <3>1, <3>3 DEF Ledger
    <2>3. CASE i = sender /\ i \in wrapped
      BY <1>0, <2>1, <2>3 DEF Ledger
    <2>4. CASE i # sender
      BY <1>0, <2>1, <2>4, LedgerUndisturbed
    <2>5. QED
      BY <2>2, <2>3, <2>4
  <1>5. CASE NextReserves
    <2>0. /\ UNCHANGED last /\ disputed' = disputed \ {sender}
          /\ (i # sender => (i \in wrapped' <=> i \in wrapped))
      BY <1>5 DEF NextReserves, NoteWrap
    <2>1. CASE i = sender /\ i \notin wrapped'
      <3>1. /\ i \notin wrapped
            /\ flash'[i] = reserved'[i] /\ staged'[i] = None
            /\ next'[i] = next[i] + 1 /\ next'[i] <= reserved'[i]
        BY <1>0, <1>5, <2>1, ReserveEffect
      <3>2. reserved'[i] \in Nat
        BY <1>0, RingFacts DEF TypeOK
      <3>3. last[i] # None => last[i] < next'[i] /\ last[i] < flash'[i]
        BY <1>0, <1>n, <3>1, <3>2 DEF Ledger
      <3>4. QED
        BY <1>n, <2>0, <2>1, <3>1, <3>2, <3>3 DEF Ledger
    <2>2. CASE i = sender /\ i \in wrapped'
      BY <2>0, <2>2 DEF Ledger
    <2>3. CASE i # sender
      <3>1. next'[i] = next[i] /\ reserved'[i] = reserved[i]
        BY <1>0, <1>5, <2>3 DEF NextReserves, HandOut, TypeOK
      <3>2. sender \in Identities /\ NewReservation(sender) \in Seq16 /\ Persist(sender, NewReservation(sender))
        BY <1>0, <1>5, RingSum, SmallSums DEF NextReserves, NewReservation, TypeOK
      <3>3. QED
        BY <1>0, <2>0, <2>3, <3>1, <3>2, PersistEffect, LedgerUndisturbed
    <2>4. QED
      BY <2>1, <2>2, <2>3
  <1>6. CASE NextRefuses
    <2>0. /\ UNCHANGED <<last, disputed, next, reserved>>
          /\ (i # sender => (i \in wrapped' <=> i \in wrapped))
      BY <1>6 DEF NextRefuses, NoteWrap
    <2>1. CASE i = sender /\ i \notin wrapped'
      <3>1. /\ i \notin wrapped /\ next[i] <= NewReservation(i)
            /\ \/ flash'[i] = NewReservation(i) /\ staged'[i] = None
               \/ flash'[i] = flash[i] /\ staged'[i] = NewReservation(i)
               \/ flash'[i] = flash[i] /\ staged'[i] = staged[i]
        BY <1>0, <1>6, <2>1, RefuseEffect
      <3>2. NewReservation(i) \in Nat /\ next[i] = reserved[i]
        BY <1>0, <1>6, <2>1, RingSum, SmallSums, RingFacts DEF NextRefuses, NewReservation, TypeOK
      <3>3. QED
        BY <1>0, <1>n, <2>0, <3>1, <3>2 DEF Ledger
    <2>2. CASE i = sender /\ i \in wrapped'
      BY <1>0, <2>0, <2>2 DEF Ledger
    <2>3. CASE i # sender
      <3>1. sender \in Identities /\ NewReservation(sender) \in Seq16
            /\ PersistFails(sender, NewReservation(sender))
        BY <1>0, <1>6, RingSum, SmallSums DEF NextRefuses, NewReservation, TypeOK
      <3>2. QED
        BY <1>0, <2>0, <2>3, <3>1, PersistFailsEffect, LedgerUndisturbed
    <2>4. QED
      BY <2>1, <2>2, <2>3
  <1>7. CASE Transmit
    <2>0. UNCHANGED <<flash, staged, next, reserved, disputed, wrapped>> /\ inflight # None
      BY <1>7 DEF Transmit, counters
    <2>1. CASE i = sender
      <3>1. last'[i] = IF i \in disputed THEN None ELSE inflight
        BY <1>0, <1>7, <2>1 DEF Transmit, TypeOK
      <3>2. QED
        BY <1>0, <1>n, <2>0, <2>1, <3>1 DEF Ledger, InFlightOrdered
    <2>2. CASE i # sender
      <3>1. last'[i] = last[i]
        BY <1>0, <1>7, <2>2 DEF Transmit, TypeOK
      <3>2. QED
        BY <1>0, <2>0, <3>1, LedgerUndisturbed
    <2>3. QED
      BY <2>1, <2>2
  <1>8. CASE TransmitFails
    BY <1>0, <1>8, LedgerUndisturbed DEF TransmitFails, counters
  <1>9. CASE BackgroundSync
    <2>1. PICK S \in SUBSET Pendings(staged) : Commit(staged, S)
      BY <1>9 DEF BackgroundSync
    <2>2. \/ staged[i] # None /\ flash'[i] = staged[i] /\ staged'[i] = None
          \/ flash'[i] = flash[i] /\ staged'[i] = staged[i]
      BY <1>0, <2>1, CommitEffect DEF TypeOK
    <2>3. QED
      BY <1>0, <1>9, <2>2, LedgerUndisturbed DEF BackgroundSync, history
  <1>10. CASE Reboot
    <2>1. PICK initial \in [Identities -> Initials] :
            next' = [j \in Identities |-> add_identity(flash[j], initial[j])]
      BY <1>10 DEF Reboot
    <2>2. initial[i] \in Nat
      BY RingFacts
    <2>3. next'[i] \in Nat /\ (flash[i] # None => flash[i] <= next'[i])
      BY <1>n, <2>1, <2>2 DEF add_identity
    <2>4. /\ reserved'[i] = next'[i] /\ staged'[i] = None
          /\ UNCHANGED <<flash, last, wrapped>> /\ disputed' = {}
      BY <1>10 DEF Reboot
    <2>5. QED
      BY <1>0, <1>n, <2>3, <2>4 DEF Ledger
  <1>11. CASE UNCHANGED vars
    BY <1>0, <1>11, LedgerUndisturbed DEF vars
  <1>12. QED
    BY <1>1, <1>2, <1>3, <1>4, <1>5, <1>6, <1>7, <1>8, <1>9, <1>10, <1>11 DEF Next

(***************************************************************************)
(* Every step keeps the sequence in flight between what was sent before    *)
(* and what the flash value guards.                                        *)
(***************************************************************************)
LEMMA InFlightStep == IInv /\ [Next]_vars => InFlightOrdered'
  <1> SUFFICES ASSUME IInv, [Next]_vars, inflight' # None, sender' \notin wrapped'
               PROVE  /\ inflight' < next'[sender']
                      /\ last'[sender'] # None => last'[sender'] < inflight'
                      /\ sender' \notin disputed' => flash'[sender'] # None /\ inflight' < flash'[sender']
    BY DEF InFlightOrdered
  <1>0. TypeOK /\ TypeOK' /\ InFlightOrdered /\ sender \in Identities /\ Ledger(sender)
    BY TypeStep DEF IInv, TypeOK
  <1>n. /\ next[sender] \in Nat /\ reserved[sender] \in Nat /\ next[sender] < Ring /\ reserved[sender] < Ring
        /\ flash[sender] \in Nat \cup {None} /\ staged[sender] \in Nat \cup {None}
        /\ last[sender] \in Nat \cup {None} /\ inflight \in Nat \cup {None} /\ None \notin Nat /\ Ring \in Nat
    BY <1>0, RingFacts DEF TypeOK
  <1>1. CASE NextInBlock
    <2>1. /\ UNCHANGED <<flash, staged, reserved, sender, last, disputed, wrapped>>
          /\ inflight' = next[sender] /\ next'[sender] = RingPlus(next[sender], 1)
          /\ next[sender] # reserved[sender]
      BY <1>0, <1>1 DEF NextInBlock, HandOut, TypeOK, history
    <2>2. next[sender] < reserved[sender] /\ next[sender] + 1 < Ring
      BY <1>0, <1>n, <2>1 DEF Ledger
    <2>3. next'[sender] = next[sender] + 1
      BY <1>0, <2>1, <2>2, RingSum, SmallSums DEF TypeOK
    <2>4. QED
      BY <1>0, <1>n, <2>1, <2>2, <2>3 DEF Ledger
  <1>2. CASE NextReserves
    <2>1. UNCHANGED <<sender, last>> /\ inflight' = next[sender]
      BY <1>2 DEF NextReserves, HandOut
    <2>2. /\ sender \notin wrapped /\ flash'[sender] = reserved'[sender]
          /\ next'[sender] = next[sender] + 1 /\ next'[sender] <= reserved'[sender]
      BY <1>0, <1>2, <2>1, ReserveEffect
    <2>3. reserved'[sender] \in Nat
      BY <1>0, RingFacts DEF TypeOK
    <2>4. QED
      BY <1>0, <1>n, <2>1, <2>2, <2>3 DEF Ledger
  <1>3. CASE BackgroundSync
    <2>1. UNCHANGED <<next, reserved, sender, inflight, last, disputed, wrapped>>
      BY <1>3 DEF BackgroundSync, history
    <2>2. PICK S \in SUBSET Pendings(staged) : Commit(staged, S)
      BY <1>3 DEF BackgroundSync
    <2>3. \/ staged[sender] # None /\ flash'[sender] = staged[sender]
          \/ flash'[sender] = flash[sender]
      BY <1>0, <2>2, CommitEffect DEF TypeOK
    <2>4. QED
      BY <1>0, <1>n, <2>1, <2>3 DEF Ledger, InFlightOrdered
  <1>4. CASE UNCHANGED vars
    BY <1>0, <1>4 DEF vars, InFlightOrdered
  <1>5. ASSUME NEW i \in Identities, Start(i) PROVE FALSE
    BY <1>0, <1>5 DEF Start, TypeOK
  <1>6. ASSUME NEW i \in Identities, NEW v \in Seeds, Seed(i, v) \/ SeedFails(i, v) PROVE FALSE
    BY <1>0, <1>6 DEF Seed, SeedFails, TypeOK
  <1>7. ASSUME NextRefuses \/ Transmit \/ TransmitFails \/ Reboot PROVE FALSE
    BY <1>7 DEF NextRefuses, Transmit, TransmitFails, Reboot, Asking
  <1>8. QED
    BY <1>1, <1>2, <1>3, <1>4, <1>5, <1>6, <1>7 DEF Next

\* IInv is inductive.
LEMMA Inductive == Spec => []IInv
  <1>1. IInv /\ [Next]_vars => IInv'
    BY TypeStep, LedgerStep, InFlightStep DEF IInv
  <1>2. QED
    BY <1>1, InitialState, PTL DEF Spec

(***************************************************************************)
(* No replay: until the ring wraps, every sequence that is about to go on  *)
(* the air is above every one of the same identity that went before it.    *)
(***************************************************************************)
THEOREM NeverReplayed == Spec => []NoReplay
  <1>1. IInv => NoReplay
    BY DEF IInv, InFlightOrdered, NoReplay
  <1>2. QED
    BY <1>1, Inductive, PTL

(***************************************************************************)
(* OneWaySequenceStore::next never hands out a sequence that the flash     *)
(* does not already guard against reuse.                                   *)
(***************************************************************************)
THEOREM DurableFirst == Spec => []ReservedBeforeUse
  <1>1. IInv => ReservedBeforeUse
    BY DEF IInv, InFlightOrdered, ReservedBeforeUse
  <1>2. QED
    BY <1>1, Inductive, PTL

(***************************************************************************)
(* The store's counters and preferences keep their types in every          *)
(* behaviour.                                                              *)
(***************************************************************************)
THEOREM TypeCorrect == Spec => []TypeOK
  <1>1. Init => TypeOK
    BY InitialState DEF IInv
  <1>2. QED
    BY <1>1, TypeStep, PTL DEF Spec

-----------------------------------------------------------------------------
(***************************************************************************)
(* How far the counter runs ahead.  The reserved block is at most a stride *)
(* long, so a reboot, which resumes at the flash value, skips at most a    *)
(* stride; everything is counted around the ring.                          *)
(***************************************************************************)
Out(i) == inflight # None /\ sender = i

\* The sequence of identity i that is next on the air.
Front(i) == IF Out(i) THEN inflight ELSE next[i]

Block(i) ==
    /\ RingDistance(Front(i), reserved[i]) <= ONEWAY_SEQUENCE_STRIDE
    /\ Out(i) => next[i] = RingPlus(inflight, 1) /\ inflight # reserved[i]
    /\ i \notin disputed /\ (Out(i) \/ next[i] # reserved[i]) => flash[i] = reserved[i] /\ staged[i] = None

\* The last sequence is known, and no configured start value lies ahead of it.
Known(i) ==
    /\ last[i] # None
    /\ Initials = {0} \/ (i \notin wrapped /\ \A initial \in Initials : initial <= last[i])

Allowance(i) == 1 + ONEWAY_SEQUENCE_STRIDE * boots[i] + wasted[i]

Ahead(i) ==
    /\ boots[i] <= MaxBoots /\ wasted[i] <= MaxWasted
    /\ Known(i) =>
         /\ flash[i] # None /\ RingDistance(Front(i), flash[i]) <= ONEWAY_SEQUENCE_STRIDE
         /\ staged[i] # None => RingDistance(Front(i), staged[i]) <= ONEWAY_SEQUENCE_STRIDE
         /\ RingDistance(last[i], Front(i)) \in 1..Allowance(i)

SkipInv == \A i \in Identities : Block(i) /\ Ahead(i)

\* What may be skipped between two transmissions does not lap the ring.
WithinOneLap == 1 + ONEWAY_SEQUENCE_STRIDE * MaxBoots + MaxWasted < Ring

\* Distances around the ring.
LEMMA Distances ==
    ASSUME NEW a \in Seq16, NEW b \in Seq16
    PROVE  /\ RingDistance(a, b) \in Nat /\ RingDistance(a, b) < Ring
           /\ RingDistance(a, RingPlus(a, b)) = b
           /\ RingDistance(a, b) = 0 <=> a = b
           /\ RingDistance(a, b) >= 1 => RingDistance(RingPlus(a, 1), b) = RingDistance(a, b) - 1
  <1>1. /\ a \in Nat /\ b \in Nat /\ a < Ring /\ b < Ring /\ Ring \in Nat
    BY SequenceAssumption DEF Seq16
  <1>2. QED
    BY <1>1 DEF RingDistance, RingPlus

LEMMA DistancesAdd ==
    ASSUME NEW a \in Seq16, NEW b \in Seq16, NEW c \in Seq16, RingDistance(a, b) + RingDistance(b, c) < Ring
    PROVE  RingDistance(a, c) = RingDistance(a, b) + RingDistance(b, c)
  <1>1. /\ a \in Nat /\ b \in Nat /\ c \in Nat /\ a < Ring /\ b < Ring /\ c < Ring /\ Ring \in Nat
    BY SequenceAssumption DEF Seq16
  <1>2. QED
    BY <1>1 DEF RingDistance

\* A reboot adds a stride to the allowance, a wasted sequence adds one.
LEMMA Allowances ==
    ASSUME WithinOneLap, NEW b \in Nat, NEW w \in Nat, b <= MaxBoots, w <= MaxWasted
    PROVE  /\ 1 + ONEWAY_SEQUENCE_STRIDE * b + w \in Nat
           /\ 1 + ONEWAY_SEQUENCE_STRIDE * b + w < Ring
           /\ 1 + ONEWAY_SEQUENCE_STRIDE * (b + 1) + w = 1 + ONEWAY_SEQUENCE_STRIDE * b + w + ONEWAY_SEQUENCE_STRIDE
  <1>1. ONEWAY_SEQUENCE_STRIDE \in Nat /\ Ring \in Nat /\ MaxBoots \in Nat /\ MaxWasted \in Nat
    BY SequenceAssumption
  <1>2. \A s, x, y \in Nat : s * x \in Nat /\ s * (x + 1) = s * x + s /\ (x <= y => s * x <= s * y)
    OBVIOUS
  <1>3. /\ ONEWAY_SEQUENCE_STRIDE * b \in Nat /\ ONEWAY_SEQUENCE_STRIDE * MaxBoots \in Nat
        /\ ONEWAY_SEQUENCE_STRIDE * (b + 1) = ONEWAY_SEQUENCE_STRIDE * b + ONEWAY_SEQUENCE_STRIDE
        /\ ONEWAY_SEQUENCE_STRIDE * b <= ONEWAY_SEQUENCE_STRIDE * MaxBoots
    BY <1>1, <1>2
  <1> DEFINE x == ONEWAY_SEQUENCE_STRIDE * b
             y == ONEWAY_SEQUENCE_STRIDE * MaxBoots
             z == ONEWAY_SEQUENCE_STRIDE * (b + 1)
  <1>4. 1 + y + MaxWasted < Ring
    BY DEF WithinOneLap
  <1>5. x \in Nat /\ y \in Nat /\ z = x + ONEWAY_SEQUENCE_STRIDE /\ x <= y
    BY <1>3
  <1> HIDE DEF x, y, z
  <1>6. 1 + x + w \in Nat /\ 1 + x + w < Ring /\ 1 + z + w = 1 + x + w + ONEWAY_SEQUENCE_STRIDE
    BY <1>1, <1>4, <1>5
  <1>7. QED
    BY <1>6 DEF x, z

LEMMA SkipTypes ==
    ASSUME TypeOK, NEW i \in Identities
    PROVE  /\ next[i] \in Seq16 /\ reserved[i] \in Seq16 /\ Front(i) \in Seq16
           /\ flash[i] \in Seq16 \cup {None} /\ staged[i] \in Seq16 \cup {None} /\ last[i] \in Seq16 \cup {None}
           /\ boots[i] \in Nat /\ wasted[i] \in Nat /\ None \notin Seq16
  BY SmallSums DEF TypeOK, Front, Out

\* A step of the flash, or of another identity.
LEMMA SkipUndisturbed ==
    ASSUME NEW i \in Identities, TypeOK, Ledger(i), Block(i), Ahead(i),
           next'[i] = next[i], reserved'[i] = reserved[i], last'[i] = last[i],
           boots'[i] = boots[i], wasted'[i] = wasted[i], Front(i)' = Front(i), Out(i)' <=> Out(i), Out(i) => inflight' = inflight,
           i \in disputed' <=> i \in disputed, i \in wrapped' <=> i \in wrapped,
           \/ staged[i] # None /\ flash'[i] = staged[i] /\ staged'[i] = None
           \/ flash'[i] = flash[i] /\ staged'[i] = staged[i]
    PROVE  Block(i)' /\ Ahead(i)'
  <1>1. Block(i)'
    BY DEF Block
  <1>2. Known(i)' <=> Known(i)
    BY DEF Known
  <1>3. Ahead(i)'
    BY <1>2 DEF Ahead, Allowance
  <1>4. QED
    BY <1>1, <1>3

LEMMA InitialSkip == Init => SkipInv
  <1> SUFFICES ASSUME Init, NEW i \in Identities PROVE Block(i) /\ Ahead(i)
    BY DEF SkipInv
  <1>1. TypeOK /\ IInv
    BY InitialState DEF IInv
  <1>2. ~Out(i) /\ reserved[i] = next[i] /\ last[i] = None /\ boots[i] = 0 /\ wasted[i] = 0
    BY DEF Init, Out
  <1>3. RingDistance(next[i], next[i]) = 0
    BY <1>1, SkipTypes, Distances
  <1>4. QED
    BY <1>2, <1>3, SequenceAssumption DEF Block, Ahead, Known, Front

\* next() within the block.
LEMMA SkipInBlock ==
    ASSUME IInv, NextInBlock, Block(sender), Ahead(sender) PROVE Block(sender)' /\ Ahead(sender)'
  <1> DEFINE i == sender
  <1>1. /\ i \in Identities /\ TypeOK /\ sender' = i /\ inflight = None /\ inflight' = next[i] /\ next[i] # reserved[i]
        /\ next'[i] = RingPlus(next[i], 1) /\ UNCHANGED <<flash, staged, reserved, last, boots, wasted, disputed, wrapped>>
    BY DEF IInv, TypeOK, NextInBlock, Asking, HandOut, history
  <1>2. next[i] # None
    BY <1>1, SkipTypes
  <1>3. ~Out(i) /\ Out(i)' /\ Front(i) = next[i] /\ Front(i)' = next[i]
    BY <1>1, <1>2 DEF Out, Front
  <1>4. Block(i)'
    BY <1>1, <1>3 DEF Block
  <1>5. Ahead(i)'
    BY <1>1, <1>3 DEF Ahead, Known, Allowance
  <1>6. QED
    BY <1>1, <1>4, <1>5

\* next() with the block used up.
LEMMA SkipReserves ==
    ASSUME IInv, NextReserves, Block(sender), Ahead(sender) PROVE Block(sender)' /\ Ahead(sender)'
  <1> DEFINE i == sender
             r == NewReservation(i)
  <1>1. /\ i \in Identities /\ TypeOK /\ sender' = i /\ inflight = None /\ inflight' = next[i]
        /\ reserved'[i] = r /\ next'[i] = RingPlus(next[i], 1) /\ Persist(i, r)
        /\ UNCHANGED <<last, boots, wasted>> /\ (i \in wrapped => i \in wrapped')
    BY DEF IInv, TypeOK, NextReserves, Asking, HandOut, NoteWrap
  <1>2. next[i] \in Seq16 /\ next[i] # None /\ ONEWAY_SEQUENCE_STRIDE \in Seq16
    BY <1>1, SkipTypes, SmallSums
  <1>3. r \in Seq16 /\ RingDistance(next[i], r) = ONEWAY_SEQUENCE_STRIDE
    BY <1>2, RingSum, Distances DEF NewReservation
  <1>4. r # next[i] /\ r # None
    <2> HIDE DEF r
    <2>1. RingDistance(next[i], r) # 0 /\ None \notin Seq16
      BY <1>3, SequenceAssumption, SmallSums
    <2>2. QED
      BY <1>2, <1>3, <2>1, Distances
  <1>5. flash'[i] = r /\ staged'[i] = None
    BY <1>1, <1>3, PersistEffect
  <1>6. ~Out(i) /\ Out(i)' /\ Front(i) = next[i] /\ Front(i)' = next[i]
    BY <1>1, <1>2 DEF Out, Front
  <1>7. ONEWAY_SEQUENCE_STRIDE <= ONEWAY_SEQUENCE_STRIDE
    BY SequenceAssumption
  <1> HIDE DEF r
  <1>8. Block(i)'
    BY <1>1, <1>3, <1>4, <1>5, <1>6, <1>7 DEF Block
  <1>9. Known(i)' => Known(i)
    BY <1>1 DEF Known
  <1>10. Ahead(i)'
    BY <1>1, <1>3, <1>4, <1>5, <1>6, <1>7, <1>9 DEF Ahead, Allowance
  <1>11. QED
    BY <1>1, <1>8, <1>10

\* next() refused: what was staged is a stride ahead of the counter.
LEMMA SkipRefuses ==
    ASSUME IInv, NextRefuses, Block(sender), Ahead(sender) PROVE Block(sender)' /\ Ahead(sender)'
  <1> DEFINE i == sender
             r == NewReservation(i)
  <1>1. /\ i \in Identities /\ TypeOK /\ sender' = i /\ inflight = None /\ inflight' = None /\ next[i] = reserved[i]
        /\ PersistFails(i, r) /\ UNCHANGED <<next, reserved, last, boots, wasted, disputed>> /\ (i \in wrapped => i \in wrapped')
    BY DEF IInv, TypeOK, NextRefuses, Asking, NoteWrap
  <1>2. next[i] \in Seq16 /\ ONEWAY_SEQUENCE_STRIDE \in Seq16
    BY <1>1, SkipTypes, SmallSums
  <1>3. r \in Seq16 /\ RingDistance(next[i], r) = ONEWAY_SEQUENCE_STRIDE /\ r # None
    <2>1. r \in Seq16 /\ RingDistance(next[i], r) = ONEWAY_SEQUENCE_STRIDE
      BY <1>2, RingSum, Distances DEF NewReservation
    <2>2. QED
      BY <2>1, SmallSums
  <1>4. \/ flash'[i] = r /\ staged'[i] = None
        \/ flash'[i] = flash[i] /\ staged'[i] \in {r, staged[i]}
    BY <1>1, <1>3, PersistFailsEffect
  <1>5. ~Out(i) /\ ~Out(i)' /\ Front(i) = next[i] /\ Front(i)' = next[i]
    BY <1>1 DEF Out, Front
  <1>6. ONEWAY_SEQUENCE_STRIDE <= ONEWAY_SEQUENCE_STRIDE
    BY SequenceAssumption
  <1> HIDE DEF r
  <1>7. Block(i)'
    BY <1>1, <1>5 DEF Block
  <1>8. Known(i)' => Known(i)
    BY <1>1 DEF Known
  <1>9. Ahead(i)'
    BY <1>1, <1>3, <1>4, <1>5, <1>6, <1>8 DEF Ahead, Allowance
  <1>10. QED
    BY <1>1, <1>7, <1>9

\* The frame is sent: the counter is one ahead of it.
LEMMA SkipTransmits ==
    ASSUME IInv, Transmit, Block(sender), Ahead(sender) PROVE Block(sender)' /\ Ahead(sender)'
  <1> DEFINE i == sender
  <1>1. /\ i \in Identities /\ TypeOK /\ sender' = i /\ inflight \in Seq16 /\ inflight # None /\ inflight' = None
        /\ UNCHANGED <<flash, staged, next, reserved, disputed, wrapped>> /\ boots'[i] = 0 /\ wasted'[i] = 0
        /\ last'[i] = IF i \in disputed THEN None ELSE inflight
    BY DEF IInv, TypeOK, Transmit, counters
  <1>2. Out(i) /\ ~Out(i)' /\ Front(i) = inflight /\ Front(i)' = next[i] /\ next[i] = RingPlus(inflight, 1) /\ inflight # reserved[i]
        /\ RingDistance(inflight, reserved[i]) <= ONEWAY_SEQUENCE_STRIDE
        /\ (i \notin disputed => flash[i] = reserved[i] /\ staged[i] = None)
    BY <1>1 DEF Out, Front, Block
  <1>3. reserved[i] \in Seq16 /\ 1 \in Seq16 /\ reserved[i] # None
    BY <1>1, SkipTypes, SmallSums
  <1>4. RingDistance(inflight, next[i]) = 1
    BY <1>1, <1>2, <1>3, Distances
  <1>5. RingDistance(next[i], reserved[i]) <= ONEWAY_SEQUENCE_STRIDE
    BY <1>1, <1>2, <1>3, Distances, SequenceAssumption
  <1>6. Block(i)'
    BY <1>1, <1>2, <1>5 DEF Block
  <1>7. ONEWAY_SEQUENCE_STRIDE * 0 = 0
    BY SequenceAssumption
  <1>8. Allowance(i)' = 1
    BY <1>1, <1>7 DEF Allowance
  <1>9. Known(i)' => last'[i] = inflight /\ i \notin disputed
    BY <1>1 DEF Known
  <1>10. Ahead(i)'
    BY <1>1, <1>2, <1>3, <1>4, <1>5, <1>8, <1>9, SequenceAssumption DEF Ahead
  <1>11. QED
    BY <1>1, <1>6, <1>10

\* The sequence is lost.
LEMMA SkipWastes ==
    ASSUME WithinOneLap, IInv, TransmitFails, Block(sender), Ahead(sender) PROVE Block(sender)' /\ Ahead(sender)'
  <1> DEFINE i == sender
  <1>1. /\ i \in Identities /\ TypeOK /\ sender' = i /\ inflight \in Seq16 /\ inflight # None /\ inflight' = None
        /\ UNCHANGED <<flash, staged, next, reserved, last, boots, disputed, wrapped>>
        /\ wasted'[i] = wasted[i] + 1 /\ wasted[i] < MaxWasted
    BY DEF IInv, TypeOK, TransmitFails, counters
  <1>2. /\ Out(i) /\ ~Out(i)' /\ Front(i) = inflight /\ Front(i)' = next[i] /\ next[i] = RingPlus(inflight, 1)
        /\ inflight # reserved[i] /\ RingDistance(inflight, reserved[i]) <= ONEWAY_SEQUENCE_STRIDE
        /\ (i \notin disputed => flash[i] = reserved[i] /\ staged[i] = None)
    BY <1>1 DEF Out, Front, Block
  <1>3. reserved[i] \in Seq16 /\ 1 \in Seq16 /\ reserved[i] # None /\ boots[i] \in Nat /\ wasted[i] \in Nat
        /\ next[i] \in Seq16
    BY <1>1, SkipTypes, SmallSums
  <1>4. RingDistance(inflight, next[i]) = 1
    BY <1>1, <1>2, <1>3, Distances
  <1>5. RingDistance(next[i], reserved[i]) <= ONEWAY_SEQUENCE_STRIDE
    BY <1>1, <1>2, <1>3, Distances, SequenceAssumption
  <1>6. Block(i)'
    BY <1>1, <1>2, <1>5 DEF Block
  <1>7. (Known(i)' <=> Known(i)) /\ boots[i] <= MaxBoots
    BY <1>1 DEF Known, Ahead
  <1>8. wasted'[i] \in Nat /\ wasted'[i] <= MaxWasted
    BY <1>1, <1>3, SequenceAssumption
  <1>9. Allowance(i) \in Nat /\ Allowance(i)' = Allowance(i) + 1 /\ Allowance(i)' < Ring
    <2>1. 1 + ONEWAY_SEQUENCE_STRIDE * boots[i] + wasted[i] \in Nat
      BY <1>1, <1>3, <1>7, SequenceAssumption, Allowances
    <2>2. 1 + ONEWAY_SEQUENCE_STRIDE * boots[i] + wasted'[i] < Ring
      BY <1>3, <1>7, <1>8, Allowances
    <2>3. ONEWAY_SEQUENCE_STRIDE * boots[i] \in Nat
      BY <1>3, SequenceAssumption
    <2>4. QED
      BY <1>1, <1>3, <2>1, <2>2, <2>3 DEF Allowance
  <1>10. ASSUME Known(i)
         PROVE  /\ flash'[i] # None /\ RingDistance(Front(i)', flash'[i]) <= ONEWAY_SEQUENCE_STRIDE
                /\ staged'[i] = None
                /\ RingDistance(last'[i], Front(i)') \in 1..Allowance(i)'
    <2>1. last[i] \in Seq16 /\ i \notin disputed
      BY <1>1, <1>10, SkipTypes DEF Known, IInv, Ledger
    <2>2. RingDistance(last[i], inflight) \in 1..Allowance(i)
      BY <1>2, <1>10 DEF Ahead
    <2>3. RingDistance(last[i], next[i]) = RingDistance(last[i], inflight) + 1
      BY <1>1, <1>3, <1>4, <1>9, <2>1, <2>2, DistancesAdd, SequenceAssumption
    <2>4. QED
      BY <1>1, <1>2, <1>3, <1>5, <1>9, <2>1, <2>2, <2>3
  <1>11. Ahead(i)'
    BY <1>1, <1>7, <1>8, <1>10 DEF Ahead
  <1>12. QED
    BY <1>1, <1>6, <1>11

\* A reboot resumes at the flash value; no configured start value lies beyond it.
LEMMA SkipReboots ==
    ASSUME WithinOneLap, IInv, Reboot, NEW i \in Identities, Block(i), Ahead(i) PROVE Block(i)' /\ Ahead(i)'
  <1>1. PICK initial \in [Identities -> Initials] : next' = [j \in Identities |-> add_identity(flash[j], initial[j])]
    BY DEF Reboot
  <1>2. /\ TypeOK /\ TypeOK' /\ Ledger(i) /\ reserved' = next' /\ staged'[i] = None /\ inflight' = None
        /\ UNCHANGED <<flash, last, wasted, wrapped>> /\ boots'[i] = boots[i] + 1 /\ boots[i] < MaxBoots
        /\ next'[i] = add_identity(flash[i], initial[i])
    BY <1>1, TypeStep DEF IInv, Reboot, TypeOK, Next
  <1>3. /\ ~Out(i)' /\ Front(i)' = next'[i] /\ next'[i] \in Seq16 /\ initial[i] \in Initials /\ initial[i] \in Nat
        /\ boots[i] \in Nat /\ wasted[i] \in Nat /\ boots'[i] \in Nat
    BY <1>2, SkipTypes, RingFacts DEF Out, Front, TypeOK
  <1>4. RingDistance(next'[i], next'[i]) = 0
    BY <1>3, Distances
  <1>5. Block(i)'
    BY <1>2, <1>3, <1>4, SequenceAssumption DEF Block
  <1>6. (Known(i)' <=> Known(i)) /\ boots[i] <= MaxBoots /\ wasted[i] <= MaxWasted /\ boots'[i] <= MaxBoots
    BY <1>2, <1>3, SequenceAssumption DEF Known, Ahead
  <1>7. /\ Allowance(i) \in Nat /\ Allowance(i)' = Allowance(i) + ONEWAY_SEQUENCE_STRIDE /\ Allowance(i)' < Ring
    <2>1. Allowance(i) \in Nat /\ Allowance(i)' = Allowance(i) + ONEWAY_SEQUENCE_STRIDE
      BY <1>2, <1>3, <1>6, Allowances DEF Allowance
    <2>2. Allowance(i)' < Ring
      BY <1>2, <1>3, <1>6, Allowances DEF Allowance
    <2>3. QED
      BY <2>1, <2>2
  <1>8. ASSUME Known(i)
        PROVE  /\ flash'[i] # None /\ RingDistance(next'[i], flash'[i]) <= ONEWAY_SEQUENCE_STRIDE
               /\ RingDistance(last'[i], next'[i]) \in 1..Allowance(i)'
    <2>1. last[i] \in Seq16 /\ flash[i] \in Seq16 /\ flash[i] \in Nat /\ last[i] \in Nat /\ Front(i) \in Seq16
      BY <1>2, <1>8, SkipTypes, RingFacts DEF Ahead, Known
    <2>2. /\ RingDistance(Front(i), flash[i]) <= ONEWAY_SEQUENCE_STRIDE
          /\ RingDistance(last[i], Front(i)) \in 1..Allowance(i)
      BY <1>8 DEF Ahead
    <2>3. initial[i] <= flash[i]
      <3>1. CASE Initials = {0}
        BY <1>3, <2>1, <3>1
      <3>2. CASE i \notin wrapped /\ \A x \in Initials : x <= last[i]
        BY <1>2, <1>3, <1>8, <2>1, <3>2 DEF Ledger, Known
      <3>3. QED
        BY <1>8, <3>1, <3>2 DEF Known
    <2>4. next'[i] = flash[i]
      BY <1>2, <1>3, <2>1, <2>3, SmallSums DEF add_identity
    <2>5. RingDistance(Front(i), flash[i]) \in Nat
      BY <2>1, Distances
    <2>6. RingDistance(last[i], flash[i]) = RingDistance(last[i], Front(i)) + RingDistance(Front(i), flash[i])
      BY <1>7, <2>1, <2>2, <2>5, DistancesAdd, SequenceAssumption
    <2>7. QED
      BY <1>2, <1>4, <1>7, <2>1, <2>2, <2>4, <2>5, <2>6, SmallSums, SequenceAssumption
  <1>9. Ahead(i)'
    BY <1>2, <1>3, <1>6, <1>8 DEF Ahead
  <1>10. QED
    BY <1>5, <1>9

\* A seed() starts the identity anew, or fails and leaves its flash in doubt.
LEMMA SkipSeeded ==
    ASSUME IInv, NEW i \in Identities, NEW v \in Seeds, Seed(i, v) \/ SeedFails(i, v), Block(i), Ahead(i)
    PROVE  Block(i)' /\ Ahead(i)'
  <1>1. TypeOK /\ job = <<>> /\ inflight = None /\ inflight' = None /\ v \in Seq16 /\ ~Out(i) /\ ~Out(i)'
        /\ Front(i) = next[i] /\ Front(i)' = next'[i]
    BY RingFacts DEF IInv, TypeOK, Seed, SeedFails, Out, Front
  <1>2. last'[i] = None /\ ~Known(i)'
    BY <1>1 DEF TypeOK, Seed, SeedFails, Known
  <1>3. boots'[i] \in {0, boots[i]} /\ wasted'[i] \in {0, wasted[i]}
    BY <1>1 DEF TypeOK, Seed, SeedFails
  <1>4. Ahead(i)'
    BY <1>2, <1>3, SequenceAssumption DEF Ahead
  <1>5. CASE Seed(i, v)
    <2>1. next'[i] = v /\ reserved'[i] = v /\ RingDistance(v, v) = 0
      BY <1>1, <1>5, Distances DEF TypeOK, Seed
    <2>2. QED
      BY <1>1, <1>4, <2>1, SequenceAssumption DEF Block
  <1>6. CASE SeedFails(i, v)
    <2>1. next' = next /\ reserved' = reserved /\ i \in disputed'
      BY <1>6 DEF SeedFails
    <2>2. QED
      BY <1>1, <1>4, <2>1 DEF Block
  <1>7. QED
    BY <1>5, <1>6

\* Of the identities a step is not about, at most the flash changes.
LEMMA SkipElsewhere ==
    ASSUME IInv, [Next]_vars, ~Reboot, NEW i \in Identities, Block(i), Ahead(i),
           \A v \in Seeds : ~Seed(i, v) /\ ~SeedFails(i, v),
           i = sender => BackgroundSync \/ (\E j \in Identities : Start(j) \/ \E v \in Seeds : Seed(j, v) \/ SeedFails(j, v)) \/ UNCHANGED vars
    PROVE  Block(i)' /\ Ahead(i)'
  <1>0. TypeOK /\ Ledger(i) /\ sender \in Identities /\ NewReservation(sender) \in Seq16
    BY RingSum, SmallSums DEF IInv, TypeOK, NewReservation
  <1>1. ASSUME NEW j \in Identities, Start(j) PROVE Block(i)' /\ Ahead(i)'
    <2>1. UNCHANGED <<flash, staged, next, reserved, last, boots, wasted, disputed, wrapped>> /\ inflight = None /\ inflight' = None
      BY <1>0, <1>1 DEF Start, counters, history, TypeOK
    <2>2. QED
      BY <1>0, <2>1, SkipUndisturbed DEF Out, Front
  <1>2. ASSUME NEW j \in Identities, NEW v \in Seeds, Seed(j, v) \/ SeedFails(j, v) PROVE Block(i)' /\ Ahead(i)'
    <2>1. i # j /\ v \in Seq16 /\ UNCHANGED <<sender, inflight>>
      BY <1>2, RingFacts DEF Seed, SeedFails
    <2>2. /\ next'[i] = next[i] /\ reserved'[i] = reserved[i] /\ last'[i] = last[i] /\ boots'[i] = boots[i]
          /\ wasted'[i] = wasted[i] /\ (i \in disputed' <=> i \in disputed) /\ (i \in wrapped' <=> i \in wrapped)
      BY <1>0, <1>2, <2>1 DEF Seed, SeedFails, TypeOK
    <2>3. Front(i)' = Front(i) /\ (Out(i)' <=> Out(i)) /\ inflight' = inflight
      BY <2>1, <2>2 DEF Out, Front
    <2>4. Persist(j, v) \/ PersistFails(j, v)
      BY <1>2 DEF Seed, SeedFails
    <2>5. QED
      BY <1>0, <2>1, <2>2, <2>3, <2>4, PersistEffect, PersistFailsEffect, SkipUndisturbed
  <1>3. CASE BackgroundSync
    <2>1. PICK S \in SUBSET Pendings(staged) : Commit(staged, S)
      BY <1>3 DEF BackgroundSync
    <2>2. \/ staged[i] # None /\ flash'[i] = staged[i] /\ staged'[i] = None
          \/ flash'[i] = flash[i] /\ staged'[i] = staged[i]
      BY <1>0, <2>1, CommitEffect DEF TypeOK
    <2>3. UNCHANGED <<next, reserved, sender, inflight, last, boots, wasted, disputed, wrapped>>
      BY <1>3 DEF BackgroundSync, history
    <2>4. QED
      BY <1>0, <2>2, <2>3, SkipUndisturbed DEF Out, Front
  <1>4. CASE UNCHANGED vars
    <2>1. UNCHANGED <<flash, staged, next, reserved, sender, inflight, last, boots, wasted, disputed, wrapped>>
      BY <1>4 DEF vars
    <2>2. QED
      BY <1>0, <2>1, SkipUndisturbed DEF Out, Front
  <1>5. CASE i # sender /\ (NextInBlock \/ NextReserves \/ NextRefuses \/ Transmit \/ TransmitFails)
    <2>1. /\ sender' = sender /\ next'[i] = next[i] /\ reserved'[i] = reserved[i] /\ last'[i] = last[i] /\ boots'[i] = boots[i]
          /\ wasted'[i] = wasted[i] /\ (i \in disputed' <=> i \in disputed) /\ (i \in wrapped' <=> i \in wrapped)
      BY <1>0, <1>5 DEF NextInBlock, NextReserves, NextRefuses, Transmit, TransmitFails, HandOut, NoteWrap, TypeOK, counters, history
    <2>2. ~Out(i) /\ ~Out(i)' /\ Front(i)' = Front(i)
      BY <1>5, <2>1 DEF Out, Front
    <2>3. UNCHANGED <<flash, staged>> \/ Persist(sender, NewReservation(sender)) \/ PersistFails(sender, NewReservation(sender))
      BY <1>5 DEF NextInBlock, NextReserves, NextRefuses, Transmit, TransmitFails, counters
    <2>4. \/ staged[i] # None /\ flash'[i] = staged[i] /\ staged'[i] = None
          \/ flash'[i] = flash[i] /\ staged'[i] = staged[i]
      BY <1>0, <1>5, <2>3, PersistEffect, PersistFailsEffect
    <2>5. QED
      BY <1>0, <2>1, <2>2, <2>4, SkipUndisturbed
  <1>6. QED
    BY <1>1, <1>2, <1>3, <1>4, <1>5 DEF Next

LEMMA SkipStep == ASSUME WithinOneLap, IInv, SkipInv, [Next]_vars PROVE SkipInv'
  <1> SUFFICES ASSUME NEW i \in Identities PROVE Block(i)' /\ Ahead(i)'
    BY DEF SkipInv
  <1>1. Block(i) /\ Ahead(i)
    BY DEF SkipInv
  <1>2. CASE Reboot
    BY <1>1, <1>2, SkipReboots
  <1>3. CASE \E v \in Seeds : Seed(i, v) \/ SeedFails(i, v)
    BY <1>1, <1>3, SkipSeeded
  <1>4. CASE i = sender /\ (NextInBlock \/ NextReserves \/ NextRefuses \/ Transmit \/ TransmitFails)
    <2>1. Block(sender) /\ Ahead(sender) /\ sender' = i
      BY <1>1, <1>4 DEF NextInBlock, NextReserves, NextRefuses, Transmit, TransmitFails
    <2>2. Block(sender)' /\ Ahead(sender)'
      BY <1>4, <2>1, SkipInBlock, SkipReserves, SkipRefuses, SkipTransmits, SkipWastes
    <2>3. QED
      BY <2>1, <2>2
  <1>5. CASE /\ ~Reboot /\ \A v \in Seeds : ~Seed(i, v) /\ ~SeedFails(i, v)
             /\ ~(i = sender /\ (NextInBlock \/ NextReserves \/ NextRefuses \/ Transmit \/ TransmitFails))
    <2>1. i = sender => \/ BackgroundSync \/ (\E j \in Identities : Start(j) \/ \E v \in Seeds : Seed(j, v) \/ SeedFails(j, v))
                        \/ UNCHANGED vars
      BY <1>5 DEF Next
    <2>2. QED
      BY <1>1, <1>5, <2>1, SkipElsewhere
  <1>6. QED
    BY <1>2, <1>3, <1>4, <1>5

(***************************************************************************)
(* The bound of the static_assert: the sequence about to be sent is ahead  *)
(* of the last one sent by at most a stride per reboot and one per wasted  *)
(* sequence, also where the counter wraps, as long as what is wasted       *)
(* between two transmissions is less than a whole ring.                    *)
(***************************************************************************)
THEOREM SkipsStayBounded == WithinOneLap /\ Spec => []SkipBounded
  <1> SUFFICES ASSUME WithinOneLap PROVE Spec => []SkipBounded
    OBVIOUS
  <1>1. IInv /\ SkipInv /\ [Next]_vars => SkipInv'
    BY SkipStep
  <1>2. IInv /\ SkipInv => SkipBounded
    <2> SUFFICES ASSUME IInv, SkipInv, inflight # None, Known(sender)
                 PROVE  RingDistance(last[sender], inflight) \in 1..Allowance(sender)
      BY DEF SkipBounded, Known, Allowance
    <2>1. sender \in Identities /\ Ahead(sender) /\ Front(sender) = inflight
      BY DEF IInv, TypeOK, SkipInv, Front, Out
    <2>2. QED
      BY <2>1 DEF Ahead
  <1>3. QED
    BY <1>1, <1>2, InitialSkip, Inductive, PTL DEF Spec

-----------------------------------------------------------------------------
(* Taking over a 1W network.                                               *)

\* The one timer of the last arming and the history's age run in step.
ClockInv == armed => shown /\ age \in Nat /\ age < Window /\ timers = {Window - age}

\* The class kept for the report was heard from the node it is kept for.
ObservedInv == observed.type # UNKNOWN => <<observed.node, observed.type>> \in overheard

AdoptionInv == ClockInv /\ ObservedInv /\ ReportIsTrue

-----------------------------------------------------------------------------
\* What reaches the listener is what the remote sent, but for the trailer parse() decides on.
LEMMA HeardAsSent ==
    ASSUME NEW r \in Remotes, NEW g \in FramesOf(r), Received(g) # Nothing
    PROVE  LET f == Received(g) IN
           /\ f.src = r.addr
           /\ f.cmd = ADD_CONTROLLER => f.body.mac = create_1w_hmac(r.key, f.body.enc)
  <1>1. PICK b : Received(g) = [g EXCEPT !.has_mac = b]
    BY DEF Received
  <1>2. CASE g \in {create_1w_execute(r.addr, r.class, r.key, all) : all \in BOOLEAN}
    <2>1. g.src = r.addr /\ g.cmd = EXECUTE
      BY <1>2 DEF create_1w_execute, Frame
    <2>2. QED
      BY <1>1, <1>2, <2>1 DEF create_1w_execute, Frame, EXECUTE, ADD_CONTROLLER
  <1>3. CASE g \in {create_1w_add_controller(r.addr, type, r.manufacturer, r.key, r.with_mac, r.wrap, r.add_len) :
                      type \in VeluxClasses(r.manufacturer, UNKNOWN)}
    <2>1. PICK type, h, enc :
            /\ enc = crypt_1w_key(r.addr, r.key, r.wrap)
            /\ h = Frame(r.addr, type, ADD_CONTROLLER, r.add_len,
                         [enc |-> enc, manufacturer |-> r.manufacturer, mac |-> create_1w_hmac(r.key, enc)])
            /\ g = [h EXCEPT !.has_mac = r.with_mac]
      BY <1>3 DEF create_1w_add_controller
    <2>2. h.src = r.addr /\ h.body.mac = create_1w_hmac(r.key, enc) /\ h.body.enc = enc
      BY <2>1 DEF Frame
    <2>3. g.src = h.src /\ g.body = h.body
      BY <2>1 DEF Frame
    <2>4. Received(g).src = g.src /\ Received(g).body = g.body
      BY <1>1, <2>1 DEF Frame
    <2>5. QED
      BY <2>2, <2>3, <2>4
  <1>4. QED
    BY <1>2, <1>3 DEF FramesOf

\* A MAC verifies under the key the report names, and under no other.
LEMMA VerifiedIsOwnKey ==
    ASSUME NEW f, NEW key, f.body.mac = create_1w_hmac(key, f.body.enc), mac_status(f) = "VERIFIED"
    PROVE  Unwrapped(f) = key
  BY DEF mac_status, create_1w_hmac

-----------------------------------------------------------------------------
LEMMA Initially == ASSUME AdoptionInit PROVE AdoptionInv
  BY DEF AdoptionInit, AdoptionInv, ClockInv, ObservedInv, ReportIsTrue

LEMMA TurnOnPreserves == ASSUME AdoptionInv, TurnOn PROVE AdoptionInv'
  <1>1. ClockInv'
    BY AdoptionAssumption DEF TurnOn, set_timeout, ClockInv
  <1>2. ObservedInv' /\ ReportIsTrue'
    BY DEF AdoptionInv, TurnOn, ObservedInv, ReportIsTrue
  <1>3. QED
    BY <1>1, <1>2 DEF AdoptionInv

LEMMA TickPreserves ==
    ASSUME AdoptionInv, Tick
    PROVE  AdoptionInv' /\ (armed' => shown' /\ age' < Window) /\ (armed /\ ~armed' => age' = Window) /\ report' = report
  <1>1. ObservedInv' /\ ReportIsTrue' /\ report' = report
    BY DEF AdoptionInv, Tick, ObservedInv, ReportIsTrue
  <1>2. CASE ~armed
    BY <1>1, <1>2 DEF AdoptionInv, Tick, Unarmed, ClockInv
  <1>3. CASE armed
    <2>1. shown /\ age \in Nat /\ age < Window /\ timers = {Window - age} /\ Window \in Nat
      BY <1>3, AdoptionAssumption DEF AdoptionInv, ClockInv
    <2>2. age' = age + 1 /\ timers' = {Window - age - 1} \ {0}
      BY <2>1 DEF Tick
    <2>3. CASE Window - age = 1
      BY <1>1, <1>3, <2>1, <2>2, <2>3 DEF Tick, Unarmed, AdoptionInv, ClockInv
    <2>4. CASE Window - age # 1
      <3>1. armed' = armed /\ shown' = shown
        BY <2>1, <2>4 DEF Tick
      <3>2. timers' = {Window - age'} /\ age' < Window /\ age' \in Nat
        BY <2>1, <2>2, <2>4
      <3>3. QED
        BY <1>1, <1>3, <2>1, <3>1, <3>2 DEF AdoptionInv, ClockInv
    <2>5. QED
      BY <2>3, <2>4
  <1>4. QED
    BY <1>2, <1>3

\* Frames come in while the switch is on; nothing but an adoption turns it off.
LEMMA FramePreserves ==
    ASSUME AdoptionInv, RemoteSends
    PROVE  AdoptionInv' /\ (armed' => shown' /\ age' < Window) /\ (armed /\ ~armed' => report' # Nothing)
                 /\ (report' # report => armed /\ ~armed')
  <1>1. CASE UNCHANGED hub
    BY <1>1 DEF hub, AdoptionInv, ClockInv, ObservedInv, ReportIsTrue
  <1>2. ASSUME NEW r \in Remotes, NEW g \in FramesOf(r), NEW f, f = Received(g), f # Nothing, process_received(f)
        PROVE  AdoptionInv' /\ (armed' => shown' /\ age' < Window) /\ (armed /\ ~armed' => report' # Nothing)
                     /\ (report' # report => armed /\ ~armed')
    <2>1. ObservedInv'
      BY <1>2 DEF process_received, record_oneway_observed_class, AdoptionInv, ObservedInv
    <2>2. CASE armed /\ decode_1w_add_controller(f)
      <3>1. report' = AdoptionReport(f) /\ ~armed' /\ armed
        BY <1>2, <2>2 DEF process_received, try_adopt_oneway_key, Unarmed
      <3>2. ClockInv'
        BY <3>1 DEF ClockInv
      <3>3. report'.sender = f.src /\ report'.key = Unwrapped(f) /\ report'.mac = mac_status(f) /\ report'.witnessed = overheard'
            /\ report'.type = (IF observed'.node = f.src THEN observed'.type ELSE UNKNOWN)
        BY <3>1 DEF AdoptionReport
      <3>4. report'.mac = "VERIFIED" => r.addr = report'.sender /\ r.key = report'.key
        BY <1>2, <2>2, <3>3, HeardAsSent, VerifiedIsOwnKey DEF decode_1w_add_controller
      <3>5. report'.type # UNKNOWN => <<report'.sender, report'.type>> \in report'.witnessed
        BY <2>1, <3>3 DEF ObservedInv
      <3>6. ReportIsTrue'
        BY <3>4, <3>5 DEF ReportIsTrue
      <3>7. report' # Nothing
        <4>1. "sender" \in DOMAIN AdoptionReport(f)
          BY DEF AdoptionReport
        <4>2. "sender" \notin DOMAIN Nothing
          BY DEF Nothing
        <4>3. QED
          BY <3>1, <4>1, <4>2
      <3>8. QED
        BY <2>1, <3>1, <3>2, <3>6, <3>7 DEF AdoptionInv
    <2>3. CASE ~(armed /\ decode_1w_add_controller(f))
      <3>1. report' = report /\ armed' = armed /\ shown' = shown /\ timers' = timers /\ age' = age
        BY <1>2, <2>3 DEF process_received, try_adopt_oneway_key
      <3>2. ClockInv' /\ ReportIsTrue' /\ (armed' => shown' /\ age' < Window)
        BY <3>1 DEF AdoptionInv, ClockInv, ReportIsTrue
      <3>3. QED
        BY <2>1, <3>1, <3>2 DEF AdoptionInv
    <2>4. QED
      BY <2>2, <2>3
  <1>3. QED
    BY <1>1, <1>2 DEF RemoteSends

\* Turning the switch off, booting and flashing leave nothing armed that was not.
LEMMA RestPreserves ==
    ASSUME AdoptionInv, TurnOff \/ Restart \/ Flash \/ UNCHANGED adoptionVars
    PROVE  AdoptionInv' /\ (armed' => shown' /\ age' < Window) /\ (armed /\ ~armed' => TurnOff \/ Restart) /\ report' = report
  <1>1. CASE TurnOff \/ Restart
    BY <1>1 DEF TurnOff, Restart, Unarmed, AdoptionInv, ClockInv, ObservedInv, ReportIsTrue
  <1>2. CASE Flash \/ UNCHANGED adoptionVars
    BY <1>2 DEF Flash, adoptionVars, hub, AdoptionInv, ClockInv, ObservedInv, ReportIsTrue
  <1>3. QED
    BY <1>1, <1>2

LEMMA TurnOnKeeps == ASSUME TurnOn PROVE armed' /\ shown' /\ age' < Window /\ report' = report
  BY AdoptionAssumption DEF TurnOn

LEMMA Invariance == AdoptionSpec => []AdoptionInv
  <1>1. AdoptionInit => AdoptionInv
    BY Initially
  <1>2. AdoptionInv /\ [AdoptionNext]_adoptionVars => AdoptionInv'
    BY TurnOnPreserves, TickPreserves, FramePreserves, RestPreserves DEF AdoptionNext, Listening
  <1>3. QED
    BY <1>1, <1>2, PTL DEF AdoptionSpec

\* What build_oneway_adoption_report prints: a verified key is the sender's, a class was heard
\* from the sender since the switch was turned on.
THEOREM ReportsAreTrue == AdoptionSpec => []ReportIsTrue
  <1>1. AdoptionInv => ReportIsTrue
    BY DEF AdoptionInv
  <1>2. QED
    BY <1>1, Invariance, PTL

\* The arming of hub_oneway_key_adoption.cpp, with its auto-off and the switch that mirrors it.
THEOREM ArmedWindow == AdoptionSpec => WindowHolds
  <1>1. ASSUME AdoptionInv, [AdoptionNext]_adoptionVars
        PROVE  /\ armed' => shown' /\ age' < Window
               /\ armed /\ ~armed' => age' = Window \/ TurnOff \/ Restart \/ (RemoteSends /\ report' # Nothing)
               /\ report' # report => armed /\ ~armed'
    BY <1>1, TurnOnKeeps, TickPreserves, FramePreserves, RestPreserves DEF AdoptionNext, Listening
  <1>2. QED
    BY <1>1, Invariance, PTL DEF AdoptionSpec, WindowHolds

-----------------------------------------------------------------------------
(***************************************************************************)
(* The identities of the image, and what they send.                        *)
(***************************************************************************)
Entries == WrittenEntries \cup ReportedEntries

\* The class an address names is a number, also when a remote was heard or a report printed.
ClassInv == observed.type \in Nat /\ (report # Nothing => report.type \in Nat)

\* What is on the air names the class it was built for; beyond the last one known, none.
LEMMA AddressNamesClass ==
    ASSUME NEW type \in Nat
    PROVE  /\ broadcast_target_type(encode_broadcast_address(type)) \in {UNKNOWN, type}
           /\ broadcast_target_type(encode_broadcast_address(type)) \in Nat
  <1> DEFINE dst == <<0, type \div 4, ((type * 64) % 256) + 63>>
             raw == dst[2] * 4 + dst[3] \div 64
  <1>1. PICK q \in Nat, m \in 0..3 : type = 4 * q + m
    <2>1. type \div 4 \in Nat /\ type % 4 \in 0..3 /\ type = 4 * (type \div 4) + (type % 4)
      OBVIOUS
    <2>2. QED
      BY <2>1
  <1>2. type \div 4 = q
    BY <1>1
  <1>3. (type * 64) % 256 = 64 * m
    BY <1>1
  <1>4. (64 * m + 63) \div 64 = m
    OBVIOUS
  <1>5. dst[2] = q /\ dst[3] = 64 * m + 63 /\ dst[1] = 0
    BY <1>2, <1>3
  <1>6. raw = type
    BY <1>1, <1>4, <1>5
  <1>7. QED
    BY <1>5, <1>6 DEF broadcast_target_type, encode_broadcast_address, UNKNOWN

\* A frame that is as long as it says, and longer only where a trailer may be, arrives as it was built.
LEMMA ArrivesAsBuilt ==
    ASSUME NEW src, NEW type \in Nat, NEW cmd, NEW len \in {9, 14, 20}, NEW body, NEW mac \in BOOLEAN,
           mac => cmd = ADD_CONTROLLER
    PROVE  LET f == [Frame(src, type, cmd, len, body) EXCEPT !.has_mac = mac]
           IN  Received(f) = f /\ f.dst = encode_broadcast_address(type)
  <1> DEFINE f == [Frame(src, type, cmd, len, body) EXCEPT !.has_mac = mac]
  <1>1. ((9 + len - 1) % 32) + 1 = 9 + len
    OBVIOUS
  <1>2. f = [src |-> src, dst |-> encode_broadcast_address(type), cmd |-> cmd, data_len |-> len, declared |-> 9 + len,
             has_mac |-> mac, body |-> body]
    BY <1>1 DEF Frame, FRAME_MIN_SIZE, FRAME_MAX_DECLARED_SIZE
  <1> HIDE DEF f
  <1>3. /\ f.declared = 9 + len /\ f.data_len = len /\ f.has_mac = mac /\ f.cmd = cmd
        /\ f.dst = encode_broadcast_address(type)
    BY <1>2
  <1>4. serialize(f) = 9 + len + (IF mac THEN 6 ELSE 0)
    BY <1>3 DEF serialize, FRAME_MIN_SIZE, HMAC_SIZE, frame_carries_mac_trailer
  <1>5. serialize(f) \in ParsedLengths(f)
    BY <1>3, <1>4 DEF ParsedLengths, HMAC_SIZE, frame_carries_mac_trailer
  <1>6. (serialize(f) # f.declared) = mac
    BY <1>3, <1>4
  <1>7. [f EXCEPT !.has_mac = mac] = f
    BY <1>2
  <1>8. Received(f) = f
    BY <1>5, <1>6, <1>7 DEF Received
  <1>9. QED
    BY <1>3, <1>8 DEF f

LEMMA PlainArrivesAsBuilt ==
    ASSUME NEW src, NEW type \in Nat, NEW cmd, NEW len \in {9, 14, 20}, NEW body
    PROVE  LET f == Frame(src, type, cmd, len, body) IN Received(f) = f /\ f.dst = encode_broadcast_address(type)
  <1> DEFINE f == Frame(src, type, cmd, len, body)
  <1>1. PICK mac \in BOOLEAN : mac = FALSE
    OBVIOUS
  <1>2. PICK declared : f = [src |-> src, dst |-> encode_broadcast_address(type), cmd |-> cmd, data_len |-> len,
                             declared |-> declared, has_mac |-> mac, body |-> body]
    BY <1>1, Zenon DEF Frame
  <1>3. Received([f EXCEPT !.has_mac = mac]) = [f EXCEPT !.has_mac = mac]
        /\ [f EXCEPT !.has_mac = mac].dst = encode_broadcast_address(type)
    BY <1>1, ArrivesAsBuilt
  <1> HIDE DEF f
  <1>4. [f EXCEPT !.has_mac = mac] = f
    BY <1>2
  <1>5. QED
    BY <1>3, <1>4 DEF f


\* What a builder makes arrives as it was made, and names one of these classes.
Arrives(f, classes) == Received(f) = f /\ broadcast_target_type(f.dst) \in classes

LEMMA ExecuteArrives ==
    ASSUME NEW src, NEW type \in Nat, NEW key, NEW all
    PROVE  Arrives(create_1w_execute(src, type, key, all), {UNKNOWN, type})
  <1>1. \A t \in Nat : \A body : LET f == Frame(src, t, EXECUTE, 14, body)
                             IN  Received(f) = f /\ f.dst = encode_broadcast_address(t)
    BY PlainArrivesAsBuilt
  <1>2. UNKNOWN \in Nat
    BY DEF UNKNOWN
  <1>3. /\ broadcast_target_type(encode_broadcast_address(type)) \in {UNKNOWN, type}
        /\ broadcast_target_type(encode_broadcast_address(UNKNOWN)) \in {UNKNOWN, type}
    BY <1>2, AddressNamesClass
  <1>4. QED
    BY <1>1, <1>2, <1>3 DEF Arrives, create_1w_execute

LEMMA RemoveArrives ==
    ASSUME NEW src, NEW type \in Nat, NEW key
    PROVE  Arrives(create_1w_remove_controller(src, type, key), {UNKNOWN, type})
  <1>1. \A body : LET f == Frame(src, type, REMOVE, 9, body) IN Received(f) = f /\ f.dst = encode_broadcast_address(type)
    BY PlainArrivesAsBuilt
  <1>2. broadcast_target_type(encode_broadcast_address(type)) \in {UNKNOWN, type}
    BY AddressNamesClass
  <1>3. QED
    BY <1>1, <1>2 DEF Arrives, create_1w_remove_controller

LEMMA AddArrives ==
    ASSUME NEW src, NEW type \in Nat, NEW key, NEW manufacturer, NEW mac \in BOOLEAN
    PROVE  Arrives(create_1w_add_controller(src, type, manufacturer, key, mac, "standard", ADD_PAYLOAD_SIZE), {UNKNOWN, type})
  <1>1. LET f == create_1w_add_controller(src, type, manufacturer, key, mac, "standard", ADD_PAYLOAD_SIZE)
        IN  Received(f) = f /\ f.dst = encode_broadcast_address(type)
    BY ArrivesAsBuilt DEF create_1w_add_controller, ADD_PAYLOAD_SIZE
  <1>2. broadcast_target_type(encode_broadcast_address(type)) \in {UNKNOWN, type}
    BY AddressNamesClass
  <1>3. QED
    BY <1>1, <1>2 DEF Arrives

LEMMA SpeaksAsConfigured ==
    ASSUME NEW i, i.type \in Nat, i.with_mac \in BOOLEAN, i.enrollment_classes \subseteq Nat, NEW f \in SentAs(i)
    PROVE  Received(f) = f /\ broadcast_target_type(f.dst) \in {UNKNOWN, i.type} \cup effective_enrollment_classes(i)
  <1>1. UNKNOWN \in Nat /\ effective_enrollment_classes(i) \subseteq Nat
    BY DEF UNKNOWN, effective_enrollment_classes, VELUX_KLI_ENROLLMENT_CLASSES
  <1>2. PICK mac \in BOOLEAN : mac = i.with_mac
    OBVIOUS
  <1>3. \A all : Arrives(create_1w_execute(i.node, i.type, i.key, all), {UNKNOWN, i.type})
    BY ExecuteArrives
  <1>4. /\ Arrives(create_1w_remove_controller(i.node, i.type, i.key), {UNKNOWN, i.type})
        /\ Arrives(create_1w_remove_controller(i.node, UNKNOWN, i.key), {UNKNOWN, UNKNOWN})
    BY <1>1, RemoveArrives
  <1>5. \A type \in {i.type} \cup effective_enrollment_classes(i) :
          Arrives(create_1w_add_controller(i.node, type, i.manufacturer, i.key, i.with_mac, "standard", ADD_PAYLOAD_SIZE),
                  {UNKNOWN, type})
    <2>1. ASSUME NEW type \in Nat PROVE \A m, key, node :
            Arrives(create_1w_add_controller(node, type, m, key, mac, "standard", ADD_PAYLOAD_SIZE), {UNKNOWN, type})
      BY AddArrives
    <2>2. \A type \in {i.type} \cup effective_enrollment_classes(i) : type \in Nat
      BY <1>1
    <2>3. QED
      BY <1>2, <2>1, <2>2, Zenon
  <1>6. \A classes : Arrives(f, classes) /\ classes \subseteq {UNKNOWN, i.type} \cup effective_enrollment_classes(i)
          => /\ Received(f) = f
             /\ broadcast_target_type(f.dst) \in {UNKNOWN, i.type} \cup effective_enrollment_classes(i)
    BY DEF Arrives
  <1>7. CASE f \in VeluxAddFrames(i)
    <2>1. PICK all : all = TRUE
      OBVIOUS
    <2>2. CASE f \in {create_1w_remove_controller(i.node, UNKNOWN, i.key), create_1w_execute(i.node, i.type, i.key, all)}
      BY <1>3, <1>4, <1>6, <2>2
    <2>3. CASE \E type \in effective_enrollment_classes(i) :
                 f = create_1w_add_controller(i.node, type, i.manufacturer, i.key, i.with_mac, "standard", ADD_PAYLOAD_SIZE)
      BY <1>5, <1>6, <2>3
    <2>4. QED
      BY <1>7, <2>1, <2>2, <2>3, Zenon DEF VeluxAddFrames
  <1>8. CASE f \in SomfyAddFrames(i)
    BY <1>4, <1>5, <1>6, <1>8 DEF SomfyAddFrames
  <1>9. CASE f \in {create_1w_execute(i.node, i.type, i.key, i.broadcast_all), create_1w_remove_controller(i.node, i.type, i.key)}
    BY <1>3, <1>4, <1>6, <1>9
  <1>10. QED
    BY <1>7, <1>8, <1>9 DEF SentAs, send_enrollment

\* The identity compiled from an entry has the entry's address, class and options.
Entry(id, node, key, m, type, enroll, classes, mac, all) ==
    [id |-> id, node |-> node, key |-> key, manufacturer |-> m, type |-> type, enrollment |-> enroll,
     enrollment_classes |-> classes, with_mac |-> mac, broadcast_all |-> all]

LEMMA EntryFields ==
    \A id, node, key, m, type, enroll, classes, mac, all, e :
        e = Entry(id, node, key, m, type, enroll, classes, mac, all)
        => /\ e.node = node /\ e.type = type
           /\ oneway_controller(e).node = node /\ oneway_controller(e).type = type
           /\ oneway_controller(e).with_mac = mac /\ oneway_controller(e).enrollment_classes = classes
  BY DEF Entry, oneway_controller

LEMMA Written ==
    ASSUME NEW e \in WrittenEntries
    PROVE  \E node, m : \E classes \in {{}, {2}, {UNKNOWN}} : e = WrittenEntry(node, m, classes)
  BY SMT DEF WrittenEntries

LEMMA CompiledFromEntry ==
    ASSUME ClassInv, NEW e \in Entries, e.type # Absent
    PROVE  LET i == oneway_controller(e)
           IN  i.node = e.node /\ i.type \in Nat /\ i.with_mac \in BOOLEAN /\ i.enrollment_classes \subseteq Nat
  <1>1. PICK type \in Nat \cup {Absent}, classes \in SUBSET Nat, mac \in BOOLEAN :
          \E id, node, key, m, enroll, all : e = Entry(id, node, key, m, type, enroll, classes, mac, all)
    <2>1. CASE e \in WrittenEntries
      <3>1. PICK classes \in {{}, {2}, {UNKNOWN}} : \E node, m : e = WrittenEntry(node, m, classes)
        BY <2>1, Written
      <3>2. \E node, m :
              e = Entry(<<"own", HubNode>>, node, HubKey, m, SWINGING_SHUTTER, TRUE, classes, classes # {}, classes # {})
        BY <3>1, Zenon DEF WrittenEntry, Entry
      <3>3. classes \in SUBSET Nat /\ SWINGING_SHUTTER \in Nat \cup {Absent}
        BY DEF UNKNOWN, SWINGING_SHUTTER
      <3>4. (classes # {}) \in BOOLEAN
        BY Zenon
      <3>5. QED
        BY <3>2, <3>3, <3>4, Zenon
    <2>2. CASE e \in ReportedEntries
      <3>1. report # Nothing
        BY <2>2 DEF ReportedEntries
      <3>2. PICK t \in Nat \cup {Absent} : t = IF report.type = UNKNOWN THEN Absent ELSE report.type
        BY <3>1 DEF ClassInv
      <3>3. PICK derived : e = ReportedEntry(report, derived)
                           \/ \E type \in {UNKNOWN, 2} : e = FilledIn(ReportedEntry(report, derived), type)
        BY <2>2, <3>1 DEF ReportedEntries
      <3>4. PICK no, yes : no = FALSE /\ yes = TRUE
        OBVIOUS
      <3>5. ReportedEntry(report, derived) = Entry(<<"adopted", report.sender>>, derived, report.key, report.manufacturer,
                                                   t, no, {}, no, no)
        BY <3>2, <3>4, Zenon DEF ReportedEntry, Entry
      <3>6. no \in BOOLEAN /\ {} \in SUBSET Nat
        BY <3>4
      <3>7. ASSUME NEW type \in {UNKNOWN, 2}, e = FilledIn(ReportedEntry(report, derived), type)
            PROVE  \E s \in Nat \cup {Absent} :
                     \E id, node, key, m : e = Entry(id, node, key, m, s, yes, {}, no, no)
        <4>1. PICK s \in Nat \cup {Absent} : s = IF t = Absent THEN type ELSE t
          BY DEF UNKNOWN
        <4>2. PICK id, node, key, m : ReportedEntry(report, derived) = Entry(id, node, key, m, t, no, {}, no, no)
          BY <3>5
        <4>3. Entry(id, node, key, m, t, no, {}, no, no).type = t
          BY DEF Entry
        <4>4. [Entry(id, node, key, m, t, no, {}, no, no) EXCEPT !.type = s, !.enrollment = yes]
              = Entry(id, node, key, m, s, yes, {}, no, no)
          <5>1. [Entry(id, node, key, m, t, no, {}, no, no) EXCEPT !.type = s] = Entry(id, node, key, m, s, no, {}, no, no)
            BY DEF Entry
          <5>2. [Entry(id, node, key, m, s, no, {}, no, no) EXCEPT !.enrollment = yes]
                = Entry(id, node, key, m, s, yes, {}, no, no)
            BY DEF Entry
          <5>3. QED
            BY <5>1, <5>2, Zenon
        <4>5. FilledIn(Entry(id, node, key, m, t, no, {}, no, no), type) = Entry(id, node, key, m, s, yes, {}, no, no)
          BY <3>4, <4>1, <4>3, <4>4, Zenon DEF FilledIn
        <4>6. QED
          BY <3>7, <4>2, <4>5, Zenon
      <3>8. QED
        BY <3>3, <3>5, <3>6, <3>7, Zenon
    <2>3. QED
      BY <2>1, <2>2 DEF Entries
  <1>2. PICK id, node, key, m, enroll, all : e = Entry(id, node, key, m, type, enroll, classes, mac, all)
    BY <1>1
  <1>3. /\ e.node = node /\ e.type = type
        /\ oneway_controller(e).node = node /\ oneway_controller(e).type = type
        /\ oneway_controller(e).enrollment_classes = classes
    BY <1>2, EntryFields, SMT
  <1>4. type \in Nat
    BY <1>3
  <1>5. oneway_controller(e).with_mac \in BOOLEAN
    <2>1. oneway_controller(e).with_mac = mac
      BY <1>2, EntryFields, SMT
    <2>2. QED
      BY <2>1, Zenon
  <1>6. QED
    BY <1>3, <1>4, <1>5, Zenon

LEMMA FlashSpeaks == ASSUME ClassInv, Flash PROVE OwnVoice'
  <1>1. PICK size \in 0 .. MaxEntries : \E entries \in [1 .. size -> Entries] :
          ValidConfig(entries) /\ running' = {oneway_controller(entries[n]) : n \in 1 .. size}
    BY DEF Flash, Entries
  <1>2. PICK entries \in [1 .. size -> Entries] :
          ValidConfig(entries) /\ running' = {oneway_controller(entries[n]) : n \in 1 .. size}
    BY <1>1
  <1>3. \A n \in 1 .. size : entries[n].type # Absent /\ entries[n].node \notin Declared \cup {HubNode}
    BY <1>2 DEF ValidConfig
  <1>4. \A m, n \in 1 .. size : entries[m].node = entries[n].node => m = n
    <2>1. size \in Nat
      BY AdoptionAssumption
    <2>2. \A m, n \in 1 .. size : m < n => entries[m].node # entries[n].node
      BY <1>2 DEF ValidConfig
    <2>3. QED
      BY <2>1, <2>2
  <1>5. \A n \in 1 .. size : LET i == oneway_controller(entries[n])
                             IN  /\ i.node = entries[n].node /\ i.type \in Nat /\ i.with_mac \in BOOLEAN
                                 /\ i.enrollment_classes \subseteq Nat
    BY <1>2, <1>3, CompiledFromEntry
  <1>6. SUFFICES ASSUME NEW i \in running'
                 PROVE  /\ i.node \notin Declared \cup {HubNode}
                        /\ \A j \in running' : j.node = i.node => j = i
                        /\ \A f \in SentAs(i) :
                             /\ Received(f) = f
                             /\ broadcast_target_type(f.dst) \in {UNKNOWN, i.type} \cup effective_enrollment_classes(i)
    BY DEF OwnVoice
  <1>7. PICK n \in 1 .. size : i = oneway_controller(entries[n])
    BY <1>2
  <1>8. i.node \notin Declared \cup {HubNode}
    BY <1>3, <1>5, <1>7
  <1>9. ASSUME NEW j \in running', j.node = i.node PROVE j = i
    <2>1. PICK m \in 1 .. size : j = oneway_controller(entries[m])
      BY <1>2
    <2>2. entries[m].node = entries[n].node
      BY <1>5, <1>7, <1>9, <2>1
    <2>3. QED
      BY <1>4, <1>7, <2>1, <2>2
  <1>10. i.type \in Nat /\ i.with_mac \in BOOLEAN /\ i.enrollment_classes \subseteq Nat
    BY <1>5, <1>7
  <1>11. QED
    BY <1>8, <1>9, <1>10, SpeaksAsConfigured

\* Where ClassInv comes from: the class of a frame on the air is a number.
LEMMA HeardClass ==
    ASSUME NEW r \in Remotes, NEW g \in FramesOf(r), Received(g) # Nothing
    PROVE  broadcast_target_type(Received(g).dst) \in Nat
  <1>1. r.class \in Nat /\ UNKNOWN \in Nat /\ VeluxClasses(r.manufacturer, UNKNOWN) \subseteq Nat
    BY AdoptionAssumption DEF UNKNOWN, VeluxClasses, VELUX_KLI_ENROLLMENT_CLASSES
  <1>2. PICK b : Received(g) = [g EXCEPT !.has_mac = b]
    BY DEF Received
  <1>3. PICK type, cmd, len, body, b1 :
          /\ type \in Nat
          /\ \/ g = Frame(r.addr, type, cmd, len, body)
             \/ g = [Frame(r.addr, type, cmd, len, body) EXCEPT !.has_mac = b1]
    <2>1. CASE \E all \in BOOLEAN : g = create_1w_execute(r.addr, r.class, r.key, all)
      <3>1. PICK all \in BOOLEAN : g = create_1w_execute(r.addr, r.class, r.key, all)
        BY <2>1
      <3>2. PICK type \in Nat : type = IF all THEN UNKNOWN ELSE r.class
        BY <1>1
      <3>3. QED
        BY <3>1, <3>2 DEF create_1w_execute
    <2>2. CASE \E type \in VeluxClasses(r.manufacturer, UNKNOWN) :
                 g = create_1w_add_controller(r.addr, type, r.manufacturer, r.key, r.with_mac, r.wrap, r.add_len)
      <3>1. PICK type \in Nat :
              g = create_1w_add_controller(r.addr, type, r.manufacturer, r.key, r.with_mac, r.wrap, r.add_len)
        BY <1>1, <2>2
      <3>2. PICK enc : g = [Frame(r.addr, type, ADD_CONTROLLER, r.add_len, enc) EXCEPT !.has_mac = r.with_mac]
        BY <3>1, Zenon DEF create_1w_add_controller
      <3>3. QED
        BY <3>2
    <2>3. QED
      BY <2>1, <2>2 DEF FramesOf
  <1>4. Received(g).dst = encode_broadcast_address(type)
    <2>1. Frame(r.addr, type, cmd, len, body).dst = encode_broadcast_address(type)
          /\ [Frame(r.addr, type, cmd, len, body) EXCEPT !.has_mac = b1].dst = encode_broadcast_address(type)
      BY DEF Frame
    <2>2. g.dst = encode_broadcast_address(type) /\ Received(g).dst = g.dst
      BY <1>2, <1>3, <2>1 DEF Frame
    <2>3. QED
      BY <2>2
  <1>5. QED
    BY <1>1, <1>3, <1>4, AddressNamesClass

LEMMA ClassStep == ASSUME ClassInv, [AdoptionNext]_adoptionVars PROVE ClassInv'
  <1>1. UNKNOWN \in Nat
    BY DEF UNKNOWN
  <1>2. CASE TurnOn \/ Restart
    BY <1>1, <1>2 DEF TurnOn, Restart, ClassInv
  <1>3. CASE TurnOff \/ Tick
    BY <1>3 DEF TurnOff, Tick, ClassInv
  <1>4. CASE Flash \/ UNCHANGED adoptionVars
    BY <1>4 DEF Flash, adoptionVars, hub, ClassInv
  <1>5. CASE RemoteSends
    <2>1. CASE UNCHANGED hub
      BY <2>1 DEF hub, ClassInv
    <2>2. ASSUME NEW r \in Remotes, NEW g \in FramesOf(r), NEW f, f = Received(g), f # Nothing, process_received(f) PROVE ClassInv'
      <3>1. broadcast_target_type(f.dst) \in Nat
        BY <2>2, HeardClass
      <3>2. observed'.type \in Nat
        BY <2>2, <3>1 DEF process_received, record_oneway_observed_class, ClassInv
      <3>3. CASE report' = report
        BY <3>2, <3>3 DEF ClassInv
      <3>4. CASE report' = AdoptionReport(f)
        <4>1. report'.type = (IF observed'.node = f.src THEN observed'.type ELSE UNKNOWN)
          BY <3>4 DEF AdoptionReport
        <4>2. QED
          BY <1>1, <3>2, <4>1 DEF ClassInv
      <3>5. QED
        BY <2>2, <3>3, <3>4 DEF process_received, try_adopt_oneway_key
    <2>3. QED
      BY <1>5, <2>1, <2>2 DEF RemoteSends
  <1>6. QED
    BY <1>2, <1>3, <1>4, <1>5 DEF AdoptionNext, Listening

\* What the validation of oneway_controllers: leaves gives every identity an address of its own,
\* and every frame it sends passes serialize, the probe and parse unchanged, naming only its classes.
THEOREM VoiceIsOwn == AdoptionSpec => []OwnVoice
  <1>1. AdoptionInit => ClassInv /\ OwnVoice
    BY DEF AdoptionInit, ClassInv, OwnVoice, UNKNOWN
  <1>2. ASSUME ClassInv, OwnVoice, [AdoptionNext]_adoptionVars PROVE ClassInv' /\ OwnVoice'
    <2>1. CASE Flash
      BY <1>2, <2>1, ClassStep, FlashSpeaks
    <2>2. CASE running' = running
      BY <1>2, <2>2, ClassStep DEF OwnVoice
    <2>3. QED
      BY <1>2, <2>1, <2>2 DEF AdoptionNext, RemoteSends, Restart, adoptionVars
  <1>3. QED
    BY <1>1, <1>2, PTL DEF AdoptionSpec

=============================================================================
