------------------------- MODULE KeyExtraction_proofs -------------------------
(***************************************************************************)
(* Proofs that an armed cycle is as long as its window and ends for a      *)
(* reason, that the channel is held only after a recent answer, and whose  *)
(* key is reported - for any number of foreign hubs, IDs and challenges    *)
(* and every length of the three timeouts.                                 *)
(***************************************************************************)
EXTENDS KeyExtraction, FiniteSetTheorems, TLAPS

\* While armed, the auto-off timer and the age of the cycle run in step.
ArmedInv == ctx.state # "DISARMED" => timers.auto_off \in Nat /\ hist.armed + timers.auto_off = AUTO_OFF

\* Past extraction, so do the grace timer and the time without progress.
GraceInv == ctx.state \in Extracted => timers.grace \in Nat /\ hist.quiet + timers.grace = GRACE

\* The hold never outlasts its time-out counted from the last answer.
HoldInv ==
    key_extraction_awaiting_reply =>
        hist.replied + hold <= (IF ctx.state \in Attempting THEN MID_ATTEMPT ELSE GRACE)

\* The hubs that know this cycle's ID and hold a challenge of it.
Expecting == {h \in Hubs : know[h] = ctx.throwaway_id /\ heard[h] # None}

Single == \A a, b \in hist.inits : a = b

\* A challenge is only ever held by a hub that asked for it in this cycle, ...
AskedInv ==
    ctx.state # "DISARMED" =>
        /\ Expecting \subseteq hist.inits
        /\ ctx.state \in {"SENT_CHALLENGE"} \cup Extracted => ctx.hub_node_id \in hist.inits

\* ... and as long as a single hub asks, it is the responder's own, and nobody holds one
\* between the hub's fresh start and its next key-init.
ChallengeInv ==
    Single =>
        /\ ctx.state \in {"ARMED_IDLE", "SENT_DISCOVER_RESP", "SENT_CONFIRM_ACK"} => Expecting = {}
        /\ ctx.state = "SENT_CHALLENGE" => \A h \in Expecting : heard[h] = ctx.challenge

KeyInv == Single => \A e \in hist.log : e.key = e.hub

IInv == TypeOK /\ ArmedInv /\ GraceInv /\ HoldInv /\ AskedInv /\ ChallengeInv /\ KeyInv

-----------------------------------------------------------------------------
\* A set with at most one element has no two different ones.
LEMMA AtMostOne ==
    ASSUME NEW S, IsFiniteSet(S), Cardinality(S) <= 1, NEW a \in S, NEW b \in S
    PROVE  a = b
  <1>1. SUFFICES ASSUME a # b PROVE FALSE
    OBVIOUS
  <1>2. IsFiniteSet({a}) /\ Cardinality({a}) = 1
    BY FS_Singleton
  <1>3. IsFiniteSet({a} \cup {b}) /\ Cardinality({a} \cup {b}) = 2
    <2>1. b \notin {a}
      BY <1>1
    <2>2. IsFiniteSet({a} \cup {b}) /\ Cardinality({a} \cup {b}) = Cardinality({a}) + 1
      BY <1>2, <2>1, FS_AddElement
    <2>3. QED
      BY <1>2, <2>2
  <1>4. {a} \cup {b} \in SUBSET S
    OBVIOUS
  <1>5. Cardinality({a} \cup {b}) <= Cardinality(S)
    BY <1>4, FS_Subset
  <1>6. Cardinality(S) \in Nat
    BY FS_CardinalityType
  <1>7. QED
    BY <1>3, <1>5, <1>6

\* There are more challenges than can be in use.
LEMMA FreshExists == ASSUME TypeOK PROVE FreshChallenge \in Challenges
  <1> DEFINE Held == {heard[h] : h \in Hubs}
  <1>1. IsFiniteSet(Hubs) /\ IsFiniteSet(Challenges) /\ Cardinality(Challenges) > Cardinality(Hubs) + 1
    BY KeyExtractionAssumption
  <1>2. heard \in Surjection(Hubs, Held)
    BY DEF TypeOK, Surjection
  <1>3. IsFiniteSet(Held) /\ Cardinality(Held) <= Cardinality(Hubs)
    <2> HIDE DEF Held
    <2> QED BY <1>1, <1>2, FS_Surjection
  <1>4. IsFiniteSet(Held \cup {ctx.challenge}) /\ Cardinality(Held \cup {ctx.challenge}) <= Cardinality(Hubs) + 1
    <2>1. Cardinality(Held) \in Nat /\ Cardinality(Hubs) \in Nat
      BY <1>1, <1>3, FS_CardinalityType
    <2> HIDE DEF Held
    <2>2. /\ IsFiniteSet(Held \cup {ctx.challenge})
          /\ Cardinality(Held \cup {ctx.challenge})
               = IF ctx.challenge \in Held THEN Cardinality(Held) ELSE Cardinality(Held) + 1
      BY <1>3, FS_AddElement
    <2> QED BY <1>3, <2>1, <2>2
  <1>5. \E n \in Challenges : n \notin Held \cup {ctx.challenge}
    <2>1. SUFFICES ASSUME Challenges \in SUBSET (Held \cup {ctx.challenge}) PROVE FALSE
      OBVIOUS
    <2> HIDE DEF Held
    <2>2. Cardinality(Challenges) <= Cardinality(Held \cup {ctx.challenge})
      BY <1>4, <2>1, FS_Subset
    <2>3. Cardinality(Challenges) \in Nat /\ Cardinality(Hubs) \in Nat /\ Cardinality(Held \cup {ctx.challenge}) \in Nat
      BY <1>1, <1>4, FS_CardinalityType
    <2> QED BY <1>1, <1>4, <2>2, <2>3
  <1>6. QED
    BY <1>5 DEF FreshChallenge

-----------------------------------------------------------------------------
(* One lemma for each action.                                              *)

LEMMA Positive == /\ AUTO_OFF \in Nat /\ GRACE \in Nat /\ MID_ATTEMPT \in Nat
                  /\ AUTO_OFF > 0 /\ GRACE > 0 /\ MID_ATTEMPT > 0
  BY KeyExtractionAssumption

LEMMA FreshTypes == ResponderContext \in Contexts /\ FreshHistory \in Histories
  <1>1. ResponderContext \in Contexts
    BY DEF ResponderContext, Contexts, States
  <1>2. FreshHistory \in Histories
    BY KeyExtractionAssumption DEF FreshHistory, Histories
  <1>3. QED
    BY <1>1, <1>2

\* An answer and progress restart their counters and touch nothing else.
LEMMA ProgressTypes ==
    ASSUME TypeOK
    PROVE  /\ Replied \in Histories /\ Replied.armed = hist.armed /\ Replied.replied = 0
           /\ Replied.log = hist.log /\ Replied.inits = hist.inits
           /\ Progress \in Histories /\ Progress.armed = hist.armed /\ Progress.quiet = 0 /\ Progress.replied = 0
           /\ Progress.log = hist.log /\ Progress.inits = hist.inits
  <1>1. hist \in Histories
    BY DEF TypeOK
  <1>2. Replied \in Histories /\ Progress \in Histories
    <2>1. 0 \in 0 .. GRACE
      BY Positive
    <2>2. Replied \in Histories
      BY <1>1, <2>1 DEF Histories, Replied
    <2>3. Progress \in Histories
      BY <1>1, <2>1 DEF Histories, Progress
    <2>4. QED
      BY <2>2, <2>3
  <1>3. QED
    BY <1>1, <1>2 DEF Histories, Replied, Progress

LEMMA Initially == ASSUME Init PROVE IInv
  <1>1. ctx.state = "DISARMED" /\ hist.log = {}
    BY DEF Init, ResponderContext, FreshHistory
  <1>2. TypeOK
    <2>1. ctx \in Contexts /\ hist \in Histories
      BY FreshTypes DEF Init
    <2>2. know \in [Hubs -> Ids \cup {None}] /\ heard \in [Hubs -> Challenges \cup {None}]
      BY DEF Init
    <2>3. timers \in [auto_off : Off .. AUTO_OFF, grace : Off .. GRACE]
      BY Positive DEF Init, Off
    <2>4. hold \in 0 .. (GRACE + MID_ATTEMPT)
      BY Positive DEF Init
    <2>5. shown = (ctx.state # "DISARMED")
      BY <1>1 DEF Init
    <2>6. QED
      BY <2>1, <2>2, <2>3, <2>4, <2>5 DEF TypeOK
  <1>3. QED
    BY <1>1, <1>2 DEF IInv, ArmedInv, GraceInv, HoldInv, AskedInv, ChallengeInv, KeyInv,
                      Extracted, key_extraction_awaiting_reply

\* Whatever disarms leaves nothing of the cycle.
LEMMA DisarmPreserves ==
    ASSUME TypeOK, Disarm, UNCHANGED <<know, heard>>, hold' = hold,
           timers' \in [auto_off : Off .. AUTO_OFF, grace : Off .. GRACE]
    PROVE  IInv' /\ ctx'.state = "DISARMED"
  <1>1. ctx' = ResponderContext /\ hist' = FreshHistory /\ shown' = FALSE
    BY DEF Disarm, TypeOK
  <1>2. ctx'.state = "DISARMED" /\ hist'.log = {}
    BY <1>1 DEF ResponderContext, FreshHistory
  <1>3. TypeOK'
    BY <1>1, <1>2, FreshTypes DEF TypeOK
  <1>4. QED
    BY <1>2, <1>3 DEF IInv, ArmedInv, GraceInv, HoldInv, AskedInv, ChallengeInv, KeyInv,
                      Extracted, key_extraction_awaiting_reply

\* What does not touch the cycle keeps what the cycle relies on.
LEMMA TimerDropPreserves ==
    ASSUME IInv, UNCHANGED <<ctx, hold, shown, know, heard, hist>>,
           \/ ctx.state = "DISARMED" /\ timers' = [timers EXCEPT !.auto_off = Off]
           \/ ctx.state \notin Extracted /\ timers' = [timers EXCEPT !.grace = Off]
    PROVE  IInv'
  <1>1. TypeOK'
    BY KeyExtractionAssumption DEF IInv, TypeOK, Off
  <1>2. ArmedInv' /\ GraceInv'
    BY DEF IInv, TypeOK, ArmedInv, GraceInv, Extracted
  <1>3. HoldInv' /\ AskedInv' /\ ChallengeInv' /\ KeyInv'
    BY DEF IInv, HoldInv, key_extraction_awaiting_reply, AskedInv, ChallengeInv, KeyInv, Expecting, Single
  <1>4. QED
    BY <1>1, <1>2, <1>3 DEF IInv

LEMMA ArmPreserves == ASSUME IInv, Arm PROVE IInv'
  <1>1. PICK id \in ThrowawayIds :
          ctx' = [ResponderContext EXCEPT !.state = "ARMED_IDLE", !.throwaway_id = id]
    BY DEF Arm
  <1>2. /\ ctx'.state = "ARMED_IDLE" /\ ctx'.throwaway_id = id
        /\ id \in Ids /\ \A h \in Hubs : know[h] # id
    BY <1>1 DEF ResponderContext, ThrowawayIds
  <1>3. TypeOK'
    <2>1. ctx' \in Contexts
      BY <1>1, <1>2, FreshTypes DEF Contexts, States
    <2>2. timers' \in [auto_off : Off .. AUTO_OFF, grace : Off .. GRACE]
      BY KeyExtractionAssumption DEF IInv, TypeOK, Arm, Off
    <2>3. QED
      BY <1>2, <2>1, <2>2, FreshTypes DEF IInv, TypeOK, Arm
  <1>4. ArmedInv'
    BY KeyExtractionAssumption DEF IInv, TypeOK, Arm, ArmedInv, FreshHistory
  <1>5. GraceInv' /\ HoldInv' /\ KeyInv'
    BY <1>2 DEF Arm, GraceInv, HoldInv, KeyInv, FreshHistory, Extracted, key_extraction_awaiting_reply
  <1>6. AskedInv' /\ ChallengeInv'
    BY <1>2 DEF Arm, AskedInv, ChallengeInv, Expecting, Extracted
  <1>7. QED
    BY <1>3, <1>4, <1>5, <1>6 DEF IInv

LEMMA TickPreserves == ASSUME IInv, Tick PROVE IInv'
  <1>1. /\ ctx' = ctx /\ know' = know /\ heard' = heard /\ shown' = shown
        /\ hist'.log = hist.log /\ hist'.inits = hist.inits
    BY DEF IInv, TypeOK, Histories, Tick
  <1>2. AskedInv' /\ ChallengeInv' /\ KeyInv'
    BY <1>1 DEF IInv, AskedInv, ChallengeInv, KeyInv, Expecting, Single
  <1>3. /\ hist \in Histories /\ hist.armed \in 0 .. AUTO_OFF + 1
        /\ hist.quiet \in 0 .. GRACE /\ hist.replied \in 0 .. GRACE
    BY DEF IInv, TypeOK, Histories
  <1>4. /\ timers.auto_off \in Int /\ timers.auto_off # 0 /\ timers.auto_off <= AUTO_OFF /\ timers.auto_off >= -1
        /\ timers.grace \in Int /\ timers.grace # 0 /\ timers.grace <= GRACE /\ timers.grace >= -1
        /\ timers'.auto_off = Less(timers.auto_off) /\ timers'.grace = Less(timers.grace)
        /\ hold \in Int /\ hold >= 0 /\ hold <= GRACE + MID_ATTEMPT /\ hold' = Less(hold)
    BY Positive DEF IInv, TypeOK, Tick, Off
  <1>5. ctx.state # "DISARMED" =>
           /\ hist'.armed = More(hist.armed, AUTO_OFF + 1) /\ hist'.quiet = More(hist.quiet, GRACE)
           /\ hist'.replied = More(hist.replied, GRACE)
    BY <1>3 DEF Tick, Histories
  <1>6. TypeOK'
    <2>1. hist' \in Histories
      <3>1. CASE ctx.state = "DISARMED"
        BY <1>3, <3>1 DEF Tick
      <3>2. CASE ctx.state # "DISARMED"
        <4>1. /\ More(hist.armed, AUTO_OFF + 1) \in 0 .. AUTO_OFF + 1
              /\ More(hist.quiet, GRACE) \in 0 .. GRACE /\ More(hist.replied, GRACE) \in 0 .. GRACE
          BY <1>3, Positive DEF More
        <4>2. hist' = [hist EXCEPT !.armed = More(@, AUTO_OFF + 1), !.quiet = More(@, GRACE),
                                   !.replied = More(@, GRACE)]
          BY <3>2 DEF Tick
        <4>3. QED
          BY <1>3, <4>1, <4>2 DEF Histories
      <3>3. QED
        BY <3>1, <3>2
    <2>2. timers' \in [auto_off : Off .. AUTO_OFF, grace : Off .. GRACE]
      BY <1>4, Positive DEF Tick, Less, Off
    <2>3. hold' \in 0 .. (GRACE + MID_ATTEMPT)
      BY <1>4, Positive DEF Less
    <2>4. QED
      BY <1>1, <2>1, <2>2, <2>3 DEF IInv, TypeOK
  <1>7. ArmedInv'
    BY <1>1, <1>3, <1>4, <1>5, Positive DEF IInv, ArmedInv, Less, More
  <1>8. GraceInv'
    BY <1>1, <1>3, <1>4, <1>5, Positive DEF IInv, GraceInv, Less, More, Extracted
  <1>9. HoldInv'
    BY <1>1, <1>3, <1>4, <1>5, Positive DEF IInv, HoldInv, key_extraction_awaiting_reply, Less, More
  <1>10. QED
    BY <1>2, <1>6, <1>7, <1>8, <1>9 DEF IInv

\* A hub's 0x28: it forgets the challenge it held.
LEMMA DiscoverPreserves == ASSUME IInv, NEW h \in Hubs, Discover(h) PROVE IInv'
  <1>1. /\ ctx' = [ctx EXCEPT !.state = "SENT_DISCOVER_RESP"]
        /\ \/ ctx.state \in {"ARMED_IDLE", "SENT_DISCOVER_RESP"}
           \/ ctx.state \in Extracted /\ h = ctx.hub_node_id
    <2> DEFINE admits == \/ ctx.state \in {"ARMED_IDLE", "SENT_DISCOVER_RESP"}
                         \/ ctx.state \in Extracted /\ h = ctx.hub_node_id
    <2>1. ctx' \in IF admits THEN {[ctx EXCEPT !.state = "SENT_DISCOVER_RESP"]} ELSE {}
      BY DEF Discover, on_discover_request
    <2> HIDE DEF admits
    <2>2. admits /\ ctx' = [ctx EXCEPT !.state = "SENT_DISCOVER_RESP"]
      BY <2>1
    <2>3. QED
      BY <2>2 DEF admits
  <1>2. /\ ctx'.state = "SENT_DISCOVER_RESP" /\ ctx'.throwaway_id = ctx.throwaway_id
        /\ ctx'.hub_node_id = ctx.hub_node_id
        /\ ctx' \in Contexts
    BY <1>1 DEF IInv, TypeOK, Contexts, States
  <1>3. /\ timers' = timers /\ shown' = shown /\ hold' = MID_ATTEMPT
        /\ hist' \in Histories /\ hist'.armed = hist.armed /\ hist'.replied = 0
        /\ hist'.log = hist.log /\ hist'.inits = hist.inits
    BY Positive DEF IInv, TypeOK, Histories, Discover, Replied
  <1>4. /\ know' \in [Hubs -> Ids \cup {None}] /\ heard' \in [Hubs -> Challenges \cup {None}]
        /\ heard'[h] = None
        /\ \A g \in Hubs \ {h} : know'[g] = know[g] /\ heard'[g] = heard[g]
    BY DEF IInv, TypeOK, Contexts, Discover
  <1>5. Expecting' \subseteq Expecting \ {h}
    BY <1>2, <1>4 DEF Expecting
  <1>6. TypeOK'
    BY <1>1, <1>2, <1>3, <1>4, Positive DEF IInv, TypeOK, Extracted
  <1>7. ArmedInv' /\ GraceInv' /\ HoldInv' /\ KeyInv'
    BY <1>1, <1>2, <1>3, Positive
    DEF IInv, ArmedInv, GraceInv, HoldInv, KeyInv, Single, Extracted, Attempting, States, key_extraction_awaiting_reply
  <1>8. AskedInv'
    BY <1>1, <1>2, <1>3, <1>5 DEF IInv, AskedInv, Extracted
  <1>9. ChallengeInv'
    <2>1. SUFFICES ASSUME Single, Expecting' # {} PROVE FALSE
      BY <1>2, <1>3 DEF ChallengeInv, Single
    <2>2. PICK g \in Expecting : g # h
      BY <1>5, <2>1
    <2>3. ctx.state \in Extracted /\ h = ctx.hub_node_id
      BY <1>1, <2>1, <2>2 DEF IInv, ChallengeInv
    <2>4. g \in hist.inits /\ h \in hist.inits
      BY <2>2, <2>3 DEF IInv, AskedInv, Extracted
    <2>5. QED
      BY <2>1, <2>2, <2>4 DEF Single
  <1>10. QED
    BY <1>6, <1>7, <1>8, <1>9 DEF IInv

LEMMA DiscoverConfirmPreserves == ASSUME IInv, NEW h \in Hubs, DiscoverConfirm(h) PROVE IInv'
  <1>1. /\ ctx' = [ctx EXCEPT !.state = "SENT_CONFIRM_ACK"]
        /\ ctx.state \in {"SENT_DISCOVER_RESP", "SENT_CONFIRM_ACK"}
    BY DEF DiscoverConfirm, on_discover_confirm
  <1>2. /\ ctx'.state = "SENT_CONFIRM_ACK" /\ ctx'.throwaway_id = ctx.throwaway_id
        /\ ctx' \in Contexts
    BY <1>1 DEF IInv, TypeOK, Contexts, States
  <1>3. /\ timers' = timers /\ shown' = shown /\ hold' = MID_ATTEMPT /\ know' = know /\ heard' = heard
        /\ hist' \in Histories /\ hist'.armed = hist.armed /\ hist'.replied = 0
        /\ hist'.log = hist.log /\ hist'.inits = hist.inits
    BY Positive DEF IInv, TypeOK, Histories, DiscoverConfirm, Replied
  <1>4. Expecting' = Expecting
    BY <1>2, <1>3 DEF Expecting
  <1>5. TypeOK'
    BY <1>1, <1>2, <1>3, Positive DEF IInv, TypeOK
  <1>6. ArmedInv' /\ GraceInv' /\ HoldInv' /\ KeyInv'
    BY <1>1, <1>2, <1>3, Positive
    DEF IInv, ArmedInv, GraceInv, HoldInv, KeyInv, Single, Extracted, Attempting, States, key_extraction_awaiting_reply
  <1>7. AskedInv' /\ ChallengeInv'
    BY <1>1, <1>2, <1>3, <1>4 DEF IInv, AskedInv, ChallengeInv, Single, Extracted
  <1>8. QED
    BY <1>5, <1>6, <1>7 DEF IInv

\* A 0x31: the hub may get to hold the responder's challenge.
LEMMA KeyInitPreserves == ASSUME IInv, NEW h \in Hubs, KeyInit(h) PROVE IInv'
  <1>1. FreshChallenge \in Challenges
    BY FreshExists DEF IInv
  <1>2. \/ /\ ctx.state \in {"SENT_DISCOVER_RESP", "SENT_CONFIRM_ACK"}
           /\ ctx' = [ctx EXCEPT !.state = "SENT_CHALLENGE", !.challenge = FreshChallenge, !.hub_node_id = h]
        \/ ctx.state = "SENT_CHALLENGE" /\ ctx' = ctx
    BY DEF KeyInit, on_key_init
  <1>3. /\ ctx'.state = "SENT_CHALLENGE" /\ ctx'.throwaway_id = ctx.throwaway_id
        /\ ctx' \in Contexts
        /\ ctx.state \in {"SENT_DISCOVER_RESP", "SENT_CONFIRM_ACK"} => ctx'.hub_node_id = h
    BY <1>1, <1>2 DEF IInv, TypeOK, Contexts, States
  <1>4. /\ timers' = timers /\ shown' = shown /\ hold' = MID_ATTEMPT /\ know' = know
        /\ hist' \in Histories /\ hist'.armed = hist.armed /\ hist'.replied = 0
        /\ hist'.log = hist.log /\ hist'.inits = hist.inits \cup {h}
    <2>1. hist' = [Replied EXCEPT !.inits = Replied.inits \cup {h}]
      BY DEF KeyInit
    <2>2. Replied \in Histories /\ Replied.armed = hist.armed /\ Replied.replied = 0
          /\ Replied.log = hist.log /\ Replied.inits = hist.inits
      BY ProgressTypes DEF IInv
    <2>3. QED
      BY <2>1, <2>2 DEF KeyInit, Histories
  <1>5. /\ heard' \in [Hubs -> Challenges \cup {None}]
        /\ heard'[h] \in {heard[h], ctx'.challenge}
        /\ \A g \in Hubs \ {h} : heard'[g] = heard[g]
    BY <1>3 DEF IInv, TypeOK, Contexts, KeyInit
  <1>6. Expecting' \subseteq Expecting \cup {h}
    BY <1>3, <1>4, <1>5 DEF Expecting
  <1>7. TypeOK'
    BY <1>2, <1>3, <1>4, <1>5, Positive DEF IInv, TypeOK
  <1>8. Single' => Single
    BY <1>4 DEF Single
  <1>9. ArmedInv' /\ GraceInv' /\ HoldInv' /\ KeyInv'
    BY <1>2, <1>3, <1>4, <1>8, Positive
    DEF IInv, ArmedInv, GraceInv, HoldInv, KeyInv, Extracted, Attempting, States, key_extraction_awaiting_reply
  <1>10. AskedInv'
    BY <1>2, <1>3, <1>4, <1>6 DEF IInv, AskedInv, Extracted
  <1>11. ChallengeInv'
    <2>1. SUFFICES ASSUME Single', NEW g \in Expecting' PROVE heard'[g] = ctx'.challenge
      BY <1>3 DEF ChallengeInv
    <2>2. g = h /\ g \in Hubs
      <3>1. g \in hist'.inits /\ h \in hist'.inits
        BY <1>3, <1>4, <1>10, <2>1 DEF AskedInv
      <3>2. QED
        BY <2>1, <3>1 DEF Single
    <2>3. CASE heard'[h] = ctx'.challenge
      BY <2>2, <2>3
    <2>4. CASE heard'[h] = heard[h]
      <3>1. h \in Expecting
        BY <1>3, <1>4, <2>1, <2>2, <2>4 DEF Expecting
      <3>2. ctx.state = "SENT_CHALLENGE" /\ ctx' = ctx
        BY <1>2, <1>8, <2>1, <3>1 DEF IInv, ChallengeInv
      <3>3. QED
        BY <1>8, <2>1, <2>2, <2>4, <3>1, <3>2 DEF IInv, ChallengeInv
    <2>5. QED
      BY <1>5, <2>3, <2>4
  <1>12. QED
    BY <1>7, <1>9, <1>10, <1>11 DEF IInv

\* A 0x32: from a hub that asked, hence, when only one did, under the right challenge.
LEMMA KeyTransferPreserves == ASSUME IInv, NEW h \in Hubs, KeyTransfer(h) PROVE IInv'
  <1> DEFINE payload == [key |-> h, challenge |-> heard[h]]
             entry == [hub |-> ctx'.hub_node_id, key |-> ctx'.recovered_key]
  <1>1. /\ ctx.state = "SENT_CHALLENGE"
        /\ ctx' = [ctx EXCEPT !.state = "EXTRACTED", !.recovered_key = Recovered(payload, ctx.challenge)]
    BY DEF KeyTransfer, on_key_transfer
  <1>2. h \in Expecting
    BY DEF KeyTransfer, Addressed, Expecting
  <1>3. h \in hist.inits /\ ctx.hub_node_id \in hist.inits
    BY <1>1, <1>2 DEF IInv, AskedInv
  <1>4. /\ ctx'.state = "EXTRACTED" /\ ctx'.throwaway_id = ctx.throwaway_id
        /\ ctx'.hub_node_id = ctx.hub_node_id
        /\ ctx'.recovered_key = IF heard[h] = ctx.challenge THEN h ELSE "noise"
        /\ ctx' \in Contexts
    BY <1>1 DEF IInv, TypeOK, Contexts, States, Recovered
  <1>5. ctx'.hub_node_id \in Hubs /\ ctx'.recovered_key \in Hubs \cup {"noise"}
    BY <1>3, <1>4 DEF IInv, TypeOK, Histories
  <1>6. /\ hist' \in Histories /\ hist'.armed = hist.armed /\ hist'.quiet = 0 /\ hist'.replied = 0
        /\ hist'.inits = hist.inits /\ hist'.log = hist.log \cup {entry}
    <2>1. hist' = [Progress EXCEPT !.log = Progress.log \cup {entry}]
      BY DEF KeyTransfer
    <2>2. entry \in [hub : Hubs, key : Hubs \cup {"noise"}]
      BY <1>5
    <2> HIDE DEF entry
    <2>3. QED
      BY <2>1, <2>2, ProgressTypes DEF IInv, Histories
  <1>7. /\ timers' \in [auto_off : Off .. AUTO_OFF, grace : Off .. GRACE]
        /\ timers'.auto_off = timers.auto_off /\ timers'.grace = GRACE /\ hold' = GRACE
        /\ shown' = shown /\ know' = know /\ heard' = heard
    BY Positive DEF IInv, TypeOK, KeyTransfer, arm_post_extraction_grace, Off
  <1>8. TypeOK'
    BY <1>1, <1>4, <1>6, <1>7, Positive DEF IInv, TypeOK
  <1>9. ArmedInv' /\ GraceInv' /\ HoldInv' /\ ChallengeInv'
    BY <1>1, <1>4, <1>6, <1>7, Positive
    DEF IInv, ArmedInv, GraceInv, HoldInv, ChallengeInv, Extracted, Attempting, key_extraction_awaiting_reply
  <1>10. AskedInv'
    BY <1>1, <1>3, <1>4, <1>6, <1>7 DEF IInv, AskedInv, Expecting
  <1>11. KeyInv'
    <2>1. SUFFICES ASSUME Single PROVE entry.key = entry.hub
      BY <1>6 DEF IInv, KeyInv, Single
    <2>2. ctx'.hub_node_id = h
      BY <1>3, <1>4, <2>1 DEF Single
    <2>3. ctx'.recovered_key = h
      BY <1>1, <1>2, <1>4, <2>1 DEF IInv, ChallengeInv
    <2>4. QED
      BY <2>2, <2>3
  <1>12. QED
    BY <1>8, <1>9, <1>10, <1>11 DEF IInv

\* The steps after extraction only push the grace timer out.
LEMMA AddressStepPreserves ==
    ASSUME IInv, ctx.state \in Extracted, arm_post_extraction_grace, hist' = Progress,
           ctx' \in Contexts, ctx'.state = "SENT_ADDRESS_RESP", ctx'.throwaway_id = ctx.throwaway_id,
           ctx'.hub_node_id = ctx.hub_node_id, UNCHANGED <<shown, know, heard>>
    PROVE  IInv'
  <1>1. /\ hist' \in Histories /\ hist'.armed = hist.armed /\ hist'.quiet = 0 /\ hist'.replied = 0
        /\ hist'.inits = hist.inits /\ hist'.log = hist.log
    BY ProgressTypes DEF IInv
  <1>2. /\ timers' \in [auto_off : Off .. AUTO_OFF, grace : Off .. GRACE]
        /\ timers'.auto_off = timers.auto_off /\ timers'.grace = GRACE /\ hold' = GRACE
    BY Positive DEF IInv, TypeOK, arm_post_extraction_grace, Off
  <1>3. TypeOK'
    BY <1>1, <1>2, Positive DEF IInv, TypeOK, Extracted
  <1>4. ArmedInv' /\ GraceInv' /\ HoldInv' /\ KeyInv' /\ ChallengeInv'
    BY <1>1, <1>2, Positive
    DEF IInv, ArmedInv, GraceInv, HoldInv, KeyInv, ChallengeInv, Single, Extracted, Attempting, key_extraction_awaiting_reply
  <1>5. AskedInv'
    BY <1>1 DEF IInv, AskedInv, Expecting, Extracted
  <1>6. QED
    BY <1>3, <1>4, <1>5 DEF IInv

LEMMA AddressReqPreserves == ASSUME IInv, NEW h \in Hubs, AddressReq(h) PROVE IInv'
  <1>1. ctx.state \in Extracted /\ ctx' = [ctx EXCEPT !.state = "SENT_ADDRESS_RESP"]
    BY DEF AddressReq, on_address_req
  <1>2. /\ ctx'.state = "SENT_ADDRESS_RESP" /\ ctx'.throwaway_id = ctx.throwaway_id
        /\ ctx'.hub_node_id = ctx.hub_node_id /\ ctx' \in Contexts
    BY <1>1 DEF IInv, TypeOK, Contexts, States
  <1>3. QED
    BY <1>1, <1>2, AddressStepPreserves DEF AddressReq

LEMMA AddressChallengePreserves == ASSUME IInv, NEW h \in Hubs, AddressChallenge(h) PROVE IInv'
  <1>1. ctx.state = "SENT_ADDRESS_RESP" /\ ctx' = ctx
    BY DEF AddressChallenge, on_address_challenge
  <1>2. QED
    BY <1>1, AddressStepPreserves DEF AddressChallenge, IInv, TypeOK, Extracted

-----------------------------------------------------------------------------
(* The invariant, and what it says.                                        *)

\* A timer that fires on a cycle ends it at its time, and one of an earlier cycle does nothing.
LEMMA TimersPreserve ==
    ASSUME IInv, AutoOffFires \/ GraceFires
    PROVE  /\ IInv'
           /\ ctx.state # "DISARMED" /\ ctx'.state = "DISARMED" =>
                \/ hist.armed = AUTO_OFF
                \/ ctx.state \in Extracted /\ hist.quiet = GRACE
  <1>1. CASE AutoOffFires /\ ctx.state # "DISARMED"
    <2>1. timers' \in [auto_off : Off .. AUTO_OFF, grace : Off .. GRACE]
      BY <1>1, Positive DEF AutoOffFires, IInv, TypeOK, Off
    <2>2. IInv'
      BY <1>1, <2>1, DisarmPreserves DEF AutoOffFires, IInv
    <2>3. hist.armed \in 0 .. AUTO_OFF + 1 /\ timers.auto_off = 0
      BY <1>1 DEF AutoOffFires, IInv, TypeOK, Histories
    <2>4. hist.armed = AUTO_OFF
      BY <1>1, <2>3, Positive DEF IInv, ArmedInv
    <2>5. QED
      BY <2>2, <2>4
  <1>2. CASE AutoOffFires /\ ctx.state = "DISARMED"
    BY <1>2, TimerDropPreserves DEF AutoOffFires
  <1>3. CASE GraceFires /\ GraceApplies(ctx)
    <2>1. timers' \in [auto_off : Off .. AUTO_OFF, grace : Off .. GRACE]
      BY <1>3, Positive DEF GraceFires, IInv, TypeOK, Off
    <2>2. IInv'
      BY <1>3, <2>1, DisarmPreserves DEF GraceFires, IInv
    <2>3. hist.quiet \in 0 .. GRACE /\ timers.grace = 0 /\ ctx.state \in Extracted
      BY <1>3 DEF GraceFires, GraceApplies, IInv, TypeOK, Histories
    <2>4. hist.quiet = GRACE
      BY <2>3, Positive DEF IInv, GraceInv
    <2>5. QED
      BY <2>2, <2>3, <2>4
  <1>4. CASE GraceFires /\ ~GraceApplies(ctx)
    BY <1>4, TimerDropPreserves DEF GraceFires, GraceApplies
  <1>5. QED
    BY <1>1, <1>2, <1>3, <1>4

LEMMA StepPreserves == ASSUME IInv, NEW h \in Hubs, Step(h) PROVE IInv' /\ (ctx.state # "DISARMED" => ctx'.state # "DISARMED")
  <1>1. CASE Discover(h)
    BY <1>1, DiscoverPreserves DEF Discover, on_discover_request, IInv, TypeOK, Contexts
  <1>2. CASE DiscoverConfirm(h)
    BY <1>2, DiscoverConfirmPreserves DEF DiscoverConfirm, on_discover_confirm, IInv, TypeOK, Contexts
  <1>3. CASE KeyInit(h)
    BY <1>3, KeyInitPreserves DEF KeyInit, on_key_init, IInv, TypeOK, Contexts
  <1>4. CASE KeyTransfer(h)
    BY <1>4, KeyTransferPreserves DEF KeyTransfer, on_key_transfer, IInv, TypeOK, Contexts
  <1>5. CASE AddressReq(h)
    BY <1>5, AddressReqPreserves DEF AddressReq, on_address_req, IInv, TypeOK, Contexts
  <1>6. CASE AddressChallenge(h)
    BY <1>6, AddressChallengePreserves DEF AddressChallenge, on_address_challenge
  <1>7. CASE StartOver(h)
    <2>1. /\ know' \in [Hubs -> Ids \cup {None}] /\ heard' \in [Hubs -> Challenges \cup {None}]
          /\ UNCHANGED <<ctx, hold, timers, shown, hist>>
          /\ heard'[h] = None /\ \A g \in Hubs \ {h} : know'[g] = know[g] /\ heard'[g] = heard[g]
      BY <1>7 DEF StartOver, IInv, TypeOK
    <2>2. Expecting' \subseteq Expecting /\ \A g \in Expecting' : heard'[g] = heard[g]
      BY <2>1 DEF Expecting
    <2>3. TypeOK' /\ ArmedInv' /\ GraceInv' /\ HoldInv' /\ KeyInv'
      BY <2>1 DEF IInv, TypeOK, ArmedInv, GraceInv, HoldInv, KeyInv, Single, key_extraction_awaiting_reply
    <2>4. AskedInv' /\ ChallengeInv'
      BY <2>1, <2>2 DEF IInv, AskedInv, ChallengeInv, Single
    <2>5. QED
      BY <2>1, <2>3, <2>4 DEF IInv
  <1>8. QED
    BY <1>1, <1>2, <1>3, <1>4, <1>5, <1>6, <1>7 DEF Step

LEMMA NextPreserves ==
    ASSUME IInv, [Next]_vars
    PROVE  /\ IInv'
           /\ ctx.state # "DISARMED" /\ ctx'.state = "DISARMED" =>
                \/ timers' = timers
                \/ hist.armed = AUTO_OFF
                \/ ctx.state \in Extracted /\ hist.quiet = GRACE
  <1>1. CASE Arm
    BY <1>1, ArmPreserves DEF Arm, ResponderContext
  <1>2. CASE TurnOff
    BY <1>2, DisarmPreserves DEF TurnOff, IInv, TypeOK
  <1>3. CASE AutoOffFires \/ GraceFires
    BY <1>3, TimersPreserve
  <1>4. CASE Tick
    BY <1>4, TickPreserves DEF Tick
  <1>5. CASE \E h \in Hubs : Step(h)
    BY <1>5, StepPreserves
  <1>6. CASE UNCHANGED vars
    BY <1>6 DEF vars, IInv, TypeOK, ArmedInv, GraceInv, HoldInv, AskedInv, ChallengeInv, KeyInv,
                Expecting, Single, key_extraction_awaiting_reply
  <1>7. QED
    BY <1>1, <1>2, <1>3, <1>4, <1>5, <1>6 DEF Next

LEMMA Invariance == Spec => []IInv
  <1>1. Init => IInv
    BY Initially
  <1>2. IInv /\ [Next]_vars => IInv'
    BY NextPreserves
  <1>3. QED
    BY <1>1, <1>2, PTL DEF Spec

\* A cycle is over when its window is, whatever hubs send and whichever timers of earlier
\* cycles fire (arm_post_extraction_grace_ pushes only its own timer out), and channel 2 is
\* held only shortly after an answer.
THEOREM WindowIsBounded == Spec => []WindowBounded
  <1>1. IInv => WindowBounded
    <2>1. SUFFICES ASSUME IInv PROVE WindowBounded
      OBVIOUS
    <2>2. hist.armed \in 0 .. AUTO_OFF + 1 /\ hist.replied \in 0 .. GRACE /\ hold \in Nat
      BY <2>1, Positive DEF IInv, TypeOK, Histories
    <2>3. ctx.state # "DISARMED" => hist.armed <= AUTO_OFF
      BY <2>1, <2>2, Positive DEF IInv, ArmedInv
    <2>4. key_extraction_awaiting_reply =>
            hist.replied < (IF ctx.state \in Attempting THEN MID_ATTEMPT ELSE GRACE)
      BY <2>1, <2>2, Positive DEF IInv, HoldInv, key_extraction_awaiting_reply
    <2>5. QED
      BY <2>3, <2>4 DEF WindowBounded
  <1>2. QED
    BY <1>1, Invariance, PTL

\* A cycle ends because the user, its window, or a whole quiet grace period ends it: the
\* callbacks of timers that outlive a cycle or an extraction find nothing to do.
THEOREM CycleEndsForAReason == Spec => EndsForAReason
  <1>1. IInv /\ [Next]_vars =>
          [(ctx.state # "DISARMED" /\ ctx'.state = "DISARMED") =>
             \/ timers' = timers
             \/ hist.armed = AUTO_OFF
             \/ ctx.state \in Extracted /\ hist.quiet = GRACE]_vars
    BY NextPreserves
  <1>2. QED
    BY <1>1, Invariance, PTL DEF Spec, EndsForAReason

\* Where a single hub pairs, every reported key is that hub's own: a repeated 0x31 gets the
\* challenge already sent, so the key is decrypted with the one it was encrypted for.
THEOREM OneHubOwnKey == Spec => []OneHubOneKey
  <1>1. IInv => OneHubOneKey
    <2>1. SUFFICES ASSUME IInv, Cardinality(hist.inits) <= 1 PROVE \A e \in hist.log : e.key = e.hub
      BY DEF OneHubOneKey
    <2>2. IsFiniteSet(hist.inits)
      BY <2>1, KeyExtractionAssumption, FS_Subset DEF IInv, TypeOK, Histories
    <2>3. Single
      BY <2>1, <2>2, AtMostOne DEF Single
    <2>4. QED
      BY <2>1, <2>3 DEF IInv, KeyInv
  <1>2. QED
    BY <1>1, Invariance, PTL

\* Once a key is extracted, no step of another hub changes the responder's context.
THEOREM OthersLeaveItAlone == Spec => OthersDoNotDisturb
  <1>1. ASSUME NEW h \in Hubs, Step(h), ctx.state \in Extracted, h # ctx.hub_node_id
        PROVE  ctx' = ctx
    <2>1. ctx.state \notin {"ARMED_IDLE", "SENT_DISCOVER_RESP", "SENT_CONFIRM_ACK", "SENT_CHALLENGE"}
      BY <1>1 DEF Extracted
    <2>2. ~Discover(h)
      BY <1>1, <2>1 DEF Discover, on_discover_request
    <2>3. ~DiscoverConfirm(h) /\ ~KeyInit(h) /\ ~KeyTransfer(h)
      BY <2>1 DEF DiscoverConfirm, on_discover_confirm, KeyInit, on_key_init, KeyTransfer, on_key_transfer
    <2>4. ~AddressReq(h) /\ ~AddressChallenge(h)
      BY <1>1 DEF AddressReq, AddressChallenge
    <2>5. QED
      BY <1>1, <2>2, <2>3, <2>4 DEF Step, StartOver
  <1>2. [Next]_vars =>
          [\A h \in Hubs : (Step(h) /\ ctx.state \in Extracted /\ h # ctx.hub_node_id) => ctx' = ctx]_vars
    BY <1>1
  <1>3. QED
    BY <1>2, PTL DEF Spec, OthersDoNotDisturb
=============================================================================
