---------------------------- MODULE RekeyProofs -----------------------------
(***************************************************************************)
(* Key rotation is correct for every refresh rate, number of retries and   *)
(* of losses: it is type correct, and when one end sends, every buffered   *)
(* packet stays decryptable for every send window no larger than the point *)
(* where the next key is announced.                                        *)
(***************************************************************************)
EXTENDS Rekey, TLAPS

USE Zenon

(* The announce point is no later than the refresh point.                  *)
LEMMA Schedule ==
    /\ Refresh \in Nat \ {0}
    /\ AnnounceAt \in Nat
    /\ AnnounceAt <= Refresh
<1>1. Refresh \in Nat \ {0}
  BY RekeyAssumption DEF Refresh
<1>2. Preannounce \in Nat
  BY <1>1, SMT DEF Preannounce
<1> QED
  BY <1>1, <1>2, SMT DEF AnnounceAt

(* packets_on_key counts up to the refresh point.                          *)
LEMMA CountIs ==
    ASSUME NEW n \in 0 .. Refresh
    PROVE  /\ Count(n) = IF n < Refresh THEN n + 1 ELSE Refresh
           /\ Count(n) \in 1 .. Refresh
BY Schedule, SMT DEF Count

(* The two ends are each other's peers.                                    *)
LEMMA EndsFacts ==
    ASSUME NEW e \in Ends
    PROVE  Peer(e) \in Ends /\ Peer(e) # e /\ Peer(Peer(e)) = e /\ Ends = {e, Peer(e)}
BY DEF Peer, Ends

(* Two sequences one after the other.                                      *)
LEMMA Joined ==
    ASSUME NEW S, NEW s \in Seq(S), NEW t \in Seq(S)
    PROVE  /\ s \o t \in Seq(S)
           /\ Len(s \o t) = Len(s) + Len(t)
           /\ \A j \in 1 .. Len(s) + Len(t) :
                 (s \o t)[j] = IF j <= Len(s) THEN s[j] ELSE t[j - Len(s)]
<1>1. s \o t \in Seq(S)
  BY SMT
<1>2. Len(s \o t) = Len(s) + Len(t)
  BY SMT
<1>3. ASSUME NEW j \in 1 .. Len(s) + Len(t)
      PROVE  (s \o t)[j] = IF j <= Len(s) THEN s[j] ELSE t[j - Len(s)]
  BY SMT
<1> QED
  BY <1>1, <1>2, <1>3

(* What is left of a sequence when one element is taken out.               *)
LEMMA LeaveOutProperties ==
    ASSUME NEW S, NEW q \in Seq(S), NEW i \in 1 .. Len(q)
    PROVE  /\ LeaveOut(q, i) \in Seq(S)
           /\ Len(LeaveOut(q, i)) = Len(q) - 1
           /\ \A j \in 1 .. Len(q) - 1 :
                 LeaveOut(q, i)[j] = IF j < i THEN q[j] ELSE q[j + 1]
<1> DEFINE front == SubSeq(q, 1, i - 1)
           back == SubSeq(q, i + 1, Len(q))
<1>1. Len(q) \in Nat /\ \A j \in 1 .. Len(q) : q[j] \in S
  BY SMT
<1>2. /\ front \in Seq(S)
      /\ Len(front) = i - 1
      /\ \A j \in 1 .. i - 1 : front[j] = q[j]
  BY <1>1, SMT
<1>3. /\ back \in Seq(S)
      /\ Len(back) = Len(q) - i
      /\ \A j \in 1 .. Len(q) - i : back[j] = q[i + j]
  BY <1>1, SMT
<1>4. LeaveOut(q, i) = front \o back
  BY DEF LeaveOut
<1> HIDE DEF front, back
<1>5. /\ front \o back \in Seq(S)
      /\ Len(front \o back) = Len(front) + Len(back)
      /\ \A j \in 1 .. Len(front) + Len(back) :
            (front \o back)[j] = IF j <= Len(front) THEN front[j]
                                ELSE back[j - Len(front)]
  BY <1>2, <1>3, Joined
<1> QED
  BY <1>1, <1>2, <1>3, <1>4, <1>5, SMT

(* A sequence with one more element.                                       *)
LEMMA AppendIs ==
    ASSUME NEW S, NEW q \in Seq(S), NEW x \in S
    PROVE  /\ Len(q) \in Nat
           /\ Len(Append(q, x)) = Len(q) + 1
           /\ \A i \in 1 .. Len(Append(q, x)) :
                 Append(q, x)[i] = IF i <= Len(q) THEN q[i] ELSE x
<1>1. /\ Len(Append(q, x)) = Len(q) + 1
      /\ \A i \in 1 .. Len(q) : Append(q, x)[i] = q[i]
      /\ Append(q, x)[Len(q) + 1] = x
  BY SMT
<1>2. Len(q) \in Nat
  BY SMT
<1>3. ASSUME NEW i \in 1 .. Len(q) + 1
      PROVE  i \in 1 .. Len(q) \/ i = Len(q) + 1
  BY <1>2, SMT
<1>4. ~ Len(q) + 1 <= Len(q) /\ \A i \in 1 .. Len(q) : i <= Len(q)
  BY <1>2, SMT
<1> QED
  BY <1>1, <1>2, <1>3, <1>4

(* What is left of a sequence without its head.                            *)
LEMMA TailProperties ==
    ASSUME NEW S, NEW q \in Seq(S), q # <<>>
    PROVE  /\ Tail(q) \in Seq(S)
           /\ Len(Tail(q)) = Len(q) - 1
           /\ Len(q) \in Nat \ {0}
           /\ Head(q) = q[1]
           /\ Head(q) \in S
           /\ \A j \in 1 .. Len(q) - 1 : Tail(q)[j] = q[j + 1]
BY SMT
-----------------------------------------------------------------------------
(* The key an end encrypts with is in its slot, and so is the key it has   *)
(* announced or may switch to.                                             *)
Populated(crypto, r) ==
    /\ ActiveKey(crypto) \in Keys
    /\ r.pending_km # NoKm \/ r.next_key_ready => crypto.key[NextFlags(crypto)] \in Keys

TypeInv == TypeOK /\ \A e \in Ends : Populated(slots[e], rotation[e])

(* There are two slots, and activating the next one swaps them.            *)
LEMMA NextFlagsFacts ==
    ASSUME NEW crypto \in SessionCrypto
    PROVE  /\ NextFlags(crypto) \in Flags
           /\ NextFlags(crypto) # crypto.active
           /\ Flags = {crypto.active, NextFlags(crypto)}
           /\ NextFlags(Activate(crypto, NextFlags(crypto))) = crypto.active
BY DEF SessionCrypto, NextFlags, Flags, Activate

(* No Key Material message is mistaken for none pending.                   *)
LEMMA NoKmIsNone == NoKm \notin KmMessage
BY DEF NoKm, Km, KmMessage, Flags

(* Types survive what the actions do to the slots of an end.               *)
LEMMA InstallType ==
    ASSUME NEW crypto \in SessionCrypto, NEW flags \in Flags, NEW key \in Keys
    PROVE  /\ Install(crypto, flags, key) \in SessionCrypto
           /\ Install(crypto, flags, key).active = crypto.active
           /\ NextFlags(Install(crypto, flags, key)) = NextFlags(crypto)
           /\ \A f \in Flags : Install(crypto, flags, key).key[f]
                                  = IF f = flags THEN key ELSE crypto.key[f]
BY DEF SessionCrypto, Install, NextFlags

(* Activating a slot changes no key.                                       *)
LEMMA ActivateType ==
    ASSUME NEW crypto \in SessionCrypto, NEW flags \in Flags
    PROVE  /\ Activate(crypto, flags) \in SessionCrypto
           /\ Activate(crypto, flags).active = flags
           /\ Activate(crypto, flags).key = crypto.key
BY DEF SessionCrypto, Activate

(* The schedule's fields, one by one, after each change the actions make.  *)
Fields(p, q, km, n, y, g) ==
    [packets_on_key |-> p, rekey_pending |-> q, pending_km |-> km,
     km_retries |-> n, next_key_ready |-> y, generated |-> g]

(* A schedule is the record of its fields.                                 *)
LEMMA RotationIs ==
    ASSUME NEW r \in Rotation
    PROVE  /\ r.packets_on_key \in 0 .. Refresh /\ r.rekey_pending \in BOOLEAN
           /\ r.pending_km \in KmMessage \cup {NoKm} /\ r.km_retries \in 0 .. MaxKmRetries
           /\ r.next_key_ready \in BOOLEAN /\ r.generated \in 0 .. MaxKeys
           /\ r = Fields(r.packets_on_key, r.rekey_pending, r.pending_km,
                         r.km_retries, r.next_key_ready, r.generated)
BY DEF Rotation, Fields

(* A record of well-typed fields is a schedule.                            *)
LEMMA FieldsType ==
    ASSUME NEW p \in 0 .. Refresh, NEW q \in BOOLEAN, NEW km \in KmMessage \cup {NoKm},
           NEW n \in 0 .. MaxKmRetries, NEW y \in BOOLEAN, NEW g \in 0 .. MaxKeys
    PROVE  Fields(p, q, km, n, y, g) \in Rotation
BY DEF Rotation, Fields

(* Setting one field leaves the others.                                    *)
LEMMA FieldsSet ==
    ASSUME NEW p, NEW q, NEW km, NEW n, NEW y, NEW g, NEW r, r = Fields(p, q, km, n, y, g)
    PROVE  /\ \A v : [r EXCEPT !.packets_on_key = v] = Fields(v, q, km, n, y, g)
           /\ \A v : [r EXCEPT !.rekey_pending = v] = Fields(p, v, km, n, y, g)
           /\ \A v : [r EXCEPT !.pending_km = v] = Fields(p, q, v, n, y, g)
           /\ \A v : [r EXCEPT !.km_retries = v] = Fields(p, q, km, v, y, g)
           /\ \A v : [r EXCEPT !.next_key_ready = v] = Fields(p, q, km, n, v, g)
           /\ \A v : [r EXCEPT !.generated = v] = Fields(p, q, km, n, y, v)
BY SMT DEF Fields

(* Reading the fields back.                                                *)
LEMMA FieldsGet ==
    ASSUME NEW p, NEW q, NEW km, NEW n, NEW y, NEW g, NEW r, r = Fields(p, q, km, n, y, g)
    PROVE  /\ r.packets_on_key = p /\ r.rekey_pending = q /\ r.pending_km = km
           /\ r.km_retries = n /\ r.next_key_ready = y /\ r.generated = g
BY DEF Fields
-----------------------------------------------------------------------------
(* account_key_and_maybe_rotate(): the schedule after a packet was sent.   *)
LEMMA AccountedIs ==
    ASSUME NEW r \in Rotation
    PROVE  \E q \in BOOLEAN :
              LET p == IF Rotate(r) THEN 1 ELSE Count(r.packets_on_key)
                  y == r.next_key_ready /\ ~ Rotate(r)
              IN  /\ Accounted(r) = Fields(p, q, r.pending_km, r.km_retries, y, r.generated)
                  /\ p \in 1 .. Refresh /\ y \in BOOLEAN
                  /\ q => r.rekey_pending \/ (~ y /\ r.pending_km = NoKm /\ p >= AnnounceAt)
<1> DEFINE p == IF Rotate(r) THEN 1 ELSE Count(r.packets_on_key)
           y == r.next_key_ready /\ ~ Rotate(r)
           F(pp, q) == Fields(pp, q, r.pending_km, r.km_retries, y, r.generated)
<1>1. /\ r = Fields(r.packets_on_key, r.rekey_pending, r.pending_km,
                    r.km_retries, r.next_key_ready, r.generated)
      /\ r.packets_on_key \in 0 .. Refresh /\ r.next_key_ready \in BOOLEAN
      /\ r.rekey_pending \in BOOLEAN
  BY RotationIs
<1>2. Count(0) = 1 /\ Count(r.packets_on_key) \in 1 .. Refresh /\ p \in 1 .. Refresh
  BY <1>1, CountIs, Schedule, SMT
<1>3. y \in BOOLEAN
  BY <1>1
<1>4. Switched(r) = F(IF Rotate(r) THEN 0 ELSE r.packets_on_key, r.rekey_pending)
  <2>1. [r EXCEPT !.packets_on_key = 0, !.next_key_ready = FALSE]
           = [[r EXCEPT !.packets_on_key = 0] EXCEPT !.next_key_ready = FALSE]
    OBVIOUS
  <2>2. CASE Rotate(r)
    <3> DEFINE t == [r EXCEPT !.packets_on_key = 0]
    <3>1. t = Fields(0, r.rekey_pending, r.pending_km,
                     r.km_retries, r.next_key_ready, r.generated)
      BY <1>1, FieldsSet, SMT
    <3>2. [t EXCEPT !.next_key_ready = FALSE]
             = Fields(0, r.rekey_pending, r.pending_km, r.km_retries, FALSE, r.generated)
      <4> HIDE DEF t
      <4>1. \A v : [t EXCEPT !.next_key_ready = v]
                     = Fields(0, r.rekey_pending, r.pending_km, r.km_retries, v, r.generated)
        BY <3>1, FieldsSet, SMT
      <4> QED
        BY <4>1
    <3>3. y = FALSE
      BY <2>2
    <3> QED
      BY <2>1, <2>2, <3>2, <3>3 DEF Switched
  <2>3. CASE ~ Rotate(r)
    <3>1. y = r.next_key_ready
      BY <1>1, <2>3
    <3> QED
      BY <1>1, <2>3, <3>1 DEF Switched
  <2> QED
    BY <2>2, <2>3
<1>5. Counted(r) = F(p, r.rekey_pending)
  BY <1>2, <1>4, FieldsSet, SMT DEF Counted
<1>6. Accounted(r) = F(p, r.rekey_pending \/ Announce(Counted(r)))
  BY <1>5, FieldsSet, SMT DEF Accounted
<1>7. Announce(Counted(r)) <=> (~ r.rekey_pending /\ ~ y /\ r.pending_km = NoKm /\ p >= AnnounceAt)
  <2>1. /\ Counted(r).packets_on_key = p /\ Counted(r).rekey_pending = r.rekey_pending
        /\ Counted(r).pending_km = r.pending_km /\ Counted(r).next_key_ready = y
    BY <1>5, FieldsGet, SMT
  <2> HIDE DEF p, y
  <2> QED
    BY <2>1 DEF Announce
<1> HIDE DEF p, y
<1> DEFINE q == r.rekey_pending \/ Announce(Counted(r))
<1>8. q \in BOOLEAN
  OBVIOUS
<1>9. q => r.rekey_pending \/ (~ y /\ r.pending_km = NoKm /\ p >= AnnounceAt)
  BY <1>7
<1> HIDE DEF q
<1> QED
  BY <1>2, <1>3, <1>6, <1>8, <1>9 DEF p, y, q

(* provide_rekey(): the schedule after a key was announced.                *)
LEMMA AnnouncedIs ==
    ASSUME NEW r \in Rotation, NEW km
    PROVE  Announced(r, km)
              = Fields(r.packets_on_key, FALSE, km, 0, r.next_key_ready, r.generated + 1)
<1> DEFINE t1 == [r EXCEPT !.pending_km = km]
           t2 == [t1 EXCEPT !.km_retries = 0]
           t3 == [t2 EXCEPT !.generated = r.generated + 1]
           t4 == [t3 EXCEPT !.rekey_pending = FALSE]
<1>1. Announced(r, km) = t4
  BY DEF Announced, Rotation
<1>2. r = Fields(r.packets_on_key, r.rekey_pending, r.pending_km,
                 r.km_retries, r.next_key_ready, r.generated)
  BY RotationIs
<1>3. t1 = Fields(r.packets_on_key, r.rekey_pending, km,
                  r.km_retries, r.next_key_ready, r.generated)
  BY <1>2, FieldsSet, SMT
<1> HIDE DEF t1
<1>4. t2 = Fields(r.packets_on_key, r.rekey_pending, km, 0, r.next_key_ready, r.generated)
  BY <1>3, FieldsSet, SMT
<1> HIDE DEF t2
<1>5. t3 = Fields(r.packets_on_key, r.rekey_pending, km, 0, r.next_key_ready, r.generated + 1)
  BY <1>4, FieldsSet, SMT
<1> HIDE DEF t3
<1>6. \A v : [t3 EXCEPT !.rekey_pending = v]
                = Fields(r.packets_on_key, v, km, 0, r.next_key_ready, r.generated + 1)
  BY <1>5, FieldsSet, SMT
<1>7. t4 = Fields(r.packets_on_key, FALSE, km, 0, r.next_key_ready, r.generated + 1)
  BY <1>6
<1> HIDE DEF t4
<1> QED
  BY <1>1, <1>7

(* on_km_rsp(): the schedule after a key was confirmed.                    *)
LEMMA ConfirmedIs ==
    ASSUME NEW r \in Rotation
    PROVE  Confirmed(r)
              = Fields(r.packets_on_key, r.rekey_pending, NoKm,
                       r.km_retries, TRUE, r.generated)
<1> DEFINE t1 == [r EXCEPT !.pending_km = NoKm]
           t2 == [t1 EXCEPT !.next_key_ready = TRUE]
<1>1. Confirmed(r) = t2
  BY DEF Confirmed
<1>2. r = Fields(r.packets_on_key, r.rekey_pending, r.pending_km,
                 r.km_retries, r.next_key_ready, r.generated)
  BY RotationIs
<1>3. t1 = Fields(r.packets_on_key, r.rekey_pending, NoKm,
                  r.km_retries, r.next_key_ready, r.generated)
  BY <1>2, FieldsSet, SMT
<1> HIDE DEF t1
<1>4. \A v : [t1 EXCEPT !.next_key_ready = v]
                = Fields(r.packets_on_key, r.rekey_pending, NoKm, r.km_retries, v, r.generated)
  BY <1>3, FieldsSet, SMT
<1>5. t2 = Fields(r.packets_on_key, r.rekey_pending, NoKm, r.km_retries, TRUE, r.generated)
  BY <1>4
<1> HIDE DEF t2
<1> QED
  BY <1>1, <1>5

(* resend_pending_km(): the schedule after a key was given up or announced *)
(* again.                                                                  *)
LEMMA ResentIs ==
    ASSUME NEW r \in Rotation
    PROVE  /\ [r EXCEPT !.pending_km = NoKm]
                 = Fields(r.packets_on_key, r.rekey_pending, NoKm,
                          r.km_retries, r.next_key_ready, r.generated)
           /\ [r EXCEPT !.km_retries = r.km_retries + 1]
                 = Fields(r.packets_on_key, r.rekey_pending, r.pending_km,
                          r.km_retries + 1, r.next_key_ready, r.generated)
<1>1. r = Fields(r.packets_on_key, r.rekey_pending, r.pending_km,
                 r.km_retries, r.next_key_ready, r.generated)
  BY RotationIs
<1> QED
  BY <1>1, FieldsSet, SMT
-----------------------------------------------------------------------------
(* What the type invariant says of one end.                                *)
LEMMA Typed ==
    ASSUME TypeInv, NEW e \in Ends
    PROVE  /\ slots[e] \in SessionCrypto /\ rotation[e] \in Rotation
           /\ unacked[e] \in Seq(DataPacket) /\ channel[e] \in Seq(KmPacket)
           /\ Populated(slots[e], rotation[e])
BY DEF TypeInv, TypeOK

(* Whether the slots are populated depends on two fields of the schedule.  *)
LEMMA PopulatedFields ==
    ASSUME NEW crypto, NEW r, NEW p, NEW q, NEW km, NEW n, NEW y \in BOOLEAN, NEW g,
           r = Fields(p, q, km, n, y, g), ActiveKey(crypto) \in Keys,
           km # NoKm \/ y => crypto.key[NextFlags(crypto)] \in Keys
    PROVE  Populated(crypto, r)
BY FieldsGet, SMT DEF Populated

(* A packet is sent: the end may switch to the next key first, and it      *)
(* encrypts with a key it holds.                                           *)
LEMMA SendDataType ==
    ASSUME TypeInv, NEW e \in Ends, SendData(e)
    PROVE  TypeInv'
<1> DEFINE crypto == SwitchedCrypto(slots[e], rotation[e])
           r == rotation[e]
           y == r.next_key_ready /\ ~ Rotate(r)
<1>1. /\ slots' = [slots EXCEPT ![e] = crypto]
      /\ rotation' = [rotation EXCEPT ![e] = Accounted(r)]
      /\ unacked' = [unacked EXCEPT ![e] = Append(@, Encrypt(crypto))]
      /\ UNCHANGED <<channel, lost>>
  BY DEF SendData
<1>2. /\ slots[e] \in SessionCrypto /\ r \in Rotation /\ Populated(slots[e], r)
      /\ unacked[e] \in Seq(DataPacket)
  BY Typed
<1>3. PICK p \in 1 .. Refresh, q \in BOOLEAN :
         Accounted(r) = Fields(p, q, r.pending_km, r.km_retries, y, r.generated)
  BY <1>2, AccountedIs
<1>4. y \in BOOLEAN /\ p \in 0 .. Refresh
  BY <1>2, <1>3, RotationIs, Schedule, SMT
<1>5. crypto \in SessionCrypto /\ ActiveKey(crypto) \in Keys
  <2>1. CASE Rotate(r)
    BY <1>2, <2>1, ActivateType, NextFlagsFacts, ZenonT(30) DEF SwitchedCrypto, Rotate,
       Populated, ActiveKey
  <2>2. CASE ~ Rotate(r)
    BY <1>2, <2>2 DEF SwitchedCrypto, Populated
  <2> QED
    BY <2>1, <2>2
<1>6. r.pending_km # NoKm \/ y => crypto.key[NextFlags(crypto)] \in Keys
  <2>1. CASE Rotate(r)
    BY <1>2, <2>1, ActivateType, NextFlagsFacts DEF SwitchedCrypto, Populated, ActiveKey
  <2>2. CASE ~ Rotate(r)
    BY <1>2, <2>2 DEF SwitchedCrypto, Populated
  <2> QED
    BY <2>1, <2>2
<1>7. Encrypt(crypto) \in DataPacket
  BY <1>5 DEF Encrypt, DataPacket, SessionCrypto
<1> HIDE DEF y, crypto
<1>8. Accounted(r) \in Rotation
  <2>1. /\ r.pending_km \in KmMessage \cup {NoKm} /\ r.km_retries \in 0 .. MaxKmRetries
        /\ r.generated \in 0 .. MaxKeys
    BY <1>2, RotationIs
  <2>2. Fields(p, q, r.pending_km, r.km_retries, y, r.generated) \in Rotation
    BY <1>4, <2>1, FieldsType
  <2> QED
    BY <1>3, <2>2
<1>9. Populated(crypto, Accounted(r))
  BY <1>3, <1>4, <1>5, <1>6, PopulatedFields
<1>10. Append(unacked[e], Encrypt(crypto)) \in Seq(DataPacket)
  BY <1>2, <1>7, SMT
<1>11. TypeOK'
  BY <1>1, <1>5, <1>8, <1>10 DEF TypeInv, TypeOK
<1>12. ASSUME NEW f \in Ends PROVE Populated(slots'[f], rotation'[f])
  BY <1>1, <1>9 DEF TypeInv, TypeOK
<1> QED
  BY <1>11, <1>12 DEF TypeInv

(* The driver's fresh key goes into the other slot and is announced.       *)
LEMMA ProvideRekeyType ==
    ASSUME TypeInv, NEW e \in Ends, ProvideRekey(e)
    PROVE  TypeInv'
<1> DEFINE r == rotation[e]
           key == <<e, r.generated + 1>>
           km == Km(NextFlags(slots[e]), key)
           crypto == Install(slots[e], km.flags, key)
<1>1. /\ slots' = [slots EXCEPT ![e] = crypto]
      /\ rotation' = [rotation EXCEPT ![e] = Announced(r, km)]
      /\ channel' = [channel EXCEPT ![Peer(e)] = Append(@, KmControl("KMREQ", km))]
      /\ UNCHANGED <<unacked, lost>>
      /\ r.generated < MaxKeys
  BY DEF ProvideRekey
<1>2. /\ slots[e] \in SessionCrypto /\ r \in Rotation /\ Populated(slots[e], r)
      /\ Peer(e) \in Ends /\ channel[Peer(e)] \in Seq(KmPacket)
  BY Typed, EndsFacts
<1>3. r.generated + 1 \in 0 .. MaxKeys /\ 0 \in 0 .. MaxKmRetries
  <2>1. r.generated \in 0 .. MaxKeys
    BY <1>2, RotationIs
  <2>2. r.generated < MaxKeys
    BY <1>1
  <2> HIDE DEF r
  <2> QED
    BY <2>1, <2>2, RekeyAssumption, SMT
<1>4. key \in Keys
  BY <1>2, <1>3, RotationIs, SMT DEF Keys
<1>5. km \in KmMessage /\ km.flags = NextFlags(slots[e]) /\ km.flags \in Flags
  BY <1>2, <1>4, NextFlagsFacts DEF Km, KmMessage
<1>6. crypto \in SessionCrypto /\ ActiveKey(crypto) \in Keys
      /\ crypto.key[NextFlags(crypto)] \in Keys
  <2> HIDE DEF key, km
  <2>1. /\ crypto \in SessionCrypto
        /\ crypto.active = slots[e].active
        /\ NextFlags(crypto) = NextFlags(slots[e])
        /\ \A f \in Flags : crypto.key[f] = IF f = km.flags THEN key ELSE slots[e].key[f]
    BY <1>2, <1>4, <1>5, InstallType, SMT
  <2>2. slots[e].active \in Flags /\ slots[e].key[slots[e].active] \in Keys
    BY <1>2 DEF SessionCrypto, Populated, ActiveKey
  <2> HIDE DEF crypto
  <2> QED
    BY <1>4, <1>5, <2>1, <2>2 DEF ActiveKey
<1>7. KmControl("KMREQ", km) \in KmPacket
  BY <1>5 DEF KmControl, KmPacket
<1> HIDE DEF crypto, km
<1>8. Announced(r, km) \in Rotation /\ Populated(crypto, Announced(r, km))
  <2> DEFINE F(q) == Fields(r.packets_on_key, q, km, 0, r.next_key_ready, r.generated + 1)
  <2>1. Announced(r, km) = F(FALSE)
    BY <1>2, AnnouncedIs
  <2>2. /\ r.packets_on_key \in 0 .. Refresh /\ r.next_key_ready \in BOOLEAN
        /\ km \in KmMessage \cup {NoKm}
    BY <1>2, <1>5, RotationIs
  <2>3. ASSUME NEW q \in BOOLEAN PROVE F(q) \in Rotation /\ Populated(crypto, F(q))
    BY <1>3, <1>6, <2>2, FieldsType, PopulatedFields
  <2> HIDE DEF F
  <2> QED
    BY <2>1, <2>3
<1>9. Append(channel[Peer(e)], KmControl("KMREQ", km)) \in Seq(KmPacket)
  BY <1>2, <1>7, SMT
<1>10. TypeOK'
  BY <1>1, <1>2, <1>6, <1>8, <1>9 DEF TypeInv, TypeOK
<1>11. ASSUME NEW f \in Ends PROVE Populated(slots'[f], rotation'[f])
  BY <1>1, <1>8 DEF TypeInv, TypeOK
<1> QED
  BY <1>10, <1>11 DEF TypeInv

(* A key is given up, or announced again.                                  *)
LEMMA ResendPendingKmType ==
    ASSUME TypeInv, NEW e \in Ends, ResendPendingKm(e)
    PROVE  TypeInv'
<1> DEFINE r == rotation[e]
           F(km, n) == Fields(r.packets_on_key, r.rekey_pending, km, n,
                              r.next_key_ready, r.generated)
<1>1. /\ slots[e] \in SessionCrypto /\ r \in Rotation /\ Populated(slots[e], r)
      /\ Peer(e) \in Ends /\ channel[Peer(e)] \in Seq(KmPacket)
  BY Typed, EndsFacts
<1>2. /\ r.packets_on_key \in 0 .. Refresh /\ r.rekey_pending \in BOOLEAN
      /\ r.pending_km \in KmMessage \cup {NoKm} /\ r.km_retries \in 0 .. MaxKmRetries
      /\ r.next_key_ready \in BOOLEAN /\ r.generated \in 0 .. MaxKeys
  BY <1>1, RotationIs
<1>3. \A km \in {r.pending_km, NoKm}, n \in 0 .. MaxKmRetries :
         F(km, n) \in Rotation /\ Populated(slots[e], F(km, n))
  <2> SUFFICES ASSUME NEW km \in {r.pending_km, NoKm}, NEW n \in 0 .. MaxKmRetries
               PROVE  F(km, n) \in Rotation /\ Populated(slots[e], F(km, n))
    OBVIOUS
  <2>1. F(km, n) \in Rotation
    BY <1>2, FieldsType
  <2>2. ActiveKey(slots[e]) \in Keys
        /\ (km # NoKm \/ r.next_key_ready => slots[e].key[NextFlags(slots[e])] \in Keys)
    BY <1>1 DEF Populated
  <2> QED
    BY <1>2, <2>1, <2>2, PopulatedFields
<1>4. CASE /\ rotation' = [rotation EXCEPT ![e].pending_km = NoKm]
           /\ UNCHANGED <<channel, slots, unacked, lost>>
  <2>1. rotation' = [rotation EXCEPT ![e] = F(NoKm, r.km_retries)]
    BY <1>1, <1>4, ResentIs
  <2>2. F(NoKm, r.km_retries) \in Rotation /\ Populated(slots[e], F(NoKm, r.km_retries))
    BY <1>2, <1>3
  <2> HIDE DEF F
  <2>3. TypeOK'
    BY <1>4, <2>1, <2>2 DEF TypeInv, TypeOK
  <2>4. ASSUME NEW f \in Ends PROVE Populated(slots'[f], rotation'[f])
    BY <1>4, <2>1, <2>2 DEF TypeInv, TypeOK
  <2> QED
    BY <2>3, <2>4 DEF TypeInv
<1>5. CASE /\ r.pending_km # NoKm
           /\ r.km_retries < MaxKmRetries
           /\ rotation' = [rotation EXCEPT ![e].km_retries = @ + 1]
           /\ channel' = [channel EXCEPT ![Peer(e)] = Append(@, KmControl("KMREQ", r.pending_km))]
           /\ UNCHANGED <<slots, unacked, lost>>
  <2>1. rotation' = [rotation EXCEPT ![e] = F(r.pending_km, r.km_retries + 1)]
    BY <1>1, <1>5, ResentIs
  <2>2. r.km_retries + 1 \in 0 .. MaxKmRetries
    <3>1. r.km_retries \in 0 .. MaxKmRetries /\ r.km_retries < MaxKmRetries
      BY <1>2, <1>5
    <3> HIDE <1>5
    <3> HIDE DEF r
    <3> QED
      BY <3>1, RekeyAssumption, SMT
  <2>3. /\ F(r.pending_km, r.km_retries + 1) \in Rotation
        /\ Populated(slots[e], F(r.pending_km, r.km_retries + 1))
    BY <1>3, <2>2
  <2>4. KmControl("KMREQ", r.pending_km) \in KmPacket
    BY <1>2, <1>5 DEF KmControl, KmPacket
  <2>5. Append(channel[Peer(e)], KmControl("KMREQ", r.pending_km)) \in Seq(KmPacket)
    BY <1>1, <2>4, SMT
  <2> HIDE DEF F
  <2>6. TypeOK'
    BY <1>1, <1>5, <2>1, <2>3, <2>5 DEF TypeInv, TypeOK
  <2>7. ASSUME NEW f \in Ends PROVE Populated(slots'[f], rotation'[f])
    BY <1>5, <2>1, <2>3 DEF TypeInv, TypeOK
  <2> QED
    BY <2>6, <2>7 DEF TypeInv
<1> QED
  BY <1>4, <1>5 DEF ResendPendingKm

(* A KMREQ arrives: the key is installed and echoed.                       *)
LEMMA OnKmReqType ==
    ASSUME TypeInv, NEW e \in Ends, OnKmReq(e)
    PROVE  TypeInv'
<1> DEFINE m == Head(channel[e])
           crypto == Install(slots[e], m.km.flags, m.km.key)
<1>1. /\ channel[e] # <<>>
      /\ slots' = [slots EXCEPT ![e] = crypto]
      /\ channel' = [channel EXCEPT ![e] = Tail(@),
                                    ![Peer(e)] = Append(@, KmControl("KMRSP", m.km))]
      /\ UNCHANGED <<rotation, unacked, lost>>
  BY DEF OnKmReq
<1>2. /\ slots[e] \in SessionCrypto /\ rotation[e] \in Rotation
      /\ Populated(slots[e], rotation[e]) /\ channel[e] \in Seq(KmPacket)
      /\ Peer(e) \in Ends /\ Peer(e) # e /\ channel[Peer(e)] \in Seq(KmPacket)
  BY Typed, EndsFacts
<1>3. m \in KmPacket /\ Tail(channel[e]) \in Seq(KmPacket)
  BY <1>1, <1>2, TailProperties
<1>4. m.km \in KmMessage /\ m.km.flags \in Flags /\ m.km.key \in Keys
  BY <1>3 DEF KmPacket, KmMessage
<1>5. KmControl("KMRSP", m.km) \in KmPacket
  BY <1>4 DEF KmControl, KmPacket
<1>6. Append(channel[Peer(e)], KmControl("KMRSP", m.km)) \in Seq(KmPacket)
  BY <1>2, <1>5, SMT
<1>7. crypto \in SessionCrypto /\ Populated(crypto, rotation[e])
  <2> HIDE DEF m
  <2>1. /\ crypto \in SessionCrypto
        /\ crypto.active = slots[e].active
        /\ NextFlags(crypto) = NextFlags(slots[e])
        /\ \A f \in Flags : crypto.key[f] = IF f = m.km.flags THEN m.km.key ELSE slots[e].key[f]
    BY <1>2, <1>4, InstallType, SMT
  <2>2. slots[e].active \in Flags /\ NextFlags(slots[e]) \in Flags
    BY <1>2, NextFlagsFacts DEF SessionCrypto
  <2> HIDE DEF crypto
  <2> QED
    BY <1>2, <1>4, <2>1, <2>2 DEF Populated, ActiveKey
<1> HIDE DEF crypto, m
<1>8. TypeOK'
  BY <1>1, <1>2, <1>3, <1>6, <1>7 DEF TypeInv, TypeOK
<1>9. ASSUME NEW f \in Ends PROVE Populated(slots'[f], rotation'[f])
  BY <1>1, <1>7 DEF TypeInv, TypeOK
<1> QED
  BY <1>8, <1>9 DEF TypeInv

(* A KMRSP arrives: it may confirm the pending key.                        *)
LEMMA OnKmRspType ==
    ASSUME TypeInv, NEW e \in Ends, OnKmRsp(e)
    PROVE  TypeInv'
<1> DEFINE r == rotation[e]
           m == Head(channel[e])
<1>1. /\ channel[e] # <<>>
      /\ rotation' = IF r.pending_km = m.km THEN [rotation EXCEPT ![e] = Confirmed(r)]
                     ELSE rotation
      /\ channel' = [channel EXCEPT ![e] = Tail(@)]
      /\ UNCHANGED <<slots, unacked, lost>>
  BY DEF OnKmRsp
<1>2. /\ slots[e] \in SessionCrypto /\ r \in Rotation /\ Populated(slots[e], r)
      /\ channel[e] \in Seq(KmPacket)
  BY Typed
<1>3. m \in KmPacket /\ Tail(channel[e]) \in Seq(KmPacket)
  BY <1>1, <1>2, TailProperties
<1>4. r.pending_km = m.km => Confirmed(r) \in Rotation /\ Populated(slots[e], Confirmed(r))
  <2> SUFFICES ASSUME r.pending_km = m.km
               PROVE  Confirmed(r) \in Rotation /\ Populated(slots[e], Confirmed(r))
    OBVIOUS
  <2> DEFINE F(y) == Fields(r.packets_on_key, r.rekey_pending, NoKm, r.km_retries, y, r.generated)
  <2>1. Confirmed(r) = F(TRUE)
    BY <1>2, ConfirmedIs
  <2>2. /\ r.packets_on_key \in 0 .. Refresh /\ r.rekey_pending \in BOOLEAN
        /\ NoKm \in KmMessage \cup {NoKm} /\ r.km_retries \in 0 .. MaxKmRetries
        /\ r.generated \in 0 .. MaxKeys
    BY <1>2, RotationIs
  <2>3. r.pending_km # NoKm
    BY <1>3, NoKmIsNone DEF KmPacket
  <2>4. ActiveKey(slots[e]) \in Keys /\ slots[e].key[NextFlags(slots[e])] \in Keys
    BY <1>2, <2>3 DEF Populated
  <2>5. ASSUME NEW y \in BOOLEAN PROVE F(y) \in Rotation /\ Populated(slots[e], F(y))
    BY <2>2, <2>4, FieldsType, PopulatedFields
  <2> HIDE DEF F
  <2> QED
    BY <2>1, <2>5
<1> HIDE DEF m
<1>5. TypeOK'
  BY <1>1, <1>3, <1>4 DEF TypeInv, TypeOK
<1>6. ASSUME NEW f \in Ends PROVE Populated(slots'[f], rotation'[f])
  BY <1>1, <1>4 DEF TypeInv, TypeOK
<1> QED
  BY <1>5, <1>6 DEF TypeInv

(* The type invariant holds when the handshake completes.                  *)
LEMMA InitType == Init => TypeInv
<1> SUFFICES ASSUME Init PROVE TypeInv
  OBVIOUS
<1> DEFINE crypto == [key |-> [Even |-> HandshakeKey, Odd |-> NoKey], active |-> "Even"]
           r == Fields(0, FALSE, NoKm, 0, FALSE, 0)
<1>1. /\ slots = [e \in Ends |-> crypto] /\ rotation = [e \in Ends |-> r]
      /\ unacked = [e \in Ends |-> <<>>] /\ channel = [e \in Ends |-> <<>>] /\ lost = 0
  BY DEF Init, Fields
<1>2. /\ crypto \in SessionCrypto /\ ActiveKey(crypto) \in Keys
  BY SMT DEF SessionCrypto, Flags, Keys, ActiveKey
<1>3. /\ 0 \in 0 .. Refresh /\ 0 \in 0 .. MaxKmRetries /\ 0 \in 0 .. MaxKeys
      /\ 0 \in 0 .. MaxLoss
  BY Schedule, RekeyAssumption, SMT
<1>4. r \in Rotation
  BY <1>3 DEF Fields, Rotation
<1>5. r.pending_km = NoKm /\ ~ r.next_key_ready
  BY DEF Fields
<1>6. Populated(crypto, r)
  BY <1>2, <1>5 DEF Populated
<1> HIDE DEF crypto, r
<1>7. TypeOK
  BY <1>1, <1>2, <1>3, <1>4, SMT DEF TypeOK
<1> QED
  BY <1>1, <1>6, <1>7 DEF TypeInv

(* Every step keeps the type invariant.                                    *)
LEMMA NextType == TypeInv /\ [Next]_vars => TypeInv'
<1> SUFFICES ASSUME TypeInv, [Next]_vars PROVE TypeInv'
  OBVIOUS
<1>1. CASE UNCHANGED vars
  BY <1>1 DEF vars, TypeInv, TypeOK
<1>2. ASSUME NEW e \in Ends, Release(e) PROVE TypeInv'
  <2>1. unacked[e] \in Seq(DataPacket) /\ unacked[e] # <<>>
    BY <1>2, Typed DEF Release
  <2>2. Tail(unacked[e]) \in Seq(DataPacket)
    BY <2>1, TailProperties
  <2> QED
    BY <1>2, <2>2 DEF Release, TypeInv, TypeOK
<1>3. ASSUME NEW e \in Ends, Lose(e) PROVE TypeInv'
  <2>1. PICK i \in 1 .. Len(channel[e]) : channel' = [channel EXCEPT ![e] = LeaveOut(@, i)]
    BY <1>3 DEF Lose
  <2>2. LeaveOut(channel[e], i) \in Seq(KmPacket)
    BY Typed, LeaveOutProperties
  <2>3. lost' \in 0 .. MaxLoss
    BY <1>3, RekeyAssumption, SMT DEF Lose, TypeInv, TypeOK
  <2> QED
    BY <1>3, <2>1, <2>2, <2>3 DEF Lose, TypeInv, TypeOK
<1> QED
  BY <1>1, <1>2, <1>3, SendDataType, ProvideRekeyType, ResendPendingKmType, OnKmReqType,
     OnKmRspType DEF Next, End

(* Type correctness, for any rates, windows and senders.  In particular no *)
(* packet is ever encrypted with an empty slot: the expect() in encrypt(), *)
(* "active key slot is always populated", is never reached, although a     *)
(* rotation switches slots and both ends install keys in them.             *)
THEOREM TypeCorrect == Spec => []TypeOK
<1>1. TypeInv => TypeOK
  BY DEF TypeInv
<1> QED
  BY <1>1, InitType, NextType, PTL DEF Spec
-----------------------------------------------------------------------------
(* The inductive invariant for one sender s.  It speaks of the sender's    *)
(* slots (crypto), schedule (r) and send buffer (buf), of the peer's slots *)
(* (peer), and of the KMREQs and KMRSPs on their way (reqs, rsps).         *)

(* The peer holds the key in the slot, and no KMREQ on its way would       *)
(* replace it there.                                                       *)
Settled(flags, key, peer, reqs) ==
    /\ peer.key[flags] = key
    /\ \A i \in 1 .. Len(reqs) : reqs[i].km.flags = flags => reqs[i].km.key = key

(* Only the sender's keys are announced and confirmed, and KMREQs arrive   *)
(* in the order of the keys.                                               *)
InOrder(s, r, reqs, rsps) ==
    /\ \A i \in 1 .. Len(reqs) :
          reqs[i].subtype = "KMREQ" /\ reqs[i].km.key \in {s} \X (1 .. r.generated)
    /\ \A i \in 1 .. Len(rsps) :
          rsps[i].subtype = "KMRSP" /\ rsps[i].km.key \in {s} \X (1 .. r.generated)
    /\ \A i, j \in 1 .. Len(reqs) : i <= j => reqs[i].km.key[2] <= reqs[j].km.key[2]

(* At most one of: a key is asked for, announced, or confirmed; and none   *)
(* of them before the announce point.                                      *)
OneAtATime(s, crypto, r) ==
    /\ r.rekey_pending => r.pending_km = NoKm /\ ~ r.next_key_ready
    /\ r.next_key_ready => r.pending_km = NoKm
    /\ r.rekey_pending \/ r.pending_km # NoKm \/ r.next_key_ready
          => r.packets_on_key >= AnnounceAt
    /\ r.pending_km # NoKm =>
          /\ r.pending_km = Km(NextFlags(crypto), <<s, r.generated>>)
          /\ r.generated >= 1
          /\ crypto.key[NextFlags(crypto)] = <<s, r.generated>>

(* The active key is settled at the peer, and so is the next one once it   *)
(* is confirmed or its KMRSP is on its way.                                *)
KeysSettled(crypto, r, peer, reqs, rsps) ==
    LET next == NextFlags(crypto)
    IN  /\ Settled(crypto.active, ActiveKey(crypto), peer, reqs)
        /\ r.next_key_ready => Settled(next, crypto.key[next], peer, reqs)
        /\ \A i \in 1 .. Len(rsps) :
              rsps[i].km = r.pending_km => Settled(next, crypto.key[next], peer, reqs)

(* The packets sent since the last switch are the newest and carry the     *)
(* active key.  The others carry the key before it, which is still settled *)
(* in its slot.                                                            *)
BufferSettled(crypto, r, buf, peer, reqs) ==
    /\ Len(buf) <= Window
    /\ \A i \in 1 .. Len(buf) :
          /\ i > Len(buf) - r.packets_on_key => buf[i].flag = crypto.active
          /\ buf[i].flag = crypto.active => buf[i].key = ActiveKey(crypto)
          /\ buf[i].flag # crypto.active => Settled(buf[i].flag, buf[i].key, peer, reqs)

OneWay(s, crypto, r, buf, peer, reqs, rsps) ==
    /\ InOrder(s, r, reqs, rsps)
    /\ OneAtATime(s, crypto, r)
    /\ KeysSettled(crypto, r, peer, reqs, rsps)
    /\ BufferSettled(crypto, r, buf, peer, reqs)

(* The other end never sends, so it has no packets and no key of its own.  *)
Idle(e) ==
    /\ ~ rotation[e].rekey_pending
    /\ rotation[e].pending_km = NoKm
    /\ unacked[e] = <<>>

IInv(s) ==
    /\ TypeInv
    /\ Idle(Peer(s))
    /\ OneWay(s, slots[s], rotation[s], unacked[s],
              slots[Peer(s)], channel[Peer(s)], channel[s])

(* A send, with or without the switch to the next key.                     *)
LEMMA SendKeeps ==
    ASSUME Window <= AnnounceAt, NEW s, NEW crypto \in SessionCrypto, NEW r \in Rotation,
           NEW buf \in Seq(DataPacket), NEW peer, NEW reqs, NEW rsps, Len(rsps) \in Nat,
           \A i \in 1 .. Len(rsps) : rsps[i].km \in KmMessage,
           OneWay(s, crypto, r, buf, peer, reqs, rsps), Len(buf) < Window
    PROVE  OneWay(s, SwitchedCrypto(crypto, r), Accounted(r),
                  Append(buf, Encrypt(SwitchedCrypto(crypto, r))), peer, reqs, rsps)
<1> DEFINE c == SwitchedCrypto(crypto, r)
           y == r.next_key_ready /\ ~ Rotate(r)
           x == Encrypt(c)
           b == Append(buf, x)
           a == Accounted(r)
<1>1. PICK q \in BOOLEAN :
         LET p == IF Rotate(r) THEN 1 ELSE Count(r.packets_on_key)
         IN  /\ a = Fields(p, q, r.pending_km, r.km_retries, y, r.generated)
             /\ p \in 1 .. Refresh
             /\ q => r.rekey_pending \/ (~ y /\ r.pending_km = NoKm /\ p >= AnnounceAt)
  BY AccountedIs
<1> DEFINE p == IF Rotate(r) THEN 1 ELSE Count(r.packets_on_key)
<1>2. /\ a.packets_on_key = p /\ a.rekey_pending = q /\ a.pending_km = r.pending_km
      /\ a.next_key_ready = y /\ a.generated = r.generated
  BY <1>1, FieldsGet, SMT
<1>3. /\ r.packets_on_key \in 0 .. Refresh /\ r.next_key_ready \in BOOLEAN
      /\ r.rekey_pending \in BOOLEAN
  BY RotationIs
<1>4. /\ crypto.active \in Flags /\ NextFlags(crypto) \in Flags
      /\ NextFlags(crypto) # crypto.active /\ Flags = {crypto.active, NextFlags(crypto)}
  BY NextFlagsFacts DEF SessionCrypto
<1>5. /\ x.flag = c.active /\ x.key = ActiveKey(c)
  BY DEF Encrypt
<1>6. /\ Len(b) = Len(buf) + 1 /\ Len(buf) \in Nat
      /\ \A i \in 1 .. Len(b) : b[i] = IF i <= Len(buf) THEN buf[i] ELSE x
  <2> HIDE DEF x
  <2>1. buf \in Seq(DataPacket \cup {x})
    BY SMT
  <2>2. Len(b) = Len(buf) + 1 /\ \A i \in 1 .. Len(buf) : b[i] = buf[i]
        /\ b[Len(buf) + 1] = x /\ Len(buf) \in Nat
    BY <2>1, AppendIs, SMT
  <2> QED
    BY <2>2, SMT
<1>7. InOrder(s, a, reqs, rsps)
  <2> HIDE DEF a
  <2> QED
    BY <1>2 DEF OneWay, InOrder
<1>8. /\ Window \in Nat /\ Refresh \in Nat /\ AnnounceAt \in Nat /\ AnnounceAt <= Refresh
  BY Schedule, RekeyAssumption
<1>9. CASE Rotate(r)
  <2>1. /\ c \in SessionCrypto
        /\ c.active = NextFlags(crypto) /\ c.key = crypto.key /\ NextFlags(c) = crypto.active
    BY <1>4, <1>9, ActivateType, NextFlagsFacts DEF SwitchedCrypto
  <2>2. r.next_key_ready /\ r.packets_on_key >= AnnounceAt /\ r.pending_km = NoKm
        /\ ~ r.rekey_pending
    BY <1>3, <1>8, <1>9 DEF Rotate, OneWay, OneAtATime
  <2>3. p = 1 /\ y = FALSE
    BY <1>9
  <2> HIDE DEF c, y, p, a, x, b
  <2>4. OneAtATime(s, c, a)
    BY <1>1, <1>2, <2>2, <2>3 DEF OneAtATime, p
  <2>5. KeysSettled(c, a, peer, reqs, rsps)
    BY <1>2, <2>1, <2>2, <2>3, NoKmIsNone DEF KeysSettled, OneWay, ActiveKey
  <2>6. \A i \in 1 .. Len(buf) : buf[i].flag = crypto.active
    BY <1>3, <1>6, <1>8, <2>2, SMT DEF OneWay, BufferSettled
  <2>7. BufferSettled(c, a, b, peer, reqs)
    <3>1. Len(b) <= Window
      BY <1>6, <1>8, SMT
    <3>2. ASSUME NEW i \in 1 .. Len(b)
          PROVE  /\ i > Len(b) - a.packets_on_key => b[i].flag = c.active
                 /\ b[i].flag = c.active => b[i].key = ActiveKey(c)
                 /\ b[i].flag # c.active => Settled(b[i].flag, b[i].key, peer, reqs)
      <4>1. CASE i <= Len(buf)
        <5>1. b[i] = buf[i] /\ i \in 1 .. Len(buf)
          BY <1>6, <4>1, SMT
        <5>2. b[i].flag = crypto.active /\ b[i].key = ActiveKey(crypto)
          BY <2>6, <5>1 DEF OneWay, BufferSettled
        <5>3. Settled(crypto.active, ActiveKey(crypto), peer, reqs)
          BY DEF OneWay, KeysSettled
        <5>4. ~ i > Len(b) - a.packets_on_key
          BY <1>2, <1>6, <2>3, <4>1, SMT
        <5> QED
          BY <1>4, <2>1, <5>2, <5>3, <5>4
      <4>2. CASE ~ i <= Len(buf)
        BY <1>5, <1>6, <4>2
      <4> QED
        BY <4>1, <4>2
    <3> QED
      BY <3>1, <3>2 DEF BufferSettled
  <2> QED
    BY <1>7, <2>4, <2>5, <2>7 DEF OneWay, c, a, b, x
<1>10. CASE ~ Rotate(r)
  <2>1. c = crypto
    BY <1>10 DEF SwitchedCrypto
  <2>2. p = Count(r.packets_on_key) /\ y = r.next_key_ready
    BY <1>3, <1>10
  <2>3. p = IF r.packets_on_key < Refresh THEN r.packets_on_key + 1 ELSE Refresh
    BY <1>3, <2>2, CountIs
  <2> HIDE DEF c, y, p, a, x, b
  <2>4. OneAtATime(s, c, a)
    <3>1. p >= AnnounceAt \/ ~ r.packets_on_key >= AnnounceAt
      BY <1>3, <1>8, <2>3, SMT
    <3>2. q => r.rekey_pending \/ (~ y /\ r.pending_km = NoKm /\ p >= AnnounceAt)
      BY <1>1 DEF p
    <3> QED
      BY <1>2, <2>1, <2>2, <3>1, <3>2 DEF OneWay, OneAtATime
  <2>5. KeysSettled(c, a, peer, reqs, rsps)
    BY <1>2, <2>1, <2>2 DEF KeysSettled, OneWay
  <2>6. BufferSettled(c, a, b, peer, reqs)
    <3>1. Len(b) <= Window
      BY <1>6, <1>8, SMT
    <3>2. ASSUME NEW i \in 1 .. Len(b)
          PROVE  /\ i > Len(b) - a.packets_on_key => b[i].flag = c.active
                 /\ b[i].flag = c.active => b[i].key = ActiveKey(c)
                 /\ b[i].flag # c.active => Settled(b[i].flag, b[i].key, peer, reqs)
      <4>1. CASE i <= Len(buf)
        <5>1. b[i] = buf[i] /\ i \in 1 .. Len(buf)
          BY <1>6, <4>1, SMT
        <5>2. i > Len(b) - p => i > Len(buf) - r.packets_on_key
          BY <1>3, <1>6, <1>8, <2>3, <4>1, SMT
        <5> QED
          BY <1>2, <2>1, <5>1, <5>2 DEF OneWay, BufferSettled
      <4>2. CASE ~ i <= Len(buf)
        BY <1>5, <1>6, <4>2
      <4> QED
        BY <4>1, <4>2
    <3> QED
      BY <3>1, <3>2 DEF BufferSettled
  <2> QED
    BY <1>7, <2>4, <2>5, <2>6 DEF OneWay, c, a, b, x
<1> QED
  BY <1>9, <1>10

(* A fresh key is announced in the other slot, which no buffered packet    *)
(* uses any more.                                                          *)
LEMMA AnnounceKeeps ==
    ASSUME Window <= AnnounceAt, NEW s, NEW crypto \in SessionCrypto, NEW r \in Rotation,
           NEW buf \in Seq(DataPacket), NEW peer, NEW reqs \in Seq(KmPacket),
           NEW rsps \in Seq(KmPacket),
           OneWay(s, crypto, r, buf, peer, reqs, rsps), r.rekey_pending,
           NEW key \in Keys, key = <<s, r.generated + 1>>,
           NEW km, km = Km(NextFlags(crypto), key)
    PROVE  OneWay(s, Install(crypto, km.flags, key), Announced(r, km), buf, peer,
                  Append(reqs, KmControl("KMREQ", km)), rsps)
<1> DEFINE c == Install(crypto, km.flags, key)
           a == Announced(r, km)
           m == KmControl("KMREQ", km)
           q == Append(reqs, m)
<1>1. /\ crypto.active \in Flags /\ NextFlags(crypto) \in Flags
      /\ NextFlags(crypto) # crypto.active
  BY NextFlagsFacts DEF SessionCrypto
<1>2. /\ km.flags = NextFlags(crypto) /\ km.key = key /\ km \in KmMessage /\ km # NoKm
  <2>1. km.flags = NextFlags(crypto) /\ km.key = key /\ km \in KmMessage
    BY <1>1 DEF Km, KmMessage
  <2> QED
    BY <2>1, NoKmIsNone
<1>3. /\ m \in KmPacket /\ m.subtype = "KMREQ" /\ m.km = km
  BY <1>2 DEF KmControl, KmPacket
<1>4. /\ c.active = crypto.active /\ NextFlags(c) = NextFlags(crypto)
      /\ c.key[crypto.active] = crypto.key[crypto.active]
      /\ c.key[NextFlags(crypto)] = key
  BY <1>1, <1>2, InstallType, SMT
<1>5. /\ a.packets_on_key = r.packets_on_key /\ a.rekey_pending = FALSE
      /\ a.pending_km = km /\ a.next_key_ready = r.next_key_ready
      /\ a.generated = r.generated + 1
  BY AnnouncedIs, SMT DEF Fields
<1>6. /\ r.generated \in Nat /\ r.packets_on_key \in Nat
  BY RotationIs, SMT
<1>7. /\ Len(reqs) \in Nat /\ Len(q) = Len(reqs) + 1
      /\ \A i \in 1 .. Len(q) : q[i] = IF i <= Len(reqs) THEN reqs[i] ELSE m
  <2> HIDE DEF m
  <2> QED
    BY <1>3, AppendIs, SMT
<1>8. /\ r.pending_km = NoKm /\ ~ r.next_key_ready /\ r.packets_on_key >= AnnounceAt
  BY DEF OneWay, OneAtATime
<1>9. Len(buf) \in Nat /\ \A i \in 1 .. Len(buf) : buf[i].flag = crypto.active
  <2>1. Len(buf) \in Nat /\ Len(buf) <= Window
    BY SMT DEF OneWay, BufferSettled
  <2>2. \A i \in 1 .. Len(buf) : i > Len(buf) - r.packets_on_key
    BY <1>6, <1>8, <2>1, Schedule, RekeyAssumption, SMTT(30)
  <2> QED
    BY <2>1, <2>2 DEF OneWay, BufferSettled
<1> HIDE DEF c, a, m, q
<1>10. InOrder(s, a, q, rsps)
  <2>1. \A i \in 1 .. Len(reqs) :
           /\ reqs[i].subtype = "KMREQ" /\ reqs[i].km.key \in {s} \X (1 .. a.generated)
           /\ reqs[i].km.key[2] <= key[2]
    BY <1>5, <1>6, SMT DEF OneWay, InOrder
  <2>2. m.km.key = key /\ key \in {s} \X (1 .. a.generated)
    <3>1. r.generated + 1 \in 1 .. a.generated
      BY <1>5, <1>6, SMT
    <3>2. m.km.key = key
      BY <1>2, <1>3
    <3> QED
      BY <3>1, <3>2, SMT
  <2>3. \A i \in 1 .. Len(q) :
           q[i].subtype = "KMREQ" /\ q[i].km.key \in {s} \X (1 .. a.generated)
    <3> SUFFICES ASSUME NEW i \in 1 .. Len(q)
                 PROVE  q[i].subtype = "KMREQ" /\ q[i].km.key \in {s} \X (1 .. a.generated)
      OBVIOUS
    <3>1. CASE i <= Len(reqs)
      <4>1. q[i] = reqs[i] /\ i \in 1 .. Len(reqs)
        BY <1>7, <3>1, SMT
      <4> QED
        BY <2>1, <4>1
    <3>2. CASE ~ i <= Len(reqs)
      <4>1. q[i] = m
        BY <1>7, <3>2
      <4> QED
        BY <1>3, <2>2, <4>1
    <3> QED
      BY <3>1, <3>2
  <2>4. \A i \in 1 .. Len(rsps) :
           rsps[i].subtype = "KMRSP" /\ rsps[i].km.key \in {s} \X (1 .. a.generated)
    BY <1>5, <1>6, SMT DEF OneWay, InOrder
  <2>5. ASSUME NEW i \in 1 .. Len(q), NEW j \in 1 .. Len(q), i <= j
        PROVE  q[i].km.key[2] <= q[j].km.key[2]
    <3>1. CASE j <= Len(reqs)
      BY <1>7, <2>5, <3>1, SMT DEF OneWay, InOrder
    <3>2. CASE ~ j <= Len(reqs)
      <4>1. q[j].km.key = key /\ key[2] \in Int
        BY <1>6, <1>7, <2>2, <3>2, SMT
      <4>2. CASE i <= Len(reqs)
        <5>1. q[i] = reqs[i] /\ i \in 1 .. Len(reqs)
          BY <1>7, <4>2, SMT
        <5> QED
          BY <2>1, <4>1, <5>1
      <4>3. CASE ~ i <= Len(reqs)
        <5>1. q[i].km.key = key
          BY <1>7, <2>2, <4>3
        <5> QED
          BY <4>1, <5>1, SMT
      <4> QED
        BY <4>2, <4>3
    <3> QED
      BY <3>1, <3>2
  <2> QED
    BY <2>3, <2>4, <2>5 DEF InOrder
<1>11. OneAtATime(s, c, a)
  BY <1>2, <1>4, <1>5, <1>6, <1>8, SMT DEF OneAtATime
<1>12. ASSUME NEW k, Settled(crypto.active, k, peer, reqs)
       PROVE  Settled(crypto.active, k, peer, q)
  <2>1. ASSUME NEW i \in 1 .. Len(q), q[i].km.flags = crypto.active
        PROVE  q[i].km.key = k
    <3>1. q[i] # m
      BY <1>1, <1>2, <1>3, <2>1
    <3>2. q[i] = reqs[i] /\ i \in 1 .. Len(reqs)
      BY <1>7, <3>1, SMT
    <3> QED
      BY <1>12, <2>1, <3>2 DEF Settled
  <2> QED
    BY <1>12, <2>1 DEF Settled
<1>13. KeysSettled(c, a, peer, q, rsps)
  <2>1. \A i \in 1 .. Len(rsps) : rsps[i].km # a.pending_km
    BY <1>2, <1>5, <1>6, SMT DEF OneWay, InOrder
  <2> QED
    BY <1>4, <1>5, <1>8, <1>12, <2>1 DEF KeysSettled, OneWay, ActiveKey
<1>14. BufferSettled(c, a, buf, peer, q)
  BY <1>4, <1>5, <1>9 DEF BufferSettled, OneWay, ActiveKey
<1> QED
  BY <1>10, <1>11, <1>13, <1>14 DEF OneWay, c, a, m, q

(* A pending key is announced again.                                       *)
LEMMA RepeatKeeps ==
    ASSUME Window <= AnnounceAt, NEW s, NEW crypto \in SessionCrypto, NEW r \in Rotation,
           NEW buf \in Seq(DataPacket), NEW peer, NEW reqs \in Seq(KmPacket), NEW rsps,
           OneWay(s, crypto, r, buf, peer, reqs, rsps), r.pending_km # NoKm,
           NEW n, NEW a,
           a = Fields(r.packets_on_key, r.rekey_pending, r.pending_km, n,
                      r.next_key_ready, r.generated)
    PROVE  OneWay(s, crypto, a, buf, peer,
                  Append(reqs, KmControl("KMREQ", r.pending_km)), rsps)
<1> DEFINE m == KmControl("KMREQ", r.pending_km)
           q == Append(reqs, m)
           next == NextFlags(crypto)
<1>1. /\ crypto.active \in Flags /\ next \in Flags /\ next # crypto.active
  BY NextFlagsFacts DEF SessionCrypto
<1>2. /\ r.pending_km \in KmMessage /\ r.generated \in Nat /\ r.packets_on_key \in Nat
  BY RotationIs, SMT
<1>3. /\ m \in KmPacket /\ m.subtype = "KMREQ" /\ m.km = r.pending_km
  BY <1>2 DEF KmControl, KmPacket
<1>4. /\ m.km.flags = next /\ m.km.key = <<s, r.generated>>
      /\ crypto.key[next] = m.km.key
      /\ ~ r.next_key_ready /\ ~ r.rekey_pending /\ r.packets_on_key >= AnnounceAt
  <2>1. /\ r.pending_km = Km(next, <<s, r.generated>>)
        /\ crypto.key[next] = <<s, r.generated>>
    BY DEF OneWay, OneAtATime
  <2>2. ~ r.next_key_ready /\ ~ r.rekey_pending /\ r.packets_on_key >= AnnounceAt
    BY DEF OneWay, OneAtATime
  <2>3. r.pending_km.flags = next /\ r.pending_km.key = <<s, r.generated>>
    BY <2>1, SMT DEF Km
  <2> QED
    BY <1>3, <2>1, <2>2, <2>3
<1>5. r.generated >= 1
  BY DEF OneWay, OneAtATime
<1>6. /\ Len(reqs) \in Nat /\ Len(q) = Len(reqs) + 1
      /\ \A i \in 1 .. Len(q) : q[i] = IF i <= Len(reqs) THEN reqs[i] ELSE m
  <2> HIDE DEF m
  <2> QED
    BY <1>3, AppendIs, SMT
<1>7. /\ a.packets_on_key = r.packets_on_key /\ a.rekey_pending = r.rekey_pending
      /\ a.pending_km = r.pending_km /\ a.next_key_ready = r.next_key_ready
      /\ a.generated = r.generated
  BY FieldsGet, SMT
<1> HIDE DEF m, q, next
<1>8. InOrder(s, a, q, rsps)
  <2>1. ASSUME NEW i \in 1 .. Len(q)
        PROVE  /\ q[i].subtype = "KMREQ" /\ q[i].km.key \in {s} \X (1 .. a.generated)
               /\ q[i] # m => q[i] = reqs[i] /\ i \in 1 .. Len(reqs)
    <3>1. CASE q[i] = m
      <4>1. r.generated \in 1 .. a.generated
        BY <1>2, <1>5, <1>7, SMT
      <4>2. <<s, r.generated>> \in {s} \X (1 .. a.generated)
        BY <4>1
      <4>3. m.subtype = "KMREQ" /\ m.km.key = <<s, r.generated>>
        BY <1>3, <1>4
      <4> QED
        BY <3>1, <4>2, <4>3
    <3>2. CASE q[i] # m
      <4>1. q[i] = reqs[i] /\ i \in 1 .. Len(reqs)
        BY <1>6, <3>2, SMT
      <4>2. reqs[i].subtype = "KMREQ" /\ reqs[i].km.key \in {s} \X (1 .. r.generated)
        BY <4>1 DEF OneWay, InOrder
      <4> QED
        BY <1>7, <4>1, <4>2
    <3> QED
      BY <3>1, <3>2
  <2>2. ASSUME NEW i \in 1 .. Len(q), NEW j \in 1 .. Len(q), i <= j
        PROVE  q[i].km.key[2] <= q[j].km.key[2]
    <3>1. CASE j <= Len(reqs)
      <4>1. q[i] = reqs[i] /\ q[j] = reqs[j] /\ i \in 1 .. Len(reqs) /\ j \in 1 .. Len(reqs)
        BY <1>6, <2>2, <3>1, SMT
      <4> QED
        BY <2>2, <4>1 DEF OneWay, InOrder
    <3>2. CASE ~ j <= Len(reqs)
      <4>1. q[j].km.key[2] = r.generated
        BY <1>4, <1>6, <3>2, SMT
      <4>2. q[i].km.key[2] <= r.generated
        BY <1>2, <1>7, <2>1, SMT
      <4> QED
        BY <4>1, <4>2
    <3> QED
      BY <3>1, <3>2
  <2>3. \A i \in 1 .. Len(rsps) :
           rsps[i].subtype = "KMRSP" /\ rsps[i].km.key \in {s} \X (1 .. a.generated)
    BY <1>7 DEF OneWay, InOrder
  <2> QED
    BY <2>1, <2>2, <2>3 DEF InOrder
<1>9. OneAtATime(s, crypto, a)
  BY <1>7 DEF OneAtATime, OneWay
<1>10. ASSUME NEW f, NEW k, Settled(f, k, peer, reqs), f = next => k = crypto.key[next]
       PROVE  Settled(f, k, peer, q)
  <2>1. ASSUME NEW i \in 1 .. Len(q), q[i].km.flags = f
        PROVE  q[i].km.key = k
    <3>1. CASE q[i] = m
      BY <1>4, <1>10, <2>1, <3>1
    <3>2. CASE q[i] # m
      <4>1. q[i] = reqs[i] /\ i \in 1 .. Len(reqs)
        BY <1>6, <3>2, SMT
      <4> QED
        BY <1>10, <2>1, <4>1 DEF Settled
    <3> QED
      BY <3>1, <3>2
  <2> QED
    BY <1>10, <2>1 DEF Settled
<1>11. KeysSettled(crypto, a, peer, q, rsps)
  BY <1>1, <1>4, <1>7, <1>10 DEF KeysSettled, OneWay, next
<1>12. BufferSettled(crypto, a, buf, peer, q)
  <2>1. Len(buf) \in Nat /\ Len(buf) <= Window
    BY SMT DEF OneWay, BufferSettled
  <2>2. \A i \in 1 .. Len(buf) : i > Len(buf) - r.packets_on_key
    BY <1>2, <1>4, <2>1, Schedule, RekeyAssumption, SMT
  <2>3. \A i \in 1 .. Len(buf) : buf[i].flag = crypto.active
    BY <2>2 DEF OneWay, BufferSettled
  <2> QED
    BY <1>7, <2>3 DEF BufferSettled, OneWay
<1> QED
  BY <1>8, <1>9, <1>11, <1>12 DEF OneWay, m, q

(* A sequence with one element taken out, wherever it was.                 *)
Without(q, t) ==
    /\ Len(q) \in Nat \ {0}
    /\ Len(t) = Len(q) - 1
    /\ \E k \in 1 .. Len(q) :
          \A j \in 1 .. Len(t) : t[j] = IF j < k THEN q[j] ELSE q[j + 1]

(* Losing a message takes one out.                                         *)
LEMMA LeaveOutWithout ==
    ASSUME NEW S, NEW q \in Seq(S), NEW i \in 1 .. Len(q)
    PROVE  Without(q, LeaveOut(q, i))
<1> DEFINE t == LeaveOut(q, i)
<1>1. /\ Len(t) = Len(q) - 1
      /\ \A j \in 1 .. Len(q) - 1 : t[j] = IF j < i THEN q[j] ELSE q[j + 1]
  BY LeaveOutProperties
<1>2. Len(q) \in Nat \ {0}
  BY SMT
<1> HIDE DEF t
<1> QED
  BY <1>1, <1>2, SMT DEF Without, t

(* So does receiving the first.                                            *)
LEMMA TailWithout ==
    ASSUME NEW S, NEW q \in Seq(S), q # <<>>
    PROVE  Without(q, Tail(q))
<1> DEFINE t == Tail(q)
<1>1. /\ Len(q) \in Nat \ {0} /\ Len(t) = Len(q) - 1
      /\ \A j \in 1 .. Len(q) - 1 : t[j] = q[j + 1]
  BY TailProperties
<1>2. 1 \in 1 .. Len(q) /\ \A j \in 1 .. Len(q) - 1 : ~ j < 1
  BY <1>1, SMT
<1> HIDE DEF t
<1> QED
  BY <1>1, <1>2, SMT DEF Without, t

(* Every message of t is one of q, and they come in the same order.        *)
DrawnFrom(q, t) ==
    /\ \A j \in 1 .. Len(t) : \E i \in 1 .. Len(q) : t[j] = q[i]
    /\ \A i, j \in 1 .. Len(t) : i <= j =>
          \E m, n \in 1 .. Len(q) : m <= n /\ t[i] = q[m] /\ t[j] = q[n]

(* What is left was there before, and in the same order.                   *)
LEMMA WithoutElements ==
    ASSUME NEW q, NEW t, Without(q, t)
    PROVE  DrawnFrom(q, t)
<1>1. PICK k \in 1 .. Len(q) : \A j \in 1 .. Len(t) : t[j] = IF j < k THEN q[j] ELSE q[j + 1]
  BY DEF Without
<1>2. Len(q) \in Nat \ {0} /\ Len(t) = Len(q) - 1
  BY DEF Without
<1> DEFINE at(j) == IF j < k THEN j ELSE j + 1
<1>3. \A j \in 1 .. Len(t) : at(j) \in 1 .. Len(q) /\ t[j] = q[at(j)]
  BY <1>1, <1>2, SMT
<1>4. \A i, j \in 1 .. Len(t) : i <= j => at(i) <= at(j)
  BY <1>2, SMT
<1> HIDE DEF at
<1> QED
  BY <1>3, <1>4 DEF DrawnFrom

(* A lost message settles nothing and unsettles nothing.                   *)
LEMMA LossKeeps ==
    ASSUME NEW s, NEW crypto, NEW r, NEW buf, NEW peer, NEW reqs, NEW rsps,
           OneWay(s, crypto, r, buf, peer, reqs, rsps), NEW t
    PROVE  /\ Without(reqs, t) => OneWay(s, crypto, r, buf, peer, t, rsps)
           /\ Without(rsps, t) => OneWay(s, crypto, r, buf, peer, reqs, t)
<1>1. ASSUME Without(reqs, t) PROVE OneWay(s, crypto, r, buf, peer, t, rsps)
  <2>0. DrawnFrom(reqs, t)
    BY <1>1, WithoutElements
  <2>1. /\ \A j \in 1 .. Len(t) : \E i \in 1 .. Len(reqs) : t[j] = reqs[i]
        /\ \A i, j \in 1 .. Len(t) : i <= j =>
              \E m, n \in 1 .. Len(reqs) : m <= n /\ t[i] = reqs[m] /\ t[j] = reqs[n]
    BY <2>0 DEF DrawnFrom
  <2>2. ASSUME NEW f, NEW k, Settled(f, k, peer, reqs) PROVE Settled(f, k, peer, t)
    BY <2>1, <2>2, SMT DEF Settled
  <2>3. InOrder(s, r, t, rsps)
    <3>1. ASSUME NEW j \in 1 .. Len(t)
          PROVE  t[j].subtype = "KMREQ" /\ t[j].km.key \in {s} \X (1 .. r.generated)
      BY <2>1, SMT DEF OneWay, InOrder
    <3>2. ASSUME NEW i \in 1 .. Len(t), NEW j \in 1 .. Len(t), i <= j
          PROVE  t[i].km.key[2] <= t[j].km.key[2]
      <4>1. PICK m, n \in 1 .. Len(reqs) : m <= n /\ t[i] = reqs[m] /\ t[j] = reqs[n]
        BY <2>1, <3>2
      <4> QED
        BY <4>1 DEF OneWay, InOrder
    <3> QED
      BY <3>1, <3>2 DEF OneWay, InOrder
  <2>4. KeysSettled(crypto, r, peer, t, rsps)
    BY <2>2 DEF OneWay, KeysSettled
  <2>5. BufferSettled(crypto, r, buf, peer, t)
    BY <2>2 DEF OneWay, BufferSettled
  <2> QED
    BY <2>3, <2>4, <2>5 DEF OneWay
<1>2. ASSUME Without(rsps, t) PROVE OneWay(s, crypto, r, buf, peer, reqs, t)
  <2>0. DrawnFrom(rsps, t)
    BY <1>2, WithoutElements
  <2>1. \A j \in 1 .. Len(t) : \E i \in 1 .. Len(rsps) : t[j] = rsps[i]
    BY <2>0 DEF DrawnFrom
  <2>2. InOrder(s, r, reqs, t)
    BY <2>1, SMT DEF OneWay, InOrder
  <2>3. KeysSettled(crypto, r, peer, reqs, t)
    BY <2>1 DEF OneWay, KeysSettled
  <2> QED
    BY <2>2, <2>3 DEF OneWay
<1> QED
  BY <1>1, <1>2

(* A KMREQ arrives.  The keys behind it are no older, so that once the     *)
(* pending key is installed nothing on its way replaces it.                *)
LEMMA InstallKeeps ==
    ASSUME NEW s, NEW crypto \in SessionCrypto, NEW r \in Rotation,
           NEW buf \in Seq(DataPacket), NEW peer \in SessionCrypto,
           NEW reqs \in Seq(KmPacket), reqs # <<>>, NEW rsps \in Seq(KmPacket),
           OneWay(s, crypto, r, buf, peer, reqs, rsps), NEW m, m = Head(reqs)
    PROVE  OneWay(s, crypto, r, buf, Install(peer, m.km.flags, m.km.key), Tail(reqs),
                  Append(rsps, KmControl("KMRSP", m.km)))
<1> DEFINE t == Tail(reqs)
           x == KmControl("KMRSP", m.km)
           a == Append(rsps, x)
           p == Install(peer, m.km.flags, m.km.key)
           next == NextFlags(crypto)
<1>1. /\ Len(reqs) \in Nat \ {0} /\ Len(t) = Len(reqs) - 1
      /\ m = reqs[1] /\ m \in KmPacket
      /\ \A j \in 1 .. Len(t) : j + 1 \in 1 .. Len(reqs) /\ t[j] = reqs[j + 1]
  BY TailProperties, SMT
<1>2. m.km \in KmMessage /\ m.km.flags \in Flags /\ m.km.key \in Keys
  BY <1>1 DEF KmPacket, KmMessage
<1>3. x \in KmPacket /\ x.subtype = "KMRSP" /\ x.km = m.km
  BY <1>2 DEF KmControl, KmPacket
<1>4. /\ Len(rsps) \in Nat /\ Len(a) = Len(rsps) + 1
      /\ \A i \in 1 .. Len(a) : IF i <= Len(rsps) THEN i \in 1 .. Len(rsps) /\ a[i] = rsps[i]
                                ELSE a[i] = x
  <2> HIDE DEF x
  <2> QED
    BY <1>3, AppendIs, SMT
<1>5. p.key[m.km.flags] = m.km.key
      /\ \A f \in Flags : f # m.km.flags => p.key[f] = peer.key[f]
  <2>1. p.key = [peer.key EXCEPT ![m.km.flags] = m.km.key]
    BY DEF Install, SessionCrypto
  <2>2. peer.key \in [Flags -> Keys \cup {NoKey}]
    BY DEF SessionCrypto
  <2> QED
    BY <1>2, <2>1, <2>2
<1>6. r.generated \in Nat
  BY RotationIs, SMT
<1>7. 1 \in 1 .. Len(reqs)
  BY <1>1, SMT
<1>8. /\ crypto.active \in Flags /\ next \in Flags
       /\ \A i \in 1 .. Len(buf) : buf[i].flag \in Flags
  <2>1. crypto.active \in Flags /\ next \in Flags
    BY NextFlagsFacts DEF SessionCrypto
  <2>2. ASSUME NEW i \in 1 .. Len(buf) PROVE buf[i].flag \in Flags
    <3>1. buf[i] \in DataPacket
      BY SMT
    <3> QED
      BY <3>1 DEF DataPacket
  <2> QED
    BY <2>1, <2>2
<1> HIDE DEF t, x, a, p
<1>9. ASSUME NEW f \in Flags, NEW k, Settled(f, k, peer, reqs) PROVE Settled(f, k, p, t)
  <2>1. p.key[f] = k
    BY <1>1, <1>5, <1>7, <1>9 DEF Settled
  <2>2. ASSUME NEW j \in 1 .. Len(t), t[j].km.flags = f PROVE t[j].km.key = k
    <3>1. j + 1 \in 1 .. Len(reqs) /\ t[j] = reqs[j + 1]
      BY <1>1
    <3> QED
      BY <1>9, <2>2, <3>1 DEF Settled
  <2> QED
    BY <2>1, <2>2 DEF Settled
<1>10. InOrder(s, r, t, a)
  <2>1. InOrder(s, r, t, rsps)
    <3>1. Without(reqs, t)
      BY TailWithout DEF t
    <3> QED
      BY <3>1, LossKeeps DEF OneWay
  <2>2. x.subtype = "KMRSP" /\ x.km.key \in {s} \X (1 .. r.generated)
    BY <1>1, <1>3, <1>7 DEF OneWay, InOrder
  <2>3. \A i \in 1 .. Len(rsps) :
           rsps[i].subtype = "KMRSP" /\ rsps[i].km.key \in {s} \X (1 .. r.generated)
    BY DEF OneWay, InOrder
  <2>4. \A i \in 1 .. Len(a) :
           a[i].subtype = "KMRSP" /\ a[i].km.key \in {s} \X (1 .. r.generated)
    BY <1>4, <2>2, <2>3
  <2> QED
    BY <2>1, <2>4 DEF InOrder
<1>11. ASSUME m.km = r.pending_km
       PROVE  Settled(next, crypto.key[next], p, t)
  <2>1. r.pending_km # NoKm
    BY <1>2, <1>11, NoKmIsNone
  <2>2. /\ r.pending_km = Km(next, <<s, r.generated>>)
        /\ crypto.key[next] = <<s, r.generated>>
    BY <2>1 DEF OneWay, OneAtATime
  <2>3. m.km.flags = next /\ m.km.key = <<s, r.generated>>
    BY <1>11, <2>2, SMT DEF Km
  <2>4. ASSUME NEW j \in 1 .. Len(t) PROVE t[j].km.key = <<s, r.generated>>
    <3>1. j + 1 \in 1 .. Len(reqs) /\ t[j] = reqs[j + 1] /\ 1 <= j + 1
      BY <1>1, SMT
    <3>2. reqs[j + 1].km.key \in {s} \X (1 .. r.generated)
      BY <3>1 DEF OneWay, InOrder
    <3>3. reqs[1].km.key[2] <= reqs[j + 1].km.key[2]
      BY <1>7, <3>1 DEF OneWay, InOrder
    <3>4. reqs[1].km.key[2] = r.generated
      BY <1>1, <2>3, SMT
    <3>5. reqs[j + 1].km.key[2] = r.generated
      BY <1>6, <3>2, <3>3, <3>4, SMT
    <3> QED
      BY <3>1, <3>2, <3>5, SMT
  <2> QED
    BY <1>5, <2>2, <2>3, <2>4 DEF Settled
<1>12. KeysSettled(crypto, r, p, t, a)
  <2>1. ASSUME NEW i \in 1 .. Len(a), a[i].km = r.pending_km
        PROVE  Settled(next, crypto.key[next], p, t)
    <3>1. CASE i <= Len(rsps)
      <4>1. i \in 1 .. Len(rsps) /\ a[i] = rsps[i]
        BY <1>4, <3>1
      <4>2. Settled(next, crypto.key[next], peer, reqs)
        BY <2>1, <4>1 DEF OneWay, KeysSettled
      <4> QED
        BY <1>9, <1>8, <4>2
    <3>2. CASE ~ i <= Len(rsps)
      <4>1. a[i] = x
        BY <1>4, <3>2
      <4> QED
        BY <1>3, <1>11, <2>1, <4>1
    <3> QED
      BY <3>1, <3>2
  <2> QED
    BY <1>9, <1>8, <2>1 DEF OneWay, KeysSettled
<1>13. BufferSettled(crypto, r, buf, p, t)
  BY <1>9, <1>8 DEF OneWay, BufferSettled
<1> QED
  BY <1>10, <1>12, <1>13 DEF OneWay, t, x, a, p

(* A KMRSP arrives and confirms the pending key, or is ignored.            *)
LEMMA ConfirmKeeps ==
    ASSUME NEW s, NEW crypto, NEW r \in Rotation, NEW buf, NEW peer, NEW reqs,
           NEW rsps \in Seq(KmPacket), rsps # <<>>,
           OneWay(s, crypto, r, buf, peer, reqs, rsps), NEW m, m = Head(rsps),
           NEW a, a = IF r.pending_km = m.km THEN Confirmed(r) ELSE r
    PROVE  OneWay(s, crypto, a, buf, peer, reqs, Tail(rsps))
<1>1. /\ Len(rsps) \in Nat \ {0} /\ m = rsps[1] /\ m \in KmPacket /\ Without(rsps, Tail(rsps))
  BY TailProperties, TailWithout
<1>2. OneWay(s, crypto, r, buf, peer, reqs, Tail(rsps))
  BY <1>1, LossKeeps
<1>3. ASSUME r.pending_km = m.km
      PROVE  OneWay(s, crypto, a, buf, peer, reqs, Tail(rsps))
  <2> DEFINE t == Tail(rsps)
  <2>1. /\ a.packets_on_key = r.packets_on_key /\ a.rekey_pending = r.rekey_pending
        /\ a.pending_km = NoKm /\ a.next_key_ready = TRUE /\ a.generated = r.generated
    <3>1. a = Confirmed(r)
      BY <1>3
    <3> QED
      BY <3>1, ConfirmedIs, SMT DEF Fields
  <2>2. r.pending_km # NoKm
    BY <1>1, <1>3, NoKmIsNone DEF KmPacket
  <2>3. /\ ~ r.rekey_pending /\ r.packets_on_key >= AnnounceAt
    BY <2>2 DEF OneWay, OneAtATime
  <2>4. Settled(NextFlags(crypto), crypto.key[NextFlags(crypto)], peer, reqs)
    BY <1>1, <1>3, SMT DEF OneWay, KeysSettled
  <2> HIDE DEF t
  <2>5. InOrder(s, a, reqs, t)
    BY <1>2, <2>1 DEF OneWay, InOrder, t
  <2>6. OneAtATime(s, crypto, a)
    BY <2>1, <2>3 DEF OneAtATime
  <2>7. KeysSettled(crypto, a, peer, reqs, t)
    BY <2>4 DEF OneWay, KeysSettled
  <2>8. BufferSettled(crypto, a, buf, peer, reqs)
    BY <2>1 DEF OneWay, BufferSettled
  <2> QED
    BY <2>5, <2>6, <2>7, <2>8 DEF OneWay, t
<1> QED
  BY <1>2, <1>3

(* A key is given up: a KMRSP that still arrives for it is ignored.        *)
LEMMA GiveUpKeeps ==
    ASSUME NEW s, NEW crypto, NEW r \in Rotation, NEW buf, NEW peer, NEW reqs,
           NEW rsps \in Seq(KmPacket),
           OneWay(s, crypto, r, buf, peer, reqs, rsps), NEW a,
           a = Fields(r.packets_on_key, r.rekey_pending, NoKm, r.km_retries,
                      r.next_key_ready, r.generated)
    PROVE  OneWay(s, crypto, a, buf, peer, reqs, rsps)
<1>1. /\ a.packets_on_key = r.packets_on_key /\ a.rekey_pending = r.rekey_pending
      /\ a.pending_km = NoKm /\ a.next_key_ready = r.next_key_ready
      /\ a.generated = r.generated
  BY FieldsGet, SMT
<1>2. \A i \in 1 .. Len(rsps) : rsps[i].km # NoKm
  <2> SUFFICES ASSUME NEW i \in 1 .. Len(rsps) PROVE rsps[i].km # NoKm
    OBVIOUS
  <2>1. rsps[i] \in KmPacket
    BY SMT
  <2> QED
    BY <2>1, NoKmIsNone DEF KmPacket
<1>3. InOrder(s, a, reqs, rsps)
  BY <1>1 DEF OneWay, InOrder
<1>4. OneAtATime(s, crypto, a)
  BY <1>1 DEF OneWay, OneAtATime
<1>5. KeysSettled(crypto, a, peer, reqs, rsps)
  BY <1>1, <1>2 DEF OneWay, KeysSettled
<1>6. BufferSettled(crypto, a, buf, peer, reqs)
  BY <1>1 DEF OneWay, BufferSettled
<1> QED
  BY <1>3, <1>4, <1>5, <1>6 DEF OneWay

(* The oldest packet leaves the send buffer.                               *)
LEMMA ReleaseKeeps ==
    ASSUME NEW s, NEW crypto, NEW r \in Rotation, NEW buf \in Seq(DataPacket), buf # <<>>,
           NEW peer, NEW reqs, NEW rsps, OneWay(s, crypto, r, buf, peer, reqs, rsps)
    PROVE  OneWay(s, crypto, r, Tail(buf), peer, reqs, rsps)
<1> DEFINE t == Tail(buf)
<1>1. /\ Len(buf) \in Nat \ {0} /\ Len(t) = Len(buf) - 1
      /\ \A j \in 1 .. Len(t) : j + 1 \in 1 .. Len(buf) /\ t[j] = buf[j + 1]
  BY TailProperties, SMT
<1>2. r.packets_on_key \in Nat /\ Window \in Nat
  BY RotationIs, RekeyAssumption, SMT
<1> HIDE DEF t
<1>3. Len(t) <= Window
  BY <1>1, <1>2, SMT DEF OneWay, BufferSettled
<1>4. ASSUME NEW i \in 1 .. Len(t)
      PROVE  /\ i > Len(t) - r.packets_on_key => t[i].flag = crypto.active
             /\ t[i].flag = crypto.active => t[i].key = ActiveKey(crypto)
             /\ t[i].flag # crypto.active => Settled(t[i].flag, t[i].key, peer, reqs)
  <2>1. i + 1 \in 1 .. Len(buf) /\ t[i] = buf[i + 1]
    BY <1>1
  <2>2. i > Len(t) - r.packets_on_key => i + 1 > Len(buf) - r.packets_on_key
    BY <1>1, <1>2, SMT
  <2> QED
    BY <2>1, <2>2 DEF OneWay, BufferSettled
<1>5. BufferSettled(crypto, r, t, peer, reqs)
  BY <1>3, <1>4 DEF BufferSettled
<1> QED
  BY <1>5 DEF OneWay, t
-----------------------------------------------------------------------------
(* The inductive invariant holds when the handshake completes.             *)
LEMMA OneWayInit ==
    ASSUME NEW s \in Ends, Init
    PROVE  IInv(s)
<1> DEFINE crypto == [key |-> [Even |-> HandshakeKey, Odd |-> NoKey], active |-> "Even"]
           r == Fields(0, FALSE, NoKm, 0, FALSE, 0)
<1>1. TypeInv
  BY InitType
<1>2. /\ Peer(s) \in Ends
      /\ \A e \in Ends : slots[e] = crypto /\ rotation[e] = r /\ unacked[e] = <<>>
                         /\ channel[e] = <<>>
  BY EndsFacts DEF Init, Fields
<1>3. /\ r.pending_km = NoKm /\ ~ r.next_key_ready /\ ~ r.rekey_pending
  BY DEF Fields
<1>4. Len(<<>>) = 0 /\ 1 .. 0 = {} /\ 0 <= Window
  BY RekeyAssumption, SMT
<1>5. Settled(crypto.active, ActiveKey(crypto), crypto, <<>>)
  BY <1>4 DEF Settled, ActiveKey
<1> HIDE DEF crypto, r
<1>6. OneWay(s, crypto, r, <<>>, crypto, <<>>, <<>>)
  BY <1>3, <1>4, <1>5 DEF OneWay, InOrder, OneAtATime, KeysSettled, BufferSettled
<1> QED
  BY <1>1, <1>2, <1>3, <1>6 DEF IInv, Idle

(* Every step keeps the inductive invariant.                               *)
LEMMA OneWayNext ==
    ASSUME NEW s \in Ends, Senders = {s}, Window <= AnnounceAt, IInv(s), [Next]_vars
    PROVE  IInv(s)'
<1> DEFINE p == Peer(s)
<1>1. /\ p \in Ends /\ p # s /\ Peer(p) = s /\ Ends = {s, p}
  BY EndsFacts
<1>2. TypeInv /\ TypeInv'
  BY NextType DEF IInv
<1>3. /\ slots[s] \in SessionCrypto /\ rotation[s] \in Rotation
      /\ unacked[s] \in Seq(DataPacket) /\ channel[s] \in Seq(KmPacket)
      /\ slots[p] \in SessionCrypto /\ channel[p] \in Seq(KmPacket)
  BY <1>1, <1>2, Typed
<1>4. /\ slots \in [Ends -> SessionCrypto] /\ rotation \in [Ends -> Rotation]
      /\ unacked \in [Ends -> Seq(DataPacket)] /\ channel \in [Ends -> Seq(KmPacket)]
  BY <1>2 DEF TypeInv, TypeOK
<1>5. Idle(p) /\ OneWay(s, slots[s], rotation[s], unacked[s], slots[p], channel[p], channel[s])
  BY DEF IInv
<1> DEFINE Kept == /\ Idle(p)'
                   /\ OneWay(s, slots'[s], rotation'[s], unacked'[s],
                             slots'[p], channel'[p], channel'[s])
<1> SUFFICES Kept
  BY <1>2 DEF IInv
<1> HIDE DEF p
<1>6. CASE UNCHANGED vars
  BY <1>5, <1>6 DEF vars, Idle
<1>7. ASSUME NEW e \in Ends, SendData(e)
      PROVE  Kept
  <2>1. e = s /\ Len(unacked[s]) < Window
    BY <1>7 DEF SendData
  <2>2. /\ slots'[s] = SwitchedCrypto(slots[s], rotation[s]) /\ slots'[p] = slots[p]
        /\ rotation'[s] = Accounted(rotation[s]) /\ rotation'[p] = rotation[p]
        /\ unacked'[s] = Append(unacked[s], Encrypt(SwitchedCrypto(slots[s], rotation[s])))
        /\ unacked'[p] = unacked[p] /\ channel' = channel
    BY <1>1, <1>4, <1>7, <2>1 DEF SendData
  <2>3. /\ Len(channel[s]) \in Nat
        /\ \A i \in 1 .. Len(channel[s]) : channel[s][i].km \in KmMessage
    <3>1. ASSUME NEW i \in 1 .. Len(channel[s]) PROVE channel[s][i].km \in KmMessage
      <4>1. channel[s][i] \in KmPacket
        BY <1>3, SMT
      <4> QED
        BY <4>1 DEF KmPacket
    <3> QED
      BY <1>3, <3>1, SMT
  <2>4. OneWay(s, slots'[s], rotation'[s], unacked'[s], slots'[p], channel'[p], channel'[s])
    BY <1>3, <1>5, <2>1, <2>2, <2>3, SendKeeps
  <2> QED
    BY <1>5, <2>2, <2>4 DEF Idle
<1>8. ASSUME NEW e \in Ends, ProvideRekey(e)
      PROVE  Kept
  <2> DEFINE key == <<s, rotation[s].generated + 1>>
             km == Km(NextFlags(slots[s]), key)
  <2>1. e = s
    BY <1>1, <1>5, <1>8 DEF ProvideRekey, Idle
  <2>2. /\ slots'[s] = Install(slots[s], km.flags, key) /\ slots'[p] = slots[p]
        /\ rotation'[s] = Announced(rotation[s], km) /\ rotation'[p] = rotation[p]
        /\ channel'[p] = Append(channel[p], KmControl("KMREQ", km))
        /\ channel'[s] = channel[s] /\ unacked' = unacked
        /\ rotation[s].rekey_pending /\ rotation[s].generated < MaxKeys
    BY <1>1, <1>4, <1>8, <2>1 DEF ProvideRekey, p
  <2>3. key \in Keys
    <3>1. rotation[s].generated + 1 \in 1 .. MaxKeys
      <4>1. rotation[s].generated \in 0 .. MaxKeys
        BY <1>3, RotationIs
      <4>2. rotation[s].generated < MaxKeys
        BY <2>2
      <4> QED
        BY <4>1, <4>2, RekeyAssumption, SMT
    <3> QED
      BY <3>1 DEF Keys
  <2>4. key = <<s, rotation[s].generated + 1>> /\ km = Km(NextFlags(slots[s]), key)
    OBVIOUS
  <2> HIDE DEF key, km
  <2>5. OneWay(s, Install(slots[s], km.flags, key), Announced(rotation[s], km), unacked[s],
               slots[p], Append(channel[p], KmControl("KMREQ", km)), channel[s])
    <3>1. rotation[s].rekey_pending
      BY <2>2
    <3> QED
      BY <1>3, <1>5, <2>3, <2>4, <3>1, AnnounceKeeps
  <2> QED
    BY <1>5, <2>2, <2>5 DEF Idle
<1>9. ASSUME NEW e \in Ends, ResendPendingKm(e)
      PROVE  Kept
  <2> DEFINE r == rotation[s]
  <2>1. e = s /\ r.pending_km # NoKm /\ UNCHANGED <<slots, unacked>>
    BY <1>1, <1>5, <1>9 DEF ResendPendingKm, Idle
  <2>2. CASE rotation' = [rotation EXCEPT ![s].pending_km = NoKm] /\ UNCHANGED channel
    <3>1. /\ rotation'[s] = Fields(r.packets_on_key, r.rekey_pending, NoKm, r.km_retries,
                                   r.next_key_ready, r.generated)
          /\ rotation'[p] = rotation[p]
      BY <1>1, <1>3, <1>4, <2>2, ResentIs
    <3>2. OneWay(s, slots[s], rotation'[s], unacked[s], slots[p], channel[p], channel[s])
      BY <1>3, <1>5, <3>1, GiveUpKeeps
    <3> QED
      BY <1>5, <2>1, <2>2, <3>1, <3>2 DEF Idle
  <2>3. CASE /\ rotation' = [rotation EXCEPT ![s].km_retries = @ + 1]
             /\ channel' = [channel EXCEPT ![p] = Append(@, KmControl("KMREQ", r.pending_km))]
    <3>1. /\ rotation'[s] = Fields(r.packets_on_key, r.rekey_pending, r.pending_km,
                                   r.km_retries + 1, r.next_key_ready, r.generated)
          /\ rotation'[p] = rotation[p]
      BY <1>1, <1>3, <1>4, <2>3, ResentIs
    <3>2. /\ channel'[p] = Append(channel[p], KmControl("KMREQ", r.pending_km))
          /\ channel'[s] = channel[s]
      BY <1>1, <1>4, <2>3
    <3>3. OneWay(s, slots[s], rotation'[s], unacked[s], slots[p], channel'[p], channel'[s])
      BY <1>3, <1>5, <2>1, <3>1, <3>2, RepeatKeeps
    <3> QED
      BY <1>5, <2>1, <3>1, <3>3 DEF Idle
  <2> QED
    BY <1>9, <2>1, <2>2, <2>3 DEF ResendPendingKm, p
<1>10. ASSUME NEW e \in Ends, OnKmReq(e)
       PROVE  Kept
  <2> DEFINE m == Head(channel[p])
  <2>1. e # s
    <3> SUFFICES ASSUME e = s PROVE FALSE
      OBVIOUS
    <3>1. channel[s] # <<>> /\ Head(channel[s]).subtype = "KMREQ"
      BY <1>10 DEF OnKmReq
    <3>2. Head(channel[s]) = channel[s][1] /\ 1 \in 1 .. Len(channel[s])
      BY <1>3, <3>1, TailProperties, SMT
    <3> QED
      BY <1>5, <3>1, <3>2 DEF OneWay, InOrder
  <2>2. e = p
    BY <1>1, <2>1
  <2>3. /\ channel[p] # <<>>
        /\ slots'[p] = Install(slots[p], m.km.flags, m.km.key) /\ slots'[s] = slots[s]
        /\ channel'[p] = Tail(channel[p])
        /\ channel'[s] = Append(channel[s], KmControl("KMRSP", m.km))
        /\ UNCHANGED <<rotation, unacked>>
    BY <1>1, <1>4, <1>10, <2>2 DEF OnKmReq
  <2> HIDE DEF m
  <2>4. OneWay(s, slots'[s], rotation'[s], unacked'[s], slots'[p], channel'[p], channel'[s])
    BY <1>3, <1>5, <2>3, InstallKeeps DEF m
  <2> QED
    BY <1>5, <2>3, <2>4 DEF Idle
<1>11. ASSUME NEW e \in Ends, OnKmRsp(e)
       PROVE  Kept
  <2> DEFINE m == Head(channel[s])
  <2>1. e # p
    <3> SUFFICES ASSUME e = p PROVE FALSE
      OBVIOUS
    <3>1. channel[p] # <<>> /\ Head(channel[p]).subtype = "KMRSP"
      BY <1>11 DEF OnKmRsp
    <3>2. Head(channel[p]) = channel[p][1] /\ 1 \in 1 .. Len(channel[p])
      BY <1>3, <3>1, TailProperties, SMT
    <3> QED
      BY <1>5, <3>1, <3>2 DEF OneWay, InOrder
  <2>2. e = s
    BY <1>1, <2>1
  <2>3. /\ channel[s] # <<>>
        /\ rotation'[s] = (IF rotation[s].pending_km = m.km THEN Confirmed(rotation[s])
                           ELSE rotation[s])
        /\ rotation'[p] = rotation[p]
        /\ channel'[s] = Tail(channel[s]) /\ channel'[p] = channel[p]
        /\ UNCHANGED <<slots, unacked>>
    BY <1>1, <1>4, <1>11, <2>2 DEF OnKmRsp
  <2>4. m = Head(channel[s])
    OBVIOUS
  <2> HIDE DEF m
  <2>5. OneWay(s, slots[s], rotation'[s], unacked[s], slots[p], channel[p], Tail(channel[s]))
    <3>1. /\ channel[s] # <<>>
          /\ rotation'[s] = IF rotation[s].pending_km = m.km THEN Confirmed(rotation[s])
                            ELSE rotation[s]
      BY <2>3
    <3> QED
      BY <1>3, <1>5, <2>4, <3>1, ConfirmKeeps
  <2> QED
    BY <1>5, <2>3, <2>5 DEF Idle
<1>12. ASSUME NEW e \in Ends, Release(e)
       PROVE  Kept
  <2>1. e = s /\ unacked[s] # <<>>
    BY <1>1, <1>5, <1>12 DEF Release, Idle
  <2>2. /\ unacked'[s] = Tail(unacked[s]) /\ unacked'[p] = unacked[p]
        /\ UNCHANGED <<slots, rotation, channel>>
    BY <1>1, <1>4, <1>12, <2>1 DEF Release
  <2>3. OneWay(s, slots[s], rotation[s], Tail(unacked[s]), slots[p], channel[p], channel[s])
    BY <1>3, <1>5, <2>1, ReleaseKeeps
  <2> QED
    BY <1>5, <2>2, <2>3 DEF Idle
<1>13. ASSUME NEW e \in Ends, Lose(e)
       PROVE  Kept
  <2>1. PICK i \in 1 .. Len(channel[e]) : channel' = [channel EXCEPT ![e] = LeaveOut(@, i)]
    BY <1>13 DEF Lose
  <2>2. channel[e] \in Seq(KmPacket) /\ Len(channel[e]) \in Nat
    BY <1>4, SMT
  <2>3. Without(channel[e], LeaveOut(channel[e], i))
    BY <2>2, LeaveOutWithout
  <2>4. UNCHANGED <<slots, rotation, unacked>>
    BY <1>13 DEF Lose
  <2>5. CASE e = s
    <3>1. channel'[s] = LeaveOut(channel[s], i) /\ channel'[p] = channel[p]
      BY <1>1, <1>4, <2>1, <2>5
    <3>2. OneWay(s, slots[s], rotation[s], unacked[s], slots[p], channel[p], channel'[s])
      BY <1>5, <2>3, <2>5, <3>1, LossKeeps
    <3> QED
      BY <1>5, <2>4, <3>1, <3>2 DEF Idle
  <2>6. CASE e = p
    <3>1. channel'[p] = LeaveOut(channel[p], i) /\ channel'[s] = channel[s]
      BY <1>1, <1>4, <2>1, <2>6
    <3>2. OneWay(s, slots[s], rotation[s], unacked[s], slots[p], channel'[p], channel[s])
      BY <1>5, <2>3, <2>6, <3>1, LossKeeps
    <3> QED
      BY <1>5, <2>4, <3>1, <3>2 DEF Idle
  <2> QED
    BY <1>1, <2>5, <2>6
<1> QED
  BY <1>6, <1>7, <1>8, <1>9, <1>10, <1>11, <1>12, <1>13 DEF Next, End

(* "the original key flag selects a key the receiver still holds - both    *)
(* slots survive a rotation" (arq.rs, retransmit_range), for every refresh *)
(* rate, number of retries, of lost messages and of keys: when one end     *)
(* sends and its window is no larger than the announce point, the peer can *)
(* decrypt every packet in its send buffer, in every reachable state.      *)
THEOREM OneWayDecryptable ==
    ASSUME NEW s \in Ends, Senders = {s}, Window <= AnnounceAt
    PROVE  Spec => []BufferedDecryptable
<1>1. Init => IInv(s)
  BY OneWayInit
<1>2. IInv(s) /\ [Next]_vars => IInv(s)'
  BY OneWayNext
<1>3. IInv(s) => BufferedDecryptable
  <2> SUFFICES ASSUME IInv(s), NEW e \in Ends, NEW i \in 1 .. Len(unacked[e])
               PROVE  slots[Peer(e)].key[unacked[e][i].flag] = unacked[e][i].key
    BY DEF BufferedDecryptable
  <2>1. e = s
    BY EndsFacts, SMT DEF IInv, Idle
  <2> QED
    BY <2>1 DEF IInv, OneWay, BufferSettled, KeysSettled, Settled
<1> QED
  BY <1>1, <1>2, <1>3, PTL DEF Spec
=============================================================================
