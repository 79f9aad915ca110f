------------------------------- MODULE Rekey --------------------------------
(***************************************************************************)
(* Rotation of the Stream Encrypting Key (connection/rekey.rs and the key  *)
(* slots of crypto/mod.rs) between the two ends of a connection.           *)
(*                                                                         *)
(* A key is <<end, n>>, the nth that end's driver generated; the salt, the *)
(* passphrase and the wrapping are the same throughout and are left out.   *)
(* A data packet is the slot flag it is stamped with and the key it was    *)
(* encrypted with.  Its journey is left out: what matters is whether the   *)
(* peer could decrypt it if it, or a retransmission, arrived now.          *)
(***************************************************************************)
EXTENDS Integers, Sequences

CONSTANTS Senders,           \* the ends whose applications send
          KmRefreshRate,     \* config.km_refresh_rate, 0 for the default
          KmRefreshDefault,
          MaxKmRetries,      \* MAX_KM_RETRIES
          Window,            \* most packets in a send buffer
          MaxKeys,           \* bound: keys an end generates
          MaxInFlight,       \* bound: messages in flight when one is re-announced
          MaxLoss            \* bound: messages lost

Ends == {"caller", "acceptor"}
Peer(e) == IF e = "caller" THEN "acceptor" ELSE "caller"

ASSUME RekeyAssumption ==
    /\ Senders \subseteq Ends
    /\ {KmRefreshRate, MaxKmRetries, MaxKeys, MaxInFlight, MaxLoss} \subseteq Nat
    /\ {KmRefreshDefault, Window} \subseteq Nat \ {0}

VARIABLES slots,     \* slots[e]: the even and odd keys and which one is active
          rotation,  \* rotation[e]: the schedule's fields of the Connection
          unacked,   \* unacked[e]: the packets in e's send buffer
          channel,   \* channel[e]: Key Material messages on their way to e
          lost

vars == <<slots, rotation, unacked, channel, lost>>

HandshakeKey == <<"handshake", 0>>
NoKey == <<"none", 0>>
Keys == {HandshakeKey} \cup (Ends \X (1 .. MaxKeys))
Flags == {"Even", "Odd"}

Refresh == IF KmRefreshRate = 0 THEN KmRefreshDefault ELSE KmRefreshRate
Preannounce == IF Refresh \div 4 > 1 THEN Refresh \div 4 ELSE 1
AnnounceAt == IF Refresh > Preannounce THEN Refresh - Preannounce ELSE 0

\* packets_on_key is only ever compared with these two, so it stops counting at
\* Refresh.
Count(n) == IF n < Refresh THEN n + 1 ELSE Refresh

NextFlags(crypto) == IF crypto.active = "Odd" THEN "Even" ELSE "Odd"
Install(crypto, flags, key) == [crypto EXCEPT !.key[flags] = key]
Activate(crypto, flags) == [crypto EXCEPT !.active = flags]
ActiveKey(crypto) == crypto.key[crypto.active]
Encrypt(crypto) == [flag |-> crypto.active, key |-> ActiveKey(crypto)]

\* km_control(): a Key Material message, in a KMREQ or a KMRSP.
Km(flags, key) == [flags |-> flags, key |-> key]
KmControl(subtype, km) == [subtype |-> subtype, km |-> km]
NoKm == Km("none", NoKey)

Init ==
    /\ slots = [e \in Ends |-> [key |-> [Even |-> HandshakeKey, Odd |-> NoKey],
                                active |-> "Even"]]
    /\ rotation = [e \in Ends |-> [packets_on_key |-> 0, rekey_pending |-> FALSE,
                                   pending_km |-> NoKm, km_retries |-> 0,
                                   next_key_ready |-> FALSE, generated |-> 0]]
    /\ unacked = [e \in Ends |-> <<>>]
    /\ channel = [e \in Ends |-> <<>>]
    /\ lost = 0
-----------------------------------------------------------------------------
\* The refresh point, once the peer has confirmed the next key.
Rotate(r) == r.next_key_ready /\ r.packets_on_key >= Refresh

SwitchedCrypto(crypto, r) ==
    IF Rotate(r) THEN Activate(crypto, NextFlags(crypto)) ELSE crypto
Switched(r) ==
    IF Rotate(r) THEN [r EXCEPT !.packets_on_key = 0, !.next_key_ready = FALSE] ELSE r
Counted(r) == [Switched(r) EXCEPT !.packets_on_key = Count(@)]

\* Whether to ask for the next key: none is asked for, announced or ready.
Announce(r) ==
    /\ ~ r.rekey_pending /\ ~ r.next_key_ready
    /\ r.pending_km = NoKm
    /\ r.packets_on_key >= AnnounceAt

\* account_key_and_maybe_rotate(): what it leaves of the schedule.
Accounted(r) == [Counted(r) EXCEPT !.rekey_pending = @ \/ Announce(Counted(r))]

\* send_data(): account_key_and_maybe_rotate(), and then the packet is encrypted
\* and kept for retransmission.
SendData(e) ==
    LET crypto == SwitchedCrypto(slots[e], rotation[e])
    IN  /\ e \in Senders
        /\ Len(unacked[e]) < Window
        /\ slots' = [slots EXCEPT ![e] = crypto]
        /\ rotation' = [rotation EXCEPT ![e] = Accounted(@)]
        /\ unacked' = [unacked EXCEPT ![e] = Append(@, Encrypt(crypto))]
        /\ UNCHANGED <<channel, lost>>

Announced(r, km) ==
    [r EXCEPT !.rekey_pending = FALSE, !.pending_km = km, !.km_retries = 0, !.generated = @ + 1]

\* provide_rekey(), which the driver calls with a fresh key on KeyRefreshNeeded.
ProvideRekey(e) ==
    LET r == rotation[e]
        key == <<e, r.generated + 1>>
        km == Km(NextFlags(slots[e]), key)
    IN  /\ r.rekey_pending
        /\ r.generated < MaxKeys
        /\ slots' = [slots EXCEPT ![e] = Install(@, km.flags, key)]
        /\ rotation' = [rotation EXCEPT ![e] = Announced(@, km)]
        /\ channel' = [channel EXCEPT ![Peer(e)] = Append(@, KmControl("KMREQ", km))]
        /\ UNCHANGED <<unacked, lost>>

\* Mutant: never gives up.
ResendPendingKmForever(e) ==
    LET r == rotation[e]
    IN  /\ r.pending_km # NoKm
        /\ Len(channel[Peer(e)]) < MaxInFlight
        /\ rotation' = [rotation EXCEPT ![e].km_retries = @ + 1]
        /\ channel' = [channel EXCEPT ![Peer(e)] = Append(@, KmControl("KMREQ", r.pending_km))]
        /\ UNCHANGED <<slots, unacked, lost>>

\* Mutant: gives up without forgetting the key, and so never asks for another.
ResendPendingKmStuck(e) ==
    LET r == rotation[e]
    IN  /\ r.pending_km # NoKm
        /\ r.km_retries < MaxKmRetries
        /\ Len(channel[Peer(e)]) < MaxInFlight
        /\ rotation' = [rotation EXCEPT ![e].km_retries = @ + 1]
        /\ channel' = [channel EXCEPT ![Peer(e)] = Append(@, KmControl("KMREQ", r.pending_km))]
        /\ UNCHANGED <<slots, unacked, lost>>

\* resend_pending_km(), from the keepalive timer.
ResendPendingKm(e) ==
    LET r == rotation[e]
    IN  /\ r.pending_km # NoKm
        /\ \/ /\ r.km_retries >= MaxKmRetries
              /\ rotation' = [rotation EXCEPT ![e].pending_km = NoKm]
              /\ UNCHANGED channel
           \/ /\ r.km_retries < MaxKmRetries
              /\ Len(channel[Peer(e)]) < MaxInFlight
              /\ rotation' = [rotation EXCEPT ![e].km_retries = @ + 1]
              /\ channel' = [channel EXCEPT ![Peer(e)] =
                               Append(@, KmControl("KMREQ", r.pending_km))]
        /\ UNCHANGED <<slots, unacked, lost>>

\* Messages arrive in order: the network loses them but one never overtakes another.
OnKmReq(e) ==
    LET m == Head(channel[e])
    IN  /\ channel[e] # <<>>
        /\ m.subtype = "KMREQ"
        /\ slots' = [slots EXCEPT ![e] = Install(@, m.km.flags, m.km.key)]
        /\ channel' = [channel EXCEPT ![e] = Tail(@),
                                      ![Peer(e)] = Append(@, KmControl("KMRSP", m.km))]
        /\ UNCHANGED <<rotation, unacked, lost>>

Confirmed(r) == [r EXCEPT !.pending_km = NoKm, !.next_key_ready = TRUE]

\* Mutant: any KMRSP confirms whatever is pending.
OnKmRspAny(e) ==
    LET m == Head(channel[e])
    IN  /\ channel[e] # <<>>
        /\ m.subtype = "KMRSP"
        /\ rotation' = IF rotation[e].pending_km # NoKm
                       THEN [rotation EXCEPT ![e] = Confirmed(@)]
                       ELSE rotation
        /\ channel' = [channel EXCEPT ![e] = Tail(@)]
        /\ UNCHANGED <<slots, unacked, lost>>

\* A KMRSP confirms the key it echoes, if that is the pending one.
OnKmRsp(e) ==
    LET m == Head(channel[e])
    IN  /\ channel[e] # <<>>
        /\ m.subtype = "KMRSP"
        /\ rotation' = IF rotation[e].pending_km = m.km
                       THEN [rotation EXCEPT ![e] = Confirmed(@)]
                       ELSE rotation
        /\ channel' = [channel EXCEPT ![e] = Tail(@)]
        /\ UNCHANGED <<slots, unacked, lost>>

\* The oldest packet is acknowledged, or shed as too late.
Release(e) ==
    /\ unacked[e] # <<>>
    /\ unacked' = [unacked EXCEPT ![e] = Tail(@)]
    /\ UNCHANGED <<slots, rotation, channel, lost>>

\* What is left of a sequence without its i-th element.
LeaveOut(s, i) == SubSeq(s, 1, i - 1) \o SubSeq(s, i + 1, Len(s))

Lose(e) ==
    /\ lost < MaxLoss
    /\ \E i \in 1 .. Len(channel[e]) : channel' = [channel EXCEPT ![e] = LeaveOut(@, i)]
    /\ lost' = lost + 1
    /\ UNCHANGED <<slots, rotation, unacked>>

End(e) ==
    \/ SendData(e)
    \/ ProvideRekey(e)
    \/ ResendPendingKm(e)
    \/ OnKmReq(e)
    \/ OnKmRsp(e)
    \/ Release(e)

Next == \E e \in Ends : End(e) \/ Lose(e)

Spec == Init /\ [][Next]_vars

\* The application keeps sending, the driver answers KeyRefreshNeeded at once,
\* the keepalive timer is re-armed on every expiry, and messages and
\* acknowledgements that are not lost arrive.
Fairness ==
    \A e \in Ends :
       /\ WF_vars(SendData(e))
       /\ WF_vars(ProvideRekey(e))
       /\ WF_vars(ResendPendingKm(e))
       /\ WF_vars(OnKmReq(e))
       /\ WF_vars(OnKmRsp(e))
       /\ WF_vars(Release(e))

FairSpec == Spec /\ Fairness
-----------------------------------------------------------------------------
KmMessage == [flags : Flags, key : Keys]
KmPacket == [subtype : {"KMREQ", "KMRSP"}, km : KmMessage]
DataPacket == [flag : Flags, key : Keys]
SessionCrypto == [key : [Flags -> Keys \cup {NoKey}], active : Flags]
Rotation ==
    [packets_on_key : 0 .. Refresh, rekey_pending : BOOLEAN,
     pending_km : KmMessage \cup {NoKm}, km_retries : 0 .. MaxKmRetries,
     next_key_ready : BOOLEAN, generated : 0 .. MaxKeys]

TypeOK ==
    /\ slots \in [Ends -> SessionCrypto]
    /\ rotation \in [Ends -> Rotation]
    /\ unacked \in [Ends -> Seq(DataPacket)]
    /\ channel \in [Ends -> Seq(KmPacket)]
    /\ lost \in 0 .. MaxLoss

(* "the original key flag selects a key the receiver still holds - both    *)
(* slots survive a rotation" (arq.rs, retransmit_range): every packet in a *)
(* send buffer, sent before or after a rotation, would be decrypted with   *)
(* the key that encrypted it if it were to arrive now.                     *)
BufferedDecryptable ==
    \A e \in Ends : \A i \in 1 .. Len(unacked[e]) :
       slots[Peer(e)].key[unacked[e][i].flag] = unacked[e][i].key

(* "a data packet's even/odd flag selects the key, so the receiver must    *)
(* keep both slots" (crypto/mod.rs): the packet sent last is decrypted     *)
(* with its own key, whatever the peer's own rotation is doing.            *)
FreshDecryptable ==
    \A e \in Ends :
       unacked[e] # <<>> =>
          LET p == unacked[e][Len(unacked[e])] IN slots[Peer(e)].key[p.flag] = p.key

(* "The rotation must eventually complete" (tests/key_rotation.rs): an end *)
(* that goes on sending leaves a key behind, though KMREQs and KMRSPs are  *)
(* lost and an announced key is given up, as long as it has keys to try.   *)
EveryKeyIsLeft ==
    \A e \in Senders : \A k \in Keys :
       ActiveKey(slots[e]) = k ~> ActiveKey(slots[e]) # k \/ rotation[e].generated = MaxKeys
=============================================================================
