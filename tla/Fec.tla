-------------------------------- MODULE Fec ---------------------------------
(***************************************************************************)
(* Row forward error correction (srt-protocol/src/fec.rs): the encoder     *)
(* that XORs every group_size packets into a parity packet, and the        *)
(* receiver that rebuilds the one packet a group is missing.               *)
(*                                                                         *)
(* What is XORed of a packet is a record [length, flags, timestamp,        *)
(* payload] of numbers.  A payload is the number whose i-th bit is its     *)
(* i-th byte, so that zero-padding changes nothing and cutting it to n     *)
(* bytes is % 2^n.                                                         *)
(***************************************************************************)
EXTENDS SeqNum, FiniteSets, Bitwise

CONSTANTS GROUP_SIZE,         \* config.fec_group_size, at least 2
          PAYLOAD_SIZE,       \* fec_clip
          RCV_HISTORY_GROUPS

ASSUME FecAssumption ==
    /\ {GROUP_SIZE, RCV_HISTORY_GROUPS} \subseteq Nat \ {0}
    /\ GROUP_SIZE >= 2
    /\ PAYLOAD_SIZE \in Nat

ROW_INDEX == -1

EmptyClip == [length |-> 0, flags |-> 0, timestamp |-> 0, payload |-> 0]

\* Mutant: forgets the flags.
AddNoFlags(clip, d) ==
    [length    |-> clip.length ^^ d.length,
     flags     |-> clip.flags,
     timestamp |-> clip.timestamp ^^ d.timestamp,
     payload   |-> clip.payload ^^ (d.payload % 2^PAYLOAD_SIZE)]

\* Clip::add().
Add(clip, d) ==
    [length    |-> clip.length ^^ d.length,
     flags     |-> clip.flags ^^ d.flags,
     timestamp |-> clip.timestamp ^^ d.timestamp,
     payload   |-> clip.payload ^^ (d.payload % 2^PAYLOAD_SIZE)]

\* FecEncoder.
NewEncoder == [clip |-> EmptyClip, collected |-> 0]

GroupIsFull(e) == e.collected + 1 = GROUP_SIZE

Parity(e, d) == Add(e.clip, d)

Feed(e, d) ==
    IF GroupIsFull(e) THEN NewEncoder
    ELSE [clip |-> Add(e.clip, d), collected |-> e.collected + 1]

\* FecParity::encode() and decode_parity(): the timestamp rides in the header of
\* the packet that carries the rest.
EncodeParity(parity) ==
    [index  |-> ROW_INDEX, flag_clip |-> parity.flags, length_clip |-> parity.length,
     payload_clip |-> parity.payload]

DecodeParity(wire, timestamp_clip) ==
    [length |-> wire.length_clip, flags |-> wire.flag_clip,
     timestamp |-> timestamp_clip, payload |-> wire.payload_clip]
-----------------------------------------------------------------------------
(* FecReceiver: [data, parities], two maps, from a sequence number to what *)
(* is XORed of the packet and from the base of a group to its parity.      *)

NewFecReceiver == [data |-> <<>>, parities |-> <<>>]

Put(map, key, value) ==
    [k \in DOMAIN map \cup {key} |-> IF k = key THEN value ELSE map[k]]

Retain(map, keys) == [k \in DOMAIN map \cap keys |-> map[k]]

Group(base) == {SeqAdd(base, i) : i \in 0 .. GROUP_SIZE - 1}

\* The bases of the groups that may hold seq.
Bases(seq) == {SeqAdd(seq, -i) : i \in 0 .. GROUP_SIZE - 1}

Missing(r, base) == Group(base) \ DOMAIN r.data

\* recover_row(): the parity without the members that arrived.
RecoverRow(r, base) ==
    LET members == Group(base) \cap DOMAIN r.data
        left[s \in SUBSET members] ==
            IF s = {} THEN r.parities[base]
            ELSE LET seq == CHOOSE seq \in s : TRUE
                 IN  Add(left[s \ {seq}], r.data[seq])
        clip == left[members]
    IN  [clip EXCEPT !.payload = @ % 2^clip.length]

\* try_group() has something to rebuild.
Solvable(r, base) == base \in DOMAIN r.parities /\ Cardinality(Missing(r, base)) = 1

\* try_group() on each of the bases, which are those of at most one group of the
\* sender's.  A rebuilt packet is a pair of its number and its fields.
Rebuilt(r, bases) ==
    {<<CHOOSE seq \in Missing(r, base) : TRUE, RecoverRow(r, base)>> :
       base \in {b \in bases : Solvable(r, b)}}

TryGroups(r, bases) ==
    LET solved == {b \in bases : Solvable(r, b)}
        new    == Rebuilt(r, bases)
    IN  [data |-> [k \in DOMAIN r.data \cup {p[1] : p \in new} |->
                     IF k \in DOMAIN r.data THEN r.data[k]
                     ELSE (CHOOSE p \in new : p[1] = k)[2]],
         parities |-> Retain(r.parities, SeqNumber \ solved)]

\* Mutant: evicts the members of a group before its parity.
EvictData(r, newest) ==
    LET window == GROUP_SIZE * RCV_HISTORY_GROUPS
    IN  [data |-> Retain(r.data, {s \in SeqNumber : OffsetFrom(newest, s) < window - 1}),
         parities |-> Retain(r.parities, {s \in SeqNumber : OffsetFrom(newest, s) < window})]

Evict(r, newest) ==
    LET kept == {s \in SeqNumber : OffsetFrom(newest, s) < GROUP_SIZE * RCV_HISTORY_GROUPS}
    IN  [data |-> Retain(r.data, kept), parities |-> Retain(r.parities, kept)]

\* observe_data() and observe_parity(): the packets they rebuild, and the receiver
\* they leave.
WithData(r, seq, d) == [r EXCEPT !.data = Put(@, seq, d)]

DataRebuilds(r, seq, d) == Rebuilt(WithData(r, seq, d), Bases(seq))

ObserveData(r, seq, d) == Evict(TryGroups(WithData(r, seq, d), Bases(seq)), seq)

Base(fec_seq) == SeqAdd(fec_seq, -(GROUP_SIZE - 1))

WithParity(r, fec_seq, parity) == [r EXCEPT !.parities = Put(@, Base(fec_seq), parity)]

ParityRebuilds(r, fec_seq, parity) ==
    Rebuilt(WithParity(r, fec_seq, parity), {Base(fec_seq)})

ObserveParity(r, fec_seq, parity) ==
    Evict(TryGroups(WithParity(r, fec_seq, parity), {Base(fec_seq)}), fec_seq)
=============================================================================
