---------------------------- MODULE HandshakeWire ---------------------------
(***************************************************************************)
(* The handshakes of module Endpoint on the wire: what connection/setup.rs,*)
(* Connection::accept() and listener.rs put in a Handshake, its encoding   *)
(* (handshake.rs and crypto/key_material.rs), and what the other end reads *)
(* from it.                                                                *)
(*                                                                         *)
(* A handshake is encoded as a sequence of 32-bit words.  A word is its    *)
(* value, or a tuple of the fields or bytes packed in it.  The MTU, the    *)
(* flow window and the peer's IP address, which nothing here reads, are    *)
(* left out.  An attempt's socket id and initial sequence number are the   *)
(* attempt, as in Endpoint; its Stream ID is a sequence of bytes or None.  *)
(***************************************************************************)
EXTENDS Endpoint

CONSTANT StreamId

ASSUME HandshakeWireAssumption ==
    StreamId \in [Attempts -> Seq(1 .. 255) \cup {None}]

HS_VERSION_UDT == 4
HS_VERSION_SRT == 5
SRT_MAGIC == 18967
EXT_HSREQ == 1
EXT_HSRSP == 2
EXT_KMREQ == 3
EXT_KMRSP == 4
EXT_SID == 5

\* HandshakeType.  U32_MAX stands for 0xFFFFFFFF; only its order matters.
U32_MAX == 1000000
INDUCTION == 1
CONCLUSION == U32_MAX
DONE == U32_MAX - 2
REJECTION_BASE == 1000

\* RejectReason::code().  The application's is any code of 2000 or more.
Code == [Backlog |-> 5, BadSecret |-> 10, Unsecure |-> 11, Application |-> 2000]

\* HandshakeType::reject_reason().
IsRejection(handshake_type) == handshake_type \in REJECTION_BASE .. DONE - 1
ReasonOf(handshake_type) ==
    CHOOSE r \in DOMAIN Code : Code[r] = handshake_type - REJECTION_BASE

Extension(ext_type, content) == [ext_type |-> ext_type, content |-> content]
-----------------------------------------------------------------------------
(* Key Material: the message that wraps one AES-128 key under the          *)
(* passphrase, with an integrity check of two words.                       *)

SIGN == 8233
SALT_WORDS == 4
ICV_WORDS == 2
KeyCount(kk) == IF kk = 3 THEN 2 ELSE 1

EncodeKeyMaterial(passphrase) ==
    <<<<1, 2, SIGN, 1>>, 0, <<2, 0, 2, 0>>, <<0, SALT_WORDS, 4>>>>
      \o [i \in 1 .. SALT_WORDS |-> "salt"]
      \o [i \in 1 .. KeyCount(1) * 4 + ICV_WORDS |-> passphrase]

\* KeyMaterial::decode(), to the passphrase that unwraps it, or None.
DecodeKeyMaterial(words) ==
    LET kk == words[1][4]  key_length == words[4][3]
    IN  IF /\ Len(words) >= 4
           /\ SubSeq(words[1], 1, 3) = <<1, 2, SIGN>>
           /\ kk \in 1 .. 3
           /\ words[3][1] \in {2, 4}
           /\ words[4][2] = SALT_WORDS
           /\ key_length \in {4, 6, 8}
           /\ Len(words) >= 4 + SALT_WORDS + KeyCount(kk) * key_length + ICV_WORDS
        THEN words[4 + SALT_WORDS + 1] ELSE None
-----------------------------------------------------------------------------
(* Building a handshake.                                                   *)

\* srt_handshake_ext(): both TSBPD delays are the latency.
SrtHandshakeExt(latency) == <<66820, 59, <<latency, latency>>>>

\* Mutant: leaves the bytes of a block in their order.
EncodeStreamIdUnreversed(s) ==
    [w \in 1 .. (Len(s) + 3) \div 4 |->
       [i \in 1 .. 4 |-> IF 4 * w - 4 + i > Len(s) THEN 0 ELSE s[4 * w - 4 + i]]]

\* encode_stream_id(): padded to whole words, each word's bytes reversed.
EncodeStreamId(s) ==
    [w \in 1 .. (Len(s) + 3) \div 4 |->
       [i \in 1 .. 4 |-> IF 4 * w - i + 1 > Len(s) THEN 0 ELSE s[4 * w - i + 1]]]

StreamIdExtension(a) ==
    IF StreamId[a] = None THEN <<>>
    ELSE <<Extension(EXT_SID, EncodeStreamId(StreamId[a]))>>

KeyExtension(ext_type, passphrase) ==
    IF passphrase = NoPassphrase THEN <<>>
    ELSE <<Extension(ext_type, EncodeKeyMaterial(passphrase))>>

Handshake(version, extension_field, initial_seq, handshake_type, id, cookie, extensions) ==
    [version |-> version, encryption |-> 0, extension_field |-> extension_field,
     initial_seq |-> initial_seq, handshake_type |-> handshake_type,
     srt_socket_id |-> id, syn_cookie |-> cookie, extensions |-> extensions]

\* EXT_FLAG_HSREQ, and EXT_FLAG_KMREQ with a key.
ExtFlags(passphrase) == IF passphrase = NoPassphrase THEN 1 ELSE 3

\* EncryptionField, of AES-128 with a key.
Encrypted(hs, passphrase) ==
    [hs EXCEPT !.encryption = IF passphrase = NoPassphrase THEN 0 ELSE 2]

\* send_induction() and send_conclusion().
CallerHandshake(m) ==
    LET a == m.attempt
    IN  IF m.type = "Induction"
        THEN Handshake(HS_VERSION_UDT, 2, a, INDUCTION, a, 0, <<>>)
        ELSE Encrypted(
               Handshake(HS_VERSION_SRT,
                  ExtFlags(m.km) + IF StreamId[a] = None THEN 0 ELSE 4,
                  a, CONCLUSION, a, m.cookie,
                  <<Extension(EXT_HSREQ, SrtHandshakeExt(m.latency))>>
                    \o StreamIdExtension(a) \o KeyExtension(EXT_KMREQ, m.km)),
               m.km)

\* on_induction() and reject() of the listener, and accept(), which echoes the
\* caller's Key Material.
AnswerHandshake(m) ==
    CASE m.type = "InductionResponse" ->
           Handshake(HS_VERSION_SRT, SRT_MAGIC, 0, INDUCTION, 0, m.cookie, <<>>)
      [] m.type = "Rejection" ->
           Handshake(HS_VERSION_SRT, 0, 0, REJECTION_BASE + Code[m.reason], 0, 0, <<>>)
      [] m.type = "ConclusionResponse" ->
           Encrypted(
             Handshake(HS_VERSION_SRT, ExtFlags(ListenerPassphrase), m.attempt, CONCLUSION,
                m.id, 0,
                <<Extension(EXT_HSRSP, SrtHandshakeExt(m.latency))>>
                  \o KeyExtension(EXT_KMRSP, ListenerPassphrase)),
             ListenerPassphrase)
-----------------------------------------------------------------------------
(* Encoding and decoding.                                                  *)

BASE_WORDS == 6

EncodeExtension(e) == <<<<e.ext_type, Len(e.content)>>>> \o e.content

EncodeExtensions(extensions) ==
    LET upTo[i \in 0 .. Len(extensions)] ==
          IF i = 0 THEN <<>> ELSE upTo[i - 1] \o EncodeExtension(extensions[i])
    IN  upTo[Len(extensions)]

EncodeHandshake(hs) ==
    <<hs.version, <<hs.encryption, hs.extension_field>>, hs.initial_seq,
      hs.handshake_type, hs.srt_socket_id, hs.syn_cookie>>
      \o EncodeExtensions(hs.extensions)

\* HandshakeExtension::decode(): a handshake extension has a fixed size.
WellFormed(e) == e.ext_type \in {EXT_HSREQ, EXT_HSRSP} => Len(e.content) = 3

\* One turn of the loop of Handshake::decode() over the extensions, from the word
\* `at`; one that claims more than is left, or of the wrong size, spoils the whole
\* packet.
DecodeExtension(words, r) ==
    LET length == words[r.at][2]
        e == Extension(words[r.at][1], SubSeq(words, r.at + 1, r.at + length))
    IN  IF r.at > Len(words) \/ r.malformed THEN r
        ELSE IF r.at + length > Len(words) \/ ~ WellFormed(e)
        THEN [r EXCEPT !.malformed = TRUE]
        ELSE [at |-> r.at + length + 1, extensions |-> Append(r.extensions, e),
              malformed |-> FALSE]

\* Every turn takes at least the word with the type and the length.
DecodeExtensions(words) ==
    LET turn[n \in 0 .. Len(words)] ==
          IF n = 0 THEN [at |-> 1, extensions |-> <<>>, malformed |-> FALSE]
          ELSE DecodeExtension(words, turn[n - 1])
    IN  turn[Len(words)]

\* A packet that decode() refuses is dropped.
Undecodable == [version |-> None]

\* Handshake::decode().
DecodeHandshake(words) ==
    LET decoded == DecodeExtensions(SubSeq(words, BASE_WORDS + 1, Len(words)))
    IN  IF \/ Len(words) < BASE_WORDS
           \/ words[2][1] \notin {0, 2, 3, 4}
           \/ decoded.malformed
        THEN Undecodable
        ELSE [version         |-> words[1],
              encryption      |-> words[2][1],
              extension_field |-> words[2][2],
              initial_seq     |-> words[3],
              handshake_type  |-> words[4],
              srt_socket_id   |-> words[5],
              syn_cookie      |-> words[6],
              extensions      |-> decoded.extensions]

\* decode_stream_id(): the blocks reversed, the padding trimmed.
DecodeStreamId(words) ==
    LET bytes == [i \in 1 .. 4 * Len(words) |->
                    words[(i + 3) \div 4][4 - ((i + 3) % 4)]]
        end == CHOOSE n \in 0 .. Len(bytes) :
                 /\ n # 0 => bytes[n] # 0
                 /\ \A i \in n + 1 .. Len(bytes) : bytes[i] = 0
    IN  SubSeq(bytes, 1, end)
-----------------------------------------------------------------------------
(* Reading a handshake.                                                    *)

\* extensions.iter().find_map(): the first extension of these types, if any.
Found(hs, ext_types) ==
    {i \in 1 .. Len(hs.extensions) : hs.extensions[i].ext_type \in ext_types}

Content(hs, ext_types) ==
    hs.extensions[CHOOSE i \in Found(hs, ext_types) :
                     \A j \in Found(hs, ext_types) : i <= j].content

\* negotiate().
ReportedLatency(hs) ==
    IF Found(hs, {EXT_HSREQ, EXT_HSRSP}) = {} THEN 0
    ELSE Content(hs, {EXT_HSREQ, EXT_HSRSP})[3][1]

ReportedKey(hs) ==
    IF Found(hs, {EXT_KMREQ}) = {} THEN NoPassphrase
    ELSE DecodeKeyMaterial(Content(hs, {EXT_KMREQ}))

\* The dispatch of Listener::feed_recv_buf(), and what the handlers then read.
ListenerReads(hs) ==
    CASE hs = Undecodable -> None
      [] hs.handshake_type = INDUCTION -> Induction(hs.srt_socket_id)
      [] hs.handshake_type = CONCLUSION ->
           [type |-> "Conclusion", attempt |-> hs.initial_seq, cookie |-> hs.syn_cookie,
            latency |-> ReportedLatency(hs), km |-> ReportedKey(hs)]
      [] OTHER -> None

ReadsStreamId(hs) ==
    IF Found(hs, {EXT_SID}) = {} THEN None ELSE DecodeStreamId(Content(hs, {EXT_SID}))

\* The dispatch of Connection::feed_recv_buf() before the connection is up, with
\* on_induction_response() and on_conclusion_response().
CallerReads(hs) ==
    CASE hs = Undecodable -> None
      [] IsRejection(hs.handshake_type) -> Rejection(ReasonOf(hs.handshake_type))
      [] /\ hs.handshake_type = INDUCTION
         /\ hs.version = HS_VERSION_SRT
         /\ hs.extension_field = SRT_MAGIC -> InductionResponse(hs.syn_cookie)
      [] hs.handshake_type = CONCLUSION /\ hs.version = HS_VERSION_SRT ->
           [type |-> "ConclusionResponse", id |-> hs.srt_socket_id,
            attempt |-> hs.initial_seq, latency |-> ReportedLatency(hs)]
      [] OTHER -> None

(* Every handshake in flight is understood as it was meant: the far end    *)
(* tells inductions, conclusions and the range of rejections apart, and    *)
(* reads back the cookie, the latency, the initial sequence number, the    *)
(* key and, padded and byte-swapped on the way, the Stream ID.             *)
HandshakesUnderstood ==
    /\ \A d \in to_listener :
          d.msg.type \in {"Induction", "Conclusion"} =>
             LET hs == DecodeHandshake(EncodeHandshake(CallerHandshake(d.msg)))
             IN  /\ ListenerReads(hs) = d.msg
                 /\ d.msg.type = "Conclusion" => ReadsStreamId(hs) = StreamId[d.msg.attempt]
    /\ \A d \in to_caller :
          d.msg.type \in {"InductionResponse", "ConclusionResponse", "Rejection"} =>
             CallerReads(DecodeHandshake(EncodeHandshake(AnswerHandshake(d.msg)))) = d.msg
=============================================================================
