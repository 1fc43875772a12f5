-------------------------------- MODULE Wire --------------------------------
(***************************************************************************)
(* Packets on the wire.  Over TCP (network/framing.py, connection.py) a    *)
(* packet is encoded without padding, framed behind a magic and a length,  *)
(* and written into a stream the reader sees cut anywhere; over BLE        *)
(* (ble/transport.py) it is padded and arrives whole.  A byte is a number; *)
(* multi-byte fields take one byte and the sizes are constants.            *)
(***************************************************************************)
EXTENDS Picking, SequencesExt

CONSTANTS
  WirePayloads,                       \* the payloads of packets
  WireForeign,                        \* byte sequences of another program
  WireMaxFrame,                       \* MAX_FRAME_SIZE
  WireBlocks, WireOverhead, WireMaxPad, \* BLOCK_SIZES, PADDING_OVERHEAD_ESTIMATE, MAX_PADDING_SIZE
  WireReadSize,                       \* bytes one read returns at most
  WireMaxSends                        \* bound: packets and foreign sequences sent

ASSUME WireAssumption ==
  /\ {WireMaxFrame, WireOverhead, WireMaxPad, WireReadSize, WireMaxSends} \subseteq Nat
  /\ WireBlocks \in Seq(Nat) /\ WireReadSize > 0
  /\ WirePayloads \subseteq Seq(Nat) /\ WireForeign \subseteq Seq(Nat)

Magic == 9
HeaderSize == 2
Version == 1
MessageTypes == {1, 2}
NoPacket == [type |-> 0, flags |-> 0, sender |-> 0, recipient |-> 0, payload |-> <<>>, signature |-> <<>>]

\* BitchatPacket.create: the flags are computed from what is present; bits
\* other than the two are carried along.
HasRecipient(flags) == flags % 2 = 1
HasSignature(flags) == (flags \div 2) % 2 = 1
WirePackets ==
  {[type |-> ty, flags |-> fl, sender |-> 3, recipient |-> IF HasRecipient(fl) THEN 4 ELSE 0,
    payload |-> pl, signature |-> IF HasSignature(fl) THEN <<5, 5>> ELSE <<>>] :
     ty \in MessageTypes, fl \in 0..3, pl \in WirePayloads}

VARIABLES
  wireMedium,            \* "tcp" or "ble"
  wireOpen,              \* is the connection up?
  stream,                \* bytes, or over BLE whole writes, on their way
  buffer,                \* StreamFramer._buffer
  frames,                \* the frames feed has extracted so far
  feeding,               \* is feed at work?
  sent, taken,           \* history: the packets sent and those delivered
  wireForeign,           \* history: did another program write into the stream?
  wireSends
wireVars == <<wireMedium, wireOpen, stream, buffer, frames, feeding, sent, taken, wireForeign, wireSends>>

WireBytes == Nat
\* What decode_packet returns: fields that agree with the flags.
PacketFields == [type : MessageTypes, flags : Nat, sender : Nat, recipient : Nat,
                 payload : Seq(WireBytes), signature : Seq(WireBytes)]
FieldsAgree(p) == /\ ~HasRecipient(p.flags) => p.recipient = 0
                  /\ Len(p.signature) = IF HasSignature(p.flags) THEN 2 ELSE 0
WireTypeOK ==
  /\ wireMedium \in {"tcp", "ble"} /\ {wireOpen, feeding, wireForeign} \subseteq BOOLEAN
  /\ buffer \in Seq(WireBytes) /\ frames \in Seq(Seq(WireBytes))
  /\ stream \in IF wireMedium = "tcp" THEN Seq(WireBytes) ELSE Seq(Seq(WireBytes))
  /\ sent \in Seq(WirePackets) /\ wireSends \in 0..WireMaxSends
  /\ taken \in Seq(PacketFields) /\ \A i \in DOMAIN taken : FieldsAgree(taken[i])

WireInit ==
  /\ wireMedium \in {"tcp", "ble"} /\ wireOpen = TRUE /\ stream = <<>> /\ buffer = <<>> /\ frames = <<>>
  /\ feeding = FALSE /\ sent = <<>> /\ taken = <<>> /\ wireForeign = FALSE /\ wireSends = 0

-----------------------------------------------------------------------------
\* encode_packet: header, sender, recipient, payload, signature.
Encode(p) ==
  <<Version, p.type, p.flags, Len(p.payload), p.sender>>
    \o (IF HasRecipient(p.flags) THEN <<p.recipient>> ELSE <<>>) \o p.payload \o p.signature

\* pad_packet_data: up to the next block, if the padding fits its length byte.
BlockFor(n) == IF \E i \in DOMAIN WireBlocks : n + WireOverhead <= WireBlocks[i]
               THEN WireBlocks[CHOOSE i \in DOMAIN WireBlocks :
                                 /\ n + WireOverhead <= WireBlocks[i]
                                 /\ \A j \in 1..(i - 1) : n + WireOverhead > WireBlocks[j]]
               ELSE n
PadNeeded(n) == IF BlockFor(n) - n > WireMaxPad THEN 0 ELSE BlockFor(n) - n
\* The filling is random; two fillings stand for all.
Padded(w, fill) ==
  IF PadNeeded(Len(w)) = 0 THEN w
  ELSE w \o [i \in 1..(PadNeeded(Len(w)) - 1) |-> fill] \o <<PadNeeded(Len(w))>>

\* decode_packet: NoPacket stands for its exceptions.
UnpaddedSize(w) ==
  5 + (IF HasRecipient(w[3]) THEN 1 ELSE 0) + w[4] + (IF HasSignature(w[3]) THEN 2 ELSE 0)
PaddingWrong(w, size) == Len(w) > size /\ (Len(w) - size > WireMaxPad \/ Last(w) # Len(w) - size)
Decode(w) ==
  IF Len(w) < 5 THEN NoPacket
  ELSE LET size == UnpaddedSize(w)
           at == IF HasRecipient(w[3]) THEN 6 ELSE 5
       IN  IF w[1] # Version \/ w[2] \notin MessageTypes \/ Len(w) < size \/ PaddingWrong(w, size)
           THEN NoPacket
           ELSE [type |-> w[2], flags |-> w[3], sender |-> w[5],
                 recipient |-> IF HasRecipient(w[3]) THEN w[6] ELSE 0,
                 payload |-> SubSeq(w, at + 1, at + w[4]),
                 signature |-> SubSeq(w, at + w[4] + 1, size)]
Accepted(ws) == {i \in DOMAIN ws : Decode(ws[i]) # NoPacket}
Delivered(ws) == Picked([i \in DOMAIN ws |-> Decode(ws[i])], Accepted(ws))

-----------------------------------------------------------------------------
\* encode_frame; a packet too large for a frame closes the connection.
FrameOf(w) == <<Magic, Len(w)>> \o w
FitsFrame(w) == Len(w) <= WireMaxFrame
CloseWire == wireOpen' = FALSE /\ buffer' = <<>> /\ frames' = <<>> /\ feeding' = FALSE

\* send_packet.
WireSend(p) ==
  /\ wireOpen /\ wireSends < WireMaxSends /\ wireSends' = wireSends + 1
  /\ IF wireMedium = "ble"
     THEN /\ \E fill \in {0, 1} : stream' = Append(stream, Padded(Encode(p), fill))
          /\ sent' = Append(sent, p) /\ UNCHANGED <<wireOpen, buffer, frames, feeding>>
     ELSE IF FitsFrame(Encode(p))
     THEN /\ stream' = stream \o FrameOf(Encode(p)) /\ sent' = Append(sent, p)
          /\ UNCHANGED <<wireOpen, buffer, frames, feeding>>
     ELSE CloseWire /\ UNCHANGED <<stream, sent>>
  /\ UNCHANGED <<wireMedium, taken, wireForeign>>

\* Another program writes.
WireForeignWrite(w) ==
  /\ wireOpen /\ wireSends < WireMaxSends /\ wireSends' = wireSends + 1
  /\ stream' = IF wireMedium = "ble" THEN Append(stream, w) ELSE stream \o w
  /\ wireForeign' = TRUE
  /\ UNCHANGED <<wireMedium, wireOpen, buffer, frames, feeding, sent, taken>>

\* _read_loop: a read returns some of the bytes, feed appends them.
WireRead(n) ==
  /\ wireMedium = "tcp" /\ wireOpen /\ ~feeding
  /\ buffer' = buffer \o SubSeq(stream, 1, n) /\ stream' = SubSeq(stream, n + 1, Len(stream))
  /\ feeding' = TRUE
  /\ UNCHANGED <<wireMedium, wireOpen, frames, sent, taken, wireForeign, wireSends>>

\* feed's loop: a complete frame is taken off the buffer; a bad header raises,
\* and the frames of this read are lost with it; an incomplete one ends the loop
\* and the frames are decoded.
FrameComplete(b) == Len(b) >= HeaderSize + b[2]
HeaderBad(b) == b[1] # Magic \/ b[2] > WireMaxFrame
WireFrame ==
  /\ feeding /\ Len(buffer) >= HeaderSize /\ ~HeaderBad(buffer) /\ FrameComplete(buffer)
  /\ frames' = Append(frames, SubSeq(buffer, HeaderSize + 1, HeaderSize + buffer[2]))
  /\ buffer' = SubSeq(buffer, HeaderSize + buffer[2] + 1, Len(buffer))
  /\ UNCHANGED <<wireMedium, wireOpen, stream, feeding, sent, taken, wireForeign, wireSends>>

WireFramingError ==
  /\ feeding /\ Len(buffer) >= HeaderSize /\ HeaderBad(buffer) /\ CloseWire
  /\ UNCHANGED <<wireMedium, stream, sent, taken, wireForeign, wireSends>>

BufferDropped(b) == <<>>
BufferKept(b) == b
WireFed ==
  /\ feeding /\ (Len(buffer) >= HeaderSize => ~HeaderBad(buffer) /\ ~FrameComplete(buffer))
  /\ taken' = taken \o Delivered(frames) /\ frames' = <<>> /\ feeding' = FALSE
  /\ buffer' = BufferKept(buffer)
  /\ UNCHANGED <<wireMedium, wireOpen, stream, sent, wireForeign, wireSends>>

\* _process_raw_bytes, of one notification or write.
WireNotified ==
  /\ wireMedium = "ble" /\ wireOpen /\ stream # <<>>
  /\ stream' = Tail(stream) /\ taken' = taken \o Delivered(<<Head(stream)>>)
  /\ UNCHANGED <<wireMedium, wireOpen, buffer, frames, feeding, sent, wireForeign, wireSends>>

\* End of file, an idle timeout or close.
WireClosed ==
  /\ wireOpen /\ ~feeding /\ CloseWire
  /\ UNCHANGED <<wireMedium, stream, sent, taken, wireForeign, wireSends>>

WireNext ==
  \/ \E p \in WirePackets : WireSend(p)
  \/ \E w \in WireForeign : WireForeignWrite(w)
  \/ \E n \in 1..WireReadSize : n <= Len(stream) /\ WireRead(n)
  \/ WireFrame \/ WireFramingError \/ WireFed \/ WireNotified \/ WireClosed
WireSpec == WireInit /\ [][WireNext]_wireVars

-----------------------------------------------------------------------------
\* WireInOrder: the packets delivered are the packets sent, each once and in
\* order, however the reads cut the stream (StreamFramer: "Partial reads",
\* "Multiple concatenated frames", "Frame split across multiple reads").
WireInOrder == ~wireForeign => IsPrefix(taken, sent)

\* WireComplete: while the connection is up and everything written has been
\* read, every packet sent has been delivered and no byte is left over.
WireComplete ==
  wireOpen /\ stream = <<>> /\ ~feeding /\ ~wireForeign => taken = sent /\ buffer = <<>>

\* WireBounded: between reads the buffer holds less than one frame of the largest
\* size, whatever was written into the stream ("strict bounds").
WireBounded == ~feeding => Len(buffer) < HeaderSize + WireMaxFrame

\* WireStrict: what decode_packet accepts is, without its padding, what
\* encode_packet would write ("Reject malformed, truncated, corrupted, or
\* ambiguous packets").
WireStrict ==
  \A w \in ToSet(frames) \cup (IF wireMedium = "ble" THEN ToSet(stream) ELSE {}) :
    Decode(w) # NoPacket =>
      /\ IsPrefix(Encode(Decode(w)), w)
      /\ Len(w) > Len(Encode(Decode(w))) => Last(w) = Len(w) - Len(Encode(Decode(w)))

\* WireSafe: packets are delivered once, in order and completely, from a bounded
\* buffer, and nothing is decoded that no encoder writes.
WireSafe == WireTypeOK /\ WireInOrder /\ WireComplete /\ WireBounded /\ WireStrict
=============================================================================
