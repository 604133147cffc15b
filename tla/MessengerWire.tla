---------------------------- MODULE MessengerWire ----------------------------
(***************************************************************************)
(* The wire format of the messenger, as each side writes and reads it.  A  *)
(* payload is its data and its length in bytes; a wire message is its      *)
(* payload id, the two-byte length that follows it and the bytes after     *)
(* that.  Solana's Alive message (id 0) carries a 32-byte program id.      *)
(***************************************************************************)
EXTENDS Naturals

CONSTANTS
  Payloads,   \* the payloads callers pass: records [data, length]
  ProgramId   \* the data of an Alive message

ASSUME PayloadsAssumption ==
  \A p \in Payloads : p = [data |-> p.data, length |-> p.length] /\ p.length \in Nat

PAYLOAD_ID_ALIVE == 0
PAYLOAD_ID_MESSAGE == 1
MESSAGE_MAX_LENGTH == 1024
MaxUint16 == 65535

Wire(id, length, body) == [id |-> id, length |-> length, body |-> body]

AliveMessage ==
  Wire(PAYLOAD_ID_ALIVE, 0, [data |-> ProgramId, length |-> 32])

(* Mutant: the length field cut to its low byte. *)
encodeMessageByteLength(p) == Wire(PAYLOAD_ID_MESSAGE, p.length % 256, p)

(* CrossChainMessengerMessages.encodeMessage: the length field is          *)
(* uint16(payload.length).                                                 *)
encodeMessage(p) == Wire(PAYLOAD_ID_MESSAGE, p.length % (MaxUint16 + 1), p)

(* decodeMessage reverts unless the id is 1 and the length field covers    *)
(* exactly the rest of the message.                                        *)
Decodable(w) ==
  /\ w.id = PAYLOAD_ID_MESSAGE
  /\ w.length = w.body.length

(* Mutant: the slice starts at the header. *)
decodeMessageWithHeader(w) == [data |-> w.body.data, length |-> w.body.length + 3]

decodeMessage(w) == w.body

(* MessengerMessage::serialize fails on a payload over 1024 bytes. *)
Serializable(p) == p.length <= MESSAGE_MAX_LENGTH
serialize(p) == Wire(PAYLOAD_ID_MESSAGE, p.length % (MaxUint16 + 1), p)

(* Mutant: the limit itself is refused. *)
DeserializableBelowLimit(w) ==
  /\ w.id = PAYLOAD_ID_MESSAGE
  /\ w.length < MESSAGE_MAX_LENGTH
  /\ w.length <= w.body.length

(* deserialize_reader reads as many bytes as the length field says and     *)
(* ignores what follows; receive_message takes only a Message.             *)
Deserializable(w) ==
  /\ w.id = PAYLOAD_ID_MESSAGE
  /\ w.length <= MESSAGE_MAX_LENGTH
  /\ w.length <= w.body.length
deserialize(w) == [data |-> w.body.data, length |-> w.length]

(* A message at the level of the two programs' interfaces: who sent it,    *)
(* under which number, and the payload the caller passed.                  *)
Message(a, n, p) == [emitter |-> a, sequence |-> n, payload |-> p]
=============================================================================
