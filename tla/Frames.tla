------------------------------- MODULE Frames -------------------------------
(***************************************************************************)
(* The 8-byte control frames of src/pairing/pairing_beacon.h and           *)
(* src/connection/reconnect_messages.h.  A receiver knows a frame only by  *)
(* its magic and, for pairing frames, its role byte; the bytes after them  *)
(* mean what the struct the receiver casts to says they mean.  So a frame  *)
(* is its magic and the three bytes that follow it, and a constructor and  *)
(* a reader each pick their bytes.                                         *)
(***************************************************************************)
EXTENDS Naturals

Byte == 0 .. 255

COORDINATOR == 1        \* PAIRING_ROLE_COORDINATOR
CLIENT      == 2        \* PAIRING_ROLE_CLIENT

Frame == [magic : {"PAIRING", "RECONNECT"}, b4 : Byte, b5 : Byte, b6 : Byte]

Bytes(magic, b4, b5, b6) == [magic |-> magic, b4 |-> b4, b5 |-> b5, b6 |-> b6]

Beacon(channel)   == Bytes("PAIRING", COORDINATOR, channel, 0)
Request(deviceId) == Bytes("PAIRING", CLIENT, deviceId, 0)
Confirm(accept, channel) ==
    Bytes("PAIRING", COORDINATOR, IF accept THEN 1 ELSE 0, channel)
Probe(deviceId)   == Bytes("RECONNECT", deviceId, 0, 0)
Ack(channel)      == Bytes("RECONNECT", channel, 0, 0)

(* isValid() of each struct: a beacon and a confirmation pass the same test,*)
(* and so do a probe and an acknowledgment.                                 *)
FromCoordinator(f) == f.magic = "PAIRING" /\ f.b4 = COORDINATOR
IsRequest(f)       == f.magic = "PAIRING" /\ f.b4 = CLIENT
IsReconnect(f)     == f.magic = "RECONNECT"

(* The fields as each receiver reads them. *)
BeaconChannel(f)   == f.b5
ConfirmAcceptedNextByte(f) == f.b6 # 0      \* mutant: the wrong byte
ConfirmAccepted(f) == f.b5 # 0
ConfirmChannel(f)  == f.b6
RequestDeviceId(f) == f.b5
ProbeDeviceId(f)   == f.b4
AckChannel(f)      == f.b4
=============================================================================
