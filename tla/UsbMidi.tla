------------------------------ MODULE UsbMidi ------------------------------
(***************************************************************************)
(* The two bulk endpoints between the main loop and the host, as           *)
(* Midifighter_Task uses them through LUFA's MIDI class driver.  Each has  *)
(* one bank of CAPACITY event packets, owned by one side at a time.  A     *)
(* send waits for the bank, gives up when the host leaves it unread for    *)
(* too long, and no caller looks at its result.                            *)
(***************************************************************************)
EXTENDS Integers, Sequences

CONSTANTS
  CAPACITY,          \* packets in a bank: 64 bytes / 4
  TIMEOUT,           \* USB_STREAM_TIMEOUT_MS, in frames of 1 ms
  RX_PACKET_LIMIT,   \* USB_RX_PACKET_LIMIT
  RX_FAIL_LIMIT,     \* USB_RX_FAIL_LIMIT
  MAX_SENDS,         \* bound: packets the device sends
  MAX_BUS            \* bound: resets and suspensions

ASSUME UsbMidiAssumption ==
  /\ {CAPACITY, RX_PACKET_LIMIT, RX_FAIL_LIMIT} \subseteq Nat \ {0}
  /\ {TIMEOUT, MAX_SENDS, MAX_BUS} \subseteq Nat

VARIABLES
  USB_DeviceState,     \* "configured", "suspended" or "default" (after a bus reset)
  at,                  \* where the main loop is; "part": in a reply, after a packet of
                       \* it; "refresh": past the flush that ends the key events
  packet,              \* the packet of the send under way
  rest,                \* TimeoutMSRem
  frame,               \* the frame number changed since it was last looked at
  in,                  \* packets in the IN bank
  inHost,              \* Endpoint_ClearIN gave the bank to the host
  out,                 \* packets left in the OUT bank; 0: the bank is the host's
  usb_rx_packets,
  usb_rx_fail_count,
  sent,                \* packets sent so far, their numbers being 1..sent
  lost,                \* ghost: packets whose send failed
  unread,              \* ghost: frames the host left the IN bank unread, to TIMEOUT + 1
  excused,             \* ghost: every loss found the bus down or the host late
  bus                  \* resets and suspensions so far

usbVars == <<USB_DeviceState, at, packet, rest, frame, in, inHost, out, usb_rx_packets,
             usb_rx_fail_count, sent, lost, unread, excused, bus>>
loopVars == <<usb_rx_packets, usb_rx_fail_count>>
waitVars == <<packet, rest>>
inVars == <<in, inHost, unread>>
lossVars == <<lost, excused>>

Configured == USB_DeviceState = "configured"
Flushing == {"flushing", "part_flushing"}
Sends == {"sending", "replying", "notifying"}
Waiting == Sends \cup Flushing

UsbInit ==
  /\ USB_DeviceState = "configured" /\ at = "loop"
  /\ packet = 0 /\ rest = 0 /\ frame = FALSE
  /\ in = <<>> /\ inHost = FALSE /\ out = 0
  /\ usb_rx_packets = 0 /\ usb_rx_fail_count = 0
  /\ sent = 0 /\ lost = {} /\ unread = 0 /\ excused = TRUE /\ bus = 0

----------------------------------------------------------------------------
(* The host and the bus.                                                   *)

\* External: the host reads the IN bank, which is the device's again.
HostReads ==
  /\ Configured /\ inHost
  /\ in' = <<>> /\ inHost' = FALSE /\ unread' = 0
  /\ UNCHANGED <<USB_DeviceState, at, waitVars, frame, out, loopVars, sent, lossVars, bus>>

\* External: the host fills the OUT bank when it is free.
HostWrites ==
  /\ Configured /\ out = 0
  /\ out' \in 1..CAPACITY
  /\ UNCHANGED <<USB_DeviceState, at, waitVars, frame, inVars, loopVars, sent, lossVars, bus>>

\* External: a millisecond, noted while the device waits.
Frame ==
  /\ at \in Waiting
  /\ ~frame
  /\ frame' = TRUE
  /\ unread' = IF inHost /\ unread <= TIMEOUT THEN unread + 1 ELSE unread
  /\ UNCHANGED <<USB_DeviceState, at, waitVars, in, inHost, out, loopVars, sent, lossVars, bus>>

\* USB_GEN_vect: a reset of the bus disables the endpoints, a suspension keeps them.
BusEvent ==
  /\ bus < MAX_BUS /\ Configured
  /\ bus' = bus + 1
  /\ \/ /\ USB_DeviceState' = "default"
        /\ in' = <<>> /\ inHost' = FALSE /\ unread' = 0 /\ out' = 0
     \/ /\ USB_DeviceState' = "suspended"
        /\ UNCHANGED <<inVars, out>>
  /\ UNCHANGED <<at, waitVars, frame, loopVars, sent, lossVars>>

WakeUp ==
  /\ USB_DeviceState = "suspended"
  /\ USB_DeviceState' = "configured"
  /\ UNCHANGED <<at, waitVars, frame, inVars, out, loopVars, sent, lossVars, bus>>

\* USB_USBTask in the main loop: SET_CONFIGURATION, and with it
\* MIDI_Device_ConfigureEndpoints.
USB_USBTask ==
  /\ at = "loop" /\ USB_DeviceState = "default"
  /\ USB_DeviceState' = "configured"
  /\ UNCHANGED <<at, waitVars, frame, inVars, out, loopVars, sent, lossVars, bus>>

----------------------------------------------------------------------------
(* Midifighter_Task.                                                       *)

\* The task does nothing unless the device is configured.
BeginPass ==
  /\ at = "loop" /\ Configured
  /\ at' = "receive"
  /\ usb_rx_packets' = 0 /\ usb_rx_fail_count' = 0
  /\ UNCHANGED <<USB_DeviceState, waitVars, frame, inVars, out, sent, lossVars, bus>>

\* Mutant: only an idle bus ends the loop.
Receive_unlimited ==
  /\ at = "receive"
  /\ IF Configured /\ out > 0
     THEN /\ out' = out - 1
          /\ UNCHANGED usb_rx_packets /\ usb_rx_fail_count' = 0
          /\ at' = "handle"
     ELSE /\ usb_rx_fail_count' = usb_rx_fail_count + 1
          /\ at' = IF usb_rx_fail_count' >= RX_FAIL_LIMIT THEN "keys" ELSE "receive"
          /\ UNCHANGED <<out, usb_rx_packets>>
  /\ UNCHANGED <<USB_DeviceState, waitVars, frame, inVars, sent, lossVars, bus>>

\* One round of Midifighter_GetIncomingUsbMidiMessages and
\* MIDI_Device_ReceiveEventPacket.
Receive ==
  /\ at = "receive"
  /\ IF usb_rx_packets >= RX_PACKET_LIMIT
     THEN /\ at' = "keys"
          /\ UNCHANGED <<out, loopVars>>
     ELSE IF Configured /\ out > 0
     THEN /\ out' = out - 1
          /\ usb_rx_packets' = usb_rx_packets + 1 /\ usb_rx_fail_count' = 0
          /\ at' = "handle"
     ELSE /\ usb_rx_fail_count' = usb_rx_fail_count + 1
          /\ at' = IF usb_rx_fail_count' >= RX_FAIL_LIMIT THEN "keys" ELSE "receive"
          /\ UNCHANGED <<out, usb_rx_packets>>
  /\ UNCHANGED <<USB_DeviceState, waitVars, frame, inVars, sent, lossVars, bus>>

\* The packet is handled, with or without a reply.
Handled ==
  /\ at \in {"handle", "part"}
  /\ at' = "receive"
  /\ UNCHANGED <<USB_DeviceState, waitVars, frame, inVars, out, loopVars, sent, lossVars, bus>>

\* MIDI_Device_SendEventPacket, called for a key event, within a reply, or, once the
\* task has flushed, by send_change_bank_notification.
SendEventPacket ==
  /\ at \in {"keys", "handle", "part", "refresh"} /\ sent < MAX_SENDS
  /\ sent' = sent + 1
  /\ IF Configured
     THEN /\ packet' = sent' /\ rest' = TIMEOUT /\ frame' = FALSE
          /\ at' = CASE at = "keys" -> "sending" [] at = "refresh" -> "notifying"
                     [] at \in {"handle", "part"} -> "replying"
          /\ UNCHANGED lossVars
     ELSE /\ lost' = lost \cup {sent'}
          /\ at' = CASE at = "keys" -> "keys" [] at = "refresh" -> "loop"
                     [] at \in {"handle", "part"} -> "part"
          /\ UNCHANGED <<waitVars, frame, excused>>
  /\ UNCHANGED <<USB_DeviceState, inVars, out, loopVars, bus>>

\* Where the wait of a send or of a flush returns to.
Return == CASE at = "sending" -> "keys" [] at = "replying" -> "part"
            [] at = "notifying" -> "loop" [] at = "flushing" -> "refresh"
            [] at = "part_flushing" -> "handle"

\* Endpoint_WaitUntilReady succeeds: a send writes its packet, and gives a bank that
\* is full to the host.
Ready ==
  /\ at \in Waiting
  /\ USB_DeviceState # "default" /\ ~inHost
  /\ IF at \in Flushing THEN UNCHANGED inVars
     ELSE /\ in' = Append(in, packet)
          /\ inHost' = (Len(in') = CAPACITY)
          /\ UNCHANGED unread
  /\ at' = Return /\ packet' = 0 /\ rest' = 0 /\ frame' = FALSE
  /\ UNCHANGED <<USB_DeviceState, out, loopVars, sent, lossVars, bus>>

\* Mutant: the timeout counts rounds of the loop.
WaitUntilReady_rounds ==
  /\ at \in Waiting
  /\ USB_DeviceState = "default" \/ inHost
  /\ IF USB_DeviceState = "suspended" \/ rest = 0
     THEN /\ at' = Return /\ packet' = 0 /\ rest' = 0 /\ frame' = FALSE
          /\ lost' = IF at \in Flushing THEN lost ELSE lost \cup {packet}
          /\ excused' = (excused /\ (~Configured \/ at \in Flushing \/ unread > TIMEOUT))
     ELSE /\ rest' = rest - 1
          /\ frame' = FALSE
          /\ UNCHANGED <<at, packet, lossVars>>
  /\ UNCHANGED <<USB_DeviceState, inVars, out, loopVars, sent, bus>>

\* Another round of Endpoint_WaitUntilReady: a suspended bus ends it, a new frame
\* counts, and the one after TIMEOUT ends it.  The caller drops the packet.
WaitUntilReady ==
  /\ at \in Waiting
  /\ USB_DeviceState = "default" \/ inHost
  /\ USB_DeviceState = "suspended" \/ frame
  /\ IF USB_DeviceState = "suspended" \/ rest = 0
     THEN /\ at' = Return /\ packet' = 0 /\ rest' = 0 /\ frame' = FALSE
          /\ lost' = IF at \in Flushing THEN lost ELSE lost \cup {packet}
          /\ excused' = (excused /\ (~Configured \/ at \in Flushing \/ unread > TIMEOUT))
     ELSE /\ rest' = rest - 1
          /\ frame' = FALSE
          /\ UNCHANGED <<at, packet, lossVars>>
  /\ UNCHANGED <<USB_DeviceState, inVars, out, loopVars, sent, bus>>

\* Mutant: the key events are not flushed.
Flush_only_replies ==
  /\ at \in {"keys", "part"}
  /\ IF Configured /\ in # <<>> /\ at = "part"
     THEN /\ inHost' = TRUE
          /\ rest' = TIMEOUT /\ frame' = FALSE
          /\ at' = "part_flushing"
     ELSE /\ at' = IF at = "keys" THEN "refresh" ELSE "handle"
          /\ UNCHANGED <<inHost, rest, frame>>
  /\ UNCHANGED <<USB_DeviceState, packet, in, unread, out, loopVars, sent, lossVars, bus>>

\* MIDI_Device_Flush, after the key events and after each part of a bulk reply.
Flush ==
  /\ at \in {"keys", "part"}
  /\ IF Configured /\ in # <<>>
     THEN /\ inHost' = TRUE
          /\ rest' = TIMEOUT /\ frame' = FALSE
          /\ at' = IF at = "keys" THEN "flushing" ELSE "part_flushing"
     ELSE /\ at' = IF at = "keys" THEN "refresh" ELSE "handle"
          /\ UNCHANGED <<inHost, rest, frame>>
  /\ UNCHANGED <<USB_DeviceState, packet, in, unread, out, loopVars, sent, lossVars, bus>>

\* The rest of the task when no refresh is due or the bank stays: nothing is sent.
EndPass ==
  /\ at = "refresh"
  /\ at' = "loop"
  /\ UNCHANGED <<USB_DeviceState, waitVars, frame, inVars, out, loopVars, sent, lossVars, bus>>

Loop == \/ USB_USBTask \/ BeginPass \/ Receive \/ Handled \/ Ready \/ WaitUntilReady
        \/ Flush \/ EndPass
UsbNext == HostReads \/ HostWrites \/ Frame \/ BusEvent \/ WakeUp \/ Loop \/ SendEventPacket

\* The main loop runs and frames go by; a suspended bus need not wake up, and the
\* host need neither read nor write.
UsbFairness == WF_usbVars(Loop) /\ WF_usbVars(Frame)
UsbSpec == UsbInit /\ [][UsbNext]_usbVars /\ UsbFairness

----------------------------------------------------------------------------
\* Types.
UsbTypeOK ==
  /\ USB_DeviceState \in {"configured", "suspended", "default"}
  /\ at \in {"loop", "receive", "handle", "part", "keys", "refresh"} \cup Waiting
  /\ packet \in 0..MAX_SENDS /\ rest \in 0..TIMEOUT /\ frame \in BOOLEAN
  /\ in \in Seq(1..MAX_SENDS) /\ Len(in) <= CAPACITY /\ inHost \in BOOLEAN
  /\ out \in 0..CAPACITY
  /\ usb_rx_packets \in 0..RX_PACKET_LIMIT /\ usb_rx_fail_count \in 0..RX_FAIL_LIMIT
  /\ sent \in 0..MAX_SENDS /\ lost \subseteq 1..MAX_SENDS
  /\ unread \in 0..(TIMEOUT + 1) /\ excused \in BOOLEAN /\ bus \in 0..MAX_BUS

\* A send drops its packet, a note-off perhaps, only if the bus went down or the
\* host left the bank unread for more than TIMEOUT milliseconds: nothing the
\* device does by itself loses an event, however many keys change in one pass.
LostOnlyIfLate == excused

\* What a send accepted does not wait for the bank to fill: when the host keeps
\* reading and the bus is up, the bank is empty again and again.
SentIsDelivered == []<>Configured /\ []<>(~inHost) => []<>(in = <<>>)

\* Whatever the host writes, however fast, and even if it reads nothing and each send
\* has to time out first, the task comes to the keys again and again, and takes
\* every packet the host writes, unless the bus stays down.
TaskGoesOn ==
  \/ <>[](~Configured)
  \/ []<>(at = "keys") /\ []<>(out = 0 \/ ~Configured)

\* The bank holds packets in the order they were sent, each once, and none whose send
\* failed, so that a caller could repeat it.  Unless the bus went down, the host has
\* been given every packet of a reply or of a key when the task is past its flush,
\* and what is left in the bank between two passes is the last packet at most: the
\* notification of a bank change, which is sent after the flush.
SentInOrder ==
  /\ \A i, j \in 1..Len(in) : i < j => in[i] < in[j]
  /\ \A i \in 1..Len(in) : /\ in[i] <= sent /\ in[i] \notin lost
                           /\ at \in Sends => in[i] < packet
  /\ at \in Sends => packet = sent /\ packet \notin lost
  /\ \A p \in lost : p <= sent
  /\ at \in {"flushing", "refresh", "notifying"} /\ in # <<>> => inHost \/ bus > 0
  /\ at = "loop" /\ in # <<>> => inHost \/ bus > 0 \/ in = <<sent>>

\* Why TaskGoesOn: an upper bound of the steps left of a pass, by what is left to be
\* received and sent, and that each step of Midifighter_Task is one of them, whatever
\* host, bus and frames do in between.  A wait is one step for each frame, and the
\* notification after the flush may have to wait too.
PacketSteps == RX_FAIL_LIMIT + 2
SendSteps == 2 * TIMEOUT + 4
StepsFrom(a, r) ==
  CASE a = "loop" -> 0
    [] a = "notifying" -> r + 1
    [] a = "refresh" -> TIMEOUT + 2
    [] a = "flushing" -> r + TIMEOUT + 3
    [] a = "keys" -> 2 * TIMEOUT + 4
    [] a = "sending" -> r + 2 * TIMEOUT + 5
    [] a = "receive" -> 2 * TIMEOUT + 5
    [] a = "handle" -> 2 * TIMEOUT + 6
    [] a = "part_flushing" -> r + 2 * TIMEOUT + 7
    [] a = "part" -> 3 * TIMEOUT + 8
    [] a = "replying" -> r + 3 * TIMEOUT + 9
StepsOfPass ==
  (MAX_SENDS - sent) * SendSteps + (RX_PACKET_LIMIT - usb_rx_packets) * PacketSteps
  + (RX_FAIL_LIMIT - usb_rx_fail_count) + StepsFrom(at, rest)
TaskStep == Receive \/ Handled \/ SendEventPacket \/ Ready \/ WaitUntilReady \/ Flush \/ EndPass
PassAdvances ==
  [][at # "loop" => /\ StepsOfPass' <= StepsOfPass /\ StepsOfPass' >= 0
                    /\ TaskStep => StepsOfPass' < StepsOfPass]_usbVars
=============================================================================
