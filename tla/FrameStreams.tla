---------------------------- MODULE FrameStreams -----------------------------
(***************************************************************************)
(* The four readers of framed byte streams, one of them at a time:         *)
(*   "esp"     _rx_loop of the UART client, with EspFrameParser;           *)
(*   "bridge"  _tcp_reader_loop of rtk_bridge;                             *)
(*   "pixhawk" _tcp_reader_loop of pixhawk_driver;                         *)
(*   "ntrip"   _reader_loop of rtk_source_manager.                         *)
(*                                                                         *)
(* The UART loses and corrupts bytes, and a CRC tells a frame from others; *)
(* TCP loses none, but the connection may break inside a frame, and the    *)
(* CRC of an RTCM frame is not looked at. A frame is cut into Size units   *)
(* of bytes; the first holds its header and, for RTCM, its length. Another *)
(* unit may begin like a header (Disguised). A read takes units one by one *)
(* and then parses; an iteration of the parser's loop is a step.           *)
(***************************************************************************)
EXTENDS Integers, Sequences, FiniteSets

CONSTANTS
  Count,       \* bound: frames that are sent
  Size,        \* units in a frame
  Disguised,   \* numbers of units that begin like a header; 0: a corrupted one
  FalseLength, \* the length, in units, read from such a header
  MaxBuffer    \* bound: units in the buffer

StreamConstants ==
  /\ Count \in Nat /\ Size \in Nat \ {0}
  /\ FalseLength \in Nat \ {0} /\ MaxBuffer \in Nat

Readers == {"esp", "bridge", "pixhawk", "ntrip"}
Frames == 1..Count

VARIABLES
  reader,    \* which of the four
  link,      \* is the serial port, or the socket, open?
  phase,     \* in the read with nothing yet, with units, or in the parser
  next,      \* the next unit on the wire: its frame and its number
  buffer,    \* _buffer, or buffer in the two loops
  delivered, \* frames handed on whole
  garbled,   \* number of others handed on
  damaged,   \* history: frames that lost a unit or were cut by a break
  breaks,    \* history: breaks that cut a frame
  fooled     \* history: a disguised unit was read as a header

vars == <<reader, link, phase, next, buffer, delivered, garbled, damaged,
          breaks, fooled>>

Init ==
  /\ reader \in Readers
  /\ link = (reader = "esp")
  /\ phase = "waiting"
  /\ next = [frame |-> 1, unit |-> 1]
  /\ buffer = <<>> /\ delivered = {} /\ garbled = 0
  /\ damaged = {} /\ breaks = 0 /\ fooled = FALSE

-----------------------------------------------------------------------------
(* The wire. A unit reaches the read; on the UART it may be corrupted, or  *)
(* lost.                                                                   *)
Checked == reader = "esp"

After(u) ==
  IF u.unit < Size THEN [u EXCEPT !.unit = @ + 1]
  ELSE [frame |-> u.frame + 1, unit |-> 1]

Sends ==
  /\ link /\ phase # "parsing"
  /\ next.frame <= Count
  /\ next' = After(next)
  /\ UNCHANGED <<reader, link, delivered, garbled, breaks, fooled>>

Arrives ==
  /\ Sends /\ Len(buffer) < MaxBuffer
  /\ \/ /\ buffer' = Append(buffer, next)
        /\ UNCHANGED damaged
     \/ /\ Checked
        /\ buffer' = Append(buffer, [next EXCEPT !.unit = 0])
        /\ damaged' = damaged \cup {next.frame}
  /\ phase' = "reading"

IsLost ==
  /\ Checked /\ Sends
  /\ damaged' = damaged \cup {next.frame}
  /\ UNCHANGED <<phase, buffer>>

(* A read returns what has arrived. One with nothing times out, upon which *)
(* rtk_source_manager gives the connection up and the others read again.   *)
Read ==
  /\ phase = "reading" /\ phase' = "parsing"
  /\ UNCHANGED <<reader, link, next, buffer, delivered, garbled, damaged,
                 breaks, fooled>>

EspReads == reader = "esp" /\ Read
BridgeReads == reader = "bridge" /\ Read
PixhawkReads == reader = "pixhawk" /\ Read
NtripReads == reader = "ntrip" /\ Read
ReadNothing ==
  phase = "waiting" /\ (reader = "ntrip" => ~link) /\ UNCHANGED vars

-----------------------------------------------------------------------------
(* The parser: the body of its loop, for the first units of the buffer.    *)
LooksLikeHeader(u) == u.unit \in {1} \cup Disguised
Length(u) == IF Checked \/ u.unit = 1 THEN Size ELSE FalseLength
IsWhole(c) ==
  /\ Len(c) = Size
  /\ \A i \in 1..Size : c[i] = [frame |-> c[1].frame, unit |-> i]

Enough == Len(buffer) >= IF Checked THEN Size ELSE 1
AtHeader == Enough /\ LooksLikeHeader(buffer[1])
Candidate == SubSeq(buffer, 1, Length(buffer[1]))
IsComplete == Len(buffer) >= Length(buffer[1])

Drops(k) ==
  /\ phase = "parsing"
  /\ buffer' = SubSeq(buffer, k + 1, Len(buffer))
  /\ UNCHANGED <<reader, link, phase, next, damaged, breaks>>
Skips(k) == Drops(k) /\ UNCHANGED <<delivered, garbled, fooled>>

(* The ESP parser looks for the next header, the others drop one unit.     *)
EspSkips ==
  /\ Checked /\ Enough
  /\ \E k \in 1..Len(buffer) :
       /\ \A i \in 1..k : ~LooksLikeHeader(buffer[i])
       /\ k < Len(buffer) => LooksLikeHeader(buffer[k + 1])
       /\ Skips(k)
RtcmSkips == ~Checked /\ Enough /\ ~AtHeader /\ Skips(1)

(* Units dropped with a candidate whose CRC is wrong.                      *)
RejectedMutant == Size
Rejected == 1
EspRejects == Checked /\ AtHeader /\ ~IsWhole(Candidate) /\ Skips(Rejected)

(* A candidate is handed on: telemetry is decoded and kept, an RTCM frame  *)
(* is published.                                                           *)
FooledHere == ~Checked /\ buffer[1].unit # 1
HandsOn ==
  /\ AtHeader /\ IsComplete
  /\ IF IsWhole(Candidate)
     THEN /\ delivered' = delivered \cup {Candidate[1].frame}
          /\ UNCHANGED garbled
     ELSE /\ ~Checked
          /\ garbled' = garbled + 1
          /\ UNCHANGED delivered
  /\ fooled' = (fooled \/ FooledHere)
  /\ Drops(Length(buffer[1]))

(* The loop ends where the rest may still become a frame.                  *)
ParserStops ==
  /\ phase = "parsing" /\ phase' = "waiting"
  /\ \/ ~Enough /\ UNCHANGED fooled
     \/ AtHeader /\ ~IsComplete /\ fooled' = (fooled \/ FooledHere)
  /\ UNCHANGED <<reader, link, next, buffer, delivered, garbled, damaged,
                 breaks>>

-----------------------------------------------------------------------------
(* The peer closes, or the socket fails; rtk_source_manager also closes it *)
(* when the source is changed. The source goes on with the next frame.     *)
Break ==
  /\ link /\ phase = "waiting"
  /\ link' = FALSE
  /\ IF next.unit = 1 THEN UNCHANGED <<next, damaged, breaks>>
     ELSE /\ next' = [frame |-> next.frame + 1, unit |-> 1]
          /\ damaged' = damaged \cup {next.frame}
          /\ breaks' = breaks + 1
  /\ UNCHANGED <<reader, phase, buffer, delivered, garbled, fooled>>

BridgeCloses == reader = "bridge" /\ Break
PixhawkCloses == reader = "pixhawk" /\ Break
NtripCloses == reader = "ntrip" /\ Break

(* rtk_bridge and pixhawk_driver go on with what is in the buffer,         *)
(* rtk_source_manager begins with an empty one.                            *)
Connect(b) ==
  /\ ~link /\ link' = TRUE
  /\ buffer' = b
  /\ UNCHANGED <<reader, phase, next, delivered, garbled, damaged, breaks,
                 fooled>>

BridgeConnects == reader = "bridge" /\ Connect(buffer)
PixhawkConnects == reader = "pixhawk" /\ Connect(buffer)
NtripConnects == reader = "ntrip" /\ Connect(<<>>)

Next ==
  \/ Arrives \/ IsLost
  \/ EspReads \/ BridgeReads \/ PixhawkReads \/ NtripReads \/ ReadNothing
  \/ EspSkips \/ RtcmSkips \/ EspRejects \/ HandsOn \/ ParserStops
  \/ BridgeCloses \/ PixhawkCloses \/ NtripCloses
  \/ BridgeConnects \/ PixhawkConnects \/ NtripConnects

Spec == Init /\ [][Next]_vars

-----------------------------------------------------------------------------
TypeOK ==
  /\ reader \in Readers /\ link \in BOOLEAN /\ fooled \in BOOLEAN
  /\ phase \in {"waiting", "reading", "parsing"}
  /\ next \in [frame : 1..(Count + 1), unit : 1..Size]
  /\ buffer \in Seq([frame : Frames, unit : 0..Size])
  /\ delivered \subseteq Frames /\ damaged \subseteq Frames
  /\ garbled \in Nat /\ breaks \in Nat

(* Every frame that arrived whole is found once its last read is parsed,   *)
(* whatever was lost or corrupted before it and however the reads cut it,  *)
(* and nothing else is handed on. The exceptions are rtk_bridge and        *)
(* pixhawk_driver, which join the part of a frame that a broken connection *)
(* left in the buffer to the frame after it: each break costs that frame,  *)
(* and hands on one that never was sent. Where RTCM bytes begin like a     *)
(* header nothing is promised after a break.                               *)
Allowed == IF reader \in {"bridge", "pixhawk"} THEN breaks ELSE 0
FramesAreFound ==
  LET arrived == 1..(next.frame - 1) \ damaged IN
  fooled \/ /\ phase = "waiting" =>
                 Cardinality(arrived \ delivered) <= Allowed
            /\ garbled <= Allowed
=============================================================================
