-------------------------------- MODULE Hybi --------------------------------
(* The WebSocket of the chat connection (f-list_connection.c): bytes come out of
   TLS in portions of any size; the reply to the handshake, then frames, must be
   recognised in them, and fragments put together, before a message can be given
   to its handler.  Frames of ours are only headers here; a byte is 0..255.

   Reading is one event of the event loop: a read, and then a step of Process for
   each frame that has come.  Nothing else of the plugin runs meanwhile.     *)
EXTENDS Naturals, Sequences, FiniteSetsExt

CONSTANTS
    Messages,       \* what the chat server has to say, sequences of bytes
    Garbled,        \* those of them that are not JSON
    Pin,            \* its PIN message, for which the plugin only answers
    Forms,          \* how it writes headers: bytes of the extended length, mask
    Pieces,         \* the sizes of its fragments, beside all of what is left
    Lengths,        \* of our messages
    BufferSize,     \* what flist_recv reads at once: 4095
    NoBuffer,       \* NULL
    MaxFrames       \* bound: frames of the server, PINs and the end of a message aside

Byte == 0..255

LongestLength == 2147483647     \* bound: what TLC counts to

ASSUME HybiAssumption ==
    /\ Messages \cup {Pin} \subseteq Seq(Byte)
    /\ Garbled \subseteq Messages
    /\ {Pin, <<>>} \cap Messages = {}
    /\ Len(Pin) \in 3..125
    /\ \A form \in Forms : /\ form.extra \in {0, 2, 8}
                           /\ \/ form.mask = <<>>
                              \/ form.mask \in Seq(Byte) /\ Len(form.mask) = 4
    /\ Pieces \subseteq Nat
    /\ Lengths \subseteq 0..LongestLength
    /\ BufferSize \in Nat \ {0}
    /\ NoBuffer \notin Seq(Byte)
    /\ MaxFrames \in Nat

VARIABLES
    \* FListAccount
    status,         \* connection_status: "handshake" or "identify"
    rx_buf,
    frame_buffer,   \* the fragments of a message so far
    processing,     \* inside the loop of flist_process_hybi
    error,          \* libpurple has been told of an error
    \* TLS
    held,           \* bytes of a record that has been decrypted
    socket,         \* bytes of records that have not
    \* the chat server
    saying,         \* the message it is in the middle of
    gone,           \* how much of it is sent
    sent, delivered, faulty,    \* see MessageStream
    frames

vars == <<status, rx_buf, frame_buffer, processing, error, held, socket, saying,
          gone, sent, delivered, faulty, frames>>

plugin == <<status, rx_buf, frame_buffer, processing, error, delivered, held>>
server == <<saying, gone, sent, frames>>

\* WS_OPCODE_TYPE_...
Continuation == 0
Text   == 1
Binary == 2
Close  == 8
Ping   == 9
Pong   == 10
Other  == 3     \* none of them

CR == 13
LF == 10
OK == 72        \* stands for a status line that says 101

\* Big-endian numbers.
BigEndian(n) == <<(n \div 16777216) % 256, (n \div 65536) % 256, (n \div 256) % 256, n % 256>>
Two(bytes, i)   == 256 * bytes[i] + bytes[i + 1]
Four(bytes, i)  == 65536 * Two(bytes, i) + Two(bytes, i + 2)
Eight(bytes, i) == 65536 * (65536 * Four(bytes, i)) + Four(bytes, i + 4)

Bit(n, weight) == (n \div weight) % 2
Xor(a, b) == LET bit(weight) == weight * ((Bit(a, weight) + Bit(b, weight)) % 2)
             IN  bit(1) + bit(2) + bit(4) + bit(8) + bit(16) + bit(32) + bit(64) + bit(128)

----------------------------------------------------------------------------
(* Frames of ours.                                                          *)

\* slip: the limit of the short form is wrong by one
HeaderUpTo126(opcode, length) ==
    <<128 + opcode>> \o
    CASE length <= 126 -> <<128 + length>>
      [] length > 126 /\ length < 65536 -> <<254, length \div 256, length % 256>>
      [] OTHER -> <<255, 0, 0, 0, 0>> \o BigEndian(length)

\* flist_write_hybi, up to the mask: the last fragment, masked
Header(opcode, length) ==
    <<128 + opcode>> \o
    CASE length < 126 -> <<128 + length>>
      [] length >= 126 /\ length < 65536 -> <<254, length \div 256, length % 256>>
      [] OTHER -> <<255, 0, 0, 0, 0>> \o BigEndian(length)

----------------------------------------------------------------------------
(* A frame at the front of the bytes.                                       *)

RawLength(bytes) == bytes[2] % 128
IsMasked(bytes)  == bytes[2] >= 128
IsFinal(bytes)   == bytes[1] >= 128
Opcode(bytes)    == bytes[1] % 16

\* The bytes of the length that follow the first two.
Extra(bytes) == CASE RawLength(bytes) = 126 -> 2
                  [] RawLength(bytes) = 127 -> 8
                  [] OTHER -> 0

PayloadLength(bytes) == CASE Extra(bytes) = 2 -> Two(bytes, 3)
                          [] Extra(bytes) = 8 -> Eight(bytes, 3)
                          [] OTHER -> RawLength(bytes)

HeaderLength(bytes) == 2 + Extra(bytes) + (IF IsMasked(bytes) THEN 4 ELSE 0)

Complete(bytes) ==
    /\ Len(bytes) >= 2
    /\ Len(bytes) >= 2 + Extra(bytes)
    /\ Len(bytes) >= HeaderLength(bytes)
    /\ Len(bytes) >= HeaderLength(bytes) + PayloadLength(bytes)

Payload(bytes) ==
    LET start == HeaderLength(bytes)
    IN  [i \in 1..PayloadLength(bytes) |->
           IF IsMasked(bytes)
           THEN Xor(bytes[start + i], bytes[(start - 3) + ((i - 1) % 4)])
           ELSE bytes[start + i]]

\* What is left when it has been taken out.
After(bytes) == SubSeq(bytes, HeaderLength(bytes) + PayloadLength(bytes) + 1, Len(bytes))

----------------------------------------------------------------------------
(* Taking frames out of the bytes.                                          *)

\* slip: one frame per event
Stops == FALSE

\* flist_process_hybi goes on with what follows.
GoesOn == TRUE

Handled(message) ==
    /\ delivered' = delivered \o message
    /\ processing' = GoesOn
    /\ UNCHANGED error

Refused ==
    /\ error' = TRUE
    /\ processing' = FALSE
    /\ UNCHANGED delivered

\* slip: a message needs more than its name
DispatchLonger(message) ==
    IF Len(message) <= 3 \/ message \in Garbled THEN Refused
    ELSE Handled(IF message = Pin THEN <<>> ELSE <<message>>)

\* flist_dispatch: what is too short or no JSON is an error.
Dispatch(message) ==
    IF Len(message) < 3 \/ message \in Garbled THEN Refused
    ELSE Handled(IF message = Pin THEN <<>> ELSE <<message>>)

\* slip: the buffer is not given up with the message
KeptFragments == frame_buffer

\* g_byte_array_free
NoFragments == NoBuffer

\* flist_process_hybi_frame
DataFrame(payload) ==
    IF frame_buffer # NoBuffer THEN Refused /\ UNCHANGED frame_buffer
    ELSE IF IsFinal(rx_buf) THEN Dispatch(payload) /\ UNCHANGED frame_buffer
    ELSE Handled(<<>>) /\ frame_buffer' = payload

ContinuationFrame(payload) ==
    IF frame_buffer = NoBuffer THEN Refused /\ UNCHANGED frame_buffer
    ELSE IF IsFinal(rx_buf) THEN Dispatch(frame_buffer \o payload) /\ frame_buffer' = NoFragments
    ELSE Handled(<<>>) /\ frame_buffer' = frame_buffer \o payload

ControlFrame ==
    /\ IF Opcode(rx_buf) \in {Ping, Pong} /\ IsFinal(rx_buf) THEN Handled(<<>>) ELSE Refused
    /\ UNCHANGED frame_buffer

\* One round of flist_process_hybi: the frame is out of the buffer before it is
\* looked at.
TakeFrame ==
    /\ processing
    /\ Complete(rx_buf)
    /\ rx_buf' = After(rx_buf)
    /\ CASE Opcode(rx_buf) \in {Text, Binary} -> DataFrame(Payload(rx_buf))
         [] Opcode(rx_buf) = Continuation     -> ContinuationFrame(Payload(rx_buf))
         [] OTHER                             -> ControlFrame
    /\ UNCHANGED <<status, held, socket, faulty, server>>

\* What is left is no frame yet.
NoFrame ==
    /\ processing
    /\ ~Complete(rx_buf)
    /\ processing' = FALSE
    /\ UNCHANGED <<status, rx_buf, frame_buffer, error, delivered, held, socket, faulty,
                   server>>

----------------------------------------------------------------------------
(* Reading.                                                                 *)

Breaks(bytes) == {i \in 1..(Len(bytes) - 1) : bytes[i] = CR /\ bytes[i + 1] = LF}

\* Empty lines: a break where the last one ends.
Blanks(bytes) == {i \in Breaks(bytes) : i = 1 \/ i - 2 \in Breaks(bytes)}

AfterReply(bytes, blank) == SubSeq(bytes, blank + 2, Len(bytes))

\* flist_handle_handshake: waits for a line, whose status must be right, and then
\* for an empty line; the frames that have come with it are looked at at once.
Handshake(bytes) ==
    IF Breaks(bytes) # {} /\ bytes[1] # OK
    THEN /\ error' = TRUE
         /\ rx_buf' = bytes
         /\ UNCHANGED <<status, processing>>
    ELSE IF Blanks(bytes) = {}
    THEN rx_buf' = bytes /\ UNCHANGED <<status, processing, error>>
    ELSE /\ rx_buf' = AfterReply(bytes, Min(Blanks(bytes)))
         /\ status' = "identify"
         /\ processing' = TRUE
         /\ UNCHANGED error

\* flist_recv, of an event: records are decrypted whole, so that a long one is
\* read in parts; the event comes for what is on the socket, not for what TLS holds.
Read ==
    /\ ~processing
    /\ socket # <<>>
    /\ \E n \in IF held = <<>> THEN 1..Len(socket) ELSE {0} :
         LET ready == held \o SubSeq(socket, 1, n)
             k     == IF Len(ready) < BufferSize THEN Len(ready) ELSE BufferSize
             bytes == rx_buf \o SubSeq(ready, 1, k)
         IN  /\ held' = SubSeq(ready, k + 1, Len(ready))
             /\ socket' = SubSeq(socket, n + 1, Len(socket))
             /\ IF status = "handshake" THEN Handshake(bytes)
                ELSE rx_buf' = bytes /\ processing' = TRUE /\ UNCHANGED <<status, error>>
    /\ UNCHANGED <<frame_buffer, delivered, faulty, server>>

\* flist_recv, when the read fails.
ReadFails ==
    /\ ~processing
    /\ error' = TRUE
    /\ faulty' = TRUE
    /\ UNCHANGED <<status, rx_buf, frame_buffer, processing, delivered, held, socket, server>>

----------------------------------------------------------------------------
(* The chat server.                                                         *)

Short == [extra |-> 0, mask |-> <<>>]

Frame(final, opcode, form, payload) ==
    LET length == Len(payload)
    IN  <<(IF final THEN 128 ELSE 0) + opcode,
          (IF form.mask = <<>> THEN 0 ELSE 128) +
            CASE form.extra = 0 -> length [] form.extra = 2 -> 126 [] OTHER -> 127>>
        \o SubSeq(<<0, 0, 0, 0>> \o BigEndian(length), 9 - form.extra, 8)
        \o form.mask
        \o [i \in 1..length |-> IF form.mask = <<>> THEN payload[i]
                                ELSE Xor(payload[i], form.mask[((i - 1) % 4) + 1])]

\* A form is for lengths that it can express.
Fits(form, length) == \/ form.extra = 0 /\ length <= 125
                      \/ form.extra = 2 /\ length <= 65535
                      \/ form.extra = 8 /\ length <= LongestLength

Write(final, opcode, form, payload) ==
    /\ Fits(form, Len(payload))
    /\ ~faulty
    /\ frames' = frames + 1
    /\ socket' = socket \o Frame(final, opcode, form, payload)
    /\ UNCHANGED plugin

\* The next n bytes of a message.  The last of them make it one that must be
\* delivered, or that must not.  (Bound: bad ones are in short frames.)
Send(message, from, opcode, form, n) ==
    LET now  == from + n
        all  == now = Len(message)
        good == Len(message) >= 3 /\ message \notin Garbled
    IN  /\ Write(all, opcode, IF good THEN form ELSE Short, SubSeq(message, from + 1, now))
        /\ saying' = IF all THEN <<>> ELSE message
        /\ gone' = IF all THEN 0 ELSE now
        /\ sent' = IF all /\ good THEN Append(sent, message) ELSE sent
        /\ faulty' = (faulty \/ (all /\ ~good))

Begin(message, form, n) ==
    /\ saying = <<>>
    /\ frames < MaxFrames
    /\ Send(message, 0, Text, form, n)

\* The bound leaves room for the end of a message.
Continue(form, n) ==
    /\ saying # <<>>
    /\ frames < MaxFrames \/ gone + n = Len(saying)
    /\ Send(saying, gone, Continuation, form, n)

Control(opcode) ==
    /\ frames < MaxFrames
    /\ Write(TRUE, opcode, Short, <<7>>)
    /\ UNCHANGED <<saying, gone, sent, faulty>>

\* What a server must not send, and the frame that ends a connection.  The server
\* says nothing after it: nothing would be promised any more.
Forbidden == {[final |-> TRUE, opcode |-> Close], [final |-> TRUE, opcode |-> Other],
              [final |-> FALSE, opcode |-> Ping], [final |-> FALSE, opcode |-> Pong],
              [final |-> TRUE, opcode |-> IF saying = <<>> THEN Continuation ELSE Text]}

Break(frame) ==
    /\ frames < MaxFrames
    /\ faulty' = TRUE
    /\ Write(frame.final, frame.opcode, Short, <<>>)
    /\ UNCHANGED <<saying, gone, sent>>

Finish == \E form \in Forms : Continue(form, Len(saying) - gone)

\* PIN, every now and then, between messages
KeepAlive ==
    /\ socket = <<>>
    /\ saying = <<>>
    /\ ~faulty
    /\ socket' = Frame(TRUE, Text, Short, Pin)
    /\ UNCHANGED <<plugin, server, faulty>>

----------------------------------------------------------------------------
\* The reply to the handshake comes first.
Reply(first) == <<first, CR, LF, 65, CR, LF, CR, LF>>

Init ==
    /\ status = "handshake"
    /\ rx_buf = <<>>
    /\ frame_buffer = NoBuffer
    /\ processing = FALSE
    /\ error = FALSE
    /\ held = <<>>
    /\ faulty \in BOOLEAN
    /\ socket = Reply(IF faulty THEN 0 ELSE OK)
    /\ saying = <<>>
    /\ gone = 0
    /\ sent = <<>>
    /\ delivered = <<>>
    /\ frames = 0

Server ==
    \/ \E message \in Messages, form \in Forms : \E n \in Pieces \cup {Len(message)} :
        n <= Len(message) /\ Begin(message, form, n)
    \/ \E form \in Forms : \E n \in Pieces \cup {Len(saying) - gone} :
        gone + n <= Len(saying) /\ Continue(form, n)
    \/ \E opcode \in {Ping, Pong} : Control(opcode)
    \/ \E frame \in Forbidden : Break(frame)

Next ==
    \/ Read \/ ReadFails
    \/ TakeFrame \/ NoFrame
    \/ Server
    \/ KeepAlive

Spec == Init /\ [][Next]_vars

\* GLib serves an event that stays; the server finishes what it has begun to say and
\* goes on with its PINs: a client that misses them disconnects (FLIST_TIMEOUT).
FairSpec == /\ Spec
            /\ WF_vars(Read)
            /\ WF_vars(TakeFrame \/ NoFrame)
            /\ WF_vars(Finish)
            /\ WF_vars(KeepAlive)

----------------------------------------------------------------------------
\* Types of the variables; what we send is bytes too.
TypeOK ==
    /\ status \in {"handshake", "identify"}
    /\ {rx_buf, held, socket} \subseteq Seq(Byte)
    /\ frame_buffer # NoBuffer => frame_buffer \in Seq(Byte)
    /\ {processing, error, faulty} \subseteq BOOLEAN
    /\ saying # <<>> => saying \in Messages
    /\ gone \in Nat
    /\ {sent, delivered} \subseteq Seq(Messages)
    /\ frames \in 0..(MaxFrames + 1)
    /\ processing => status = "identify"

\* Once the handshake is over, the server reads from our headers the length we
\* have written (flist_write_hybi), in each of the three forms, and finds the mask
\* behind it.
HeadersAreReadable ==
    status = "identify" =>
        \A opcode \in {Text, Pong}, length \in Lengths :
            LET header == Header(opcode, length)
            IN  /\ header \in Seq(Byte)
                /\ IsFinal(header) /\ IsMasked(header) /\ Opcode(header) = opcode
                /\ HeaderLength(header) = Len(header) + 4
                /\ PayloadLength(header) = length

\* An event leaves no message behind: when all that has arrived has been read,
\* all that was sent has been handed on, however the bytes were cut into reads,
\* frames and fragments, with other frames in between (flist_process_hybi,
\* flist_handle_handshake).
NothingIsLeft ==
    /\ TypeOK
    /\ ~processing /\ socket = <<>> /\ held = <<>> /\ ~faulty => delivered = sent

\* What libpurple and the handlers see of it is a stream of messages.
Stream == INSTANCE MessageStream WITH broken <- error

ImplementsStream == Stream!Spec

\* No message waits for ever, though a read of flist_recv may leave some of it in
\* TLS, of which the event loop knows nothing: the next PIN brings it.
Delivered ==
    \A n \in 1..MaxFrames : Len(sent) >= n ~> Len(delivered) >= n \/ faulty
=============================================================================
