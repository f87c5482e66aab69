---------------------------- MODULE FtdiTransfer ----------------------------
(***************************************************************************)
(* Data transfers of the C library, src/src/ftdi.c: the synchronous        *)
(* ftdi_read_data and ftdi_write_data, the asynchronous                    *)
(* ftdi_read_data_submit and ftdi_write_data_submit with their callbacks,  *)
(* ftdi_transfer_data_done, ftdi_transfer_data_cancel, the readbuffer they *)
(* share, and the calls that invalidate it.                                *)
(*                                                                         *)
(* One thread uses one ftdi_context.  It has at most one read and one      *)
(* write at a time; the callbacks run inside whatever call handles libusb  *)
(* events, so a read goes on while the thread waits for its write.         *)
(* Data bytes are named by their position in the stream; 0 is a byte that  *)
(* is not data (modem status, or never written).                           *)
(***************************************************************************)
EXTENDS Integers, Sequences

CONSTANTS
    max_packet_size,        \* of a USB packet, its two status bytes included
    ReadChunks,             \* values of readbuffer_chunksize, multiples of it
    writebuffer_chunksize,
    ReadSizes, WriteSizes,  \* sizes the application asks for
    MaxBytes,               \* bytes the chip sends (bound)
    FaultKinds,             \* failures the environment may produce ...
    MaxFaults               \* ... and how many (bound)

AllFaults == {"bulk", "submit", "alloc", "events", "timeout", "device", "control"}

ASSUME TransferAssumption ==
    /\ max_packet_size \in Nat /\ max_packet_size > 2
    /\ ReadChunks # {}
    /\ \A c \in ReadChunks : c \in Nat /\ c > 0 /\ c % max_packet_size = 0
    /\ writebuffer_chunksize \in Nat \ {0}
    /\ ReadSizes \subseteq Nat \ {0} /\ WriteSizes \subseteq Nat \ {0}
    /\ MaxBytes \in Nat /\ MaxFaults \in Nat
    /\ FaultKinds \subseteq AllFaults

Dirs == {"r", "w"}
Statuses == {"COMPLETED", "CANCELLED", "TIMED_OUT", "ERROR"}

VARIABLES
    pc,                     \* the call the thread is in
    cur,                    \* the direction whose transfer it waits for or frees
    size,                   \* direction -> size of the call in progress
    readbuffer, readbuffer_chunksize,
    readbuffer_offset, readbuffer_remaining,
    buf,                    \* what the read in progress has put in the user's buffer
    offset,                 \* bytes the write in progress counts as written
    from, len,              \* transfer->buffer (from the start of buf) and ->length of the write
    live,                   \* direction -> there is a ftdi_transfer_control
    completed,              \* direction -> tc->completed # 0
    usb,                    \* direction -> where libusb has its transfer
    status, actual_length,  \* direction -> of its returned transfer
    dangling,               \* a transfer was freed while libusb owned it
    faults,
    \* The ends of the two streams; read by no call:
    sent, got, report,      \* as in ByteStream
    taken                   \* bytes the chip took of the write in progress

buffer == <<readbuffer, readbuffer_chunksize, readbuffer_offset, readbuffer_remaining>>
writing == <<offset, from, len, taken>>
reading == <<buf, sent, got, report>>
control == <<live, completed, usb, status, actual_length, dangling>>
vars == <<pc, cur, size, buffer, buf, writing, control, faults, sent, got, report>>

Handling == {"read_data", "write_data", "done", "done_error", "cancel", "flush"}

TypeOK ==
    /\ pc \in Handling \cup {"idle"} /\ cur \in Dirs
    /\ size \in [Dirs -> ReadSizes \cup WriteSizes \cup {0}]
    /\ readbuffer_chunksize \in ReadChunks
    /\ readbuffer \in [0..readbuffer_chunksize - 1 -> 0..MaxBytes]
    /\ readbuffer_offset \in Nat /\ readbuffer_remaining \in Nat
    /\ readbuffer_offset + readbuffer_remaining <= readbuffer_chunksize
    /\ offset \in Nat /\ from \in Nat /\ len \in Nat
    /\ buf \in Seq(0..MaxBytes) /\ got \in Seq(0..MaxBytes) /\ taken \in Seq(Nat)
    /\ Len(buf) <= size["r"] /\ offset <= size["w"]
    /\ live \in [Dirs -> BOOLEAN] /\ completed \in [Dirs -> BOOLEAN]
    /\ usb \in [Dirs -> {"none", "inflight", "cancelling", "expired", "returned"}]
    /\ status \in [Dirs -> Statuses] /\ actual_length \in [Dirs -> Nat]
    /\ dangling \in BOOLEAN /\ report \in BOOLEAN
    /\ sent \in 0..MaxBytes /\ faults \in 0..MaxFaults

Init ==
    /\ pc = "idle" /\ cur = "r"
    /\ size = [d \in Dirs |-> 0]
    /\ readbuffer_chunksize \in ReadChunks
    /\ readbuffer = [i \in 0..(readbuffer_chunksize - 1) |-> 0]
    /\ readbuffer_offset = 0 /\ readbuffer_remaining = 0
    /\ buf = <<>> /\ taken = <<>>
    /\ offset = 0 /\ from = 0 /\ len = 0
    /\ live = [d \in Dirs |-> FALSE] /\ completed = [d \in Dirs |-> FALSE]
    /\ usb = [d \in Dirs |-> "none"]
    /\ status = [d \in Dirs |-> "COMPLETED"] /\ actual_length = [d \in Dirs |-> 0]
    /\ dangling = FALSE
    /\ sent = 0 /\ got = <<>> /\ report = FALSE
    /\ faults = MaxFaults

Fault(k) == k \in FaultKinds /\ faults > 0 /\ faults' = faults - 1
MinOf(a, b) == IF a < b THEN a ELSE b

-----------------------------------------------------------------------------
(* The chip: a bulk read returns packets of two status bytes and up to     *)
(* max_packet_size - 2 data bytes; a packet that is not full ends it.      *)

PayloadSize == max_packet_size - 2
MaxPayload == (readbuffer_chunksize \div max_packet_size) * PayloadSize
\* actual_length of a bulk read of n data bytes: one that ends by itself, and
\* one that fails or is cancelled before the packet that would have ended it.
Whole(n) == n + 2 * (IF n = MaxPayload THEN n \div PayloadSize ELSE n \div PayloadSize + 1)
Broken(n) == n + 2 * ((n + PayloadSize - 1) \div PayloadSize)
\* The readbuffer after a bulk read of that length.
Received(actual) ==
    [i \in DOMAIN readbuffer |->
       LET packet == i \div max_packet_size
           j == i % max_packet_size
       IN  IF i >= actual THEN readbuffer[i]
           ELSE IF j < 2 THEN 0
           ELSE sent + packet * PayloadSize + j - 1]
Payloads == {n \in 0..MaxPayload : sent + n <= MaxBytes}

-----------------------------------------------------------------------------
(* Stripping the status bytes, in place, as ftdi_read_data and             *)
(* ftdi_read_data_cb both do.                                              *)

\* memmove of count bytes to the place of payload i; the first is at start.
Memmove(rb, start, i, count) ==
    LET to == start + PayloadSize * i
    IN  [k \in DOMAIN rb |-> IF k >= to /\ k < to + count THEN rb[k + 2 * i] ELSE rb[k]]

\* The loop over the whole packets but the first.
Moved(rb, start, last) ==
    LET moved[i \in 0..last] == IF i = 0 THEN rb ELSE Memmove(moved[i - 1], start, i, PayloadSize)
    IN  moved

\* Mutant: what follows the whole packets goes one packet too far down.
StripOneShort(rb, start, actual) ==
    LET chunks == actual \div max_packet_size
        remains == actual % max_packet_size
        moved == Moved(rb, start, chunks - 1)[chunks - 1]
    IN  IF actual <= max_packet_size THEN rb
        ELSE IF remains > 2 THEN Memmove(moved, start, chunks - 1, remains - 2)
        ELSE moved

Strip(rb, start, actual) ==
    LET chunks == actual \div max_packet_size
        remains == actual % max_packet_size
        moved == Moved(rb, start, chunks - 1)[chunks - 1]
    IN  IF actual <= max_packet_size THEN rb
        ELSE IF remains > 2 THEN Memmove(moved, start, chunks, remains - 2)
        ELSE moved

\* The number of data bytes, in the code's arithmetic.
DataLength(actual) ==
    LET chunks == actual \div max_packet_size
        remains == actual % max_packet_size
    IN  IF actual <= 2 THEN 0
        ELSE IF actual <= max_packet_size THEN actual - 2
        ELSE IF remains > 2 THEN actual - 2 - 2 * chunks
        ELSE actual - 2 - (2 * (chunks - 1) + remains)

\* count bytes of rb from position start on: what a memcpy hands over.
Bytes(rb, start, count) == [k \in 1..count |-> rb[start + k - 1]]

-----------------------------------------------------------------------------
(* ftdi_read_data.                                                         *)

\* Everything asked for is still in the readbuffer.
ReadBuffered(n) ==
    /\ pc = "idle" /\ ~live["r"] /\ ~dangling
    /\ n <= readbuffer_remaining
    /\ got' = got \o Bytes(readbuffer, readbuffer_offset, n)
    /\ readbuffer_remaining' = readbuffer_remaining - n
    /\ readbuffer_offset' = readbuffer_offset + n
    /\ UNCHANGED <<pc, cur, size, readbuffer, readbuffer_chunksize, buf, writing, control,
                   faults, sent, report>>

\* Some of it is, or nothing: take that and go to the chip.
read_data(n) ==
    /\ pc = "idle" /\ ~live["r"] /\ ~dangling
    /\ n > readbuffer_remaining
    /\ pc' = "read_data" /\ size' = [size EXCEPT !["r"] = n]
    /\ buf' = Bytes(readbuffer, readbuffer_offset, readbuffer_remaining)
    /\ readbuffer_remaining' = 0 /\ readbuffer_offset' = 0
    /\ UNCHANGED <<cur, readbuffer, readbuffer_chunksize, writing, control, faults, sent,
                   got, report>>

\* libusb_bulk_transfer returns with n data bytes.
BulkReturns(n) ==
    /\ pc = "read_data"
    /\ sent' = sent + n
    /\ readbuffer' = Strip(Received(Whole(n)), readbuffer_offset + 2, Whole(n))
    /\ UNCHANGED <<cur, readbuffer_chunksize, writing, control, faults, report>>

ReadReturns(bytes) == pc' = "idle" /\ got' = got \o bytes /\ buf' = <<>>
                      /\ size' = [size EXCEPT !["r"] = 0]

\* Status bytes only: no more data to read.
BulkReadNothing ==
    /\ BulkReturns(0)
    /\ readbuffer_remaining' = 0 /\ readbuffer_offset' = 0
    /\ ReadReturns(buf)

\* All of it fits: return when that was exactly enough, else read again.
BulkReadFits(n) ==
    /\ BulkReturns(n)
    /\ n > 0 /\ Len(buf) + DataLength(Whole(n)) <= size["r"]
    /\ readbuffer_remaining' = 0
    /\ LET all == buf \o Bytes(readbuffer', readbuffer_offset + 2, DataLength(Whole(n)))
       IN  IF Len(all) = size["r"]
           THEN ReadReturns(all) /\ readbuffer_offset' = readbuffer_offset + 2
           ELSE buf' = all /\ readbuffer_offset' = 0 /\ UNCHANGED <<pc, size, got>>

\* Mutant: what was just handed over is announced again.
BulkExceedsAnnouncesAll(n) ==
    /\ BulkReturns(n)
    /\ n > 0 /\ Len(buf) + DataLength(Whole(n)) > size["r"]
    /\ LET part == size["r"] - Len(buf)
       IN  /\ readbuffer_offset' = readbuffer_offset + 2 + part
           /\ readbuffer_remaining' = DataLength(Whole(n))
           /\ ReadReturns(buf \o Bytes(readbuffer', readbuffer_offset + 2, part))

\* More than asked for: the rest stays in the readbuffer.
BulkReadExceeds(n) ==
    /\ BulkReturns(n)
    /\ n > 0 /\ Len(buf) + DataLength(Whole(n)) > size["r"]
    /\ LET part == size["r"] - Len(buf)
       IN  /\ readbuffer_offset' = readbuffer_offset + 2 + part
           /\ readbuffer_remaining' = DataLength(Whole(n)) - part
           /\ ReadReturns(buf \o Bytes(readbuffer', readbuffer_offset + 2, part))

\* It fails or times out, n data bytes of it already received: the call returns
\* the error, and what it had is gone.
BulkReadFails(n) ==
    /\ pc = "read_data"
    /\ Fault("bulk")
    /\ sent' = sent + n /\ readbuffer' = Received(Broken(n))
    /\ readbuffer_remaining' = 0 /\ readbuffer_offset' = 0
    /\ pc' = "idle" /\ buf' = <<>> /\ report' = ~report
    /\ size' = [size EXCEPT !["r"] = 0]
    /\ UNCHANGED <<cur, readbuffer_chunksize, writing, control, got>>

-----------------------------------------------------------------------------
(* ftdi_read_data_submit and ftdi_read_data_cb.                            *)

\* The control block of direction d, its transfer just submitted.
Submitted(d, n) ==
    /\ live' = [live EXCEPT ![d] = TRUE]
    /\ completed' = [completed EXCEPT ![d] = FALSE]
    /\ usb' = [usb EXCEPT ![d] = "inflight"]
    /\ size' = [size EXCEPT ![d] = n]
    /\ UNCHANGED <<status, actual_length, dangling>>

\* Everything is in the readbuffer: a completed control block, no transfer.
SubmitBuffered(n) ==
    /\ pc = "idle" /\ ~live["r"] /\ ~dangling
    /\ n <= readbuffer_remaining
    /\ buf' = Bytes(readbuffer, readbuffer_offset, n)
    /\ readbuffer_remaining' = readbuffer_remaining - n
    /\ readbuffer_offset' = readbuffer_offset + n
    /\ live' = [live EXCEPT !["r"] = TRUE]
    /\ completed' = [completed EXCEPT !["r"] = TRUE]
    /\ status' = [status EXCEPT !["r"] = "COMPLETED"]
    /\ size' = [size EXCEPT !["r"] = n]
    /\ UNCHANGED <<pc, cur, readbuffer, readbuffer_chunksize, writing, usb, actual_length,
                   dangling, faults, sent, got, report>>

read_data_submit(n) ==
    /\ pc = "idle" /\ ~live["r"] /\ ~dangling
    /\ n > readbuffer_remaining
    /\ buf' = Bytes(readbuffer, readbuffer_offset, readbuffer_remaining)
    /\ readbuffer_remaining' = 0 /\ readbuffer_offset' = 0
    /\ Submitted("r", n)
    /\ UNCHANGED <<pc, cur, readbuffer, readbuffer_chunksize, writing, faults, sent, got,
                   report>>

\* NULL: without memory nothing has changed; after a failed submit the rest of
\* the readbuffer is gone.
ReadSubmitFails(n) ==
    /\ pc = "idle" /\ ~live["r"] /\ ~dangling
    /\ \/ Fault("alloc") /\ UNCHANGED <<readbuffer_offset, readbuffer_remaining, report>>
       \/ /\ n > readbuffer_remaining
          /\ Fault("submit")
          /\ readbuffer_remaining' = 0 /\ readbuffer_offset' = 0
          /\ report' = ~report
    /\ UNCHANGED <<pc, cur, size, readbuffer, readbuffer_chunksize, buf, writing, control,
                   sent, got>>

\* A callback runs inside a call that handles events.
InCallback(d) == pc \in Handling /\ usb[d] = "returned"

\* The part of the returned read transfer that is data, as read_data_cb sees it.
Stripped == Strip(readbuffer, readbuffer_offset + 2, actual_length["r"])
Count == DataLength(actual_length["r"])
Data(count) == Bytes(Stripped, readbuffer_offset + 2, count)

\* completed = 1: the transfer is left to transfer_data_done.
Completes(d) ==
    /\ completed' = [completed EXCEPT ![d] = TRUE]
    /\ usb' = [usb EXCEPT ![d] = "none"]

\* Mutant: the return after completed = 1 is missing.
ReadCbFallsThrough ==
    /\ InCallback("r")
    /\ Count > 0 /\ Len(buf) + Count = size["r"]
    /\ readbuffer' = Stripped
    /\ buf' = buf \o Data(Count)
    /\ readbuffer_offset' = 0 /\ readbuffer_remaining' = 0
    /\ completed' = [completed EXCEPT !["r"] = TRUE]
    /\ usb' = [usb EXCEPT !["r"] = "inflight"]
    /\ UNCHANGED <<pc, cur, size, readbuffer_chunksize, writing, live, status, actual_length,
                   dangling, faults, sent, got, report>>

\* Exactly the right amount.
ReadCbCompletes ==
    /\ InCallback("r")
    /\ Count > 0 /\ Len(buf) + Count = size["r"]
    /\ readbuffer' = Stripped
    /\ buf' = buf \o Data(Count)
    /\ readbuffer_offset' = 0 /\ readbuffer_remaining' = 0
    /\ Completes("r")
    /\ UNCHANGED <<pc, cur, size, readbuffer_chunksize, writing, live, status, actual_length,
                   dangling, faults, sent, got, report>>

\* Mutant: the rest of the data is not announced.
ReadCbForgetsRest ==
    /\ InCallback("r")
    /\ Count > 0 /\ Len(buf) + Count > size["r"]
    /\ readbuffer' = Stripped
    /\ buf' = buf \o Data(size["r"] - Len(buf))
    /\ readbuffer_offset' = 0 /\ readbuffer_remaining' = 0
    /\ Completes("r")
    /\ UNCHANGED <<pc, cur, size, readbuffer_chunksize, writing, live, status, actual_length,
                   dangling, faults, sent, got, report>>

\* More than asked for: the rest stays in the readbuffer.
ReadCbExceeds ==
    /\ InCallback("r")
    /\ Count > 0 /\ Len(buf) + Count > size["r"]
    /\ readbuffer' = Stripped
    /\ LET part == size["r"] - Len(buf)
       IN  /\ buf' = buf \o Data(part)
           /\ readbuffer_offset' = readbuffer_offset + 2 + part
           /\ readbuffer_remaining' = Count - part
    /\ Completes("r")
    /\ UNCHANGED <<pc, cur, size, readbuffer_chunksize, writing, live, status, actual_length,
                   dangling, faults, sent, got, report>>

\* Mutant: a cancelled transfer is submitted again like any other.
ResubmitAlways(d) ==
    /\ usb' = [usb EXCEPT ![d] = "inflight"]
    /\ UNCHANGED <<completed, faults>>

\* Mutant: what is short is taken for the end.
ResubmitNever(d) == Completes(d) /\ UNCHANGED faults

\* How both callbacks end when more is to do: a cancelled transfer is completed,
\* any other submitted again, and completed when that fails.
Resubmit(d) ==
    \/ status[d] = "CANCELLED" /\ Completes(d) /\ UNCHANGED faults
    \/ /\ status[d] # "CANCELLED"
       /\ usb' = [usb EXCEPT ![d] = "inflight"]
       /\ UNCHANGED <<completed, faults>>
    \/ status[d] # "CANCELLED" /\ Fault("submit") /\ Completes(d)

\* Not enough yet, or nothing at all.
ReadCbContinues ==
    /\ InCallback("r")
    /\ Len(buf) + Count < size["r"]
    /\ readbuffer' = Stripped
    /\ buf' = buf \o Data(Count)
    /\ IF Count > 0 THEN readbuffer_offset' = 0 /\ readbuffer_remaining' = 0
       ELSE UNCHANGED <<readbuffer_offset, readbuffer_remaining>>
    /\ Resubmit("r")
    /\ UNCHANGED <<pc, cur, size, readbuffer_chunksize, writing, live, status, actual_length,
                   dangling, sent, got, report>>

-----------------------------------------------------------------------------
(* ftdi_write_data, ftdi_write_data_submit and ftdi_write_data_cb.         *)

\* The chip takes count bytes of the user's buffer from position start on.
Take(start, count) == taken' = taken \o [i \in 1..count |-> start + i]
NextLength == MinOf(writebuffer_chunksize, size["w"] - offset)

write_data(n) ==
    /\ pc = "idle" /\ ~live["w"] /\ ~dangling
    /\ pc' = "write_data" /\ size' = [size EXCEPT !["w"] = n]
    /\ offset' = 0 /\ taken' = <<>>
    /\ UNCHANGED <<cur, buffer, buf, from, len, control, faults, sent, got, report>>

\* One chunk, or the part of it the device took: never nothing.
BulkWrite(n) ==
    /\ pc = "write_data"
    /\ n \in 1..NextLength
    /\ Take(offset, n)
    /\ offset' = offset + n
    /\ pc' = IF offset + n < size["w"] THEN "write_data" ELSE "idle"
    /\ UNCHANGED <<cur, size, buffer, buf, from, len, control, faults, sent, got, report>>

\* The chip may have taken some of it: the call returns -1.
BulkWriteFails(n) ==
    /\ pc = "write_data"
    /\ Fault("bulk")
    /\ n \in 0..NextLength
    /\ Take(offset, n)
    /\ pc' = "idle"
    /\ UNCHANGED <<cur, size, buffer, buf, offset, from, len, control, sent, got, report>>

write_data_submit(n) ==
    /\ pc = "idle" /\ ~live["w"] /\ ~dangling
    /\ offset' = 0 /\ taken' = <<>>
    /\ from' = 0 /\ len' = MinOf(n, writebuffer_chunksize)
    /\ Submitted("w", n)
    /\ UNCHANGED <<pc, cur, buffer, buf, faults, sent, got, report>>

WriteSubmitFails ==
    /\ pc = "idle" /\ ~live["w"] /\ ~dangling
    /\ Fault("alloc") \/ Fault("submit")
    /\ UNCHANGED <<pc, cur, size, buffer, buf, writing, control, sent, got, report>>

\* The bytes the chip took are counted, whatever the status.
WriteCbCompletes ==
    /\ InCallback("w")
    /\ offset' = offset + actual_length["w"]
    /\ offset' = size["w"]
    /\ Completes("w")
    /\ UNCHANGED <<pc, cur, size, buffer, buf, from, len, taken, live, status, actual_length,
                   dangling, faults, sent, got, report>>

\* Mutant: a transfer that moved only a part is taken for a whole one.
WriteCbSkips ==
    /\ InCallback("w")
    /\ offset + actual_length["w"] < size["w"]
    /\ offset' = offset + actual_length["w"]
    /\ from' = from + len
    /\ len' = MinOf(writebuffer_chunksize, size["w"] - offset')
    /\ Resubmit("w")
    /\ UNCHANGED <<pc, cur, size, buffer, buf, taken, live, status, actual_length, dangling,
                   sent, got, report>>

WriteCbContinues ==
    /\ InCallback("w")
    /\ offset + actual_length["w"] < size["w"]
    /\ offset' = offset + actual_length["w"]
    /\ from' = offset'
    /\ len' = MinOf(writebuffer_chunksize, size["w"] - offset')
    /\ Resubmit("w")
    /\ UNCHANGED <<pc, cur, size, buffer, buf, taken, live, status, actual_length, dangling,
                   sent, got, report>>

-----------------------------------------------------------------------------
(* ftdi_transfer_data_done and ftdi_transfer_data_cancel.                  *)

\* libusb_free_transfer and free (tc).  The bytes of a read that is not
\* successful go with it.
Free(d, success) ==
    /\ live' = [live EXCEPT ![d] = FALSE]
    /\ completed' = [completed EXCEPT ![d] = FALSE]
    /\ usb' = [usb EXCEPT ![d] = "none"]
    /\ dangling' = (dangling \/ usb[d] # "none")
    /\ size' = [size EXCEPT ![d] = 0]
    /\ IF d = "w" THEN UNCHANGED <<buf, got, report>>
       ELSE /\ buf' = <<>>
            /\ got' = IF success THEN got \o buf ELSE got
            /\ report' = IF success THEN report ELSE ~report
    /\ offset' = IF d = "w" THEN 0 ELSE offset
    /\ UNCHANGED <<status, actual_length>>

\* libusb_cancel_transfer.  A transfer that has moved its data but was not handed
\* to its callback yet is cancelled too; one that libusb is ending because its
\* timeout ran out stays what it is.
CancelTransfer(d) ==
    /\ usb' = [usb EXCEPT ![d] = IF @ = "inflight" THEN "cancelling" ELSE @]
    /\ status' = [status EXCEPT ![d] = IF usb[d] = "returned" /\ @ # "TIMED_OUT"
                                      THEN "CANCELLED" ELSE @]

transfer_data_done(d) ==
    /\ pc = "idle" /\ live[d] /\ ~dangling
    /\ pc' = "done" /\ cur' = d
    /\ UNCHANGED <<size, buffer, buf, writing, control, faults, sent, got, report>>

\* The count, or -1 when the last status was not LIBUSB_TRANSFER_COMPLETED.
DoneReturns ==
    /\ pc = "done" /\ completed[cur]
    /\ pc' = "idle"
    /\ Free(cur, status[cur] = "COMPLETED")
    /\ UNCHANGED <<cur, buffer, from, len, taken, faults, sent>>

\* Handling events fails (not by a signal): cancel, and wait for that.
DoneEventsFail ==
    /\ pc = "done" /\ ~completed[cur]
    /\ Fault("events")
    /\ CancelTransfer(cur)
    /\ pc' = "done_error"
    /\ UNCHANGED <<cur, size, buffer, buf, writing, live, completed, actual_length, dangling,
                   sent, got, report>>

DoneErrorReturns ==
    /\ pc = "done_error" /\ completed[cur]
    /\ pc' = "idle"
    /\ Free(cur, FALSE)
    /\ UNCHANGED <<cur, buffer, from, len, taken, faults, sent>>

\* It fails again: the transfer is freed as it is.
DoneErrorGivesUp ==
    /\ pc = "done_error" /\ ~completed[cur]
    /\ Fault("events")
    /\ pc' = "idle"
    /\ Free(cur, FALSE)
    /\ UNCHANGED <<cur, buffer, from, len, taken, sent>>

transfer_data_cancel(d) ==
    /\ pc = "idle" /\ live[d] /\ ~dangling
    /\ pc' = "cancel" /\ cur' = d
    /\ CancelTransfer(d)
    /\ UNCHANGED <<size, buffer, buf, writing, live, completed, actual_length, dangling,
                   faults, sent, got, report>>

\* Mutant: the control block is freed without waiting for the transfer.
CancelReturnsAtOnce ==
    /\ pc = "cancel"
    /\ pc' = "idle"
    /\ Free(cur, FALSE)
    /\ UNCHANGED <<cur, buffer, from, len, taken, faults, sent>>

CancelReturns ==
    /\ pc = "cancel" /\ completed[cur]
    /\ pc' = "idle"
    /\ Free(cur, FALSE)
    /\ UNCHANGED <<cur, buffer, from, len, taken, faults, sent>>

\* Handling events fails, a signal included: the wait ends.
CancelGivesUp ==
    /\ pc = "cancel" /\ ~completed[cur]
    /\ Fault("events")
    /\ pc' = "idle"
    /\ Free(cur, FALSE)
    /\ UNCHANGED <<cur, buffer, from, len, taken, sent>>

-----------------------------------------------------------------------------
(* Calls that invalidate the readbuffer: ftdi_usb_reset, ftdi_tciflush,    *)
(* ftdi_tcioflush, ftdi_usb_purge_rx_buffer, ftdi_usb_purge_buffers (one   *)
(* control request each that matters here), and                            *)
(* ftdi_read_data_set_chunksize.                                           *)

tciflush ==
    /\ pc = "idle"
    /\ pc' = "flush"
    /\ UNCHANGED <<cur, size, buffer, buf, writing, control, faults, sent, got, report>>

FlushReturns ==
    /\ pc = "flush"
    /\ pc' = "idle"
    /\ readbuffer_offset' = 0 /\ readbuffer_remaining' = 0
    /\ report' = ~report
    /\ UNCHANGED <<cur, size, readbuffer, readbuffer_chunksize, buf, writing, control, faults,
                   sent, got>>

FlushFails ==
    /\ pc = "flush"
    /\ Fault("control")
    /\ pc' = "idle"
    /\ UNCHANGED <<cur, size, buffer, buf, writing, control, sent, got, report>>

\* realloc keeps what fits; without memory the old buffer stays, its data
\* invalidated all the same.
read_data_set_chunksize(n) ==
    /\ pc = "idle" /\ ~live["r"] /\ ~dangling
    /\ readbuffer_offset' = 0 /\ readbuffer_remaining' = 0
    /\ report' = ~report
    /\ \/ /\ readbuffer_chunksize' = n
          /\ readbuffer' = [i \in 0..(n - 1) |->
                              IF i \in DOMAIN readbuffer THEN readbuffer[i] ELSE 0]
          /\ UNCHANGED faults
       \/ Fault("alloc") /\ UNCHANGED <<readbuffer, readbuffer_chunksize>>
    /\ UNCHANGED <<pc, cur, size, buf, writing, control, sent, got>>

-----------------------------------------------------------------------------
(* libusb gives a transfer back.  One that was cancelled, by a call or     *)
(* because its timeout ran out, may have moved data before; ERROR stands   *)
(* for every other failure of the device.                                  *)

UsbTimesOut(d) ==
    /\ usb[d] = "inflight"
    /\ Fault("timeout")
    /\ usb' = [usb EXCEPT ![d] = "expired"]
    /\ UNCHANGED <<pc, cur, size, buffer, buf, writing, live, completed, status,
                   actual_length, dangling, sent, got, report>>

MayReturn(d, st) ==
    /\ usb[d] = CASE st = "COMPLETED" -> "inflight"
                 [] st = "CANCELLED" -> "cancelling"
                 [] st = "TIMED_OUT" -> "expired"
                 [] st = "ERROR" -> "inflight"
    /\ IF st = "ERROR" THEN Fault("device") ELSE UNCHANGED faults
    /\ usb' = [usb EXCEPT ![d] = "returned"]
    /\ status' = [status EXCEPT ![d] = st]

UsbReadDone(n, st) ==
    /\ MayReturn("r", st)
    /\ LET actual == IF st = "COMPLETED" THEN Whole(n) ELSE Broken(n)
       IN  /\ actual_length' = [actual_length EXCEPT !["r"] = actual]
           /\ readbuffer' = Received(actual)
    /\ sent' = sent + n
    /\ UNCHANGED <<pc, cur, size, readbuffer_chunksize, readbuffer_offset,
                   readbuffer_remaining, buf, writing, live, completed, dangling, got, report>>

UsbWriteDone(n, st) ==
    /\ MayReturn("w", st)
    /\ n <= len /\ (st = "COMPLETED" => n = len)
    /\ actual_length' = [actual_length EXCEPT !["w"] = n]
    /\ Take(from, n)
    /\ UNCHANGED <<pc, cur, size, buffer, buf, offset, from, len, live, completed, dangling,
                   sent, got, report>>

-----------------------------------------------------------------------------
ReadCalls ==
    \E n \in ReadSizes :
        ReadBuffered(n) \/ read_data(n) \/ SubmitBuffered(n) \/ read_data_submit(n)
            \/ ReadSubmitFails(n)
WriteCalls ==
    \E n \in WriteSizes : write_data(n) \/ write_data_submit(n) \/ WriteSubmitFails
OtherCalls ==
    \/ tciflush
    \/ \E n \in ReadChunks : read_data_set_chunksize(n)
    \/ \E d \in Dirs : transfer_data_done(d) \/ transfer_data_cancel(d)
Bulk ==
    \/ BulkReadNothing
    \/ \E n \in Payloads : BulkReadFits(n) \/ BulkReadExceeds(n) \/ BulkReadFails(n)
    \/ \E n \in 0..writebuffer_chunksize : BulkWrite(n) \/ BulkWriteFails(n)
ReadCallback == ReadCbCompletes \/ ReadCbExceeds \/ ReadCbContinues
WriteCallback == WriteCbCompletes \/ WriteCbContinues
Waiting ==
    \/ DoneReturns \/ DoneEventsFail \/ DoneErrorReturns \/ DoneErrorGivesUp
    \/ CancelReturns \/ CancelGivesUp \/ FlushReturns \/ FlushFails
UsbDone(d) ==
    \E st \in Statuses :
        \/ d = "r" /\ \E n \in Payloads : UsbReadDone(n, st)
        \/ d = "w" /\ \E n \in 0..writebuffer_chunksize : UsbWriteDone(n, st)
Libusb == \E d \in Dirs : UsbDone(d) \/ UsbTimesOut(d)

Next == ReadCalls \/ WriteCalls \/ OtherCalls \/ Bulk \/ ReadCallback \/ WriteCallback
            \/ Waiting \/ Libusb

Spec == Init /\ [][Next]_vars

(***************************************************************************)
(* Properties.                                                             *)
(***************************************************************************)

\* The data bytes that have left the chip and are not yet the application's, in
\* the order they will be: taken by the read in progress, announced in the
\* readbuffer, in a transfer whose callback has not run.
Announced == Bytes(readbuffer, readbuffer_offset, readbuffer_remaining)
Pending ==
    buf \o Announced
        \o (IF usb["r"] = "returned" THEN Data(Count) ELSE <<>>)

\* Synchronous and asynchronous reads, buffer rests, flushes and failures
\* together give the application the chip's bytes in order and once, and lose
\* one only when they say so.
Reads == INSTANCE ByteStream WITH pending <- Pending
ReadsAreAStream == Reads!Spec

\* An asynchronous write gives the chip the user's bytes in order, without a gap
\* or a repetition over all its transfers, and tc->offset counts what was taken.
WriteCounted ==
    live["w"] =>
        /\ taken = [i \in 1..Len(taken) |-> i]
        /\ Len(taken) = offset + (IF usb["w"] = "returned" THEN actual_length["w"] ELSE 0)

\* A completed control block has its transfer back: transfer_data_done and
\* transfer_data_cancel may free it.
CompletedIsBack == \A d \in Dirs : completed[d] => live[d] /\ usb[d] = "none"

\* No transfer is freed while libusb owns it.
NothingFreedInFlight == ~dangling

\* A transfer_data_done that succeeds with every byte moved, unless a submit
\* failed on the way: the count it returns is then the size asked for.
DoneIsWhole ==
    [][pc = "done" /\ pc' = "idle" /\ status[cur] = "COMPLETED" /\ faults = MaxFaults
         => IF cur = "r" THEN Len(buf) = size["r"] ELSE offset = size["w"]]_vars

-----------------------------------------------------------------------------
(* Liveness.  A call that handles events goes on doing so, and libusb gives *)
(* back a transfer that is being cancelled.                                 *)

Fairness ==
    /\ WF_vars(ReadCallback) /\ WF_vars(WriteCallback)
    /\ WF_vars(CancelReturns) /\ WF_vars(DoneErrorReturns)
    /\ \A d \in Dirs : WF_vars(usb[d] \in {"cancelling", "expired"} /\ UsbDone(d))
FairSpec == Spec /\ Fairness

\* "Cancel transfer and wait for completion": transfer_data_cancel returns.
CancelEnds == pc = "cancel" ~> pc = "idle"
=============================================================================
