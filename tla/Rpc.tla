-------------------------------- MODULE Rpc ----------------------------------
(***************************************************************************)
(* The reader of the serial link to the dongle (src/rpc/rpc.c).  The       *)
(* dongle writes frames -- start, length, two command bytes, data, check   *)
(* -- and they arrive whole or in pieces.  libuv, which polls the          *)
(* descriptor, makes it non-blocking: the handler of one frame reads on    *)
(* while the bytes arrive, and its reads may find none.  What it cannot    *)
(* accept it throws away with all that has arrived.                        *)
(*                                                                         *)
(* A byte is the set of its bits that are 1.                               *)
(***************************************************************************)
EXTENDS Naturals, Sequences, FiniteSetsExt, SequencesExt

CONSTANTS
    Bits,       \* the bits of a byte: 0..7
    Traffic,    \* the frames the dongle sends: command bytes and data
    MaxCount,   \* the largest number an int8_t counts to: 127
    MaxFrames,  \* bound: frames sent
    MaxDamage,  \* bound: frames damaged on the way
    Damaged,    \* in place of a frame in which one byte is wrong
    Faults

Bytes == SUBSET Bits
Frames == [cmd0 : Bytes, cmd1 : Bytes, data : Seq(Bytes)]

FaultKinds == {"flip",    \* a byte comes over wrong
               "loss",    \* a byte does not come over
               "noise",   \* a byte nobody sent comes before a frame
               "slow",    \* a frame arrives in pieces
               "hangup",  \* the dongle is unplugged: reads find the end of the line
               "restart"} \* the gateway is killed and started anew

RPC_SOF == Bits \ {0}
Number(byte) == MapThenSumSet(LAMBDA bit : 2^bit, byte)
Byte(n)      == CHOOSE byte \in Bytes : Number(byte) = n
Xor(a, b)    == (a \ b) \cup (b \ a)

\* What a frame holds fits in its byte of length (rpc.c:158, 302).
ASSUME RpcAssumption ==
    /\ Bits \subseteq Nat
    /\ Traffic \subseteq Frames
    /\ Damaged \notin Frames
    /\ MaxCount \in Nat /\ MaxFrames \in Nat /\ MaxDamage \in Nat
    /\ Faults \subseteq FaultKinds
    /\ \A byte \in Bytes : Number(byte) \in Nat
    /\ \A f \in Traffic : \E byte \in Bytes : Number(byte) = Len(f.data)

VARIABLES
    line,     \* frames, or what is left of them, on their way from the dongle
    buffer,   \* bytes that have arrived and the gateway has not read
    got,      \* bytes of the frame being read; of its data, bytes_read of them
    hung,     \* is the gateway caught in a loop of the handler?
    received, \* the frame dispatched last
    sent,     \* frames sent
    damages,  \* frames damaged
    owed,     \* history: what the reader, in step, has before it
    inStep    \* history: are the bytes that are under way those of owed?

vars == <<line, buffer, got, hung, received, sent, damages, owed, inStep>>

-----------------------------------------------------------------------------
(* Frames *)

\* _compute_frame_fcs
Fcs(bytes) == FoldLeft(Xor, {}, bytes)

\* A frame as the dongle writes it.
Encode(f) ==
    LET body == <<Byte(Len(f.data)), f.cmd0, f.cmd1>> \o f.data
    IN  <<RPC_SOF>> \o body \o <<Fcs(body)>>

\* FRAME_SIZE of the frame whose first bytes these are
FrameSize(bytes) == 5 + Number(bytes[2])

\* The data are there, and the check byte is next.
DataRead(bytes) == Len(bytes) > 3 /\ Len(bytes) = FrameSize(bytes) - 1

Sound_data_only_variant(bytes) == Fcs(SubSeq(bytes, 5, Len(bytes) - 1)) = Last(bytes)

Sound_unchecked_variant(bytes) == bytes[1] = RPC_SOF

\* The check byte is that of the bytes from the length on.
Sound(bytes) == Fcs(SubSeq(bytes, 2, Len(bytes) - 1)) = Last(bytes)

Decode(bytes) == [cmd0 |-> bytes[3], cmd1 |-> bytes[4], data |-> SubSeq(bytes, 5, Len(bytes) - 1)]

-----------------------------------------------------------------------------
(* The dongle and the line *)

Init ==
    /\ line = <<>>
    /\ buffer = <<>> /\ got = <<>> /\ hung = FALSE
    /\ received = Damaged
    /\ sent = 0 /\ damages = 0
    /\ owed = <<>> /\ inStep = TRUE

Owe(f) == owed' = IF inStep THEN Append(owed, f) ELSE owed

Send(f) ==
    /\ sent < MaxFrames
    /\ sent' = sent + 1
    /\ line' = Append(line, Encode(f))
    /\ Owe(f)
    /\ UNCHANGED <<buffer, got, hung, received, damages, inStep>>

SendDamaged(f) ==
    /\ sent < MaxFrames /\ damages < MaxDamage
    /\ sent' = sent + 1 /\ damages' = damages + 1
    /\ LET bytes == Encode(f)
       IN \E k \in DOMAIN bytes :
            \/ /\ "flip" \in Faults /\ k > 2
               /\ \E bit \in Bits : line' = Append(line, [bytes EXCEPT ![k] = Xor(@, {bit})])
               /\ Owe(Damaged)
               /\ UNCHANGED inStep
            \/ /\ \/ /\ "flip" \in Faults /\ k <= 2
                     /\ \E bit \in Bits : line' = Append(line, [bytes EXCEPT ![k] = Xor(@, {bit})])
                  \/ /\ "loss" \in Faults
                     /\ line' = Append(line, RemoveAt(bytes, k))
                  \/ /\ "noise" \in Faults
                     /\ \E byte \in Bytes : line' = Append(line, <<byte>> \o bytes)
               /\ owed' = <<>> /\ inStep' = FALSE
    /\ UNCHANGED <<buffer, got, hung, received>>

Arrive ==
    /\ line # <<>>
    /\ \/ /\ buffer' = buffer \o Head(line)
          /\ line' = Tail(line)
       \/ /\ "slow" \in Faults /\ Len(Head(line)) > 1
          /\ buffer' = Append(buffer, Head(Head(line)))
          /\ line' = [line EXCEPT ![1] = Tail(@)]
    /\ UNCHANGED <<got, hung, received, sent, damages, owed, inStep>>

-----------------------------------------------------------------------------
(* The gateway *)

\* It waits for the next frame on an empty line: whatever comes now is whole.
Quiet == line' = <<>> /\ buffer' = <<>> /\ got' = <<>> /\ ~hung'

\* znp_read_err: tcflush discards what has arrived, and not what is on its way.
\* (A good frame thrown away as it was whole stays owed.)
Purge ==
    /\ got' = <<>>
    /\ buffer' = <<>>
    /\ UNCHANGED <<line, hung, received, sent, damages>>
    /\ IF inStep /\ buffer # <<>> /\ owed # <<>> /\ Head(owed) # Damaged
         THEN UNCHANGED <<owed, inStep>>
         ELSE owed' = <<>> /\ inStep' = Quiet

\* The next byte of the frame.
Take ==
    /\ got' = Append(got, Head(buffer))
    /\ buffer' = Tail(buffer)
    /\ UNCHANGED <<line, hung, received, sent, damages, owed, inStep>>

Stumble_waits_variant ==
    /\ got' = got
    /\ owed' = <<>> /\ inStep' = FALSE
    /\ UNCHANGED <<line, buffer, hung, received, sent, damages>>

\* A read of data that finds none returns -1, which is added to bytes_read: the
\* last byte read will be overwritten, unless there was none.
Stumble ==
    /\ got' = Front(got)
    /\ owed' = <<>> /\ inStep' = FALSE
    /\ UNCHANGED <<line, buffer, hung, received, sent, damages>>

\* _process_rpc_frame
Dispatch(frame) ==
    /\ got' = <<>>
    /\ buffer' = IF buffer = <<>> THEN <<>> ELSE Tail(buffer)
    /\ received' = Decode(frame)
    /\ UNCHANGED <<line, hung, sent, damages>>
    /\ IF inStep /\ buffer # <<>> /\ owed # <<>>
         THEN owed' = Tail(owed) /\ UNCHANGED inStep
         ELSE owed' = <<>> /\ inStep' = Quiet

\* A loop without end: the one that logs the frame counts in int8_t and never gets
\* to more than MaxCount bytes; the one that reads the data waits for more of them
\* on a line that was hung up, where a read returns 0.
Hang ==
    /\ hung' = TRUE
    /\ UNCHANGED <<line, buffer, got, received, sent, damages, owed, inStep>>

ReadStart_any_variant == got = <<>> /\ buffer # <<>> /\ Take

\* _read_znp_data is called when something has arrived, and runs to its end.
ReadStart ==
    /\ got = <<>> /\ buffer # <<>>
    /\ \/ Head(buffer) = RPC_SOF /\ Take
       \/ Head(buffer) # RPC_SOF /\ Purge

ReadHeader ==
    /\ Len(got) \in 1..3
    /\ \/ buffer # <<>> /\ Take
       \/ buffer = <<>> /\ Purge

ReadData ==
    /\ Len(got) > 3 /\ ~DataRead(got) /\ ~hung
    /\ \/ buffer # <<>> /\ Take
       \/ buffer = <<>> /\ Len(got) > 4 /\ Stumble
       \/ buffer = <<>> /\ Len(got) = 4 /\ Purge

\* A read of data on a line that was hung up returns 0, and is tried again.
ReadNothing ==
    /\ "hangup" \in Faults
    /\ Len(got) > 3 /\ ~DataRead(got) /\ ~hung
    /\ buffer = <<>> /\ Hang

\* Whether there is a check byte is not looked at: the buffer was cleared.
ReadCheck ==
    /\ DataRead(got) /\ ~hung
    /\ LET frame == Append(got, IF buffer = <<>> THEN {} ELSE Head(buffer))
       IN  \/ FrameSize(frame) > MaxCount /\ Hang
           \/ FrameSize(frame) <= MaxCount /\ Sound(frame) /\ Dispatch(frame)
           \/ FrameSize(frame) <= MaxCount /\ ~Sound(frame) /\ Purge

ReadOn == ReadStart \/ ReadHeader \/ ReadData \/ ReadCheck
Read   == ReadOn \/ ReadNothing

\* zg_rpc_init of the next run opens the device and flushes what has arrived.
Restart ==
    /\ "restart" \in Faults
    /\ buffer' = <<>> /\ got' = <<>> /\ hung' = FALSE
    /\ UNCHANGED <<line, received, sent, damages>>
    /\ owed' = <<>> /\ inStep' = Quiet

Dongle == \E f \in Traffic : Send(f) \/ SendDamaged(f)
Next   == Dongle \/ Arrive \/ Read \/ Restart

Spec == Init /\ [][Next]_vars

\* Bytes that are sent arrive, and the loop reads what has arrived; a line need not
\* be hung up.
FairSpec == Spec /\ WF_vars(Arrive) /\ WF_vars(ReadOn)

-----------------------------------------------------------------------------
(* Properties *)

TypeOK ==
    /\ line \in Seq(Seq(Bytes)) /\ buffer \in Seq(Bytes) /\ got \in Seq(Bytes)
    /\ got # <<>> => got[1] = RPC_SOF
    /\ Len(got) > 3 => Len(got) < FrameSize(got)
    /\ hung => Len(got) > 3
    /\ hung \in BOOLEAN
    /\ received \in Frames \cup {Damaged}
    /\ sent \in 0..MaxFrames /\ damages \in 0..MaxDamage
    /\ owed \in Seq(Traffic \cup {Damaged}) /\ inStep \in BOOLEAN

\* The handler of a frame returns to the loop, whatever has arrived and whatever
\* has not.  It does not when the frame is too long to be logged, and only if a
\* line may be hung up does it stay in the middle of a frame.
TooLongToLog == DataRead(got) /\ FrameSize(got) > MaxCount
Unplugged    == "hangup" \in Faults /\ ~DataRead(got)
HandlerReturns == got # <<>> ~> got = <<>> \/ (hung /\ (TooLongToLog \/ Unplugged))

\* Frames come in the order they were sent, each once; a frame of which a byte
\* is wrong is noticed and left out; and once the link has been quiet nothing of
\* an earlier damage is left.  Only a reader that a byte was lost to, or that came
\* before the byte, may take for a frame what is none.
Channel == INSTANCE FrameChannel WITH queue <- owed, Forged <- Frames
IsChannel == Channel!Spec

\* Every frame sent to a reader in step comes through, if nothing happens to the
\* link -- and if it is not longer than the loop that logs it can count, nor the
\* line hung up.
FramesArrive ==
    inStep /\ owed # <<>> ~>
       \/ owed = <<>> \/ ~inStep
       \/ hung /\ Unplugged
       \/ hung /\ (Head(owed) = Damaged \/ 5 + Len(Head(owed).data) > MaxCount)

\* What is dispatched was sent.
OnlySentFrames == [][received' # received => received' \in Traffic]_vars
=============================================================================
