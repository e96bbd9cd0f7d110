------------------------------- MODULE FrTrans -------------------------------
(* FrTrans (FrTrans.cpp) as Dove::Process uses it: one object reads the      *)
(* video packet by packet, decodes it into a queue of pictures and hands     *)
(* them out one by one; it is opened and read a second time, and now writes. *)
(* Process numbers the pictures in both passes and applies to picture n of   *)
(* the second what it found for picture n of the first.                      *)
(* The demultiplexer, the decoder, the encoder, the writer and the device    *)
(* memory are external: each call may succeed or fail, and a decoder hands   *)
(* out what it was given in order.                                           *)
EXTENDS Integers, Sequences

CONSTANTS Files,   \* a video: how many pictures its first 1, 2, ... packets carry
          Waits    \* p->read_wait / 100: the waits of the first pass

ASSUME FrTransAssumption ==
    /\ \A f \in Files : f \in Seq(Nat) /\ \A p \in 1..Len(f) : f[p] > (IF p = 1 THEN 0 ELSE f[p - 1])
    /\ Waits \in Nat \ {0}

VARIABLES
    file,
    slow,          \* a decoder that may answer without a picture
    pass, pc,
    pos,           \* packets read
    eof,
    held,          \* the pictures inside the decoder
    vDecFrame,     \* the decoded pictures, each in device memory
    remain,
    h,             \* the handles
    started,       \* the reader was started
    retry_cnt,
    encFrame,      \* the device memory for writing is there
    writeNum,
    written,
    shown,         \* the pictures each pass handed out
    lost,          \* the pictures of each pass that an external call kept
    how,           \* why each pass stopped reading
    result

reading == <<pos, eof, held, vDecFrame, remain, shown, lost>>
writing == <<encFrame, writeNum, written>>
vars == <<file, slow, pass, pc, reading, writing, h, started, retry_cnt, how, result>>

Complete == "STABIL_COMPLETE"
Running == "none"
Failures == {"EXECUTE_CLIENT_EXCEPTION", "STABIL_CANT_DECODE_FILE",
             "STABIL_CANT_GRAP_TRACKINGPT", "STABIL_CANT_MAKE_PROPER_VIDEO"}

\* The constructor leaves every handle as the memory was.
Indeterminate == {"null", "stray"}

Init ==
    /\ file \in Files /\ slow \in BOOLEAN
    /\ pass = 1 /\ pc = "open"
    /\ pos = 0 /\ eof = FALSE /\ held = <<>> /\ vDecFrame = <<>> /\ remain = 0
    /\ h \in [reader : Indeterminate, dec : Indeterminate, conv : Indeterminate,
              enc : Indeterminate, writer : Indeterminate]
    /\ started = FALSE /\ retry_cnt = 0
    /\ encFrame = FALSE /\ writeNum = 0 /\ written = <<>>
    /\ shown = <<<<>>, <<>>>> /\ lost = <<{}, {}>> /\ how = <<"", "">>
    /\ result = Running

Return(code) == pc' = "returned" /\ result' = code
Goto(next) == pc' = next /\ UNCHANGED result

-----------------------------------------------------------------------------
\* Opening and closing.

\* The calls of OpenReader in their order: FrReaderOpen, FrReaderGetInfo,
\* FrVideoDecOpen, FrReaderStart.  The first that fails ends it; ok of them
\* succeed.
OpenReader(ok) ==
    /\ eof' = FALSE
    /\ pos' = 0 /\ held' = <<>>
    /\ h' = [h EXCEPT !.reader = IF ok >= 1 THEN "open" ELSE @, !.dec = IF ok >= 3 THEN "open" ELSE @]
    /\ started' = (ok = 4)
    /\ UNCHANGED <<vDecFrame, remain, shown, lost>>

FirstOpen ==
    /\ pc = "open"
    /\ \E ok \in 0..4 : /\ OpenReader(ok)
                        /\ IF ok = 4 THEN Goto("read") ELSE Return("EXECUTE_CLIENT_EXCEPTION")
    /\ UNCHANGED <<file, slow, pass, writing, retry_cnt, how>>

\* What a Close does with a handle that was never assigned is undefined.
Harmless(names) == \A n \in names : h[n] # "stray"
Closed(names) == [n \in DOMAIN h |-> IF n \in names THEN "null" ELSE h[n]]

\* mutant: the decoded pictures are freed but stay in the queue
CloseReaderKeeping ==
    /\ h' = Closed({"dec", "conv", "reader"})
    /\ UNCHANGED <<pos, eof, held, vDecFrame, remain, shown, lost>>

CloseReader ==
    /\ h' = Closed({"dec", "conv", "reader"})
    /\ vDecFrame' = <<>>
    /\ UNCHANGED <<pos, eof, held, remain, shown, lost>>

\* Between the passes; then MakeNewTrajectory may find no proper video.
FirstClose ==
    /\ pc = "close"
    /\ CloseReader
    /\ Goto("reopen") \/ Return("STABIL_CANT_MAKE_PROPER_VIDEO")
    /\ UNCHANGED <<file, slow, pass, writing, started, retry_cnt, how>>

\* Process does not look whether the second OpenReader succeeded ...
SecondOpen ==
    /\ pc = "reopen"
    /\ \E ok \in 0..4 : OpenReader(ok)
    /\ pass' = 2 /\ Goto("open_writer")
    /\ UNCHANGED <<file, slow, writing, retry_cnt, how>>

\* ... nor whether OpenWriter did: FrVideoEncOpen, FrWriterOpen,
\* FrWriterSetInfo and once more FrReaderStart.
OpenWriter ==
    /\ pc = "open_writer"
    /\ writeNum' = 0 /\ encFrame' = FALSE
    /\ \E ok \in 0..4 :
          /\ h' = [h EXCEPT !.enc = IF ok >= 1 THEN "open" ELSE @, !.writer = IF ok >= 2 THEN "open" ELSE @]
          /\ ok = 4 => h.reader = "open"
          /\ started' \in (CASE ok = 4 -> {TRUE} [] ok = 3 -> {started, FALSE} [] OTHER -> {started})
    /\ Goto("read")
    /\ UNCHANGED <<file, slow, pass, reading, written, retry_cnt, how>>

\* The end of Process: CloseReader and CloseWriter.
Finish ==
    /\ pc = "finish"
    /\ h' = Closed(DOMAIN h)
    /\ vDecFrame' = <<>> /\ encFrame' = FALSE
    /\ Return(Complete)
    /\ UNCHANGED <<file, slow, pass, pos, eof, held, remain, shown, lost, writeNum, written, started, retry_cnt, how>>

\* Closing what was never opened: the handle is read uninitialized.
StrayClose ==
    /\ \/ pc = "close" /\ ~Harmless({"conv"})
       \/ pc = "finish" /\ ~Harmless({"enc", "writer"})
    /\ Goto("stray_handle")
    /\ UNCHANGED <<file, slow, pass, reading, writing, h, started, retry_cnt, how>>

-----------------------------------------------------------------------------
\* ReadFrame, and what Process does with its answer.

Reading == pc = "read"
CanRead == h.reader = "open" /\ started

Upto(p) == IF p = 0 THEN 0 ELSE file[p]
Total == Upto(Len(file))
Carried(p) == [k \in 1..Upto(p) - Upto(p - 1) |-> Upto(p - 1) + k]
Pics(s) == {s[k] : k \in DOMAIN s}

\* mutant: the waits have no limit
AgainForEver ==
    \/ pass = 1 /\ retry_cnt =< Waits /\ retry_cnt' = retry_cnt + 1 /\ UNCHANGED <<pc, result>>
    \/ pass = 2 /\ UNCHANGED <<retry_cnt, pc, result>>

\* 0: Process tries again; in the first pass it waits and counts the waits.
Again ==
    \/ pass = 1 /\ retry_cnt' = retry_cnt + 1
       /\ IF Waits =< retry_cnt' THEN Return("STABIL_CANT_DECODE_FILE") ELSE UNCHANGED <<pc, result>>
    \/ pass = 2 /\ UNCHANGED <<retry_cnt, pc, result>>

\* -1: Process takes it for the end of the video, whatever it was.
Break(why) ==
    /\ Goto(IF pass = 1 THEN "close" ELSE "finish")
    /\ how' = [how EXCEPT ![pass] = why]
    /\ UNCHANGED retry_cnt

\* 1: in the first pass Process may stop at the end of the last period, or
\* find no object; in the second it writes at every picture but the first.
Handed ==
    /\ \/ pass = 1 /\ (Goto("read") \/ Goto("close") \/ Return("STABIL_CANT_GRAP_TRACKINGPT"))
       \/ pass = 2 /\ Goto(IF shown[2] = <<>> THEN "read" ELSE "write")
    /\ UNCHANGED <<how, retry_cnt>>

Lose(pictures) == lost' = [lost EXCEPT ![pass] = @ \cup pictures]

\* mutant: _remain is taken before the picture is erased
HandOutEarly(queue) ==
    IF queue = <<>>
    THEN Goto("no_front") /\ UNCHANGED <<vDecFrame, remain, shown, how, retry_cnt>>
    ELSE /\ shown' = [shown EXCEPT ![pass] = Append(@, Head(queue))]
         /\ vDecFrame' = Tail(queue)
         /\ remain' = Len(queue)
         /\ Handed

\* The first picture of the queue is handed out: without a look whether
\* there is one.
HandOut(queue) ==
    IF queue = <<>>
    THEN Goto("no_front") /\ UNCHANGED <<vDecFrame, remain, shown, how, retry_cnt>>
    ELSE /\ shown' = [shown EXCEPT ![pass] = Append(@, Head(queue))]
         /\ vDecFrame' = Tail(queue)
         /\ remain' = Len(Tail(queue))
         /\ Handed

Queue(given) == vDecFrame \o given

\* What the decoder gives is copied to device memory, picture by picture,
\* until there is no more of it.
Copy(given) ==
    \/ HandOut(Queue(given)) /\ UNCHANGED lost
    \/ \E k \in 0..Len(given) - 1 :
          /\ vDecFrame' = Queue(SubSeq(given, 1, k))
          /\ Lose(Pics(SubSeq(given, k + 1, Len(given))))
          /\ Break("memory")
          /\ UNCHANGED <<remain, shown>>

\* The decoder gives the first of the pictures it has, at least one.
Decode(has) ==
    \E n \in 0..Len(has) :
        /\ n > 0 \/ slow
        /\ held' = SubSeq(has, n + 1, Len(has))
        /\ Copy(SubSeq(has, 1, n))

\* Nothing read: FrReaderReadFrame fails, though not at the end.
ReadFails ==
    /\ Reading /\ ~eof
    /\ Again
    /\ UNCHANGED <<file, slow, pass, reading, writing, h, started, how>>

\* A packet that cannot be decoded is gone.
BadPacket ==
    /\ Reading /\ ~eof /\ CanRead /\ pos < Len(file)
    /\ pos' = pos + 1
    /\ Lose(Pics(Carried(pos + 1)))
    /\ Again
    /\ UNCHANGED <<file, slow, pass, eof, held, vDecFrame, remain, shown, writing, h, started, how>>

ReadPacket ==
    /\ Reading /\ ~eof /\ CanRead /\ pos < Len(file)
    /\ h.dec = "open"
    /\ pos' = pos + 1
    /\ Decode(held \o Carried(pos + 1))
    /\ UNCHANGED <<file, slow, pass, eof, writing, h, started>>

\* All packets are read: what is decoded is handed out, then the decoder is
\* asked for what it still holds.
AtEnd == Reading /\ (eof \/ (CanRead /\ pos = Len(file)))

\* mutant: the pictures that wait are forgotten
DrainNothing ==
    /\ AtEnd /\ remain # 0
    /\ eof' = TRUE
    /\ Break("end")
    /\ UNCHANGED <<file, slow, pass, pos, held, vDecFrame, remain, shown, lost, writing, h, started>>

Drain ==
    /\ AtEnd /\ remain # 0
    /\ eof' = TRUE
    /\ HandOut(vDecFrame)
    /\ UNCHANGED <<file, slow, pass, pos, held, lost, writing, h, started>>

\* mutant: an empty decoder is asked again and again
FlushAgain ==
    /\ AtEnd /\ remain = 0
    /\ eof' = TRUE
    /\ \/ h.dec = "open" /\ Decode(held)
       \/ held' = <<>> /\ Lose(Pics(held)) /\ Again /\ UNCHANGED <<vDecFrame, remain, shown, how>>
    /\ UNCHANGED <<file, slow, pass, pos, writing, h, started>>

Flush ==
    /\ AtEnd /\ remain = 0
    /\ eof' = TRUE
    /\ \/ h.dec = "open" /\ Decode(held)
       \/ held' = <<>> /\ Lose(Pics(held)) /\ Break("end") /\ UNCHANGED <<vDecFrame, remain, shown>>
    /\ UNCHANGED <<file, slow, pass, pos, writing, h, started>>

ReadFrame == ReadFails \/ BadPacket \/ ReadPacket \/ Drain \/ Flush

-----------------------------------------------------------------------------
\* WriteFrame.  Process does not look at its answer.

\* It needs the device memory, the encoder and the writer.
WriteFrame ==
    /\ pc = "write" /\ encFrame' \in BOOLEAN /\ (encFrame => encFrame')
    /\ \/ /\ encFrame' /\ h.enc = "open" /\ h.writer = "open"
          /\ written' = Append(written, [pic |-> shown[2][Len(shown[2])], cts |-> writeNum])
          /\ writeNum' = writeNum + 1
       \/ UNCHANGED <<written, writeNum>>
    /\ Goto("read")
    /\ UNCHANGED <<file, slow, pass, reading, h, started, retry_cnt, how>>

StrayWrite ==
    /\ pc = "write" /\ (h.enc = "stray" \/ (h.enc = "open" /\ h.writer = "stray"))
    /\ Goto("stray_handle")
    /\ UNCHANGED <<file, slow, pass, reading, writing, h, started, retry_cnt, how>>

-----------------------------------------------------------------------------
Next == \/ FirstOpen \/ ReadFrame \/ FirstClose \/ SecondOpen \/ OpenWriter
        \/ WriteFrame \/ Finish \/ StrayClose \/ StrayWrite

Spec == Init /\ [][Next]_vars

\* One thread runs Process; a reader that was started does not fail for ever.
FairSpec == Spec /\ WF_vars(Next)

-----------------------------------------------------------------------------
\* Properties.

Handle == Indeterminate \cup {"open"}
OpenOK ==
    /\ file \in Files /\ slow \in BOOLEAN /\ pass \in 1..2 /\ started \in BOOLEAN
    /\ pc \in {"open", "read", "close", "reopen", "open_writer", "write", "finish",
               "returned", "no_front", "stray_handle"}
    /\ h \in [reader : Handle, dec : Handle, conv : Handle, enc : Handle, writer : Handle]
    /\ retry_cnt \in 0..Waits
    /\ how \in [1..2 -> {"", "end", "memory"}]
    /\ result \in Failures \cup {Complete, Running}
ReadOK ==
    /\ pos \in 0..Len(file) /\ eof \in BOOLEAN /\ held \in Seq(Nat)
    /\ vDecFrame \in Seq(Nat) /\ remain \in Nat
    /\ shown \in [1..2 -> Seq(Nat)] /\ lost \in [1..2 -> SUBSET Nat]
WriteOK ==
    /\ encFrame \in BOOLEAN /\ writeNum \in Nat
    /\ written \in Seq([pic : Nat, cts : Nat])

\* Every variable keeps its type; in particular the waits of the first pass
\* stay below their limit until Process gives up.
TypeOK == OpenOK /\ ReadOK /\ WriteOK /\ (Reading => retry_cnt < Waits)

\* While a pass reads, every picture of the packets it has read is handed
\* out, waits in the queue, is inside the decoder, or was kept by an external
\* call: each in one of these places, and in the order of the video.  A pass
\* that reads to the end has handed out all that were not kept.
InHand == shown[pass] \o vDecFrame \o held
Rising(s) == \A j, k \in DOMAIN s : j < k => s[j] < s[k]
EveryPictureSomewhere ==
    /\ Reading => /\ Rising(InHand)
                  /\ Pics(InHand) \cup lost[pass] = 1..Upto(pos)
                  /\ Pics(InHand) \cap lost[pass] = {}
    /\ \A p \in 1..2 : how[p] = "end" => Pics(shown[p]) = 1..Total \ lost[p]

\* Where no external call kept one, picture n is the same in both passes:
\* the correction found for it is applied to it.
SameNumbers ==
    lost[1] = {} /\ lost[2] = {} =>
        \A n \in DOMAIN shown[1] \cap DOMAIN shown[2] : shown[1][n] = shown[2][n]

\* The front of an empty queue is taken only with a decoder that answers
\* without a picture, or when no picture of the second pass could be decoded
\* and _remain is still that of the first.
FrontIsThere ==
    pc = "no_front" => slow \/ (pass = 2 /\ shown[2] = <<>> /\ lost[2] = 1..Total)

\* Whatever WriteFrame fails at, the pictures in the file are in the order of
\* the video, and their times have no gap.
TimesWithoutGap ==
    \A j \in DOMAIN written : /\ written[j].cts = j - 1
                              /\ \A k \in 1..j - 1 : written[k].pic < written[j].pic

\* The second pass ends if its reader could be opened and started.
Ended == pc \in {"returned", "no_front", "stray_handle"}
SecondPassEnds == pass = 2 /\ Reading /\ CanRead ~> Ended

=============================================================================
