------------------------------ MODULE EdgeRelay ------------------------------
(***************************************************************************)
(* One stream through the edge relay (services/edge-relay/src/index.js):   *)
(* the WebSocket's frames, the promise queue whose tasks run one after the *)
(* other, and beside it serve, whose pump copies the answers of the target *)
(* and, if there were none, of the relay.  A frame is its number; a task   *)
(* or the pump runs from one await to the next.                            *)
(***************************************************************************)
EXTENDS Naturals, Sequences, SequencesExt

CONSTANTS MaxFrames, MaxAnswers       \* bounds

VARIABLES
    fallback,   \* RELAY is set and the stream is TCP
    valid,      \* the frames that parse as a request
    sent,       \* how many frames the client sent
    queue,      \* what is queued and not handled yet
    task,       \* what the task at hand awaits: "none", "dial" or a socket's write
    writer,     \* the socket later frames go to: "target", "relay" or "none"
    first,      \* the frame that opened the stream, 0 before
    got,        \* what was written to each socket
    over,       \* sockets whose far side refused, reset or finished
    pump,       \* the socket serve reads from, "none" before and after, or "redial"
    out,        \* what the client was sent: the head and answers
    open,       \* the WebSocket takes what is sent to it
    left        \* the client has closed it

vars == <<fallback, valid, sent, queue, task, writer, first, got, over, pump, out, open, left>>
queueing == <<sent, queue, task, left>>

Sockets == {"target", "relay"}
Close == 0      \* what the close listener queues

Init ==
    /\ fallback \in BOOLEAN /\ valid \in SUBSET (1..MaxFrames)
    /\ sent = 0 /\ queue = <<>> /\ task = "none" /\ writer = "none" /\ first = 0
    /\ got = [s \in Sockets |-> <<>>] /\ over = {}
    /\ pump = "none" /\ out = <<>> /\ open = TRUE /\ left = FALSE

-----------------------------------------------------------------------------
(* The listeners.  Frames still come after the relay has closed its side.    *)

Message ==
    /\ ~left /\ sent < MaxFrames
    /\ sent' = sent + 1
    /\ queue' = Append(queue, sent')
    /\ UNCHANGED <<fallback, valid, task, writer, first, got, over, pump, out, open, left>>

Leave ==
    /\ ~left
    /\ left' = TRUE /\ open' = FALSE
    /\ queue' = Append(queue, Close)
    /\ UNCHANGED <<fallback, valid, sent, task, writer, first, got, over, pump, out>>

-----------------------------------------------------------------------------
(* The queue *)

\* Mutant: only the destination changes.
DialSilently(s, frame) == writer' = s /\ UNCHANGED got
\* The socket becomes the destination of later frames, and what the client put after
\* its header is written to it at once.
Dial(s, frame) == writer' = s /\ got' = [got EXCEPT ![s] = Append(@, frame)]

Takes(frame) ==
    /\ task = "none" /\ queue # <<>>
    /\ frame = Head(queue) /\ queue' = Tail(queue)
    /\ UNCHANGED <<fallback, valid, sent, over, out, left>>

\* With no writer yet a frame opens the stream, whichever it is.
OpenStream ==
    \E frame \in valid :
        /\ Takes(frame) /\ writer = "none"
        /\ Dial("target", frame)
        /\ first' = frame /\ task' = "dial"
        /\ UNCHANGED <<pump, open>>

\* Mutant of Refuse: the WebSocket stays open.
RefuseSilently ==
    \E frame \in (1..MaxFrames) \ valid :
        /\ Takes(frame) /\ writer = "none"
        /\ UNCHANGED <<task, writer, first, got, pump, open>>

\* A header that does not parse ends the WebSocket; what is queued behind stays queued.
Refuse ==
    \E frame \in (1..MaxFrames) \ valid :
        /\ Takes(frame) /\ writer = "none"
        /\ open' = FALSE
        /\ UNCHANGED <<task, writer, first, got, pump>>

\* The write of the payload has settled, one way or the other.
Dialed ==
    /\ task = "dial"
    /\ task' = "none" /\ pump' = "target"
    /\ UNCHANGED <<fallback, valid, sent, queue, writer, first, got, over, out, open, left>>

\* A later frame goes to whatever the writer is by now.
Forward ==
    \E frame \in 1..MaxFrames :
        /\ Takes(frame) /\ writer # "none"
        /\ got' = [got EXCEPT ![writer] = Append(@, frame)]
        /\ task' = writer
        /\ UNCHANGED <<writer, first, pump, open>>

Written ==
    /\ task \in Sockets
    /\ task' = "none"
    /\ open' \in IF task \in over THEN {FALSE} ELSE {open}
    /\ UNCHANGED <<fallback, valid, sent, queue, writer, first, got, over, pump, out, left>>

\* writer?.close(): the far side sees the end of what it was sent.
CloseWriter ==
    /\ Takes(Close)
    /\ UNCHANGED <<task, writer, first, got, pump, open>>

-----------------------------------------------------------------------------
(* serve *)

SocketOver(s) ==
    /\ got[s] # <<>> /\ s \notin over
    /\ over' = over \cup {s}
    /\ UNCHANGED <<fallback, valid, writer, first, got, pump, out, open, queueing>>

\* The response header goes ahead of the first bytes; a WebSocket that is closed
\* refuses them and ends the pump, answered.
PumpCopies ==
    /\ pump \in Sockets /\ Len(out) <= MaxAnswers
    /\ IF open THEN /\ out' = out \o (IF out = <<>> THEN <<"head", pump>> ELSE <<pump>>)
                    /\ UNCHANGED pump
       ELSE pump' = "none" /\ UNCHANGED out
    /\ UNCHANGED <<fallback, valid, writer, first, got, over, open, queueing>>

Ended(again) ==
    /\ pump \in over
    /\ IF again THEN Dial("relay", first) /\ pump' = "redial" /\ UNCHANGED open
       ELSE pump' = "none" /\ open' = FALSE /\ UNCHANGED <<writer, got>>
    /\ UNCHANGED <<fallback, valid, first, over, out, queueing>>

\* Mutant: a stream that was answered is tried again as well.
PumpEndsRetrying == Ended(pump = "target" /\ fallback)

\* Nothing came back at all, so once more through the relay.
PumpEnds == Ended(pump = "target" /\ fallback /\ out = <<>>)

Redialed ==
    /\ pump = "redial"
    /\ pump' = "relay"
    /\ UNCHANGED <<fallback, valid, writer, first, got, over, out, open, queueing>>

Next ==
    \/ Message \/ Leave
    \/ OpenStream \/ Refuse \/ Dialed \/ Forward \/ Written \/ CloseWriter
    \/ PumpCopies \/ PumpEnds \/ Redialed
    \/ \E s \in Sockets : SocketOver(s)
Spec == Init /\ [][Next]_vars

-----------------------------------------------------------------------------
\* The client hears one head and then one far side only, as a stream that was answered
\* is never tried again (serve), and only if its very first frame was a request: one
\* queued behind a refused frame is dialed but never answered.
OneVoice ==
    out # <<>> => /\ first = 1 /\ out[1] = "head"
                  /\ \A i \in 2..Len(out) : out[i] = out[2] /\ out[i] \in Sockets

\* The frame that opens the stream leads on both sockets and "nothing may overtake it"
\* (relay): every later frame that was handled went to one of them, once and in order,
\* although frames arrive while a dial or a write is awaited and serve changes the
\* writer beside the queue.
Later(s) == Tail(got[s])
NothingOvertakes ==
    LET pending == {queue[i] : i \in DOMAIN queue} \ {Close}
        handled == {f \in first + 1..sent : f \notin pending} IN
    /\ \A s \in Sockets : got[s] # <<>> => /\ got[s][1] = first
                                           /\ \A i, j \in DOMAIN Later(s) : i < j => Later(s)[i] < Later(s)[j]
    /\ first # 0 => handled = UNION {ToSet(Later(s)) : s \in {x \in Sockets : got[x] # <<>>}}
    /\ got["target"] # <<>> /\ got["relay"] # <<>> =>
           ToSet(Later("target")) \cap ToSet(Later("relay")) = {}
=============================================================================
