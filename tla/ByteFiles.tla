------------------------------ MODULE ByteFiles ------------------------------
(***************************************************************************)
(* What open files promise: a file is a sequence of bytes, a handle has a  *)
(* cursor in it, a read delivers the bytes from the cursor on and a write  *)
(* lays its bytes over them, as many as the file has or the device takes.  *)
(* There are no blocks, no inodes and no private copies here.  A call may  *)
(* take several steps; once `broken` nothing is promised any more.         *)
(***************************************************************************)
EXTENDS Naturals, Sequences, FiniteSetsExt, SequencesExt

CONSTANTS Files, Handles, NoFile

VARIABLES
    content,        \* the bytes of each file, NoFile if it does not exist
    cursor,         \* per handle: file and position; file NoFile when closed
    call,           \* the call being served
    broken

vars == <<content, cursor, call, broken>>

Closed  == [file |-> NoFile, pos |-> 0]
Idle    == [op |-> "none", h |-> 0, want |-> 0, rest |-> << >>, got |-> << >>]
IsOpen(h)  == cursor[h].file # NoFile
Bytes(h)   == content[cursor[h].file]

\* `piece` laid over s from position pos on.
Overlay(s, pos, piece) ==
    SubSeq(s, 1, pos) \o piece \o SubSeq(s, pos + Len(piece) + 1, Len(s))

Init ==
    /\ content = [f \in Files |-> NoFile]
    /\ cursor = [h \in Handles |-> Closed]
    /\ call = Idle
    /\ broken = FALSE

Open(h, f) ==
    /\ call.op = "none" /\ ~IsOpen(h)
    /\ content' = [content EXCEPT ![f] = IF @ = NoFile THEN << >> ELSE @]
    /\ cursor' = [cursor EXCEPT ![h] = [file |-> f, pos |-> 0]]
    /\ UNCHANGED call

Close(h) ==
    /\ call.op = "none"
    /\ cursor' = [cursor EXCEPT ![h] = Closed]
    /\ call'.op = "none"
    /\ UNCHANGED content

Seek(h, pos) ==
    /\ call.op = "none" /\ IsOpen(h)
    /\ pos <= Len(Bytes(h))
    /\ cursor' = [cursor EXCEPT ![h].pos = pos]
    /\ UNCHANGED <<content, call>>

Truncate(h, size) ==
    /\ call.op = "none" /\ IsOpen(h)
    /\ size < Len(Bytes(h))
    /\ content' = [content EXCEPT ![cursor[h].file] = SubSeq(@, 1, size)]
    /\ UNCHANGED <<cursor, call>>

\* A read ends with as many bytes as were asked for, or all there are.
BeginRead(h) ==
    /\ call.op = "none" /\ IsOpen(h)
    /\ call'.op = "read" /\ call'.h = h /\ call'.got = << >>
    /\ LET pos == cursor[h].pos
           end == Min({pos + call'.want, Len(Bytes(h))})
       IN  call'.rest = SubSeq(Bytes(h), pos + 1, end)
    /\ UNCHANGED <<content, cursor>>

ReadSome ==
    /\ call.op = "read"
    /\ \E n \in 1 .. Len(call.rest) :
          /\ call' = [call EXCEPT !.rest = SubSeq(@, n + 1, Len(@)),
                                  !.got = @ \o SubSeq(call.rest, 1, n)]
          /\ cursor' = [cursor EXCEPT ![call.h].pos = @ + n]
    /\ UNCHANGED content

BeginWrite(h) ==
    /\ call.op = "none" /\ IsOpen(h)
    /\ call'.op = "write" /\ call'.h = h /\ call'.got = << >>
    /\ UNCHANGED <<content, cursor>>

WriteSome ==
    /\ call.op = "write"
    /\ \E n \in 1 .. Len(call.rest) :
          /\ content' = [content EXCEPT ![cursor[call.h].file] =
                             Overlay(@, cursor[call.h].pos, SubSeq(call.rest, 1, n))]
          /\ call' = [call EXCEPT !.rest = SubSeq(@, n + 1, Len(@))]
          /\ cursor' = [cursor EXCEPT ![call.h].pos = @ + n]

\* A write may be refused at any point, and leaves what it wrote.
Return ==
    /\ call.op = "read" => call.rest = << >>
    /\ call'.op = "none"
    /\ UNCHANGED <<content, cursor>>

Restart ==
    /\ call.op = "none"
    /\ cursor' = [h \in Handles |-> Closed]
    /\ call' = Idle
    /\ UNCHANGED content

Step ==
    \/ \E h \in Handles, f \in Files : Open(h, f)
    \/ \E h \in Handles :
          \/ Close(h) \/ BeginRead(h) \/ BeginWrite(h)
          \/ IsOpen(h) /\ \E n \in 0 .. Len(Bytes(h)) : Seek(h, n) \/ Truncate(h, n)
    \/ ReadSome \/ WriteSome \/ Return \/ Restart

Next == (~broken /\ Step /\ UNCHANGED broken) \/ broken'

Spec == Init /\ [][Next]_vars
=============================================================================
