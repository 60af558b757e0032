----------------------------- MODULE ChatStream -----------------------------
(***************************************************************************)
(* The reader of a streamed chat (packages/spectron/src/streaming.ts).  The *)
(* server sends frames of lines, each frame closed by a blank line; the     *)
(* network cuts the body anywhere, also between the two characters of a     *)
(* line end.  The application pulls chunks: bytes are read only while the   *)
(* buffer holds no complete frame.                                          *)
(***************************************************************************)
EXTENDS Naturals, Sequences

CONSTANTS
    MaxFrames,                  \* bounds the frames of a body
    Delta, Keep, Last, Sentinel \* lines: data, a comment, data with `done`, data `[DONE]`

CR == "cr"
LF == "lf"

VARIABLES
    frames,   \* the frames the server sends, each a sequence of lines
    closed,   \* the last frame is followed by its blank line
    rest,     \* the characters and lines not yet read from the network
    buffer,   \* those read and not yet taken
    out,      \* the chunks the application got
    at        \* "reading", "ended" (the body is over) or "returned"

vars == <<frames, closed, rest, buffer, out, at>>

Frames == {<<Delta>>, <<Delta, Delta>>, <<Keep>>, <<Keep, Delta>>, <<Last>>, <<Sentinel>>}

\* The text of a frame: its lines, each with its end.
Text(f, eol) == <<f[1]>> \o eol \o (IF Len(f) = 1 THEN <<>> ELSE <<f[2]>> \o eol)

\* The text of the last i frames, with line ends of one kind throughout.
Left(fs, eol, whole) ==
    LET left[i \in 0..Len(fs)] ==
            IF i = 0 THEN <<>>
            ELSE (Text(fs[Len(fs) + 1 - i], eol) \o (IF i = 1 /\ ~whole THEN <<>> ELSE eol))
                    \o left[i - 1]
    IN left

\* The body on the wire.
Wire(fs, eol, whole) == Left(fs, eol, whole)[Len(fs)]

Init ==
    /\ \E n \in 1..MaxFrames : frames \in [1..n -> Frames]
    /\ closed \in BOOLEAN
    /\ \E eol \in {<<LF>>, <<CR, LF>>} : rest = Wire(frames, eol, closed)
    /\ buffer = <<>>
    /\ out = <<>>
    /\ at = "reading"

-----------------------------------------------------------------------------
StartsWith(s, i, p) == i + Len(p) - 1 <= Len(s) /\ SubSeq(s, i, i + Len(p) - 1) = p

\* The expression \r?\n\r?\n.
Blank == {<<LF, LF>>, <<LF, CR, LF>>, <<CR, LF, LF>>, <<CR, LF, CR, LF>>}

Separates(s, i) == \E p \in Blank : StartsWith(s, i, p)

HasFrame == \E i \in 1..Len(buffer) : Separates(buffer, i)

Sep == CHOOSE i \in 1..Len(buffer) : /\ Separates(buffer, i)
                                     /\ \A j \in 1..(i - 1) : ~Separates(buffer, j)

Skip(i) == IF buffer[i] = CR THEN 4 ELSE 2

\* A faulty variant: what was read before is forgotten.
Overwrites(n) == SubSeq(rest, 1, n)

Appends(n) == buffer \o SubSeq(rest, 1, n)

IsData(line) == line \notin {CR, LF, Keep}
Data(raw) ==
    LET kept[i \in 0..Len(raw)] == IF i = 0 THEN <<>>
                                   ELSE IF IsData(raw[i]) THEN Append(kept[i - 1], raw[i])
                                   ELSE kept[i - 1]
    IN kept[Len(raw)]
IsDone(data) == data \in {<<Sentinel>>, <<Last>>}

\* One read of the body.
ReadSome ==
    /\ at = "reading" /\ ~HasFrame /\ rest # <<>>
    /\ \E n \in 1..Len(rest) :
        /\ buffer' = Appends(n)
        /\ rest' = SubSeq(rest, n + 1, Len(rest))
    /\ UNCHANGED <<frames, closed, out, at>>

\* The next complete frame: a comment yields nothing, the terminal frame ends it.
TakeFrame ==
    /\ at = "reading" /\ HasFrame
    /\ LET data == Data(SubSeq(buffer, 1, Sep - 1)) IN
       /\ buffer' = SubSeq(buffer, Sep + Skip(Sep), Len(buffer))
       /\ out' = IF data = <<>> THEN out ELSE Append(out, data)
       /\ at' = IF IsDone(data) THEN "ended" ELSE at
    /\ UNCHANGED <<frames, closed, rest>>

\* The body is over: a frame without its blank line is dropped.
EndBody ==
    /\ at = "reading" /\ ~HasFrame /\ rest = <<>>
    /\ at' = "ended"
    /\ UNCHANGED <<frames, closed, rest, buffer, out>>

\* The application leaves the loop; the reader's lock is released.
Return ==
    /\ at = "reading"
    /\ at' = "returned"
    /\ UNCHANGED <<frames, closed, rest, buffer, out>>

Next == ReadSome \/ TakeFrame \/ EndBody \/ Return

Spec == Init /\ [][Next]_vars

-----------------------------------------------------------------------------
Closed(fs, whole) == IF whole THEN Len(fs) ELSE Len(fs) - 1

\* The data of the last i closed frames, up to the terminal one.
From(fs, whole) ==
    LET n == Closed(fs, whole)
        from[i \in 0..n] ==
            IF i = 0 THEN <<>>
            ELSE IF Data(fs[n + 1 - i]) = <<>> THEN from[i - 1]
            ELSE IF IsDone(Data(fs[n + 1 - i])) THEN <<Data(fs[n + 1 - i])>>
            ELSE <<Data(fs[n + 1 - i])>> \o from[i - 1]
    IN from

\* What the server said.
Said == From(frames, closed)[Closed(frames, closed)]

\* However the network cuts the body, the application gets the server's
\* chunks, in order, each once, and all of them when it reads to the end
\* (streaming.ts:53): frames are put together across reads.
ChunksAsSaid ==
    /\ Len(out) <= Len(Said) /\ out = SubSeq(Said, 1, Len(out))
    /\ at = "ended" => out = Said
=============================================================================
