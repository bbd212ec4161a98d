------------------------------ MODULE MCParser ------------------------------
(***************************************************************************)
(* Frames of three and four bytes, one whose command nobody registered and *)
(* one that is longer than any registered packet.  What arrives are        *)
(* fragments of a few streams, in any order: frames cut short, spliced,    *)
(* repeated and mixed with noise.                                          *)
(***************************************************************************)
EXTENDS Parser, SequencesExt

CONSTANTS short, long, unknown, oversize, MaxFragment

AllFrames == {short, long, unknown, oversize}
Payloads == (short :> 0) @@ (long :> 1) @@ (unknown :> 0) @@ (oversize :> 3)
Known == {short, long}

Plain == <<NoFrame, 0>>
FalseStart == <<NoFrame, 1>>
AllNoise == {Plain, FalseStart}

\* One byte in the middle of the long frame equals the start byte as well.
Starts == {<<f, 1>> : f \in AllFrames} \cup {FalseStart, <<long, 3>>}

Streams == {Wire(short) \o Wire(long), <<FalseStart>> \o Wire(unknown),
            Wire(oversize), <<Plain, Plain, Plain, Plain, Plain, Plain, Plain, Plain>>}

Fragments ==
    UNION {{SubSeq(s, i, j) : i \in 1 .. Len(s), j \in 1 .. Len(s)} : s \in Streams}
SomeChunks == {c \in Fragments : Len(c) \in 1 .. MaxFragment}
=============================================================================
