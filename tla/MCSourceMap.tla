---------------------------- MODULE MCSourceMap ----------------------------
(* Two files, one with a character of two bytes, and entries of every form. *)
EXTENDS SourceMap

MCSources == << <<TRUE, TRUE, TRUE>>, <<TRUE, TRUE, FALSE>> >>

V(v)  == <<v>>
Blank == <<>>

\* Empty; full ones, of both files, the last one as -1; without a depth; with
\* blank fields; a single field; two blank ones; no such file; a cut
\* character; a byte_offset, and a jump_type, that cannot be parsed.
MCEntries ==
    {<<>>,
     <<V(0), V(2), V(0), V(0), V(0)>>,
     <<V(1), V(1), V(0), V(1), V(2)>>,
     <<V(0), V(3), V(-1), V(2), V(1)>>,
     <<V(1), V(2), V(0), V(1)>>,
     <<Blank, V(1), Blank, V(0)>>,
     <<V(2), Blank, Blank, Blank, V(3)>>,
     <<V(0)>>,
     <<Blank, Blank>>,
     <<V(0), V(1), V(2), V(0), V(0)>>,
     <<V(0), V(2), V(1), V(0), V(0)>>,
     <<V(-1), V(1), V(0), V(0), V(0)>>,
     <<V(0), V(1), V(0), V(3), V(0)>>}
=============================================================================
