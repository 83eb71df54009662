---------------------------- MODULE BufferLoops ----------------------------
(***************************************************************************)
(* The functions that take a stream through a buffer: CppCompress, and the *)
(* reading loops of CppFile::CopyFile, CppCrypto::Md5File and              *)
(* CppSystem::ExcuteCommand.                                               *)
(*                                                                         *)
(* A compressed stream is the data followed by End: deflate and inflate    *)
(* give what fits into the buffer.  A stream may be cut short, or Bad at   *)
(* some place.                                                             *)
(*                                                                         *)
(* A name that ends in _Faulty is a plausible bug in the definition that   *)
(* follows it, on which the properties are tried.                          *)
(***************************************************************************)
EXTENDS Integers, Sequences

CONSTANTS
  Chunk,       \* the size of the buffer
  End, Bad     \* what is in a stream beside the data

Least(m, n) == IF m <= n THEN m ELSE n

-----------------------------------------------------------------------------
(* CppCompress *)

\* The data in a stream, up to its end, its first bad place or where it is cut.
Plain(stream) ==
  LET stop == {i \in DOMAIN stream : stream[i] \in {End, Bad}}
  IN  IF stop = {} THEN stream
      ELSE SubSeq(stream, 1, (CHOOSE i \in stop : \A j \in stop : i <= j) - 1)

\* What stops inflate behind n data: nothing yet, when the buffer is full and more
\* data follow.
Inflated(stream, n) ==
  CASE n < Len(Plain(stream)) -> "Z_OK"
    [] n = Len(Plain(stream)) /\ n = Len(stream) -> "Z_BUF_ERROR"
    [] OTHER -> IF stream[n + 1] = End THEN "Z_STREAM_END" ELSE "Z_DATA_ERROR"

\* The loop ends when the input is used up, which the first call may have done.
More_Faulty(avail_out) == FALSE

\* Whether the loop goes on: the buffer was filled.
More(avail_out) == avail_out = 0

\* What the calls of inflate append to data, and whether the loop has ended.
GzipUncompress(stream) ==
  LET plain == Plain(stream)
      rounds == Len(plain) \div Chunk + 1
      loop[i \in 0 .. rounds] ==
        IF i = 0 THEN [data |-> <<>>, ok |-> TRUE, ended |-> FALSE]
        ELSE LET before == loop[i - 1]
                 have == Least(Chunk, Len(plain) - Len(before.data))
                 taken == Len(before.data) + have
             IN  CASE before.ended -> before
                   [] ~before.ended /\ Inflated(stream, taken) = "Z_DATA_ERROR" ->
                        [before EXCEPT !.ok = FALSE, !.ended = TRUE]
                   [] OTHER -> [data |-> SubSeq(plain, 1, taken), ok |-> TRUE,
                                ended |-> ~More(Chunk - have)]
  IN  loop[rounds]

\* deflate with Z_FINISH gives the stream a buffer at a time.
GzipCompress(data) ==
  LET stream == Append(data, End)
      rounds == Len(stream) \div Chunk + 1
      loop[i \in 0 .. rounds] ==
        IF i = 0 THEN [data |-> <<>>, ended |-> FALSE]
        ELSE LET before == loop[i - 1]
                 have == Least(Chunk, Len(stream) - Len(before.data))
                 taken == Len(before.data) + have
             IN  IF before.ended THEN before
                 ELSE [data |-> SubSeq(stream, 1, taken),
                       ended |-> ~More(Chunk - have)]
  IN  loop[rounds]

-----------------------------------------------------------------------------
(* The reading loops: the end of the file is seen by the read that comes up *)
(* short, the last one of a file whose size is a multiple of the buffer's   *)
(* being of nothing.                                                        *)

\* What a loop takes over from a file.
ReadLoop(content) ==
  LET rounds == Len(content) \div Chunk + 1
      loop[i \in 0 .. rounds] ==
        IF i = 0 THEN [taken |-> <<>>, eof |-> FALSE]
        ELSE LET before == loop[i - 1]
                 gcount == Least(Chunk, Len(content) - Len(before.taken))
             IN  IF before.eof THEN before
                 ELSE [taken |-> SubSeq(content, 1, Len(before.taken) + gcount),
                       eof |-> gcount < Chunk]
  IN  loop[rounds]

Md5File(content) == ReadLoop(content).taken

ExcuteCommand(output) == ReadLoop(output).taken

\* files: name -> content.  The target is opened, and with that emptied, before the
\* source is read; they may be the same file.
CopyFile(files, src, dst) ==
  LET opened == [files EXCEPT ![dst] = <<>>]
  IN  [files EXCEPT ![dst] = ReadLoop(opened[src]).taken]

-----------------------------------------------------------------------------
(* Properties *)

\* What was compressed is uncompressed whole, also when the data or the stream fill the
\* last buffer (CppCompress.cpp:58, :92).
RoundTrips(data) ==
  LET compressed == GzipCompress(data)
      result == GzipUncompress(compressed.data)
  IN  /\ compressed.ended /\ result.ended
      /\ result.ok /\ result.data = data

\* A stream that is bad at some place is refused, in whichever buffer that is, and no
\* more than a beginning of the data comes out.
DamageShows(data, n) ==
  LET bad == GzipUncompress(SubSeq(data, 1, n) \o <<Bad>>)
  IN  /\ bad.ended /\ ~bad.ok
      /\ bad.data = SubSeq(data, 1, Len(bad.data))

\* A reading loop takes over the file and ends, whatever its size; and CopyFile makes
\* a copy of another file.
ReadsWhole(content, other) ==
  /\ ReadLoop(content).eof
  /\ Md5File(content) = content /\ ExcuteCommand(content) = content
  /\ CopyFile([f |-> content, g |-> other], "f", "g") = [f |-> content, g |-> content]
=============================================================================
