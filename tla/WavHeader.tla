----------------------------- MODULE WavHeader -----------------------------
(***************************************************************************)
(* wav_read_header of utils.c: the worker thread walks the chunks at the   *)
(* front of the WAV data that Piper writes to a pipe, as its bytes arrive. *)
(* A read may return fewer bytes than asked for, and the stream may end    *)
(* anywhere.                                                               *)
(*                                                                         *)
(* A file is its RIFF header, right or wrong, and its chunks, each with a  *)
(* name and a size; a chunk of odd size is padded.  The fields of a fmt    *)
(* chunk are its number.                                                   *)
(***************************************************************************)
EXTENDS Integers, Sequences

CONSTANTS
  Chunks,     \* what a file may be made of: [id : {"fmt ", "data", "LIST"}, size : Nat]
  MaxChunks

ASSUME ChunksAssumption == Chunks \subseteq [id : {"fmt ", "data", "LIST"}, size : Nat]
ASSUME MaxChunksAssumption == MaxChunks \in Nat

RiffLen == 12   \* "RIFF", a size, "WAVE"
HeadLen == 8    \* a chunk's name and size
FmtLen  == 16   \* what is used of a fmt chunk

VARIABLES
  riff, wav,   \* the header is right; the chunks
  pos,         \* bytes read from the pipe
  need,        \* bytes the current read_exact or skip_bytes still wants
  doing,       \* what it reads: "riff", "chunk", "fmt", "skip" or "pad",
               \*   and in the end "accepted" or "refused"
  cur,         \* the chunk whose header was read last, 0 for none
  fmt,         \* the fmt chunk info was filled from, 0 for none
  gotFmt,      \* got_fmt
  ended        \* the stream ended, or a read failed

wavVars == <<riff, wav, pos, need, doing, cur, fmt, gotFmt, ended>>

\* Where chunk k begins; the last value is the end of the file.
Pad(size) == size % 2
Start(k) ==
  LET at[j \in 1 .. Len(wav) + 1] ==
        IF j = 1 THEN RiffLen
        ELSE at[j - 1] + HeadLen + wav[j - 1].size + Pad(wav[j - 1].size)
  IN at[k]

WavInit ==
  /\ riff \in BOOLEAN
  /\ wav \in UNION {[1 .. n -> Chunks] : n \in 0 .. MaxChunks}
  /\ pos = 0 /\ need = RiffLen /\ doing = "riff"
  /\ cur = 0 /\ fmt = 0 /\ gotFmt = FALSE /\ ended = FALSE

Reading == doing \notin {"accepted", "refused"}

\* One read of read_exact: at least one byte, at most what is wanted.
Read ==
  /\ Reading
  /\ \E n \in 1 .. need :
       /\ pos + n <= Start(Len(wav) + 1)
       /\ pos' = pos + n
       /\ need' = need - n
  /\ UNCHANGED <<riff, wav, doing, cur, fmt, gotFmt, ended>>

\* Piper closes the pipe, or read fails with another error than EINTR.
EndOfStream ==
  /\ Reading /\ need > 0
  /\ ended' = TRUE
  /\ doing' = "refused"
  /\ UNCHANGED <<riff, wav, pos, need, cur, fmt, gotFmt>>

Then(what, bytes) == doing' = what /\ need' = bytes

\* The loop test: on to the next chunk header.
NextChunk == Then("chunk", HeadLen)

\* Mutant: chunks are not padded.
PadNot(size) == NextChunk

SkipPad(size) == IF Pad(size) = 1 THEN Then("pad", 1) ELSE NextChunk

\* Everything a step wanted has been read.
RiffRead ==
  /\ doing = "riff" /\ need = 0
  /\ IF riff THEN NextChunk ELSE Then("refused", 0)
  /\ UNCHANGED <<riff, wav, pos, cur, fmt, gotFmt, ended>>

\* The chunk whose header ends at p: 0 if there is none, and what was read is
\* taken for the header of an empty chunk.
ChunkBefore(p) ==
  IF \E k \in DOMAIN wav : Start(k) + HeadLen = p
  THEN CHOOSE k \in DOMAIN wav : Start(k) + HeadLen = p ELSE 0

\* Mutant: the walk ends at the audio, with a format or without.
DataFoundAlways == Then("accepted", 0)

\* got_data ends the loop, and got_fmt is returned.
DataFound == Then(IF gotFmt THEN "accepted" ELSE "refused", 0)

TooShort(size) == size < FmtLen

ChunkRead ==
  /\ doing = "chunk" /\ need = 0
  /\ cur' = ChunkBefore(pos)
  /\ IF cur' = 0 THEN Then("skip", 0)
     ELSE LET c == wav[cur']
          IN \/ c.id = "fmt " /\ TooShort(c.size) /\ Then("refused", 0)
             \/ c.id = "fmt " /\ ~TooShort(c.size) /\ Then("fmt", FmtLen)
             \/ c.id = "data" /\ DataFound
             \/ c.id = "LIST" /\ Then("skip", c.size)
  /\ UNCHANGED <<riff, wav, pos, fmt, gotFmt, ended>>

FmtRead ==
  /\ doing = "fmt" /\ need = 0
  /\ fmt' = cur /\ gotFmt' = TRUE
  /\ Then("skip", wav[cur].size - FmtLen)
  /\ UNCHANGED <<riff, wav, pos, cur, ended>>

Skipped ==
  /\ doing = "skip" /\ need = 0
  /\ IF cur = 0 THEN NextChunk ELSE SkipPad(wav[cur].size)
  /\ UNCHANGED <<riff, wav, pos, cur, fmt, gotFmt, ended>>

PadSkipped ==
  /\ doing = "pad" /\ need = 0
  /\ NextChunk
  /\ UNCHANGED <<riff, wav, pos, cur, fmt, gotFmt, ended>>

WavNext ==
  \/ Read \/ EndOfStream
  \/ RiffRead \/ ChunkRead \/ FmtRead \/ Skipped \/ PadSkipped

WavSpec == WavInit /\ [][WavNext]_wavVars

-----------------------------------------------------------------------------
(* Properties.                                                             *)

\* What RIFF says of a file: its audio, and the format that holds for it.
DataAt(k)   == wav[k].id = "data" /\ \A j \in 1 .. k - 1 : wav[j].id # "data"
FormatOf(k) ==
  {j \in 1 .. k - 1 : wav[j].id = "fmt " /\ \A i \in j + 1 .. k - 1 : wav[i].id # "fmt "}
Playable ==
  /\ riff
  /\ \E k \in DOMAIN wav :
       /\ DataAt(k) /\ FormatOf(k) # {}
       /\ \A j \in 1 .. k - 1 : wav[j].id = "fmt " => wav[j].size >= FmtLen

\* An accepted header leaves the pipe at the first byte of audio, with the
\* format that stands before it: not one byte of a header is played, none of
\* the audio is skipped.
AcceptedAtAudio ==
  doing = "accepted" =>
    \E k \in DOMAIN wav :
      /\ DataAt(k) /\ fmt \in FormatOf(k)
      /\ pos = Start(k) + HeadLen

\* However the bytes of it arrive, a playable file is refused only if its
\* stream ended before the audio; and none of the audio is read by then.
RefusedForCause ==
  doing = "refused" /\ Playable =>
    ended /\ \E k \in DOMAIN wav : DataAt(k) /\ pos < Start(k) + HeadLen
=============================================================================
