------------------------------ MODULE RecorderDisk ------------------------------
(***************************************************************************)
(* crates/listener-core/src/actors/recorder: the files one session's       *)
(* recording goes through.  The recorder appends to audio.wav; when it     *)
(* stops it encodes the WAV into audio.mp3 and removes the WAV; when it is *)
(* started again it decodes what it finds back into a WAV.                 *)
(*                                                                         *)
(* Every file operation is a step of its own, and the process may be       *)
(* killed, or the operation fail, in the middle of each.  What a file      *)
(* holds is the number of pieces of audio in it; Absent is no file.        *)
(*                                                                         *)
(* The specification's own names start with Disk, so that a module can     *)
(* extend this one and the supervisor's.                                   *)
(***************************************************************************)
EXTENDS Integers

CONSTANTS OldPieces,  \* bound: audio a session may have from earlier runs
          MaxPieces,  \* bound: no piece is recorded beyond this many
          TornEncode  \* whether writing the MP3 may be cut short

ASSUME PiecesAssumption == OldPieces \in Nat /\ MaxPieces \in Nat
ASSUME TornAssumption == TornEncode \in BOOLEAN

VARIABLES file,     \* what each file holds
          pc,       \* the file operation the recorder is about to do
          buffered, \* pieces in the writer, not yet flushed
          taped     \* pieces ever recorded and flushed

diskVars == <<file, pc, buffered, taped>>

Files  == {"mp3", "ogg", "wav", "tmp"}
Absent == -1
Exists(f) == file[f] # Absent

\* create_disk_sink; "down" and "closed" are the states without a recorder.
Opening == {"drop_tmp", "decode_mp3", "drop_wav", "rename_tmp", "remove_mp3",
            "decode_ogg", "remove_ogg", "open_wav"}
Closing == {"encode", "remove_wav"}
PCs == {"down", "closed", "record"} \cup Opening \cup Closing

\* The file the next start of a recorder takes its audio from.
NextSource == IF Exists("mp3") THEN "mp3"
              ELSE IF Exists("ogg") THEN "ogg" ELSE "wav"

\* resolve_final_audio_path
FinalAudio == IF Exists("mp3") THEN "mp3"
              ELSE IF Exists("wav") THEN "wav" ELSE "ogg"

Pieces(f) == IF Exists(f) THEN file[f] ELSE 0

-------------------------------------------------------------------------------
\* A new session, or one that an earlier run recorded in some format.
DiskInit ==
  /\ pc = "down" /\ buffered = 0
  /\ \/ taped = 0 /\ file = [f \in Files |-> Absent]
     \/ \E n \in 1..OldPieces, old \in {"mp3", "ogg", "wav"} :
          /\ taped = n
          /\ file = [[f \in Files |-> Absent] EXCEPT ![old] = n]

\* One file operation of the recorder, from one pc to the next.
Step(from, to, f) ==
  /\ pc = from /\ pc' = to
  /\ file' = f
  /\ UNCHANGED <<buffered, taped>>

\* The first operation, by prepare_existing_audio_state.
FirstOperation ==
  IF Exists("mp3") THEN "drop_tmp"
  ELSE IF Exists("ogg") THEN "decode_ogg" ELSE "open_wav"

\* RecorderActor::pre_start
Open == pc \in {"down", "closed"} /\ Step(pc, FirstOperation, file)

(* decode_mp3_to_wav, and the removal of the MP3 *)
DropTmp == Step("drop_tmp", "decode_mp3", [file EXCEPT !["tmp"] = Absent])

\* Mutant: the MP3 is removed before its audio has replaced the WAV.
DecodeAndRemove ==
  Step("decode_mp3", "drop_wav",
       [file EXCEPT !["tmp"] = file["mp3"], !["mp3"] = Absent])

DecodeMp3 ==
  Step("decode_mp3", "drop_wav", [file EXCEPT !["tmp"] = file["mp3"]])

DropWav == Step("drop_wav", "rename_tmp", [file EXCEPT !["wav"] = Absent])

RenameTmp ==
  Step("rename_tmp", "remove_mp3",
       [file EXCEPT !["wav"] = file["tmp"], !["tmp"] = Absent])

RemoveMp3 == Step("remove_mp3", "open_wav", [file EXCEPT !["mp3"] = Absent])

DecodeOgg ==
  Step("decode_ogg", "remove_ogg", [file EXCEPT !["wav"] = file["ogg"]])

RemoveOgg == Step("remove_ogg", "open_wav", [file EXCEPT !["ogg"] = Absent])

\* WavWriter::append or create
OpenWav == Step("open_wav", "record", [file EXCEPT !["wav"] = Pieces("wav")])

\* write_single and write_dual
Write ==
  /\ pc = "record" /\ taped + buffered < MaxPieces
  /\ buffered' = buffered + 1
  /\ UNCHANGED <<file, pc, taped>>

\* The writer puts n buffered pieces into the WAV and leaves for to.
Save(n, to) ==
  /\ pc = "record" /\ pc' = to
  /\ file' = [file EXCEPT !["wav"] = @ + n]
  /\ taped' = taped + n
  /\ buffered' = 0

\* flush_if_due
Flush == buffered > 0 /\ Save(buffered, "record")

\* finalize_writer, at the start of finalize_disk_sink
StopRecorder == Save(buffered, "encode")

\* A failed write, or the end of the process: the writer may or may not save.
RecordingEnds == \E n \in {0, buffered} : Save(n, "down")

(* The rest of finalize_disk_sink *)
Encode == Step("encode", "remove_wav", [file EXCEPT !["mp3"] = file["wav"]])

\* What an operation that is cut short may leave on disk.
PartOf(f, g) == {[file EXCEPT ![f] = n] : n \in 0..Pieces(g)}

Leftovers ==
  {file} \cup CASE pc = "decode_mp3" -> PartOf("tmp", "mp3")
                [] pc = "decode_ogg" -> PartOf("wav", "ogg")
                [] pc = "encode" /\ TornEncode -> PartOf("mp3", "wav")
                [] OTHER -> {}

\* Mutant: the WAV goes whether or not the encoding succeeded.
EncodeFailsDropsWav ==
  \E f \in Leftovers :
    Step("encode", "closed", [f EXCEPT !["wav"] = Absent])

\* "Encoding to mp3 failed, keeping WAV"
EncodeFails == \E f \in Leftovers : Step("encode", "closed", f)

RemoveWav == Step("remove_wav", "closed", [file EXCEPT !["wav"] = Absent])

\* The process is killed, or an operation fails and the recorder with it.
Interrupted ==
  /\ pc \in Opening \cup Closing
  /\ \E f \in Leftovers : Step(pc, "down", f)

OpenNext ==
  \/ Open \/ DropTmp \/ DecodeMp3 \/ DropWav \/ RenameTmp \/ RemoveMp3
  \/ DecodeOgg \/ RemoveOgg \/ OpenWav

CloseNext == StopRecorder \/ Encode \/ EncodeFails \/ RemoveWav

DiskNext ==
  \/ OpenNext
  \/ Write \/ Flush
  \/ CloseNext
  \/ RecordingEnds \/ Interrupted

DiskSpec == DiskInit /\ [][DiskNext]_diskVars

-------------------------------------------------------------------------------
DiskTypeOK ==
  /\ file \in [Files -> Nat \cup {Absent}]
  /\ pc \in PCs
  /\ buffered \in Nat /\ taped \in Nat

\* Whenever the process dies, the next start of a recorder goes on from exactly
\* the audio that was ever flushed: nothing is lost and nothing is repeated.
NothingLost == Pieces(NextSource) = taped

\* A WAV that holds all of the recording is only removed once another file
\* holds all of it, so the WAV kept after a failed encoding is safe.
WholeWavKept ==
  [][file["wav"] = taped /\ taped > 0 /\ file'["wav"] = Absent
       => \E f \in Files : file'[f] = taped]_diskVars

\* The audio a finished session is announced with is all of its recording.
FinalAudioComplete == pc = "closed" => Pieces(FinalAudio) = taped
===============================================================================
